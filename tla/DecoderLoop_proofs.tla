------------------------- MODULE DecoderLoop_proofs -------------------------
(***************************************************************************)
(* The decoder loop, for any number of pictures, slices, EOS NAL units and *)
(* dropped pictures, and any limits of the picture buffer.  The invariant is *)
(* built in layers, each proved over the ones before it.                   *)
(*                                                                         *)
(* TypeInv.  The types, and that no two pictures of the list have one id:  *)
(* only then are the rows that are written a sequence.                     *)
(*                                                                         *)
(* RefsInv, under RefsPresent.  When the list is emptied, which the flags of *)
(* the EOS NAL unit decide two passes later (EosKnown); that the decoder   *)
(* skips exactly the pictures that have no reference pictures (AccessKnown); *)
(* that the current picture is finished before the next one starts         *)
(* (InProgress); that the list holds the reference pictures of the stream  *)
(* under distinct POCs (ListKnown).                                        *)
(*                                                                         *)
(* OutputInv, under LogComplete, NeverAhead, ListBounded and InOutputOrder. *)
(* In which pass the current picture is finished (FlowKnown); what the     *)
(* limits of the stream promise of the pictures that wait (StreamKnown);   *)
(* what the header and the flags say of the current picture and of a GDR   *)
(* picture that recovers (CurrentKnown); which pictures the list holds     *)
(* (ListOwn); that the log, the pictures marked for output and the current *)
(* picture are together what the stream expects, in order (RowsKnown); the *)
(* POC displayed last (DisplayKnown); the buffers in use (BoundKnown).     *)
(***************************************************************************)
EXTENDS DecoderLoop, FiniteSetTheorems, WellFoundedInduction, TLAPS

-----------------------------------------------------------------------------
\* The part of the type invariant that the argument needs.
RefsTypeOK ==
    /\ stream \in Stream
    /\ part \in {"picture", "decoded", "skipped", "dropped", "eos"}
    /\ pc \in {"look", "finish", "output", "flush", "done"}
    /\ nalu \in {"new", "slice", "EOS"}
    /\ count \in [pics : Nat, slices : Nat, eos : Nat, drops : Nat]
    /\ m_cListPic \subseteq Picture
    /\ m_pcPic \in PicId
    /\ pcSlice \in Header \cup {NoSlice}
    /\ {eof, bPicSkipped, isEosPresentInPu, isEosPresentInLastPu,
        m_bFirstSliceInPicture, m_firstSliceInSequence} \subseteq BOOLEAN

\* Where an EOS NAL unit is recorded while the next picture has not come, and
\* that nothing is left of it afterwards.
EosKnown ==
    /\ part \in {"decoded", "skipped", "dropped"} => ~stream.fresh
    /\ part = "eos" <=> nalu = "EOS"
    /\ part = "eos" => isEosPresentInPu
    /\ part = "picture" /\ pc \in {"finish", "output"} =>
         nalu = "new" /\ ~eof /\ (stream.fresh => isEosPresentInPu)
    /\ part = "picture" /\ pc = "look" =>
         ~isEosPresentInPu /\ (stream.fresh /\ count.eos > 0 => isEosPresentInLastPu)
    /\ ~stream.fresh => ~isEosPresentInPu
    /\ ~stream.fresh /\ (part = "skipped" \/ (part = "picture" /\ pc = "look")) =>
         ~isEosPresentInLastPu
    /\ stream.fresh /\ count.eos = 0 => m_cListPic = {} /\ part = "picture" /\ pc = "look"

\* m_pocRandomAccess is the POC of the picture that starts the CVS, unless that
\* is an IDR picture.
AccessKnown ==
    IF stream.fresh THEN m_pocRandomAccess = PlusInf
    ELSE /\ \/ m_pocRandomAccess = MinusInf
            \/ m_pocRandomAccess \in
                 Of(stream, {IF stream.starts THEN "anchor" ELSE "oldAnchor"})
         /\ stream.starts /\ stream.anchor = "CRA" => m_pocRandomAccess # MinusInf

\* The current picture will still be finished.
InProgress ==
    /\ ~bPicSkipped /\ ~m_firstSliceInSequence /\ ~m_bFirstSliceInPicture
    /\ part = "decoded" \/ (part = "picture" /\ pc = "finish")

\* The list holds pictures of the CVS only, and its reference pictures, which
\* are complete unless current.
ListKnown ==
    pc # "done" /\ ~stream.fresh =>
        /\ \A p \in m_cListPic : p.id[1] = stream.cvs /\ PocOf(p) \in Used(stream)
        /\ \A poc \in stream.dpb : \E p \in m_cListPic : PocOf(p) = poc
        /\ \A p \in m_cListPic : PocOf(p) \in stream.dpb =>
             p.referenced /\ (p.reconstructed \/ (IsCurrent(p) /\ InProgress))

\* The header of the picture refers to reference pictures other than itself.
HeaderKnown ==
    part = "decoded" /\ pc # "done" =>
        pcSlice.keep \subseteq stream.dpb /\ m_pcPic[2] \notin pcSlice.keep

RefsInv == RefsTypeOK /\ EosKnown /\ AccessKnown /\ ListKnown /\ HeaderKnown

-----------------------------------------------------------------------------
(***************************************************************************)
(* The coded stream stays well typed.                                      *)
(***************************************************************************)
\* A set of natural numbers has a least element.
LEMMA NatLeast ==
    ASSUME NEW T \in SUBSET Nat, T # {}
    PROVE  \E t \in T : \A u \in T : t <= u
<1>1. PICK t \in T : \A u \in T : ~(<<u, t>> \in OpToRel(<, Nat))
  BY NatLessThanWellFounded, WFMin
<1>2. ASSUME NEW u \in T PROVE t <= u
  <2>1. u \in Nat /\ t \in Nat
    OBVIOUS
  <2>2. ~(u < t)
    BY <1>1, <2>1 DEF OpToRel
  <2> QED BY <2>1, <2>2
<1> QED BY <1>2

\* A set of POCs, -1 for none, has a least element.
LEMMA LeastOfType ==
    ASSUME NEW S, S # {}, S \subseteq Nat \cup {-1}
    PROVE  LeastOf(S) \in S
<1>1. PICK t \in {x + 1 : x \in S} : \A u \in {x + 1 : x \in S} : t <= u
  <2>1. \A x \in S : x + 1 \in Nat
    OBVIOUS
  <2>2. {x + 1 : x \in S} \subseteq Nat /\ {x + 1 : x \in S} # {}
    BY <2>1
  <2> QED BY <2>2, NatLeast
<1>2. PICK x \in S : t = x + 1
  BY <1>1
<1>3. \A y \in S : x <= y
  <2> SUFFICES ASSUME NEW y \in S PROVE x <= y
    OBVIOUS
  <2>1. x + 1 <= y + 1
    BY <1>1, <1>2
  <2>2. x \in Int /\ y \in Int
    OBVIOUS
  <2> QED BY <2>1, <2>2
<1> QED BY <1>3 DEF LeastOf

\* A set of POCs, -1 for none, has a highest element.
LEMMA HighestExists ==
    ASSUME NEW S, S # {}, S \subseteq Poc \cup {-1}
    PROVE  \E x \in S : \A y \in S : y <= x
<1>1. \A x \in S : x \in Int /\ MaxPoc - x \in Nat
  BY StreamAssumption DEF Poc
<1>2. PICK t \in {MaxPoc - x : x \in S} : \A u \in {MaxPoc - x : x \in S} : t <= u
  <2>1. {MaxPoc - x : x \in S} \subseteq Nat /\ {MaxPoc - x : x \in S} # {}
    BY <1>1
  <2> QED BY <2>1, NatLeast
<1>3. PICK x \in S : t = MaxPoc - x
  BY <1>2
<1>4. \A y \in S : y <= x
  <2> SUFFICES ASSUME NEW y \in S PROVE y <= x
    OBVIOUS
  <2>1. MaxPoc - x <= MaxPoc - y
    BY <1>2, <1>3
  <2>2. x \in Int /\ y \in Int /\ MaxPoc \in Int
    BY <1>1, StreamAssumption
  <2> QED BY <2>1, <2>2
<1> QED BY <1>4

\* A bumping decoder finds room for a picture that may follow.
LEMMA BumpBeforeType ==
    ASSUME NEW s \in Stream, NEW h \in Header, Cardinality(h.keep) < MaxDecPicBuffering
    PROVE  BumpBefore(s, h) \in Poc \cup {-1}
<1> DEFINE S == s.waiting \cup {s.horizon}
           R == {x \in S : Room(s, h, x)}
<1>1. S # {} /\ S \subseteq Poc \cup {-1}
  BY DEF Stream
<1>2. PICK x \in S : \A y \in S : y <= x
  <2> HIDE DEF S
  <2> QED BY <1>1, HighestExists
<1>3. Left(s, x) = {}
  BY <1>2, StreamAssumption DEF Left, Stream, Poc
<1>4. Room(s, h, x)
  BY <1>3, FS_EmptySet, StreamAssumption DEF Room
<1>5. R # {} /\ R \subseteq Nat \cup {-1} /\ R \subseteq Poc \cup {-1}
  BY <1>1, <1>2, <1>4 DEF Poc
<1>6. LeastOf(R) \in R
  <2> HIDE DEF R
  <2> QED BY <1>5, LeastOfType
<1> QED BY <1>5, <1>6 DEF BumpBefore

\* It outputs enough pictures after one.
LEMMA BumpAfterType ==
    ASSUME NEW waiting \in SUBSET Poc, NEW horizon \in Poc \cup {-1}
    PROVE  BumpAfter(waiting, horizon) \in Poc \cup {-1}
<1> DEFINE S == waiting \cup {horizon}
           R == {x \in S : Cardinality({w \in waiting : w > x}) <= MaxNumReorder}
<1>1. S # {} /\ S \subseteq Poc \cup {-1}
  OBVIOUS
<1>2. PICK x \in S : \A y \in S : y <= x
  <2> HIDE DEF S
  <2> QED BY <1>1, HighestExists
<1>3. {w \in waiting : w > x} = {}
  <2>1. ASSUME NEW w \in waiting PROVE ~(w > x)
    BY <1>2, StreamAssumption DEF Poc
  <2> QED BY <2>1
<1>4. x \in R
  BY <1>3, FS_EmptySet, StreamAssumption
<1>5. R # {} /\ R \subseteq Nat \cup {-1} /\ R \subseteq Poc \cup {-1}
  <2>1. R \subseteq Poc \cup {-1}
    BY <1>1
  <2>2. Poc \subseteq Nat
    BY StreamAssumption DEF Poc
  <2> QED BY <2>1, <2>2, <1>4
<1>6. LeastOf(R) \in R
  <2> HIDE DEF R
  <2> QED BY <1>5, LeastOfType
<1> QED BY <1>5, <1>6 DEF BumpAfter

\* Classes of the pictures of a CVS when one more has come.
LEMMA PicsWithType ==
    ASSUME NEW s \in Stream, NEW h \in Header
    PROVE  /\ PicsWith(s, h) \in SUBSET (Poc \X Classes)
           /\ ClassOf(h) \in Classes
<1>1. h.poc \in Poc /\ h.kind \in {"IDR", "CRA", "GDR", "TRAIL", "RADL", "RASL"}
  BY StreamAssumption DEF Header
<1>2. ClassOf(h) \in Classes
  BY <1>1 DEF ClassOf, Classes, Anchors
<1>3. \A x \in s.pics : x \in Poc \X Classes
  BY DEF Stream
<1>4. \A x \in s.pics : <<x[1], IF x[2] \in {"anchor", "oldAnchor"} THEN "oldAnchor" ELSE "old">>
                          \in Poc \X Classes
  BY <1>3 DEF Classes
<1>5. CASE h.kind \in Anchors
  BY <1>1, <1>2, <1>4, <1>5 DEF PicsWith
<1>6. CASE h.kind \notin Anchors
  BY <1>1, <1>2, <1>3, <1>6 DEF PicsWith
<1> QED BY <1>2, <1>5, <1>6

\* The first picture of a CVS.
LEMMA FirstPictureFacts ==
    ASSUME NEW s \in Stream, NEW h \in Header, StartsCvs(s, h), h.kind \in Anchors
    PROVE  /\ Coded(s, h) \in Stream
           /\ Coded(s, h).cvs = s.cvs + 1
           /\ Coded(s, h).fresh = FALSE
           /\ Coded(s, h).starts = TRUE
           /\ Coded(s, h).anchor = h.kind
           /\ Coded(s, h).pics = {<<h.poc, "anchor">>}
           /\ Coded(s, h).dpb = {h.poc}
<1>1. h.poc \in Poc /\ h.output \in BOOLEAN /\ h.recoveryPocCnt \in Nat
  BY StreamAssumption DEF Header
<1>2. h.poc \in Nat /\ h.poc + h.recoveryPocCnt \in Nat
  BY <1>1, StreamAssumption DEF Poc
<1>3. Coded(s, h) = FirstPicture(s, h)
  BY DEF Coded
<1>4. FirstPicture(s, h) \in Stream
  <2> DEFINE shown == h.output /\ h.recoveryPocCnt = 0
             pics == {<<h.poc, "anchor">>}
             waiting == IF shown /\ MaxNumReorder > 0 THEN {h.poc} ELSE {}
             horizon == IF shown /\ MaxNumReorder = 0 THEN h.poc ELSE -1
             recovery == IF h.kind = "GDR" THEN h.poc + h.recoveryPocCnt ELSE 0
             expected == IF shown THEN s.expected \cup {<<s.cvs + 1, h.poc>>} ELSE s.expected
  <2>1. pics \in SUBSET (Poc \X Classes)
    BY <1>1 DEF Classes
  <2>2. s.cvs + 1 \in Nat
    BY DEF Stream
  <2>3. expected \in SUBSET (Nat \X Poc)
    BY <1>1, <2>2 DEF Stream
  <2>4. waiting \in SUBSET Poc /\ horizon \in Poc \cup {-1} /\ recovery \in Nat
    BY <1>1, <1>2
  <2>5. FirstPicture(s, h) =
          [s EXCEPT !.cvs = s.cvs + 1, !.fresh = FALSE, !.anchor = h.kind, !.starts = TRUE,
                    !.pics = pics, !.dpb = {h.poc}, !.waiting = waiting,
                    !.horizon = horizon, !.recovery = recovery, !.expected = expected]
    BY DEF FirstPicture, Stream
  <2> HIDE DEF shown, pics, waiting, horizon, recovery, expected
  <2>6. FirstPicture(s, h) =
          [cvs |-> s.cvs + 1, fresh |-> FALSE, anchor |-> h.kind, starts |-> TRUE,
           pics |-> pics, dpb |-> {h.poc}, waiting |-> waiting,
           horizon |-> horizon, recovery |-> recovery, expected |-> expected]
    BY <2>5 DEF Stream
  <2>7. {h.poc} \in SUBSET Poc
    BY <1>1
  <2> QED BY <2>1, <2>2, <2>3, <2>4, <2>6, <2>7 DEF Stream
<1>5. /\ FirstPicture(s, h).cvs = s.cvs + 1
      /\ FirstPicture(s, h).fresh = FALSE
      /\ FirstPicture(s, h).starts = TRUE
      /\ FirstPicture(s, h).anchor = h.kind
      /\ FirstPicture(s, h).pics = {<<h.poc, "anchor">>}
      /\ FirstPicture(s, h).dpb = {h.poc}
  BY DEF FirstPicture, Stream
<1> QED BY <1>3, <1>4, <1>5

\* A further picture that is decoded.
LEMMA FurtherPictureFacts ==
    ASSUME NEW s \in Stream, NEW h \in Header, MayFollow(s, h),
           ~StartsCvs(s, h), ~Undecodable(s, h)
    PROVE  /\ Coded(s, h) \in Stream
           /\ Coded(s, h).cvs = s.cvs
           /\ Coded(s, h).fresh = s.fresh
           /\ Coded(s, h).starts = (s.starts /\ h.kind \notin Anchors)
           /\ Coded(s, h).anchor = IF h.kind \in Anchors THEN h.kind ELSE s.anchor
           /\ Coded(s, h).pics = PicsWith(s, h)
           /\ Coded(s, h).dpb = h.keep \cup {h.poc}
<1>1. h.poc \in Poc /\ h.output \in BOOLEAN /\ h.keep \subseteq Poc
  BY StreamAssumption DEF Header
<1>2. Coded(s, h) = FurtherPicture(s, h)
  BY DEF Coded
<1> DEFINE shown   == h.output /\ h.poc >= s.recovery
           before  == BumpBefore(s, h)
           waiting == Left(s, before) \cup (IF shown THEN {h.poc} ELSE {})
           after   == BumpAfter(waiting, before)
<1>3. before \in Poc \cup {-1}
  BY BumpBeforeType DEF MayFollow
<1>4. waiting \in SUBSET Poc
  BY <1>1 DEF Left, Stream
<1>5. after \in Poc \cup {-1}
  <2> HIDE DEF before, waiting
  <2> QED BY <1>3, <1>4, BumpAfterType
<1>6. PicsWith(s, h) \in SUBSET (Poc \X Classes)
  BY PicsWithType
<1>7. s.expected \cup {<<s.cvs, h.poc>>} \in SUBSET (Nat \X Poc)
  BY <1>1 DEF Stream
<1>8. FurtherPicture(s, h) =
        [s EXCEPT !.anchor = IF h.kind \in Anchors THEN h.kind ELSE @,
                  !.starts = IF h.kind \in Anchors THEN FALSE ELSE @,
                  !.pics = PicsWith(s, h),
                  !.dpb = h.keep \cup {h.poc},
                  !.waiting = {w \in waiting : w > after},
                  !.horizon = after,
                  !.expected = IF shown THEN @ \cup {<<s.cvs, h.poc>>} ELSE @]
  BY DEF FurtherPicture
<1>9. {w \in waiting : w > after} \in SUBSET Poc
  BY <1>4
<1> HIDE DEF shown, before, waiting, after
<1>10. FurtherPicture(s, h) \in Stream
  <2>1. h.keep \cup {h.poc} \in SUBSET Poc
    BY <1>1
  <2>2. (IF shown THEN s.expected \cup {<<s.cvs, h.poc>>} ELSE s.expected) \in SUBSET (Nat \X Poc)
    BY <1>7 DEF Stream
  <2>3. (IF h.kind \in Anchors THEN h.kind ELSE s.anchor) \in Anchors
    BY DEF Stream
  <2>4. (IF h.kind \in Anchors THEN FALSE ELSE s.starts) \in BOOLEAN
    BY DEF Stream
  <2> QED BY <1>5, <1>6, <1>8, <1>9, <2>1, <2>2, <2>3, <2>4 DEF Stream
<1>11. /\ FurtherPicture(s, h).cvs = s.cvs
       /\ FurtherPicture(s, h).fresh = s.fresh
       /\ FurtherPicture(s, h).starts = (s.starts /\ h.kind \notin Anchors)
       /\ FurtherPicture(s, h).anchor = IF h.kind \in Anchors THEN h.kind ELSE s.anchor
       /\ FurtherPicture(s, h).pics = PicsWith(s, h)
       /\ FurtherPicture(s, h).dpb = h.keep \cup {h.poc}
  BY <1>8 DEF Stream
<1> QED BY <1>2, <1>10, <1>11

\* A picture that cannot be decoded changes the classes only.
LEMMA UndecodableFacts ==
    ASSUME NEW s \in Stream, NEW h \in Header, ~StartsCvs(s, h), Undecodable(s, h)
    PROVE  /\ Coded(s, h) \in Stream
           /\ Coded(s, h) = [s EXCEPT !.pics = PicsWith(s, h)]
BY PicsWithType DEF Coded, Stream

\* Which POCs the pictures of some classes have.
LEMMA OfMembers ==
    ASSUME NEW s, NEW classes
    PROVE  /\ \A x \in s.pics : x[2] \in classes => x[1] \in Of(s, classes)
           /\ \A poc \in Of(s, classes) : \E x \in s.pics : x[2] \in classes /\ x[1] = poc
BY DEF Of

\* The POCs used before are still used, with the new one.
LEMMA UsedWith ==
    ASSUME NEW s \in Stream, NEW t \in Stream, NEW h \in Header,
           t.pics = PicsWith(s, h)
    PROVE  Used(s) \subseteq Used(t) /\ h.poc \in Used(t)
<1>1. <<h.poc, ClassOf(h)>> \in t.pics /\ ClassOf(h) \in Classes
  BY PicsWithType DEF PicsWith
<1>2. h.poc \in Used(t)
  BY <1>1 DEF Used, Of
<1>3. ASSUME NEW x \in s.pics
      PROVE  \E y \in t.pics : y[1] = x[1] /\ y[2] \in Classes
  <2>1. x[2] \in Classes
    BY DEF Stream
  <2>2. CASE h.kind \in Anchors
    <3>1. <<x[1], IF x[2] \in {"anchor", "oldAnchor"} THEN "oldAnchor" ELSE "old">> \in t.pics
      BY <2>2 DEF PicsWith
    <3> QED BY <3>1 DEF Classes
  <2>3. CASE h.kind \notin Anchors
    BY <2>1, <2>3 DEF PicsWith
  <2> QED BY <2>2, <2>3
<1> QED BY <1>2, <1>3 DEF Used, Of

-----------------------------------------------------------------------------
(***************************************************************************)
(* What the decoder skips, and what happens to the list.                   *)
(***************************************************************************)
LEMMA FollowersType ==
    ASSUME NEW s \in Stream, NEW h \in Followers(s)
    PROVE  /\ h \in Header
           /\ MayFollow(s, h)
           /\ h.kind \in {"IDR", "CRA", "GDR", "TRAIL", "RADL", "RASL"}
           /\ h.poc \in Poc
           /\ StartsCvs(s, h) => h.kind \in Anchors
<1>1. s.dpb \subseteq Poc
  BY DEF Stream
<1>2. h \in [kind : Kinds, poc : Poc, output : Outputs, keep : SUBSET s.dpb,
             recoveryPocCnt : 0..MaxRecovery] /\ MayFollow(s, h)
  BY DEF Followers
<1>3. h \in Header
  BY <1>1, <1>2, StreamAssumption DEF Header
<1> QED BY <1>2, <1>3, StreamAssumption DEF StartsCvs, MayFollow, Anchors

\* The sentinels of POCs are no POCs.
LEMMA Sentinels ==
    /\ Poc \subseteq Nat
    /\ MinusInf \in Int /\ MinusInf < 0
    /\ PlusInf \in Nat /\ PlusInf > MaxPoc
    /\ PlusInf \notin Poc /\ MinusInf \notin Poc /\ MinusInf # PlusInf
<1>1. MaxPics * MaxSlices \in Nat
  BY LoopAssumption
<1> QED BY <1>1, StreamAssumption DEF MinusInf, PlusInf, Poc

\* isRandomAccessSkipPicture skips exactly the pictures that cannot be decoded.
LEMMA SkipsUndecodable ==
    ASSUME stream \in Stream, AccessKnown, NEW h \in Followers(stream)
    PROVE  RandomAccessSkip(h) <=> ~StartsCvs(stream, h) /\ Undecodable(stream, h)
<1>1. /\ h.kind \in {"IDR", "CRA", "GDR", "TRAIL", "RADL", "RASL"}
      /\ h.poc \in Poc /\ MayFollow(stream, h)
      /\ StartsCvs(stream, h) => h.kind \in Anchors
  BY FollowersType
<1>2. CASE StartsCvs(stream, h)
  BY <1>1, <1>2 DEF RandomAccessSkip, SkipsUntilAccess, SkipsLeading, Anchors
<1>3. CASE ~StartsCvs(stream, h)
  <2>1. ~stream.fresh /\ InOrder(stream, h)
    BY <1>1, <1>3 DEF StartsCvs, MayFollow, Stream
  <2>2. ~SkipsUntilAccess(h)
    <3>1. \A c : Of(stream, {c}) \subseteq Poc
      BY DEF Of, Stream
    <3> QED BY <2>1, <3>1, Sentinels DEF AccessKnown, SkipsUntilAccess
  <2>3. CASE h.kind # "RASL"
    BY <2>2, <2>3 DEF RandomAccessSkip, SkipsLeading, Undecodable
  <2>4. CASE h.kind = "RASL"
    <3>1. /\ stream.anchor = "CRA"
          /\ Above(Of(stream, {"anchor"}), {h.poc})
          /\ Above({h.poc}, Of(stream, {"oldAnchor"}))
      BY <2>1, <2>4 DEF InOrder, Above, Anchors
    <3>2. CASE stream.starts
      <4>1. m_pocRandomAccess \in Of(stream, {"anchor"})
        BY <2>1, <3>1, <3>2 DEF AccessKnown
      <4>2. m_pocRandomAccess > h.poc
        BY <3>1, <4>1 DEF Above
      <4> QED BY <1>3, <2>4, <3>2, <4>2 DEF RandomAccessSkip, SkipsLeading, Undecodable
    <3>3. CASE ~stream.starts
      <4>1. ~(h.poc < m_pocRandomAccess)
        <5>0. h.poc \in Nat
          BY <1>1, Sentinels
        <5>1. CASE m_pocRandomAccess = MinusInf
          BY <5>0, <5>1, Sentinels
        <5>2. CASE m_pocRandomAccess \in Of(stream, {"oldAnchor"})
          <6>1. h.poc > m_pocRandomAccess
            BY <3>1, <5>2 DEF Above
          <6>2. m_pocRandomAccess \in Poc
            BY <5>2 DEF Of, Stream
          <6>3. m_pocRandomAccess \in Nat
            BY <6>2, Sentinels
          <6> QED BY <5>0, <6>1, <6>3
        <5> QED BY <5>1, <5>2, <2>1, <3>3 DEF AccessKnown
      <4> QED BY <2>2, <3>3, <4>1 DEF RandomAccessSkip, SkipsLeading, Undecodable
    <3> QED BY <3>2, <3>3
  <2> QED BY <2>3, <2>4
<1> QED BY <1>2, <1>3

\* checkNoOutputPriorPics changes no more than what is output.
LEMMA AfterPriorPicsKeeps ==
    ASSUME NEW list \in SUBSET Picture, NEW h
    PROVE  /\ AfterPriorPics(list, h) \subseteq Picture
           /\ \A q \in AfterPriorPics(list, h) : \E p \in list :
                 q.id = p.id /\ q.referenced = p.referenced
                             /\ q.reconstructed = p.reconstructed
           /\ \A p \in list : \E q \in AfterPriorPics(list, h) :
                 q.id = p.id /\ q.referenced = p.referenced
                             /\ q.reconstructed = p.reconstructed
<1> DEFINE shown(p) == p.neededForOutput /\ PocOf(p) = m_lastPOCNoOutputPriorPics
           new(p) == [p EXCEPT !.neededForOutput = shown(p)]
<1>1. ASSUME NEW p \in list
      PROVE  /\ new(p) \in Picture
             /\ new(p).id = p.id /\ new(p).referenced = p.referenced
             /\ new(p).reconstructed = p.reconstructed
  <2>1. shown(p) \in BOOLEAN
    OBVIOUS
  <2> HIDE DEF shown
  <2> QED BY <2>1 DEF Picture
<1>2. CASE Consumes(h)
  <2>1. AfterPriorPics(list, h) = {new(p) : p \in list}
    BY <1>2 DEF AfterPriorPics
  <2> HIDE DEF new
  <2> QED BY <1>1, <2>1
<1>3. CASE ~Consumes(h)
  BY <1>3 DEF AfterPriorPics
<1> QED BY <1>2, <1>3

\* The marking keeps the pictures that the header refers to.
LEMMA MarkedKeeps ==
    ASSUME NEW list \in SUBSET Picture, NEW h
    PROVE  /\ Marked(list, h) \subseteq Picture
           /\ \A q \in Marked(list, h) : \E p \in list :
                 /\ q.id = p.id /\ q.reconstructed = p.reconstructed
                 /\ PocOf(p) \in h.keep => q.referenced = p.referenced
           /\ \A p \in list : \E q \in Marked(list, h) : q.id = p.id
<1> DEFINE kept(p) == p.referenced /\ (PocOf(p) \in h.keep \/ PocOf(p) = h.poc)
           new(p) == [p EXCEPT !.referenced = kept(p)]
<1>1. ASSUME NEW p \in list
      PROVE  /\ new(p) \in Picture
             /\ new(p).id = p.id /\ new(p).reconstructed = p.reconstructed
             /\ PocOf(p) \in h.keep => new(p).referenced = p.referenced
  <2>1. kept(p) \in BOOLEAN
    OBVIOUS
  <2>2. PocOf(p) \in h.keep => kept(p) = p.referenced
    BY DEF Picture
  <2> HIDE DEF kept
  <2> QED BY <2>1, <2>2 DEF Picture
<1>2. Marked(list, h) = {new(p) : p \in list}
  BY DEF Marked
<1> HIDE DEF new
<1> QED BY <1>1, <1>2

\* A buffer that is taken for a new picture holds no complete reference picture.
LEMMA NewPictureKeeps ==
    ASSUME NEW list \in SUBSET Picture, NEW id \in PicId, NEW listNew,
           WithNewPicture(list, id, listNew)
    PROVE  /\ listNew \subseteq Picture
           /\ listNew \subseteq list \cup {NewPicture(id)}
           /\ NewPicture(id) \in listNew
           /\ \A p \in list : p.reconstructed /\ p.referenced => p \in listNew
<1>1. NewPicture(id) \in Picture
  BY DEF NewPicture, Picture
<1>2. CASE listNew = list \cup {NewPicture(id)}
  BY <1>1, <1>2
<1>3. ASSUME NEW p \in Free(list), listNew = (list \ {p}) \cup {NewPicture(id)}
      PROVE  /\ listNew \subseteq Picture
             /\ listNew \subseteq list \cup {NewPicture(id)}
             /\ NewPicture(id) \in listNew
             /\ \A q \in list : q.reconstructed /\ q.referenced => q \in listNew
  <2>1. p \in list /\ (~p.reconstructed \/ ~p.referenced)
    BY DEF Free
  <2> QED BY <1>1, <1>3, <2>1
<1> QED BY <1>2, <1>3 DEF WithNewPicture

-----------------------------------------------------------------------------
(***************************************************************************)
(* The first slice of a picture.                                           *)
(***************************************************************************)
\* The list when the first slice of a CVS has been handled holds its picture only.
LEMMA FirstOfCvs ==
    ASSUME RefsInv, "gdrAfterEos" \notin Allow,
           NEW h \in Followers(stream), NEW last \in BOOLEAN,
           DecodeFirstSlice(h, last), StartsCvs(stream, h)
    PROVE  m_cListPic' = {NewPicture(<<Coded(stream, h).cvs, h.poc>>)}
<1> DEFINE flushed == IF StartsIrap(h) THEN {} ELSE m_cListPic
           id == <<Coded(stream, h).cvs, h.poc>>
<1>1. h.kind \in Anchors
  BY FollowersType DEF RefsInv, RefsTypeOK
<1>2. flushed = {}
  <2>1. CASE h.kind = "IDR"
    BY <2>1 DEF StartsIrap, DecodeFirstSlice, ReadsFirstSlice
  <2>2. CASE h.kind # "IDR" /\ count.eos = 0
    BY <2>2 DEF StartsCvs, RefsInv, EosKnown
  <2>3. CASE h.kind # "IDR" /\ count.eos > 0
    <3>1. stream.fresh /\ h.kind # "GDR"
      BY <2>3 DEF StartsCvs, DecodeFirstSlice, Admitted
    <3>2. part = "picture" /\ pc = "look" /\ m_bFirstSliceInPicture
      BY <3>1 DEF DecodeFirstSlice, ReadsFirstSlice, RefsInv, EosKnown
    <3>3. isEosPresentInLastPu
      BY <2>3, <3>1, <3>2 DEF RefsInv, EosKnown
    <3> QED BY <1>1, <2>3, <3>1, <3>2, <3>3 DEF StartsIrap, Anchors
  <2> QED BY <2>1, <2>2, <2>3 DEF RefsInv, RefsTypeOK
<1>3. AfterPriorPics({}, h) = {}
  BY DEF AfterPriorPics
<1>4. Marked({}, h) = {}
  BY DEF Marked
<1>5. WithNewPicture({}, id, m_cListPic')
  BY <1>2, <1>3, <1>4 DEF DecodeFirstSlice
<1> QED BY <1>5 DEF WithNewPicture, Free

\* In a CVS the references of the new picture keep their buffers.
LEMMA FurtherOfCvs ==
    ASSUME RefsInv,
           NEW h \in Followers(stream), NEW last \in BOOLEAN,
           DecodeFirstSlice(h, last), ~StartsCvs(stream, h)
    PROVE  /\ m_cListPic' \subseteq Picture
           /\ NewPicture(<<stream.cvs, h.poc>>) \in m_cListPic'
           /\ \A p \in m_cListPic' : p # NewPicture(<<stream.cvs, h.poc>>) =>
                /\ p.id[1] = stream.cvs
                /\ PocOf(p) \in Used(stream)
                /\ PocOf(p) # h.poc
                /\ PocOf(p) \in h.keep => p.referenced /\ p.reconstructed
           /\ \A poc \in h.keep : \E p \in m_cListPic' : PocOf(p) = poc
<1> DEFINE list1 == AfterPriorPics(m_cListPic, h)
           list2 == Marked(list1, h)
           id == <<stream.cvs, h.poc>>
<1>0. stream \in Stream /\ h \in Header /\ MayFollow(stream, h) /\ ~Undecodable(stream, h)
  BY FollowersType, SkipsUndecodable DEF RefsInv, RefsTypeOK, DecodeFirstSlice
<1>1. ~stream.fresh /\ h.kind # "IDR" /\ h.poc \notin Used(stream) /\ h.keep \subseteq stream.dpb
  BY <1>0 DEF StartsCvs, MayFollow, Stream
<1>2. /\ pc = "look" /\ part \in {"picture", "skipped"} /\ m_bFirstSliceInPicture
      /\ m_cListPic \subseteq Picture
  BY DEF DecodeFirstSlice, ReadsFirstSlice, RefsInv, RefsTypeOK
<1>3. ~isEosPresentInLastPu
  BY <1>1, <1>2 DEF RefsInv, EosKnown
<1>4. ~StartsIrap(h)
  BY <1>1, <1>3 DEF StartsIrap
<1>5. Coded(stream, h).cvs = stream.cvs
  BY <1>0, FurtherPictureFacts
<1>6. WithNewPicture(list2, id, m_cListPic')
  BY <1>4, <1>5 DEF DecodeFirstSlice
\* Every picture of the CVS that is a reference is complete.
<1>7. \A p \in m_cListPic :
        /\ p.id[1] = stream.cvs /\ PocOf(p) \in Used(stream)
        /\ PocOf(p) \in stream.dpb => p.referenced /\ p.reconstructed
  BY <1>1, <1>2 DEF RefsInv, ListKnown, InProgress
<1>8. \A poc \in stream.dpb : \E p \in m_cListPic : PocOf(p) = poc
  BY <1>1, <1>2 DEF RefsInv, ListKnown
<1>9. list1 \subseteq Picture /\ list2 \subseteq Picture
  BY <1>2, AfterPriorPicsKeeps, MarkedKeeps
<1>10. \A q \in list2 :
         /\ q.id[1] = stream.cvs /\ PocOf(q) \in Used(stream)
         /\ PocOf(q) \in h.keep => q.referenced /\ q.reconstructed
  <2>1. \A r \in list1 :
          /\ r.id[1] = stream.cvs /\ PocOf(r) \in Used(stream)
          /\ PocOf(r) \in stream.dpb => r.referenced /\ r.reconstructed
    BY <1>2, <1>7, AfterPriorPicsKeeps DEF PocOf
  <2> HIDE DEF list1
  <2> QED BY <1>1, <1>9, <2>1, MarkedKeeps DEF PocOf
<1>11. \A poc \in h.keep : \E q \in list2 : PocOf(q) = poc
  <2>1. \A poc \in h.keep : \E r \in list1 : PocOf(r) = poc
    BY <1>1, <1>2, <1>8, AfterPriorPicsKeeps DEF PocOf
  <2> HIDE DEF list1
  <2> QED BY <1>9, <2>1, MarkedKeeps DEF PocOf
<1>12. id \in PicId
  BY <1>0 DEF Stream, Header, PicId
<1>13. /\ m_cListPic' \subseteq Picture
       /\ m_cListPic' \subseteq list2 \cup {NewPicture(id)}
       /\ NewPicture(id) \in m_cListPic'
       /\ \A p \in list2 : p.reconstructed /\ p.referenced => p \in m_cListPic'
  <2> HIDE DEF list2, id
  <2> QED BY <1>6, <1>9, <1>12, NewPictureKeeps
<1> HIDE DEF list2
<1>14. \A p \in m_cListPic' : p # NewPicture(id) =>
         /\ p.id[1] = stream.cvs /\ PocOf(p) \in Used(stream) /\ PocOf(p) # h.poc
         /\ PocOf(p) \in h.keep => p.referenced /\ p.reconstructed
  BY <1>1, <1>10, <1>13
<1>15. \A poc \in h.keep : \E p \in m_cListPic' : PocOf(p) = poc
  BY <1>10, <1>11, <1>13
<1> QED BY <1>13, <1>14, <1>15

LEMMA DecodeFirstSliceInv ==
    ASSUME RefsInv, "gdrAfterEos" \notin Allow,
           NEW h \in Followers(stream), NEW last \in BOOLEAN,
           DecodeFirstSlice(h, last)
    PROVE  RefsInv'
<1> DEFINE id == <<Coded(stream, h).cvs, h.poc>>
<1>0. /\ stream \in Stream /\ h \in Header /\ MayFollow(stream, h) /\ h.poc \in Poc
      /\ StartsCvs(stream, h) => h.kind \in Anchors
      /\ StartsCvs(stream, h) \/ ~Undecodable(stream, h)
  BY FollowersType, SkipsUndecodable DEF RefsInv, RefsTypeOK, DecodeFirstSlice
<1>1. /\ pc = "look" /\ part \in {"picture", "skipped"}
      /\ m_bFirstSliceInPicture /\ ~eof
  BY DEF DecodeFirstSlice, ReadsFirstSlice
<1>2. /\ stream' = Coded(stream, h) /\ part' = "decoded"
      /\ m_pcPic' = id /\ pcSlice' = [h EXCEPT !.output = PicOutputFlag(h)]
      /\ ~m_firstSliceInSequence' /\ ~m_bFirstSliceInPicture' /\ ~bPicSkipped'
      /\ m_firstSliceInSequence' \in BOOLEAN /\ m_bFirstSliceInPicture' \in BOOLEAN
      /\ bPicSkipped' \in BOOLEAN /\ eof' = last
      /\ pc' \in {"finish", "output"} /\ nalu' = "slice"
      /\ eosFlags' = eosFlags
      /\ m_pocRandomAccess' = PocRandomAccess(h)
      /\ count' = [[count EXCEPT !.pics = @ + 1] EXCEPT !.slices = 1]
  BY DEF DecodeFirstSlice, EndsPass, Counted
<1>3. stream' \in Stream /\ ~stream'.fresh
  <2>1. CASE StartsCvs(stream, h)
    BY <1>0, <1>2, <2>1, FirstPictureFacts
  <2>2. CASE ~StartsCvs(stream, h)
    <3>1. ~stream.fresh
      BY <2>2 DEF StartsCvs
    <3> QED BY <1>0, <1>2, <2>2, <3>1, FurtherPictureFacts
  <2> QED BY <2>1, <2>2
<1>4. id \in PicId
  BY <1>0, <1>2, <1>3 DEF PicId, Stream
<1>5. /\ pcSlice' \in Header /\ pcSlice'.keep = h.keep
  <2>1. PicOutputFlag(h) \in BOOLEAN
    BY <1>0 DEF PicOutputFlag, Header
  <2> QED BY <1>0, <1>2, <2>1 DEF Header
<1>6. EosKnown'
  <2>1. ~isEosPresentInPu
    BY <1>1 DEF RefsInv, EosKnown
  <2> QED BY <1>1, <1>2, <1>3, <2>1 DEF EosKnown, eosFlags
<1>7. AccessKnown'
  <2>1. CASE StartsCvs(stream, h)
    <3>1. /\ stream'.starts = TRUE /\ stream'.anchor = h.kind
          /\ stream'.pics = {<<h.poc, "anchor">>}
      BY <1>0, <1>2, <2>1, FirstPictureFacts
    <3>2. Of(stream', {"anchor"}) = {h.poc}
      <4>1. <<h.poc, "anchor">> \in stream'.pics /\ \A x \in stream'.pics : x[1] = h.poc
        BY <3>1
      <4> QED BY <4>1, OfMembers
    <3>3. CASE h.kind = "IDR"
      BY <1>2, <1>3, <3>1, <3>3 DEF AccessKnown, PocRandomAccess
    <3>4. CASE h.kind # "IDR"
      <4>1. m_pocRandomAccess = PlusInf /\ h.kind \in {"CRA", "GDR"}
        BY <1>0, <2>1, <3>4 DEF RefsInv, AccessKnown, StartsCvs, Anchors
      <4>2. m_pocRandomAccess' = h.poc
        BY <1>2, <3>4, <4>1 DEF PocRandomAccess
      <4>3. h.poc # MinusInf
        BY <1>0, Sentinels
      <4> QED BY <1>3, <3>1, <3>2, <4>2, <4>3 DEF AccessKnown
    <3> QED BY <3>3, <3>4
  <2>2. CASE ~StartsCvs(stream, h)
    <3>1. ~stream.fresh /\ h.kind # "IDR"
      BY <2>2 DEF StartsCvs
    <3>2. /\ stream'.starts = (stream.starts /\ h.kind \notin Anchors)
          /\ stream'.anchor = IF h.kind \in Anchors THEN h.kind ELSE stream.anchor
          /\ stream'.pics = PicsWith(stream, h)
      BY <1>0, <1>2, <2>2, FurtherPictureFacts
    <3>3. m_pocRandomAccess' = m_pocRandomAccess
      <4>1. \A c : Of(stream, {c}) \subseteq Poc
        BY <1>0 DEF Of, Stream
      <4>2. m_pocRandomAccess # PlusInf
        BY <3>1, <4>1, Sentinels DEF RefsInv, AccessKnown
      <4> QED BY <1>2, <3>1, <4>2 DEF PocRandomAccess
    <3>4. CASE h.kind \in Anchors
      <4>1. /\ Of(stream, {"anchor"}) \subseteq Of(stream', {"oldAnchor"})
            /\ Of(stream, {"oldAnchor"}) \subseteq Of(stream', {"oldAnchor"})
        <5>1. ASSUME NEW x \in stream.pics, x[2] \in {"anchor", "oldAnchor"}
              PROVE  <<x[1], "oldAnchor">> \in stream'.pics
          BY <3>2, <3>4, <5>1 DEF PicsWith
        <5>2. ASSUME NEW c \in {"anchor", "oldAnchor"}, NEW poc \in Of(stream, {c})
              PROVE  poc \in Of(stream', {"oldAnchor"})
          <6>1. PICK x \in stream.pics : x[2] \in {c} /\ x[1] = poc
            BY OfMembers
          <6>2. <<poc, "oldAnchor">> \in stream'.pics
            BY <5>1, <6>1
          <6> QED BY <6>2, OfMembers
        <5> QED BY <5>2
      <4> QED BY <1>3, <3>1, <3>2, <3>3, <3>4, <4>1 DEF RefsInv, AccessKnown
    <3>5. CASE h.kind \notin Anchors
      <4>1. \A c : Of(stream, {c}) \subseteq Of(stream', {c})
        BY <3>2, <3>5 DEF PicsWith, Of
      <4>2. stream'.starts = stream.starts /\ stream'.anchor = stream.anchor
        BY <1>0, <3>2, <3>5 DEF Stream
      <4> QED BY <1>3, <3>1, <3>3, <4>1, <4>2 DEF RefsInv, AccessKnown
    <3> QED BY <3>4, <3>5
  <2> QED BY <2>1, <2>2
<1>8. NewPicture(id) \in Picture /\ PocOf(NewPicture(id)) = h.poc
      /\ NewPicture(id).id = id /\ NewPicture(id).referenced
  BY <1>4 DEF NewPicture, Picture, PocOf
<1>9. m_cListPic' \subseteq Picture /\ ListKnown'
  <2>1. InProgress' /\ (\A p \in m_cListPic' : p = NewPicture(id) => IsCurrent(p)')
    BY <1>2, <1>8 DEF InProgress, IsCurrent
  <2>2. CASE StartsCvs(stream, h)
    <3>1. m_cListPic' = {NewPicture(id)}
      BY <2>2, FirstOfCvs
    <3>2. /\ stream'.dpb = {h.poc} /\ stream'.cvs = id[1]
          /\ stream'.pics = {<<h.poc, "anchor">>}
      BY <1>0, <1>2, <2>2, FirstPictureFacts
    <3>3. h.poc \in Used(stream')
      <4>1. <<h.poc, "anchor">> \in stream'.pics /\ "anchor" \in Classes
        BY <3>2 DEF Classes
      <4> QED BY <4>1, OfMembers DEF Used
    <3> QED BY <1>8, <2>1, <3>1, <3>2, <3>3 DEF ListKnown
  <2>3. CASE ~StartsCvs(stream, h)
    <3>1. /\ stream'.dpb = h.keep \cup {h.poc} /\ stream'.cvs = stream.cvs
          /\ id = <<stream.cvs, h.poc>>
          /\ stream'.pics = PicsWith(stream, h)
      BY <1>0, <1>2, <2>3, FurtherPictureFacts
    <3>2. Used(stream) \subseteq Used(stream') /\ h.poc \in Used(stream')
      BY <1>0, <1>3, <3>1, UsedWith
    <3>3. /\ m_cListPic' \subseteq Picture
          /\ NewPicture(id) \in m_cListPic'
          /\ \A p \in m_cListPic' : p # NewPicture(id) =>
               /\ p.id[1] = stream.cvs
               /\ PocOf(p) \in Used(stream)
               /\ PocOf(p) # h.poc
               /\ PocOf(p) \in h.keep => p.referenced /\ p.reconstructed
          /\ \A poc \in h.keep : \E p \in m_cListPic' : PocOf(p) = poc
      BY <2>3, <3>1, FurtherOfCvs
    <3>4. id[1] = stream.cvs
      BY <3>1
    <3> HIDE DEF id
    <3>5. ASSUME NEW p \in m_cListPic'
          PROVE  /\ p.id[1] = stream'.cvs /\ PocOf(p) \in Used(stream')
                 /\ PocOf(p) \in stream'.dpb =>
                      p.referenced /\ (p.reconstructed \/ (IsCurrent(p)' /\ InProgress'))
      BY <1>8, <2>1, <3>1, <3>2, <3>3, <3>4
    <3>6. \A poc \in stream'.dpb : \E p \in m_cListPic' : PocOf(p) = poc
      BY <1>8, <3>1, <3>3
    <3> QED BY <3>3, <3>5, <3>6 DEF ListKnown, IsCurrent
  <2> QED BY <2>2, <2>3
<1>10. HeaderKnown'
  <2>1. h.keep \subseteq stream'.dpb /\ h.poc \notin h.keep
    <3>1. CASE StartsCvs(stream, h)
      BY <1>0, <3>1 DEF MayFollow
    <3>2. CASE ~StartsCvs(stream, h)
      <4>1. h.keep \subseteq stream.dpb /\ h.poc \notin Used(stream)
        BY <1>0, <3>2 DEF MayFollow
      <4>2. stream.dpb \subseteq Used(stream)
        <5>1. ~stream.fresh
          BY <3>2 DEF StartsCvs
        <5> QED BY <1>1, <5>1 DEF RefsInv, ListKnown
      <4>3. stream'.dpb = h.keep \cup {h.poc}
        BY <1>0, <1>2, <3>2, FurtherPictureFacts
      <4> QED BY <4>1, <4>2, <4>3
    <3> QED BY <3>1, <3>2
  <2> QED BY <1>2, <1>5, <2>1 DEF HeaderKnown
<1>11. RefsTypeOK'
  <2>1. count' \in [pics : Nat, slices : Nat, eos : Nat, drops : Nat]
    <3>1. count \in [pics : Nat, slices : Nat, eos : Nat, drops : Nat]
      BY DEF RefsInv, RefsTypeOK
    <3>2. [count EXCEPT !.pics = @ + 1] \in [pics : Nat, slices : Nat, eos : Nat, drops : Nat]
      BY <3>1
    <3> QED BY <1>2, <3>2
  <2>2. /\ pc' \in {"look", "finish", "output", "flush", "done"}
        /\ isEosPresentInPu' \in BOOLEAN /\ isEosPresentInLastPu' \in BOOLEAN
    BY <1>2 DEF RefsInv, RefsTypeOK, eosFlags
  <2>3. /\ part' \in {"picture", "decoded", "skipped", "dropped", "eos"}
        /\ nalu' \in {"new", "slice", "EOS"}
        /\ pcSlice' \in Header \cup {NoSlice}
        /\ m_pcPic' \in PicId
    BY <1>2, <1>4, <1>5
  <2>4. {eof', bPicSkipped', isEosPresentInPu', isEosPresentInLastPu',
         m_bFirstSliceInPicture', m_firstSliceInSequence'} \subseteq BOOLEAN
    BY <1>2, <2>2
  <2> QED BY <1>3, <1>9, <2>1, <2>2, <2>3, <2>4 DEF RefsTypeOK
<1> QED BY <1>6, <1>7, <1>9, <1>10, <1>11 DEF RefsInv

-----------------------------------------------------------------------------
(***************************************************************************)
(* The other slices and NAL units.                                         *)
(***************************************************************************)
LEMMA CountedType ==
    ASSUME count \in [pics : Nat, slices : Nat, eos : Nat, drops : Nat],
           NEW field \in {"slices", "eos", "drops"}
    PROVE  /\ Counted(field) \in [pics : Nat, slices : Nat, eos : Nat, drops : Nat]
           /\ field # "eos" => Counted(field).eos = count.eos
           /\ field = "eos" => Counted(field).eos > 0
<1>1. Counted(field) = [count EXCEPT ![field] = count[field] + 1]
  BY DEF Counted
<1>2. field = "slices" \/ field = "eos" \/ field = "drops"
  OBVIOUS
<1>3. CASE field = "slices"
  BY <1>1, <1>3
<1>4. CASE field = "eos"
  BY <1>1, <1>4
<1>5. CASE field = "drops"
  BY <1>1, <1>5
<1> QED BY <1>2, <1>3, <1>4, <1>5

\* The list stays known when only what is output changes.
LEMMA SameListKnown ==
    ASSUME RefsInv, m_cListPic' = AfterPriorPics(m_cListPic, pcSlice),
           m_pcPic' = m_pcPic, InProgress => InProgress',
           stream' = stream, pc # "done"
    PROVE  m_cListPic' \subseteq Picture /\ ListKnown'
<1>1. m_cListPic \in SUBSET Picture
  BY DEF RefsInv, RefsTypeOK
<1>2. m_cListPic' \subseteq Picture
  BY <1>1, AfterPriorPicsKeeps
<1>3. \A p \in m_cListPic' : \E q \in m_cListPic :
        p.id = q.id /\ p.referenced = q.referenced /\ p.reconstructed = q.reconstructed
  BY <1>1, AfterPriorPicsKeeps
<1>4. \A q \in m_cListPic : \E p \in m_cListPic' : p.id = q.id
  BY <1>1, AfterPriorPicsKeeps
<1>5. CASE stream.fresh
  BY <1>2, <1>5 DEF ListKnown
<1>6. CASE ~stream.fresh
  <2>1. /\ \A p \in m_cListPic : p.id[1] = stream.cvs /\ PocOf(p) \in Used(stream)
        /\ \A poc \in stream.dpb : \E p \in m_cListPic : PocOf(p) = poc
        /\ \A p \in m_cListPic : PocOf(p) \in stream.dpb =>
             p.referenced /\ (p.reconstructed \/ (p.id = m_pcPic /\ InProgress))
    BY <1>6 DEF RefsInv, ListKnown, IsCurrent
  <2>2. \A p \in m_cListPic' : p.id[1] = stream.cvs /\ PocOf(p) \in Used(stream)
    BY <1>3, <2>1 DEF PocOf
  <2>3. \A poc \in stream.dpb : \E p \in m_cListPic' : PocOf(p) = poc
    BY <1>4, <2>1 DEF PocOf
  <2>4. \A p \in m_cListPic' : PocOf(p) \in stream.dpb =>
          p.referenced /\ (p.reconstructed \/ (p.id = m_pcPic' /\ InProgress'))
    BY <1>3, <2>1 DEF PocOf
  <2> QED BY <1>2, <2>2, <2>3, <2>4 DEF ListKnown, IsCurrent
<1> QED BY <1>5, <1>6

LEMMA DecodeNextSliceInv ==
    ASSUME RefsInv, NEW last \in BOOLEAN, DecodeNextSlice(last)
    PROVE  RefsInv'
<1>1. /\ pc = "look" /\ part = "decoded" /\ part' = part /\ stream' = stream
      /\ pc' \in {"finish", "output"} /\ nalu' = "slice" /\ eof' = last
      /\ m_cListPic' = AfterPriorPics(m_cListPic, pcSlice)
      /\ pcSlice' = [pcSlice EXCEPT !.output = PicOutputFlag(pcSlice)]
      /\ count' = Counted("slices")
      /\ UNCHANGED <<m_pcPic, m_bFirstSliceInPicture, firstFlags, skipFlags, eosFlags,
                     m_pocRandomAccess>>
  BY DEF DecodeNextSlice, EndsPass
<1>2. /\ count' \in [pics : Nat, slices : Nat, eos : Nat, drops : Nat]
      /\ count'.eos = count.eos
  BY <1>1, CountedType DEF RefsInv, RefsTypeOK
<1>3. m_cListPic' \subseteq Picture /\ ListKnown'
  <2>1. InProgress => InProgress'
    BY <1>1 DEF InProgress, firstFlags, skipFlags
  <2> QED BY <1>1, <2>1, SameListKnown
<1>4. pcSlice' \in Header \cup {NoSlice} /\ pcSlice'.keep = pcSlice.keep
  <2>1. pcSlice \in Header \/ pcSlice = NoSlice
    BY DEF RefsInv, RefsTypeOK
  <2>2. PicOutputFlag(pcSlice) \in BOOLEAN
    BY <2>1 DEF PicOutputFlag, Header, NoSlice
  <2>3. CASE pcSlice \in Header
    BY <1>1, <2>2, <2>3 DEF Header
  <2>4. CASE pcSlice = NoSlice
    <3>1. PicOutputFlag(pcSlice) = FALSE
      BY <2>4 DEF PicOutputFlag, NoSlice
    <3> QED BY <1>1, <2>4, <3>1 DEF NoSlice
  <2> QED BY <2>1, <2>3, <2>4
<1>5. HeaderKnown'
  BY <1>1, <1>4 DEF RefsInv, HeaderKnown
<1>6. EosKnown'
  BY <1>1, <1>2 DEF RefsInv, EosKnown, eosFlags
<1>7. AccessKnown'
  BY <1>1 DEF RefsInv, AccessKnown
<1>8. RefsTypeOK'
  BY <1>1, <1>2, <1>3, <1>4 DEF RefsInv, RefsTypeOK, firstFlags, skipFlags, eosFlags
<1> QED BY <1>3, <1>5, <1>6, <1>7, <1>8 DEF RefsInv

\* A skipped picture only happens where nothing is in progress.
LEMMA SkipFirstSliceInv ==
    ASSUME RefsInv, NEW h \in Followers(stream), NEW last \in BOOLEAN,
           SkipFirstSlice(h, last)
    PROVE  RefsInv'
<1>0. /\ stream \in Stream /\ h \in Header
      /\ ~StartsCvs(stream, h) /\ Undecodable(stream, h)
  BY FollowersType, SkipsUndecodable DEF RefsInv, RefsTypeOK, SkipFirstSlice
<1>1. /\ pc = "look" /\ part \in {"picture", "skipped"} /\ m_bFirstSliceInPicture
      /\ part' = "skipped" /\ stream' = Coded(stream, h)
      /\ pc' \in {"finish", "output"} /\ nalu' = "slice" /\ eof' = last
      /\ bPicSkipped' = TRUE
      /\ m_cListPic' = AfterPriorPics(m_cListPic, h)
      /\ count' = [[count EXCEPT !.pics = @ + 1] EXCEPT !.slices = 1]
      /\ UNCHANGED <<m_pcPic, m_bFirstSliceInPicture, firstFlags, eosFlags,
                     m_pocRandomAccess, pcSlice>>
  BY DEF SkipFirstSlice, ReadsFirstSlice, EndsPass, Counted
<1>2. /\ count' \in [pics : Nat, slices : Nat, eos : Nat, drops : Nat]
      /\ count'.eos = count.eos
  <2>1. count \in [pics : Nat, slices : Nat, eos : Nat, drops : Nat]
    BY DEF RefsInv, RefsTypeOK
  <2>2. [count EXCEPT !.pics = @ + 1] \in [pics : Nat, slices : Nat, eos : Nat, drops : Nat]
    BY <2>1
  <2> QED BY <1>1, <2>1, <2>2
<1>3. /\ stream' \in Stream /\ stream'.fresh = stream.fresh /\ stream'.cvs = stream.cvs
      /\ stream'.starts = stream.starts /\ stream'.anchor = stream.anchor
      /\ stream'.dpb = stream.dpb /\ stream'.pics = PicsWith(stream, h)
  BY <1>0, <1>1, UndecodableFacts DEF Stream
<1>4. ~stream.fresh /\ h.kind = "RASL" /\ stream.starts
  BY <1>0 DEF StartsCvs, Undecodable
<1>5. EosKnown'
  BY <1>1, <1>2, <1>3, <1>4 DEF RefsInv, EosKnown, eosFlags
<1>6. AccessKnown'
  <2>1. \A c : Of(stream, {c}) \subseteq Of(stream', {c})
    BY <1>3, <1>4 DEF PicsWith, Of, Anchors
  <2> QED BY <1>1, <1>3, <1>4, <2>1 DEF RefsInv, AccessKnown
<1>7. m_cListPic' \subseteq Picture /\ ListKnown'
  <2>1. m_cListPic \in SUBSET Picture
    BY DEF RefsInv, RefsTypeOK
  <2>2. /\ m_cListPic' \subseteq Picture
        /\ \A p \in m_cListPic' : \E q \in m_cListPic :
             p.id = q.id /\ p.referenced = q.referenced /\ p.reconstructed = q.reconstructed
        /\ \A q \in m_cListPic : \E p \in m_cListPic' : p.id = q.id
    BY <1>1, <2>1, AfterPriorPicsKeeps
  <2>3. Used(stream) \subseteq Used(stream')
    BY <1>0, <1>3, UsedWith
  <2>4. /\ \A p \in m_cListPic : p.id[1] = stream.cvs /\ PocOf(p) \in Used(stream)
        /\ \A poc \in stream.dpb : \E p \in m_cListPic : PocOf(p) = poc
        /\ \A p \in m_cListPic : PocOf(p) \in stream.dpb => p.referenced /\ p.reconstructed
    BY <1>1, <1>4 DEF RefsInv, ListKnown, InProgress
  <2>5. \A p \in m_cListPic' : p.id[1] = stream'.cvs /\ PocOf(p) \in Used(stream')
    BY <1>3, <2>2, <2>3, <2>4 DEF PocOf
  <2>6. \A poc \in stream'.dpb : \E p \in m_cListPic' : PocOf(p) = poc
    BY <1>3, <2>2, <2>4 DEF PocOf
  <2>7. \A p \in m_cListPic' : PocOf(p) \in stream'.dpb => p.referenced /\ p.reconstructed
    BY <1>3, <2>2, <2>4 DEF PocOf
  <2> QED BY <2>2, <2>5, <2>6, <2>7 DEF ListKnown
<1>8. HeaderKnown'
  BY <1>1 DEF HeaderKnown
<1>9. RefsTypeOK'
  BY <1>1, <1>2, <1>3, <1>7 DEF RefsInv, RefsTypeOK, firstFlags, eosFlags
<1> QED BY <1>5, <1>6, <1>7, <1>8, <1>9 DEF RefsInv

LEMMA SkipNextSliceInv ==
    ASSUME RefsInv, NEW last \in BOOLEAN, SkipNextSlice(last)
    PROVE  RefsInv'
<1>1. /\ pc = "look" /\ part = "skipped" /\ part' = part /\ stream' = stream
      /\ pc' \in {"finish", "output"} /\ nalu' = "slice" /\ eof' = last
      /\ count' = Counted("slices")
      /\ UNCHANGED <<m_cListPic, m_pcPic, m_bFirstSliceInPicture, firstFlags, skipFlags,
                     eosFlags, m_pocRandomAccess, pcSlice>>
  BY DEF SkipNextSlice, EndsPass
<1>2. /\ count' \in [pics : Nat, slices : Nat, eos : Nat, drops : Nat]
      /\ count'.eos = count.eos
  BY <1>1, CountedType DEF RefsInv, RefsTypeOK
<1>3. EosKnown'
  BY <1>1, <1>2 DEF RefsInv, EosKnown, eosFlags
<1>4. AccessKnown' /\ HeaderKnown'
  BY <1>1 DEF RefsInv, AccessKnown, HeaderKnown
<1>5. ListKnown'
  BY <1>1 DEF RefsInv, ListKnown, InProgress, IsCurrent
<1>6. RefsTypeOK'
  BY <1>1, <1>2 DEF RefsInv, RefsTypeOK, firstFlags, skipFlags, eosFlags
<1> QED BY <1>3, <1>4, <1>5, <1>6 DEF RefsInv

LEMMA DropSliceInv ==
    ASSUME RefsInv, NEW last \in BOOLEAN, DropSlice(last)
    PROVE  RefsInv'
<1>1. /\ pc = "look" /\ part \in {"picture", "skipped"} /\ m_bFirstSliceInPicture
      /\ ~stream.fresh /\ part' = "dropped" /\ stream' = stream
      /\ pc' \in {"finish", "output"} /\ nalu' = "slice" /\ eof' = last
      /\ bPicSkipped' = TRUE /\ m_bFirstSliceInPicture' = FALSE
      /\ count' = Counted("drops")
      /\ UNCHANGED <<m_cListPic, m_pcPic, firstFlags, eosFlags, m_pocRandomAccess, pcSlice>>
  BY DEF DropSlice, ReadsFirstSlice, EndsPass
<1>2. /\ count' \in [pics : Nat, slices : Nat, eos : Nat, drops : Nat]
      /\ count'.eos = count.eos
  BY <1>1, CountedType DEF RefsInv, RefsTypeOK
<1>3. EosKnown'
  BY <1>1, <1>2 DEF RefsInv, EosKnown, eosFlags
<1>4. AccessKnown' /\ HeaderKnown'
  BY <1>1 DEF RefsInv, AccessKnown, HeaderKnown
<1>5. ListKnown'
  BY <1>1 DEF RefsInv, ListKnown, InProgress, IsCurrent
<1>6. RefsTypeOK'
  BY <1>1, <1>2 DEF RefsInv, RefsTypeOK, firstFlags, eosFlags
<1> QED BY <1>3, <1>4, <1>5, <1>6 DEF RefsInv

LEMMA DecodeEosInv ==
    ASSUME RefsInv, NEW last \in BOOLEAN, DecodeEos(last)
    PROVE  RefsInv'
<1>1. /\ pc = "look" /\ pc' = "finish" /\ part' = "eos" /\ nalu' = "EOS" /\ eof' = last
      /\ stream' = [stream EXCEPT !.fresh = TRUE]
      /\ isEosPresentInPu' = TRUE /\ isEosPresentInLastPu' = isEosPresentInLastPu
      /\ m_pocRandomAccess' = PlusInf
      /\ count' = Counted("eos")
      /\ UNCHANGED <<m_cListPic, m_pcPic, m_bFirstSliceInPicture, firstFlags, skipFlags, pcSlice>>
  BY DEF DecodeEos
<1>2. stream' \in Stream /\ stream'.fresh
  BY <1>1 DEF RefsInv, RefsTypeOK, Stream
<1>3. /\ count' \in [pics : Nat, slices : Nat, eos : Nat, drops : Nat]
      /\ count'.eos > 0
  BY <1>1, CountedType DEF RefsInv, RefsTypeOK
<1>4. EosKnown'
  BY <1>1, <1>2, <1>3 DEF EosKnown
<1>5. AccessKnown' /\ HeaderKnown' /\ ListKnown'
  BY <1>1, <1>2 DEF AccessKnown, HeaderKnown, ListKnown
<1>6. RefsTypeOK'
  BY <1>1, <1>2, <1>3 DEF RefsInv, RefsTypeOK, firstFlags, skipFlags
<1> QED BY <1>4, <1>5, <1>6 DEF RefsInv

LEMMA LookAheadInv == ASSUME RefsInv, LookAhead PROVE RefsInv'
<1>1. /\ pc = "look" /\ ~eof /\ part \in {"decoded", "dropped", "eos"}
      /\ part' = "picture" /\ pc' = "finish" /\ nalu' = "new"
      /\ UNCHANGED <<stream, eof, count, m_cListPic, m_pcPic, m_bFirstSliceInPicture,
                     firstFlags, skipFlags, eosFlags, m_pocRandomAccess, pcSlice>>
  BY DEF LookAhead
<1>2. EosKnown'
  BY <1>1 DEF RefsInv, EosKnown, eosFlags
<1>3. AccessKnown' /\ HeaderKnown'
  BY <1>1 DEF RefsInv, AccessKnown, HeaderKnown
<1>4. ListKnown'
  BY <1>1 DEF RefsInv, ListKnown, InProgress, IsCurrent, firstFlags, skipFlags
<1>5. RefsTypeOK'
  BY <1>1 DEF RefsInv, RefsTypeOK, firstFlags, skipFlags, eosFlags
<1> QED BY <1>2, <1>3, <1>4, <1>5 DEF RefsInv

-----------------------------------------------------------------------------
(***************************************************************************)
(* The rest of the pass.                                                   *)
(***************************************************************************)
\* Finishing completes the current picture.
LEMMA FinishedKeeps ==
    ASSUME NEW list \in SUBSET Picture, pcSlice \in Header \cup {NoSlice}
    PROVE  /\ Finished(list) \subseteq Picture
           /\ \A q \in Finished(list) : \E p \in list :
                 /\ q.id = p.id /\ q.referenced = p.referenced
                 /\ p.reconstructed \/ IsCurrent(p) => q.reconstructed
           /\ \A p \in list : \E q \in Finished(list) : q.id = p.id
<1> DEFINE shown == pcSlice.output /\ ~(m_newCLVS /\ pcSlice.kind = "RASL")
           new(p) == IF IsCurrent(p)
                     THEN [p EXCEPT !.neededForOutput = shown, !.reconstructed = TRUE]
                     ELSE p
<1>1. shown \in BOOLEAN
  OBVIOUS
<1>2. ASSUME NEW p \in list
      PROVE  /\ new(p) \in Picture
             /\ new(p).id = p.id /\ new(p).referenced = p.referenced
             /\ p.reconstructed \/ IsCurrent(p) => new(p).reconstructed
  <2> HIDE DEF shown
  <2>1. p \in Picture
    OBVIOUS
  <2>2. CASE IsCurrent(p)
    BY <1>1, <2>1, <2>2 DEF Picture
  <2>3. CASE ~IsCurrent(p)
    BY <2>1, <2>3
  <2> QED BY <2>2, <2>3
<1>3. Finished(list) = {new(p) : p \in list}
  BY DEF Finished
<1> HIDE DEF new
<1> QED BY <1>2, <1>3

LEMMA FinishBlockInv == ASSUME RefsInv, FinishBlock PROVE RefsInv'
<1>1. /\ pc = "finish" /\ pc' = "output"
      /\ UNCHANGED <<stream, part, eof, count, nalu, skipFlags, eosFlags, m_pcPic,
                     m_pocRandomAccess, pcSlice>>
  BY DEF FinishBlock, bitstream
<1>2. EosKnown'
  BY <1>1 DEF RefsInv, EosKnown, eosFlags
<1>3. AccessKnown' /\ HeaderKnown'
  BY <1>1 DEF RefsInv, AccessKnown, HeaderKnown
<1>4. /\ m_bFirstSliceInPicture' \in BOOLEAN /\ m_firstSliceInSequence' \in BOOLEAN
  BY DEF FinishBlock, RefsInv, RefsTypeOK
<1>5. m_cListPic' \subseteq Picture /\ ListKnown'
  <2>0. m_cListPic \in SUBSET Picture /\ pcSlice \in Header \cup {NoSlice}
    BY DEF RefsInv, RefsTypeOK
  <2>1. stream.fresh \/
          /\ \A p \in m_cListPic : p.id[1] = stream.cvs /\ PocOf(p) \in Used(stream)
          /\ \A poc \in stream.dpb : \E p \in m_cListPic : PocOf(p) = poc
          /\ \A p \in m_cListPic : PocOf(p) \in stream.dpb =>
               p.referenced /\ (p.reconstructed \/ (IsCurrent(p) /\ InProgress))
    BY <1>1 DEF RefsInv, ListKnown
  <2>2. CASE m_cListPic' = Finished(m_cListPic)
    <3>1. /\ m_cListPic' \subseteq Picture
          /\ \A q \in m_cListPic' : \E p \in m_cListPic :
                /\ q.id = p.id /\ q.referenced = p.referenced
                /\ p.reconstructed \/ IsCurrent(p) => q.reconstructed
          /\ \A p \in m_cListPic : \E q \in m_cListPic' : q.id = p.id
      BY <2>0, <2>2, FinishedKeeps
    <3>2. CASE ~stream.fresh
      <4>1. \A q \in m_cListPic' : q.id[1] = stream.cvs /\ PocOf(q) \in Used(stream)
        BY <2>1, <3>1, <3>2 DEF PocOf
      <4>2. \A poc \in stream.dpb : \E q \in m_cListPic' : PocOf(q) = poc
        BY <2>1, <3>1, <3>2 DEF PocOf
      <4>3. \A q \in m_cListPic' : PocOf(q) \in stream.dpb => q.referenced /\ q.reconstructed
        BY <2>1, <3>1, <3>2 DEF PocOf
      <4> QED BY <1>1, <3>1, <4>1, <4>2, <4>3 DEF ListKnown
    <3> QED BY <1>1, <3>1, <3>2 DEF ListKnown
  <2>3. CASE m_cListPic' = m_cListPic
    <3>1. CASE InProgress
      <4>1. Finishes /\ m_cListPic' # Finished(m_cListPic) => InProgress'
        <5>1. SUFFICES ASSUME Finishes, m_cListPic' # Finished(m_cListPic)
                       PROVE  InProgress'
          OBVIOUS
        <5>2. /\ eof /\ m_bFirstSliceInPicture' = m_bFirstSliceInPicture
              /\ m_firstSliceInSequence' = (nalu = "EOS")
          BY <5>1 DEF FinishBlock
        <5>3. part = "decoded" /\ nalu # "EOS"
          BY <1>1, <3>1, <5>2 DEF InProgress, RefsInv, EosKnown
        <5> QED BY <1>1, <3>1, <5>2, <5>3 DEF InProgress, skipFlags
      <4>2. Finishes
        BY <3>1 DEF InProgress, Finishes
      <4> QED BY <1>1, <2>0, <2>1, <2>2, <2>3, <4>1, <4>2 DEF ListKnown, IsCurrent
    <3>2. CASE ~InProgress
      BY <1>1, <2>0, <2>1, <2>3, <3>2 DEF ListKnown
    <3> QED BY <3>1, <3>2
  <2> QED BY <2>2, <2>3 DEF FinishBlock
<1>6. RefsTypeOK'
  BY <1>1, <1>4, <1>5 DEF RefsInv, RefsTypeOK, skipFlags, eosFlags
<1> QED BY <1>2, <1>3, <1>5, <1>6 DEF RefsInv

\* Writing pictures keeps the reference pictures.
LEMMA WrittenKeeps ==
    ASSUME m_cListPic \subseteq Picture, xWriteOutput(Suppressed(m_cListPic))
    PROVE  /\ m_cListPic' \subseteq Picture
           /\ \A q \in m_cListPic' : \E p \in m_cListPic :
                 /\ q.id = p.id /\ q.referenced = p.referenced
                 /\ p.referenced => q.reconstructed = p.reconstructed
           /\ \A p \in m_cListPic : \E q \in m_cListPic' : q.id = p.id
<1> DEFINE list == Suppressed(m_cListPic)
           out  == ToOutput(list, m_iPOCLastDisplay)
           new(p) == IF p \in out THEN Released(p) ELSE p
<1>1. /\ list \subseteq Picture
      /\ \A q \in list : \E p \in m_cListPic :
           q.id = p.id /\ q.referenced = p.referenced /\ q.reconstructed = p.reconstructed
      /\ \A p \in m_cListPic : \E q \in list : q.id = p.id
  <2>1. CASE gdrRecoveryPeriod
    <3>1. list = {[p EXCEPT !.neededForOutput = FALSE] : p \in m_cListPic}
      BY <2>1 DEF Suppressed
    <3>2. \A p \in m_cListPic :
            /\ [p EXCEPT !.neededForOutput = FALSE] \in Picture
            /\ [p EXCEPT !.neededForOutput = FALSE].id = p.id
            /\ [p EXCEPT !.neededForOutput = FALSE].referenced = p.referenced
            /\ [p EXCEPT !.neededForOutput = FALSE].reconstructed = p.reconstructed
      BY DEF Picture
    <3> QED BY <3>1, <3>2
  <2>2. CASE ~gdrRecoveryPeriod
    BY <2>2 DEF Suppressed
  <2> QED BY <2>1, <2>2
<1> HIDE DEF list
<1>2. ASSUME NEW p \in list
      PROVE  /\ new(p) \in Picture
             /\ new(p).id = p.id /\ new(p).referenced = p.referenced
             /\ p.referenced => new(p).reconstructed = p.reconstructed
  <2> HIDE DEF out
  <2>1. p \in Picture
    BY <1>1
  <2>2. /\ Released(p) \in Picture
        /\ Released(p).id = p.id /\ Released(p).referenced = p.referenced
        /\ p.referenced => Released(p).reconstructed = p.reconstructed
    <3>1. (p.reconstructed /\ p.referenced) \in BOOLEAN
      OBVIOUS
    <3>2. p.referenced => (p.reconstructed /\ p.referenced) = p.reconstructed
      BY <2>1 DEF Picture
    <3> DEFINE rec == p.reconstructed /\ p.referenced
    <3>3. Released(p) = [p EXCEPT !.neededForOutput = FALSE, !.reconstructed = rec]
      BY DEF Released
    <3> HIDE DEF rec
    <3> QED BY <2>1, <3>1, <3>2, <3>3 DEF Picture, rec
  <2> QED BY <2>1, <2>2
<1>3. m_cListPic' = {new(p) : p \in list}
  BY DEF xWriteOutput, list
<1> HIDE DEF new
<1> QED BY <1>1, <1>2, <1>3

LEMMA OutputBlockInv == ASSUME RefsInv, OutputBlock PROVE RefsInv'
<1>1. /\ pc = "output" /\ pc' = IF eof THEN "flush" ELSE "look"
      /\ xWriteOutput(Suppressed(m_cListPic))
      /\ m_bFirstSliceInPicture' = (m_bFirstSliceInPicture /\ nalu # "EOS")
      /\ nalu = "new" => isEosPresentInLastPu' = isEosPresentInPu /\ isEosPresentInPu' = FALSE
      /\ nalu # "new" => UNCHANGED eosFlags
      /\ UNCHANGED <<stream, part, eof, count, nalu, skipFlags, firstFlags, m_pcPic,
                     m_pocRandomAccess, pcSlice>>
  BY DEF OutputBlock, bitstream
<1>2. EosKnown'
  BY <1>1 DEF RefsInv, EosKnown, eosFlags
<1>3. AccessKnown' /\ HeaderKnown'
  BY <1>1 DEF RefsInv, AccessKnown, HeaderKnown
<1>4. m_cListPic' \subseteq Picture /\ ListKnown'
  <2>1. /\ m_cListPic' \subseteq Picture
        /\ \A q \in m_cListPic' : \E p \in m_cListPic :
              /\ q.id = p.id /\ q.referenced = p.referenced
              /\ p.referenced => q.reconstructed = p.reconstructed
        /\ \A p \in m_cListPic : \E q \in m_cListPic' : q.id = p.id
    BY <1>1, WrittenKeeps DEF RefsInv, RefsTypeOK
  <2>2. CASE ~stream.fresh
    <3>1. /\ \A p \in m_cListPic : p.id[1] = stream.cvs /\ PocOf(p) \in Used(stream)
          /\ \A poc \in stream.dpb : \E p \in m_cListPic : PocOf(p) = poc
          /\ \A p \in m_cListPic : PocOf(p) \in stream.dpb =>
               p.referenced /\ (p.reconstructed \/ (p.id = m_pcPic /\ InProgress))
      BY <1>1, <2>2 DEF RefsInv, ListKnown, IsCurrent
    <3>2. InProgress => InProgress'
      BY <1>1 DEF InProgress, skipFlags, firstFlags
    <3>3. \A q \in m_cListPic' : q.id[1] = stream.cvs /\ PocOf(q) \in Used(stream)
      BY <2>1, <3>1 DEF PocOf
    <3>4. \A poc \in stream.dpb : \E q \in m_cListPic' : PocOf(q) = poc
      BY <2>1, <3>1 DEF PocOf
    <3>5. \A q \in m_cListPic' : PocOf(q) \in stream.dpb =>
            q.referenced /\ (q.reconstructed \/ (q.id = m_pcPic' /\ InProgress'))
      BY <1>1, <2>1, <3>1, <3>2 DEF PocOf
    <3> QED BY <1>1, <2>1, <3>3, <3>4, <3>5 DEF ListKnown, IsCurrent
  <2> QED BY <1>1, <2>1, <2>2 DEF ListKnown
<1>5. {isEosPresentInPu', isEosPresentInLastPu', m_bFirstSliceInPicture'} \subseteq BOOLEAN
  BY <1>1 DEF RefsInv, RefsTypeOK, eosFlags
<1>6. RefsTypeOK'
  BY <1>1, <1>4, <1>5 DEF RefsInv, RefsTypeOK, skipFlags, firstFlags
<1> QED BY <1>2, <1>3, <1>4, <1>6 DEF RefsInv

LEMMA FlushInv == ASSUME RefsInv, Flush PROVE RefsInv'
<1>1. /\ pc = "flush" /\ pc' = "done" /\ m_cListPic' = {}
      /\ UNCHANGED <<stream, part, eof, count, nalu, skipFlags, firstFlags, eosFlags, m_pcPic,
                     m_bFirstSliceInPicture, m_pocRandomAccess, pcSlice>>
  BY DEF Flush, bitstream
<1>2. EosKnown' /\ AccessKnown'
  BY <1>1 DEF RefsInv, EosKnown, AccessKnown, eosFlags
<1>3. ListKnown' /\ HeaderKnown'
  BY <1>1 DEF ListKnown, HeaderKnown
<1>4. RefsTypeOK'
  BY <1>1 DEF RefsInv, RefsTypeOK, skipFlags, firstFlags, eosFlags
<1> QED BY <1>2, <1>3, <1>4 DEF RefsInv

-----------------------------------------------------------------------------
(***************************************************************************)
(* The invariant holds.                                                    *)
(***************************************************************************)
LEMMA InitRefs == Init => RefsInv
<1> SUFFICES ASSUME Init PROVE RefsInv
  OBVIOUS
<1>1. EmptyStream \in Stream
  BY DEF EmptyStream, Stream, Anchors
<1>2. NoPic \in PicId
  BY StreamAssumption DEF NoPic, PicId, Poc
<1>3. count \in [pics : Nat, slices : Nat, eos : Nat, drops : Nat]
  BY DEF Init
<1>4. RefsTypeOK
  BY <1>1, <1>2, <1>3 DEF Init, RefsTypeOK
<1>5. EosKnown /\ AccessKnown /\ ListKnown /\ HeaderKnown
  BY DEF Init, EosKnown, AccessKnown, ListKnown, HeaderKnown, EmptyStream
<1> QED BY <1>4, <1>5 DEF RefsInv

LEMMA NextRefs ==
    ASSUME RefsInv, "gdrAfterEos" \notin Allow, [Next]_vars
    PROVE  RefsInv'
<1>1. ASSUME NEW last \in BOOLEAN, ReadNal(last)
      PROVE  RefsInv'
  <2>1. ASSUME NEW h \in Followers(stream), DecodeFirstSlice(h, last)
        PROVE  RefsInv'
    BY <2>1, DecodeFirstSliceInv
  <2>2. ASSUME NEW h \in Followers(stream), SkipFirstSlice(h, last)
        PROVE  RefsInv'
    BY <2>2, SkipFirstSliceInv
  <2> QED BY <1>1, <2>1, <2>2, SkipNextSliceInv, DecodeNextSliceInv, DropSliceInv,
             DecodeEosInv DEF ReadNal
<1>2. CASE UNCHANGED vars
  <2>1. UNCHANGED <<stream, part, eof, count, pc, nalu, skipFlags, firstFlags, eosFlags,
                    m_cListPic, m_pcPic, m_bFirstSliceInPicture, m_pocRandomAccess, pcSlice>>
    BY <1>2 DEF vars, bitstream
  <2>2. RefsTypeOK'
    BY <2>1 DEF RefsInv, RefsTypeOK, skipFlags, firstFlags, eosFlags
  <2>3. EosKnown' /\ AccessKnown' /\ HeaderKnown'
    BY <2>1 DEF RefsInv, EosKnown, AccessKnown, HeaderKnown, eosFlags
  <2>4. ListKnown'
    BY <2>1 DEF RefsInv, ListKnown, InProgress, IsCurrent, skipFlags, firstFlags
  <2> QED BY <2>2, <2>3, <2>4 DEF RefsInv
<1> QED BY <1>1, <1>2, LookAheadInv, FinishBlockInv, OutputBlockInv, FlushInv DEF Next

\* The references of the picture that is decoded are reference pictures of the
\* stream other than the picture itself.
LEMMA RefsFollow == RefsInv => RefsPresent
<1> SUFFICES ASSUME RefsInv, Decoding, NEW poc \in pcSlice.keep
             PROVE  /\ \E p \in m_cListPic : PocOf(p) = poc
                    /\ \A p \in m_cListPic : PocOf(p) = poc =>
                          p.id[1] = stream.cvs /\ p.reconstructed /\ p.referenced
  BY DEF RefsPresent
<1>1. ~stream.fresh /\ pc # "done" /\ poc \in stream.dpb /\ m_pcPic[2] # poc
  BY DEF Decoding, RefsInv, EosKnown, HeaderKnown
<1>2. \E p \in m_cListPic : PocOf(p) = poc
  BY <1>1 DEF RefsInv, ListKnown
<1>3. ASSUME NEW p \in m_cListPic, PocOf(p) = poc
      PROVE  p.id[1] = stream.cvs /\ p.reconstructed /\ p.referenced
  BY <1>1, <1>3 DEF RefsInv, ListKnown, IsCurrent, PocOf
<1> QED BY <1>2, <1>3

\* While a picture is decoded each picture its slices refer to is in the list,
\* belongs to the same CVS, is complete and is still marked, in every stream
\* without a GDR picture after an EOS (xDecodeSlice, xGetNewPicBuffer,
\* xWriteOutput, xFlushOutput).
THEOREM ReferencesPresent ==
    ASSUME "gdrAfterEos" \notin Allow
    PROVE  Spec => []RefsPresent
<1>1. RefsInv /\ [Next]_vars => RefsInv'
  BY NextRefs
<1> QED BY <1>1, InitRefs, RefsFollow, PTL DEF Spec

\* Whatever picture comes next, the decoder skips it exactly when it is a RASL
\* picture whose references are not there (isRandomAccessSkipPicture).
SkipsExactly ==
    \A h \in Followers(stream) :
        RandomAccessSkip(h) <=> ~StartsCvs(stream, h) /\ Undecodable(stream, h)

\* Random access skips no picture too many and none too few, in every stream
\* without a GDR picture after an EOS.
THEOREM SkipsOnlyUndecodable ==
    ASSUME "gdrAfterEos" \notin Allow
    PROVE  Spec => []SkipsExactly
<1>1. RefsInv /\ [Next]_vars => RefsInv'
  BY NextRefs
<1>2. RefsInv => SkipsExactly
  BY SkipsUndecodable DEF RefsInv, RefsTypeOK, SkipsExactly
<1> QED BY <1>1, <1>2, InitRefs, PTL DEF Spec

-----------------------------------------------------------------------------
(***************************************************************************)
(* Counting: images, and the rank of an element in a strict order.         *)
(***************************************************************************)
\* A function of a finite set has no more values than the set has elements,
\* and as many if it is injective.
LEMMA ImageCount ==
    ASSUME NEW S, IsFiniteSet(S), NEW T, NEW f \in [S -> T]
    PROVE  /\ IsFiniteSet({f[x] : x \in S})
           /\ Cardinality({f[x] : x \in S}) <= Cardinality(S)
           /\ (\A x, y \in S : f[x] = f[y] => x = y)
                => Cardinality({f[x] : x \in S}) = Cardinality(S)
<1> DEFINE I == {f[x] : x \in S}
<1>1. f \in Surjection(S, I)
  BY DEF Surjection
<1>2. (\A x, y \in S : f[x] = f[y] => x = y) => f \in Injection(S, I)
  BY DEF Injection, IsInjective
<1> HIDE DEF I
<1>3. IsFiniteSet(I) /\ Cardinality(I) <= Cardinality(S)
      /\ (Cardinality(I) = Cardinality(S) <=> f \in Injection(S, I))
  BY <1>1, FS_Surjection
<1> QED BY <1>2, <1>3 DEF I

\* In a finite set with a strict order each rank is that of one element.
LEMMA Ranking ==
    ASSUME NEW S, IsFiniteSet(S), NEW R,
           \A x, y \in S : x # y => <<x, y>> \in R \/ <<y, x>> \in R,
           \A x \in S : <<x, x>> \notin R,
           \A x, y, z \in S : <<x, y>> \in R /\ <<y, z>> \in R => <<x, z>> \in R
    PROVE  \A n \in 1..Cardinality(S) : \E x \in S :
              /\ Cardinality({y \in S : <<y, x>> \in R}) = n - 1
              /\ \A z \in S : Cardinality({y \in S : <<y, z>> \in R}) = n - 1 => z = x
<1> DEFINE Below(x) == {y \in S : <<y, x>> \in R}
           N == Cardinality(S)
           rank == [x \in S |-> Cardinality(Below(x))]
<1>1. N \in Nat
  BY FS_CardinalityType
<1>2. ASSUME NEW x \in S
      PROVE  IsFiniteSet(Below(x)) /\ rank[x] \in 0..(N - 1)
  <2>1. IsFiniteSet(Below(x)) /\ Cardinality(Below(x)) <= N
          /\ (N = Cardinality(Below(x)) => S = Below(x))
    BY FS_Subset
  <2>2. x \notin Below(x)
    OBVIOUS
  <2>3. Cardinality(Below(x)) # N
    BY <2>1, <2>2
  <2>4. Cardinality(Below(x)) \in Nat
    BY <2>1, FS_CardinalityType
  <2> HIDE DEF Below, N
  <2> QED BY <1>1, <2>1, <2>3, <2>4
<1>3. ASSUME NEW x \in S, NEW y \in S, <<x, y>> \in R
      PROVE  rank[x] < rank[y]
  <2>1. Below(x) \subseteq Below(y) /\ x \in Below(y) /\ x \notin Below(x)
    BY <1>3
  <2>2. IsFiniteSet(Below(y)) /\ IsFiniteSet(Below(x))
    BY <1>2
  <2>3. /\ Cardinality(Below(x)) <= Cardinality(Below(y))
        /\ Cardinality(Below(y)) = Cardinality(Below(x)) => Below(y) = Below(x)
    <3> HIDE DEF Below
    <3> QED BY <2>1, <2>2, FS_Subset
  <2>4. Cardinality(Below(x)) \in Nat /\ Cardinality(Below(y)) \in Nat
    BY <2>2, FS_CardinalityType
  <2> HIDE DEF Below
  <2> QED BY <2>1, <2>3, <2>4
<1>4. rank \in [S -> 0..(N - 1)]
  <2> HIDE DEF N
  <2>1. \A x \in S : rank[x] \in 0..(N - 1)
    BY <1>2
  <2>2. rank = [x \in S |-> rank[x]]
    OBVIOUS
  <2> HIDE DEF rank
  <2> QED BY <2>1, <2>2
<1> HIDE DEF Below
<1>5. \A x, y \in S : rank[x] = rank[y] => x = y
  <2>1. \A x \in S : rank[x] \in Int
    BY <1>4
  <2> HIDE DEF rank
  <2>2. \A x, y \in S : x # y => rank[x] < rank[y] \/ rank[y] < rank[x]
    BY <1>3
  <2> QED BY <2>1, <2>2
<1>6. {rank[x] : x \in S} = 0..(N - 1)
  <2> HIDE DEF rank, N
  <2>1. {rank[x] : x \in S} \subseteq 0..(N - 1)
    BY <1>4
  <2>2. Cardinality({rank[x] : x \in S}) = N
    BY <1>4, <1>5, ImageCount DEF N
  <2>3. IsFiniteSet(0..(N - 1)) /\ Cardinality(0..(N - 1)) = N
    BY <1>1, FS_Interval
  <2> QED BY <2>1, <2>2, <2>3, FS_Subset
<1>7. ASSUME NEW n \in 1..N
      PROVE  \E x \in S : rank[x] = n - 1 /\ \A z \in S : rank[z] = n - 1 => z = x
  <2> HIDE DEF rank, N
  <2>1. n - 1 \in 0..(N - 1)
    BY <1>1
  <2>2. PICK x \in S : rank[x] = n - 1
    BY <1>6, <2>1
  <2> QED BY <1>5, <2>2
<1>8. \A x \in S : rank[x] = Cardinality({y \in S : <<y, x>> \in R})
  BY DEF Below
<1> HIDE DEF rank
<1> QED BY <1>7, <1>8

-----------------------------------------------------------------------------
(***************************************************************************)
(* The rows that pictures become in the log.                               *)
(***************************************************************************)
\* No two pictures of a list have the same id.
Distinct(list) == \A p, q \in list : p.id = q.id => p = q
IdsOf(list) == {p.id : p \in list}
RowsOf(seq) == {seq[i] : i \in 1..Len(seq)}

\* Distinct pictures are ordered.
LEMMA PrecedesOrder ==
    ASSUME NEW list \in SUBSET Picture, Distinct(list)
    PROVE  /\ \A p, q \in list : p # q => Precedes(p, q) \/ Precedes(q, p)
           /\ \A p \in list : ~Precedes(p, p)
           /\ \A p, q, r \in list : Precedes(p, q) /\ Precedes(q, r) => Precedes(p, r)
<1>1. \A p \in list : p.id \in Nat \X Nat
  BY Sentinels DEF Picture, PicId
<1>2. \A p \in list : /\ p.id[1] \in Nat /\ p.id[2] \in Nat
                      /\ p.id = <<p.id[1], p.id[2]>>
  BY <1>1
<1>3. \A p, q \in list : p # q => p.id[1] # q.id[1] \/ p.id[2] # q.id[2]
  BY <1>2 DEF Distinct
<1>4. \A p, q \in list : p # q => Precedes(p, q) \/ Precedes(q, p)
  BY <1>2, <1>3 DEF Precedes, PocOf
<1>5. \A p \in list : ~Precedes(p, p)
  BY <1>2 DEF Precedes, PocOf
<1>6. \A p, q, r \in list : Precedes(p, q) /\ Precedes(q, r) => Precedes(p, r)
  BY <1>2 DEF Precedes, PocOf
<1> QED BY <1>4, <1>5, <1>6

LEMMA RankedOnce ==
    ASSUME NEW list \in SUBSET Picture, IsFiniteSet(list), Distinct(list),
           NEW n \in 1..Cardinality(list)
    PROVE  /\ Ranked(list, n) \in list
           /\ Cardinality({q \in list : Precedes(q, Ranked(list, n))}) = n - 1
           /\ \A p \in list : Cardinality({q \in list : Precedes(q, p)}) = n - 1
                                => p = Ranked(list, n)
<1> DEFINE R == {x \in list \X list : Precedes(x[1], x[2])}
<1>1. \A x, y \in list : <<x, y>> \in R <=> Precedes(x, y)
  OBVIOUS
<1>2. \A x \in list : {y \in list : <<y, x>> \in R} = {y \in list : Precedes(y, x)}
  BY <1>1
<1> HIDE DEF R
<1>3. \E x \in list :
        /\ Cardinality({y \in list : <<y, x>> \in R}) = n - 1
        /\ \A z \in list : Cardinality({y \in list : <<y, z>> \in R}) = n - 1 => z = x
  <2>1. \A x, y \in list : x # y => <<x, y>> \in R \/ <<y, x>> \in R
    BY <1>1, PrecedesOrder
  <2>2. \A x \in list : <<x, x>> \notin R
    BY <1>1, PrecedesOrder
  <2>3. \A x, y, z \in list : <<x, y>> \in R /\ <<y, z>> \in R => <<x, z>> \in R
    BY <1>1, PrecedesOrder
  <2>4. \A m \in 1..Cardinality(list) : \E x \in list :
          /\ Cardinality({y \in list : <<y, x>> \in R}) = m - 1
          /\ \A z \in list : Cardinality({y \in list : <<y, z>> \in R}) = m - 1 => z = x
    BY <2>1, <2>2, <2>3, Ranking
  <2> QED BY <2>4
<1>4. PICK x \in list :
        /\ Cardinality({y \in list : Precedes(y, x)}) = n - 1
        /\ \A z \in list : Cardinality({y \in list : Precedes(y, z)}) = n - 1 => z = x
  BY <1>2, <1>3
<1>5. /\ Ranked(list, n) \in list
      /\ Cardinality({q \in list : Precedes(q, Ranked(list, n))}) = n - 1
  BY <1>4 DEF Ranked
<1> QED BY <1>4, <1>5

\* The rows are the ids of the pictures, each once.
LEMMA RowsFacts ==
    ASSUME NEW list \in SUBSET Picture, IsFiniteSet(list), Distinct(list)
    PROVE  /\ Rows(list) \in Seq(PicId)
           /\ Len(Rows(list)) = Cardinality(list)
           /\ RowsOf(Rows(list)) = IdsOf(list)
           /\ \A i, j \in 1..Len(Rows(list)) : Rows(list)[i] = Rows(list)[j] => i = j
<1> DEFINE N == Cardinality(list)
<1>1. N \in Nat
  BY FS_CardinalityType
<1>2. \A n \in 1..N :
        /\ Ranked(list, n) \in list
        /\ Cardinality({q \in list : Precedes(q, Ranked(list, n))}) = n - 1
  BY RankedOnce
<1>3. \A p \in list : p.id \in PicId
  BY DEF Picture
<1>4. Rows(list) = [i \in 1..N |-> Ranked(list, i).id]
  BY DEF Rows
<1> HIDE DEF N
<1>5. Rows(list) \in Seq(PicId) /\ Len(Rows(list)) = N
  <2> DEFINE row(i) == Ranked(list, i).id
  <2>1. \A i \in 1..N : row(i) \in PicId
    BY <1>2, <1>3
  <2>2. Rows(list) = [i \in 1..N |-> row(i)]
    BY <1>4
  <2> HIDE DEF row
  <2> QED BY <1>1, <2>1, <2>2
<1>6. \A i \in 1..N : Rows(list)[i] = Ranked(list, i).id
  BY <1>4
<1>7. ASSUME NEW i \in 1..N, NEW j \in 1..N, Rows(list)[i] = Rows(list)[j]
      PROVE  i = j
  <2>1. Ranked(list, i).id = Ranked(list, j).id
    BY <1>6, <1>7
  <2>2. Ranked(list, i) = Ranked(list, j)
    BY <1>2, <2>1 DEF Distinct
  <2>3. i - 1 = j - 1
    BY <1>2, <2>2
  <2> QED BY <1>1, <2>3
<1>8. ASSUME NEW p \in list
      PROVE  \E i \in 1..N : Rows(list)[i] = p.id
  <2> DEFINE B == {q \in list : Precedes(q, p)}
  <2>1. IsFiniteSet(B) /\ Cardinality(B) <= N /\ (N = Cardinality(B) => list = B)
    BY FS_Subset DEF N
  <2>2. p \notin B
    BY PrecedesOrder
  <2>3. Cardinality(B) \in Nat
    BY <2>1, FS_CardinalityType
  <2> HIDE DEF B
  <2>4. Cardinality(B) + 1 \in 1..N
    BY <1>1, <2>1, <2>2, <2>3
  <2> DEFINE n == Cardinality(B) + 1
  <2>5. Cardinality(B) = n - 1
    BY <2>3
  <2> HIDE DEF n
  <2>6. n \in 1..Cardinality(list) /\ Cardinality({q \in list : Precedes(q, p)}) = n - 1
    BY <2>4, <2>5 DEF B, n, N
  <2>7. p = Ranked(list, n)
    <3>1. \A m \in 1..Cardinality(list) : \A z \in list :
            Cardinality({q \in list : Precedes(q, z)}) = m - 1 => z = Ranked(list, m)
      BY RankedOnce
    <3> QED BY <2>6, <3>1
  <2> QED BY <1>6, <2>4, <2>7 DEF n
<1>9. RowsOf(Rows(list)) = IdsOf(list)
  <2>1. \A i \in 1..N : Rows(list)[i] \in IdsOf(list)
    BY <1>2, <1>6 DEF IdsOf
  <2> QED BY <1>5, <1>8, <2>1 DEF RowsOf, IdsOf
<1> QED BY <1>5, <1>7, <1>9 DEF N

-----------------------------------------------------------------------------
(***************************************************************************)
(* What the operations do to each picture of a list.                       *)
(***************************************************************************)
\* A change of the pictures that keeps their ids.
LEMMA Mapped ==
    ASSUME NEW list \in SUBSET Picture, IsFiniteSet(list), Distinct(list),
           NEW f \in [list -> Picture], \A p \in list : f[p].id = p.id,
           NEW new, new = {f[p] : p \in list}
    PROVE  /\ new \in SUBSET Picture
           /\ IsFiniteSet(new)
           /\ Distinct(new)
           /\ Cardinality(new) = Cardinality(list)
           /\ IdsOf(new) = IdsOf(list)
<1>1. \A p, q \in list : f[p] = f[q] => p = q
  BY DEF Distinct
<1>2. IsFiniteSet(new) /\ Cardinality(new) = Cardinality(list)
  <2>1. f \in Surjection(list, new)
    BY DEF Surjection
  <2>2. f \in Injection(list, new)
    BY <1>1, <2>1 DEF Injection, IsInjective, Surjection
  <2> QED BY <2>1, <2>2, FS_Surjection
<1>3. \A q \in new : \E p \in list : q = f[p] /\ q.id = p.id
  OBVIOUS
<1>4. Distinct(new)
  BY <1>3 DEF Distinct
<1>5. new \in SUBSET Picture
  BY <1>3
<1>6. IdsOf(new) = IdsOf(list)
  BY <1>3 DEF IdsOf
<1> QED BY <1>2, <1>4, <1>5, <1>6

LEMMA AfterPriorPicsMap ==
    ASSUME NEW list \in SUBSET Picture, NEW h
    PROVE  \E f \in [list -> Picture] :
              /\ AfterPriorPics(list, h) = {f[p] : p \in list}
              /\ \A p \in list :
                    /\ f[p].id = p.id
                    /\ f[p].referenced = p.referenced
                    /\ f[p].reconstructed = p.reconstructed
                    /\ f[p].neededForOutput <=>
                         p.neededForOutput
                         /\ (Consumes(h) => PocOf(p) = m_lastPOCNoOutputPriorPics)
<1> DEFINE needed(p) == p.neededForOutput /\ (Consumes(h) => PocOf(p) = m_lastPOCNoOutputPriorPics)
           new(p) == [p EXCEPT !.neededForOutput = needed(p)]
           f == [p \in list |-> new(p)]
<1>1. ASSUME NEW p \in list
      PROVE  /\ new(p) \in Picture
             /\ new(p).id = p.id
             /\ new(p).referenced = p.referenced
             /\ new(p).reconstructed = p.reconstructed
             /\ new(p).neededForOutput <=> needed(p)
  <2>1. needed(p) \in BOOLEAN /\ p \in Picture
    OBVIOUS
  <2> HIDE DEF needed
  <2> QED BY <2>1 DEF Picture
<1>2. AfterPriorPics(list, h) = {new(p) : p \in list}
  <2>1. CASE Consumes(h)
    <3>1. \A p \in list : needed(p) = (p.neededForOutput /\ PocOf(p) = m_lastPOCNoOutputPriorPics)
      BY <2>1
    <3>2. AfterPriorPics(list, h) =
            {[p EXCEPT !.neededForOutput =
                 p.neededForOutput /\ PocOf(p) = m_lastPOCNoOutputPriorPics] : p \in list}
      BY <2>1 DEF AfterPriorPics
    <3> HIDE DEF needed
    <3> QED BY <3>1, <3>2
  <2>2. CASE ~Consumes(h)
    <3>1. \A p \in list : needed(p) = p.neededForOutput
      BY <2>2 DEF Picture
    <3> HIDE DEF needed
    <3>2. \A p \in list : new(p) = p
      BY <3>1 DEF Picture
    <3> HIDE DEF new
    <3> QED BY <2>2, <3>2 DEF AfterPriorPics
  <2> QED BY <2>1, <2>2
<1> HIDE DEF new
<1>3. f \in [list -> Picture] /\ \A p \in list : f[p] = new(p)
  BY <1>1
<1>4. AfterPriorPics(list, h) = {f[p] : p \in list}
  BY <1>2, <1>3
<1> HIDE DEF f
<1> QED BY <1>1, <1>3, <1>4

LEMMA MarkedMap ==
    ASSUME NEW list \in SUBSET Picture, NEW h
    PROVE  \E f \in [list -> Picture] :
              /\ Marked(list, h) = {f[p] : p \in list}
              /\ \A p \in list :
                    /\ f[p].id = p.id
                    /\ f[p].referenced <=>
                         p.referenced /\ (PocOf(p) \in h.keep \/ PocOf(p) = h.poc)
                    /\ f[p].reconstructed = p.reconstructed
                    /\ f[p].neededForOutput = p.neededForOutput
<1> DEFINE kept(p) == p.referenced /\ (PocOf(p) \in h.keep \/ PocOf(p) = h.poc)
           new(p) == [p EXCEPT !.referenced = kept(p)]
           f == [p \in list |-> new(p)]
<1>1. ASSUME NEW p \in list
      PROVE  /\ new(p) \in Picture
             /\ new(p).id = p.id
             /\ new(p).referenced <=> kept(p)
             /\ new(p).reconstructed = p.reconstructed
             /\ new(p).neededForOutput = p.neededForOutput
  <2>1. kept(p) \in BOOLEAN /\ p \in Picture
    OBVIOUS
  <2> HIDE DEF kept
  <2> QED BY <2>1 DEF Picture
<1>2. Marked(list, h) = {new(p) : p \in list}
  BY DEF Marked
<1> HIDE DEF new
<1>3. f \in [list -> Picture] /\ \A p \in list : f[p] = new(p)
  BY <1>1
<1>4. Marked(list, h) = {f[p] : p \in list}
  BY <1>2, <1>3
<1> HIDE DEF f
<1> QED BY <1>1, <1>3, <1>4

LEMMA FinishedMap ==
    ASSUME NEW list \in SUBSET Picture, pcSlice.output \in BOOLEAN
    PROVE  \E f \in [list -> Picture] :
              /\ Finished(list) = {f[p] : p \in list}
              /\ \A p \in list :
                    /\ f[p].id = p.id
                    /\ f[p].referenced = p.referenced
                    /\ IsCurrent(p) => (f[p].neededForOutput <=>
                         pcSlice.output /\ ~(m_newCLVS /\ pcSlice.kind = "RASL"))
                    /\ ~IsCurrent(p) => f[p] = p
<1> DEFINE shown == pcSlice.output /\ ~(m_newCLVS /\ pcSlice.kind = "RASL")
           new(p) == IF IsCurrent(p)
                     THEN [p EXCEPT !.neededForOutput = shown, !.reconstructed = TRUE]
                     ELSE p
           f == [p \in list |-> new(p)]
<1>1. shown \in BOOLEAN
  OBVIOUS
<1>2. Finished(list) = {new(p) : p \in list}
  BY DEF Finished
<1>3. ASSUME NEW p \in list
      PROVE  /\ new(p) \in Picture
             /\ new(p).id = p.id
             /\ new(p).referenced = p.referenced
             /\ IsCurrent(p) => new(p).neededForOutput = shown
             /\ ~IsCurrent(p) => new(p) = p
  <2> HIDE DEF shown
  <2>1. p \in Picture
    OBVIOUS
  <2>2. CASE IsCurrent(p)
    BY <1>1, <2>1, <2>2 DEF Picture
  <2>3. CASE ~IsCurrent(p)
    BY <2>1, <2>3
  <2> QED BY <2>2, <2>3
<1> HIDE DEF new
<1>4. f \in [list -> Picture] /\ \A p \in list : f[p] = new(p)
  BY <1>3
<1>5. Finished(list) = {f[p] : p \in list}
  BY <1>2, <1>4
<1> HIDE DEF f
<1> QED BY <1>3, <1>4, <1>5

LEMMA SuppressedMap ==
    ASSUME NEW list \in SUBSET Picture
    PROVE  \E f \in [list -> Picture] :
              /\ Suppressed(list) = {f[p] : p \in list}
              /\ \A p \in list :
                    /\ f[p].id = p.id
                    /\ f[p].referenced = p.referenced
                    /\ f[p].neededForOutput <=> p.neededForOutput /\ ~gdrRecoveryPeriod
<1> DEFINE new(p) == IF gdrRecoveryPeriod THEN [p EXCEPT !.neededForOutput = FALSE] ELSE p
           f == [p \in list |-> new(p)]
<1>1. Suppressed(list) = {new(p) : p \in list}
  <2>1. CASE gdrRecoveryPeriod
    BY <2>1 DEF Suppressed
  <2>2. CASE ~gdrRecoveryPeriod
    BY <2>2 DEF Suppressed
  <2> QED BY <2>1, <2>2
<1>2. ASSUME NEW p \in list
      PROVE  /\ new(p) \in Picture
             /\ new(p).id = p.id
             /\ new(p).referenced = p.referenced
             /\ new(p).neededForOutput <=> p.neededForOutput /\ ~gdrRecoveryPeriod
  <2>1. p \in Picture
    OBVIOUS
  <2>2. CASE gdrRecoveryPeriod
    BY <2>1, <2>2 DEF Picture
  <2>3. CASE ~gdrRecoveryPeriod
    BY <2>1, <2>3 DEF Picture
  <2> QED BY <2>2, <2>3
<1> HIDE DEF new
<1>4. f \in [list -> Picture] /\ \A p \in list : f[p] = new(p)
  BY <1>2
<1>5. Suppressed(list) = {f[p] : p \in list}
  BY <1>1, <1>4
<1> HIDE DEF f
<1> QED BY <1>2, <1>4, <1>5

\* The pictures of the list when those of out have been written.
WrittenList(list, out) == {IF p \in out THEN Released(p) ELSE p : p \in list}

LEMMA WrittenMap ==
    ASSUME NEW list \in SUBSET Picture, NEW out
    PROVE  \E f \in [list -> Picture] :
              /\ WrittenList(list, out) = {f[p] : p \in list}
              /\ \A p \in list :
                    /\ f[p].id = p.id
                    /\ f[p].referenced = p.referenced
                    /\ f[p].neededForOutput <=> p.neededForOutput /\ p \notin out
<1> DEFINE new(p) == IF p \in out THEN Released(p) ELSE p
           f == [p \in list |-> new(p)]
<1>1. ASSUME NEW p \in list
      PROVE  /\ new(p) \in Picture
             /\ new(p).id = p.id
             /\ new(p).referenced = p.referenced
             /\ new(p).neededForOutput <=> p.neededForOutput /\ p \notin out
  <2>1. p \in Picture
    OBVIOUS
  <2>2. CASE p \in out
    <3> DEFINE rec == p.reconstructed /\ p.referenced
    <3>1. Released(p) = [p EXCEPT !.neededForOutput = FALSE, !.reconstructed = rec]
      BY DEF Released
    <3>2. rec \in BOOLEAN
      OBVIOUS
    <3> HIDE DEF rec
    <3> QED BY <2>1, <2>2, <3>1, <3>2 DEF Picture
  <2>3. CASE p \notin out
    BY <2>1, <2>3 DEF Picture
  <2> QED BY <2>2, <2>3
<1>2. WrittenList(list, out) = {new(p) : p \in list}
  BY DEF WrittenList
<1> HIDE DEF new
<1>4. f \in [list -> Picture] /\ \A p \in list : f[p] = new(p)
  BY <1>1
<1>5. WrittenList(list, out) = {f[p] : p \in list}
  BY <1>2, <1>4
<1> HIDE DEF f
<1> QED BY <1>1, <1>4, <1>5

-----------------------------------------------------------------------------
(***************************************************************************)
(* The type invariant.  That the log is a sequence of ids rests on each    *)
(* picture of the list having a place of its own in output order.          *)
(***************************************************************************)
\* The list is finite, and what bears the number of the current CVS is of it.
ListTyped ==
    /\ IsFiniteSet(m_cListPic)
    /\ Distinct(m_cListPic)
    /\ \A id \in IdsOf(m_cListPic) :
          id[1] <= stream.cvs /\ (id[1] = stream.cvs => id[2] \in Used(stream))

TypeInv == TypeOK /\ ListTyped

\* The stream stays typed, and its CVS number and the POCs used grow.
LEMMA CodedType ==
    ASSUME NEW s \in Stream, NEW h \in Header, MayFollow(s, h)
    PROVE  /\ Coded(s, h) \in Stream
           /\ StartsCvs(s, h) => Coded(s, h).cvs = s.cvs + 1
           /\ ~StartsCvs(s, h) => /\ Coded(s, h).cvs = s.cvs
                                  /\ Used(s) \subseteq Used(Coded(s, h))
                                  /\ h.poc \notin Used(s)
           /\ h.poc \in Used(Coded(s, h))
<1>1. CASE StartsCvs(s, h)
  <2>1. h.kind \in Anchors
    BY <1>1 DEF StartsCvs, MayFollow, Anchors
  <2>2. /\ Coded(s, h) \in Stream /\ Coded(s, h).cvs = s.cvs + 1
        /\ Coded(s, h).pics = {<<h.poc, "anchor">>}
    BY <1>1, <2>1, FirstPictureFacts
  <2>3. h.poc \in Used(Coded(s, h))
    <3>1. <<h.poc, "anchor">> \in Coded(s, h).pics /\ "anchor" \in Classes
      BY <2>2 DEF Classes
    <3> QED BY <3>1 DEF Used, Of
  <2> QED BY <1>1, <2>2, <2>3
<1>2. CASE ~StartsCvs(s, h)
  <2>1. h.poc \notin Used(s)
    BY <1>2 DEF MayFollow
  <2>2. /\ Coded(s, h) \in Stream /\ Coded(s, h).cvs = s.cvs
        /\ Coded(s, h).pics = PicsWith(s, h)
    <3>1. CASE Undecodable(s, h)
      BY <1>2, <3>1, UndecodableFacts DEF Stream
    <3>2. CASE ~Undecodable(s, h)
      BY <1>2, <3>2, FurtherPictureFacts
    <3> QED BY <3>1, <3>2
  <2>3. Used(s) \subseteq Used(Coded(s, h)) /\ h.poc \in Used(Coded(s, h))
    BY <2>2, UsedWith
  <2> QED BY <1>2, <2>1, <2>2, <2>3
<1> QED BY <1>1, <1>2

LEMMA PriorPicFlagsType ==
    ASSUME TypeOK, NEW h \in Header \cup {NoSlice}, DerivePriorPicFlags(h)
    PROVE  /\ m_isNoOutputPriorPics' \in BOOLEAN
           /\ m_lastNoOutputBeforeRecoveryFlag' \in BOOLEAN
           /\ m_lastPOCNoOutputPriorPics' \in Poc \cup {-1}
<1>1. /\ m_isNoOutputPriorPics \in BOOLEAN
      /\ m_lastNoOutputBeforeRecoveryFlag \in BOOLEAN
      /\ m_lastPOCNoOutputPriorPics \in Poc \cup {-1}
      /\ m_firstSliceInSequence \in BOOLEAN /\ m_firstSliceInBitstream \in BOOLEAN
  BY DEF TypeOK
<1>2. h.poc \in Poc
  BY StreamAssumption DEF Header, NoSlice, Poc
<1>3. NoOutputBeforeRecovery(h) \in BOOLEAN
  BY <1>1 DEF NoOutputBeforeRecovery
<1>4. CASE h.kind \in Anchors
  BY <1>1, <1>2, <1>3, <1>4 DEF DerivePriorPicFlags
<1>5. CASE h.kind \notin Anchors
  BY <1>1, <1>5 DEF DerivePriorPicFlags
<1> QED BY <1>4, <1>5

LEMMA RecoveryPocType ==
    ASSUME TypeOK, NEW h \in Header \cup {NoSlice}, SetRecoveryPoc(h)
    PROVE  m_prevGDRInSameLayerRecoveryPOC' \in (0..MaxPoc + MaxRecovery) \cup {MinusInf}
<1>1. m_prevGDRInSameLayerRecoveryPOC \in (0..MaxPoc + MaxRecovery) \cup {MinusInf}
  BY DEF TypeOK
<1>2. CASE h.kind = "GDR" /\ m_prevGDRInSameLayerPOC = MinusInf
  <2>1. h.poc \in 0..MaxPoc /\ h.recoveryPocCnt \in 0..MaxRecovery
    BY <1>2 DEF Header, NoSlice, Poc
  <2>2. h.poc + h.recoveryPocCnt \in 0..MaxPoc + MaxRecovery
    BY <2>1, StreamAssumption
  <2> QED BY <1>2, <2>2 DEF SetRecoveryPoc
<1>3. CASE ~(h.kind = "GDR" /\ m_prevGDRInSameLayerPOC = MinusInf)
  BY <1>1, <1>3 DEF SetRecoveryPoc
<1> QED BY <1>2, <1>3

LEMMA HeaderType ==
    ASSUME NEW h \in Header \cup {NoSlice}
    PROVE  /\ [h EXCEPT !.output = PicOutputFlag(h)] \in Header \cup {NoSlice}
           /\ h.output \in BOOLEAN /\ h.poc \in Poc
<1>1. h \in Header \/ h = NoSlice
  OBVIOUS
<1>2. PicOutputFlag(h) \in BOOLEAN /\ h.output \in BOOLEAN /\ h.poc \in Poc
  <2>1. PicOutputFlag(h) \in BOOLEAN
    BY DEF PicOutputFlag
  <2>2. h \in Header => h.output \in BOOLEAN /\ h.poc \in Poc
    BY DEF Header
  <2>3. h = NoSlice => h.output \in BOOLEAN /\ h.poc \in Poc
    BY StreamAssumption DEF NoSlice, Poc
  <2> QED BY <1>1, <2>1, <2>2, <2>3
<1>3. CASE h \in Header
  BY <1>2, <1>3 DEF Header
<1>4. CASE h = NoSlice
  <2>1. PicOutputFlag(h) = FALSE
    BY <1>4 DEF PicOutputFlag, NoSlice
  <2> QED BY <1>2, <1>4, <2>1 DEF NoSlice
<1> QED BY <1>1, <1>2, <1>3, <1>4

\* Rows are appended.
LEMMA LogType ==
    ASSUME log \in Seq(PicId), NEW list \in SUBSET m_cListPic, TypeInv,
           log' = log \o Rows(list)
    PROVE  log' \in Seq(PicId)
<1>1. list \in SUBSET Picture /\ IsFiniteSet(list) /\ Distinct(list)
  BY FS_Subset DEF TypeInv, TypeOK, ListTyped, Distinct
<1>2. Rows(list) \in Seq(PicId)
  BY <1>1, RowsFacts
<1> QED BY <1>2

\* A change of the pictures of the list that keeps their ids.
LEMMA SameIdsTyped ==
    ASSUME ListTyped, m_cListPic \in SUBSET Picture,
           NEW f \in [m_cListPic -> Picture], \A p \in m_cListPic : f[p].id = p.id,
           m_cListPic' = {f[p] : p \in m_cListPic},
           stream'.cvs = stream.cvs, Used(stream) \subseteq Used(stream)'
    PROVE  ListTyped' /\ m_cListPic' \subseteq Picture
<1>1. /\ m_cListPic' \in SUBSET Picture /\ IsFiniteSet(m_cListPic')
      /\ Distinct(m_cListPic') /\ IdsOf(m_cListPic') = IdsOf(m_cListPic)
  BY Mapped DEF ListTyped
<1> QED BY <1>1 DEF ListTyped

\* A new picture of the CVS joins the list.
LEMMA NewPictureTyped ==
    ASSUME NEW list \in SUBSET Picture, IsFiniteSet(list), Distinct(list),
           NEW id \in PicId, id \notin IdsOf(list), NEW listNew,
           WithNewPicture(list, id, listNew)
    PROVE  /\ listNew \in SUBSET Picture
           /\ IsFiniteSet(listNew)
           /\ Distinct(listNew)
           /\ IdsOf(listNew) \subseteq IdsOf(list) \cup {id}
<1>1. NewPicture(id) \in Picture /\ NewPicture(id).id = id
  BY DEF NewPicture, Picture
<1>2. PICK rest \in SUBSET list : listNew = rest \cup {NewPicture(id)}
  <2>1. CASE listNew = list \cup {NewPicture(id)}
    BY <2>1
  <2>2. ASSUME NEW p \in Free(list), listNew = (list \ {p}) \cup {NewPicture(id)}
        PROVE  \E rest \in SUBSET list : listNew = rest \cup {NewPicture(id)}
    BY <2>2
  <2> QED BY <2>1, <2>2 DEF WithNewPicture
<1>3. IsFiniteSet(rest)
  BY FS_Subset
<1>4. IsFiniteSet(listNew)
  BY <1>2, <1>3, FS_AddElement
<1>5. Distinct(listNew)
  BY <1>1, <1>2 DEF Distinct, IdsOf
<1> QED BY <1>1, <1>2, <1>4, <1>5 DEF IdsOf

LEMMA CountedPicture ==
    ASSUME count \in [pics : Nat, slices : Nat, eos : Nat, drops : Nat]
    PROVE  /\ [Counted("pics") EXCEPT !.slices = 1]
                 \in [pics : Nat, slices : Nat, eos : Nat, drops : Nat]
           /\ [Counted("pics") EXCEPT !.slices = 1].pics = count.pics + 1
           /\ [Counted("pics") EXCEPT !.slices = 1].slices = 1
           /\ [Counted("pics") EXCEPT !.slices = 1].eos = count.eos
           /\ [Counted("pics") EXCEPT !.slices = 1].drops = count.drops
<1>1. Counted("pics") = [count EXCEPT !["pics"] = count["pics"] + 1]
  BY DEF Counted
<1>2. Counted("pics") = [pics |-> count.pics + 1, slices |-> count.slices,
                         eos |-> count.eos, drops |-> count.drops]
  BY <1>1
<1> QED BY <1>2

LEMMA DecodeFirstSliceTyped ==
    ASSUME TypeInv, NEW h \in Followers(stream), NEW last \in BOOLEAN,
           DecodeFirstSlice(h, last)
    PROVE  TypeInv'
<1> DEFINE flushed == IF StartsIrap(h) THEN {} ELSE m_cListPic
           prior == AfterPriorPics(flushed, h)
           marked == Marked(prior, h)
           id == <<Coded(stream, h).cvs, h.poc>>
<1>1. h \in Header /\ MayFollow(stream, h) /\ h.poc \in Poc /\ stream \in Stream
  BY FollowersType DEF TypeInv, TypeOK
<1>2. /\ stream' \in Stream /\ h.poc \in Used(stream')
      /\ StartsCvs(stream, h) => stream'.cvs = stream.cvs + 1
      /\ ~StartsCvs(stream, h) => /\ stream'.cvs = stream.cvs
                                  /\ Used(stream) \subseteq Used(stream')
                                  /\ h.poc \notin Used(stream)
      /\ stream' = Coded(stream, h)
  <2>1. stream' = Coded(stream, h)
    BY DEF DecodeFirstSlice
  <2> QED BY <1>1, <2>1, CodedType
<1>3. id \in PicId /\ id = <<stream'.cvs, h.poc>>
  BY <1>1, <1>2 DEF PicId, Stream
<1>4. /\ flushed \in SUBSET Picture /\ IsFiniteSet(flushed) /\ Distinct(flushed)
      /\ IdsOf(flushed) \subseteq IdsOf(m_cListPic)
  BY FS_EmptySet DEF TypeInv, TypeOK, ListTyped, Distinct, IdsOf
<1> HIDE DEF flushed
<1>5. /\ prior \in SUBSET Picture /\ IsFiniteSet(prior) /\ Distinct(prior)
      /\ IdsOf(prior) = IdsOf(flushed)
  <2>1. PICK f \in [flushed -> Picture] :
              /\ prior = {f[p] : p \in flushed}
              /\ \A p \in flushed : f[p].id = p.id
    BY <1>4, AfterPriorPicsMap
  <2> QED BY <1>4, <2>1, Mapped
<1> HIDE DEF prior
<1>6. /\ marked \in SUBSET Picture /\ IsFiniteSet(marked) /\ Distinct(marked)
      /\ IdsOf(marked) = IdsOf(flushed)
  <2>1. PICK f \in [prior -> Picture] :
              /\ Marked(prior, h) = {f[p] : p \in prior}
              /\ \A p \in prior :
                    /\ f[p].id = p.id
                    /\ f[p].referenced <=>
                         p.referenced /\ (PocOf(p) \in h.keep \/ PocOf(p) = h.poc)
                    /\ f[p].reconstructed = p.reconstructed
                    /\ f[p].neededForOutput = p.neededForOutput
    BY <1>5, MarkedMap
  <2>2. marked = {f[p] : p \in prior}
    BY <2>1 DEF marked
  <2> QED BY <1>5, <2>1, <2>2, Mapped
<1> HIDE DEF marked
<1>7. \A x \in IdsOf(marked) : /\ x \in PicId /\ x[1] <= stream.cvs
                               /\ x[1] = stream.cvs => x[2] \in Used(stream)
  <2>1. \A x \in IdsOf(marked) : x \in PicId
    BY <1>6 DEF IdsOf, Picture
  <2> QED BY <1>4, <1>6, <2>1 DEF TypeInv, ListTyped
<1>8. id \notin IdsOf(marked)
  <2>1. stream.cvs \in Nat /\ stream'.cvs \in Nat
    BY <1>1, <1>2 DEF Stream
  <2>2. ASSUME id \in IdsOf(marked) PROVE FALSE
    <3>1. stream'.cvs <= stream.cvs /\ (stream'.cvs = stream.cvs => h.poc \in Used(stream))
      BY <1>3, <1>7, <2>2
    <3> QED BY <1>2, <2>1, <3>1
  <2> QED BY <2>2
<1>9. WithNewPicture(marked, id, m_cListPic')
  BY DEF DecodeFirstSlice, marked, prior, flushed
<1>10. /\ m_cListPic' \in SUBSET Picture /\ IsFiniteSet(m_cListPic') /\ Distinct(m_cListPic')
       /\ IdsOf(m_cListPic') \subseteq IdsOf(marked) \cup {id}
  <2> HIDE DEF id
  <2> QED BY <1>3, <1>6, <1>8, <1>9, NewPictureTyped
<1>11. ListTyped'
  <2>1. stream.cvs \in Nat /\ stream'.cvs \in Nat
    BY <1>1, <1>2 DEF Stream
  <2>2. \A x \in IdsOf(marked) : x[1] \in Nat
    BY <1>7 DEF PicId
  <2>3. \A x \in IdsOf(marked) \cup {id} :
           x[1] <= stream'.cvs /\ (x[1] = stream'.cvs => x[2] \in Used(stream'))
    <3>1. ASSUME NEW x \in IdsOf(marked)
          PROVE  x[1] <= stream'.cvs /\ (x[1] = stream'.cvs => x[2] \in Used(stream'))
      BY <1>2, <1>7, <2>1, <2>2
    <3>2. id[1] <= stream'.cvs /\ (id[1] = stream'.cvs => id[2] \in Used(stream'))
      BY <1>2, <1>3, <2>1
    <3> HIDE DEF id
    <3> QED BY <3>1, <3>2
  <2> HIDE DEF id
  <2>4. Used(stream)' = Used(stream')
    BY DEF Used, Of
  <2> QED BY <1>10, <2>3, <2>4 DEF ListTyped
<1>12. /\ m_pcPic' = id /\ pcSlice' = [h EXCEPT !.output = PicOutputFlag(h)]
       /\ count' = [Counted("pics") EXCEPT !.slices = 1]
       /\ log' = IF StartsIrap(h) THEN FlushedLog ELSE log
       /\ m_iPOCLastDisplay' = IF StartsIrap(h) THEN FlushedDisplay ELSE m_iPOCLastDisplay
       /\ m_pocRandomAccess' = PocRandomAccess(h)
       /\ DerivePriorPicFlags(h) /\ SetRecoveryPoc(h)
       /\ m_newCLVS' = NewCLVS(h)
       /\ m_firstSliceInSequence' = FALSE
       /\ m_firstSliceInBitstream' = FALSE
       /\ m_bFirstSliceInPicture' = FALSE
       /\ gdrRecoveryPeriod' = (gdrRecoveryPeriod \/ (prevPicSkipped /\ h.kind = "GDR"))
       /\ bPicSkipped' = FALSE
       /\ prevPicSkipped' = IF h.kind = "RASL" THEN prevPicSkipped ELSE FALSE
       /\ part' = "decoded" /\ eof' = last /\ nalu' = "slice"
       /\ pc' \in {"finish", "output"}
       /\ UNCHANGED <<loopFiltered, isEosPresentInPu, isEosPresentInLastPu, m_prevGDRInSameLayerPOC>>
  BY DEF DecodeFirstSlice, EndsPass, eosFlags
<1>13. pcSlice' \in Header \cup {NoSlice}
  BY <1>1, <1>12, HeaderType
<1>14. count' \in [pics : Nat, slices : Nat, eos : Nat, drops : Nat]
  BY <1>12, CountedPicture DEF TypeInv, TypeOK
<1>15. log' \in Seq(PicId)
  <2>1. log \in Seq(PicId)
    BY DEF TypeInv, TypeOK
  <2>2. CASE StartsIrap(h)
    <3>1. log' = log \o Rows(Needed(m_cListPic)) /\ Needed(m_cListPic) \in SUBSET m_cListPic
      BY <1>12, <2>2 DEF FlushedLog, Needed
    <3> QED BY <2>1, <3>1, LogType
  <2> QED BY <1>12, <2>1, <2>2
<1>16. m_iPOCLastDisplay' \in Int
  BY <1>12, Sentinels DEF TypeInv, TypeOK, FlushedDisplay
<1>17. m_pocRandomAccess' \in Poc \cup {MinusInf, PlusInf}
  BY <1>1, <1>12 DEF TypeInv, TypeOK, PocRandomAccess
<1>18. /\ m_isNoOutputPriorPics' \in BOOLEAN
       /\ m_lastNoOutputBeforeRecoveryFlag' \in BOOLEAN
       /\ m_lastPOCNoOutputPriorPics' \in Poc \cup {-1}
       /\ m_prevGDRInSameLayerRecoveryPOC' \in (0..MaxPoc + MaxRecovery) \cup {MinusInf}
  BY <1>1, <1>12, PriorPicFlagsType, RecoveryPocType DEF TypeInv
<1>19. m_newCLVS' \in BOOLEAN /\ prevPicSkipped' \in BOOLEAN /\ gdrRecoveryPeriod' \in BOOLEAN
  BY <1>12 DEF TypeInv, TypeOK, NewCLVS
<1> HIDE DEF id
<1>20. TypeOK'
  BY <1>2, <1>3, <1>10, <1>12, <1>13, <1>14, <1>15, <1>16, <1>17, <1>18, <1>19
     DEF TypeInv, TypeOK
<1> QED BY <1>11, <1>20 DEF TypeInv

LEMMA SkipFirstSliceTyped ==
    ASSUME TypeInv, NEW h \in Followers(stream), NEW last \in BOOLEAN,
           SkipFirstSlice(h, last)
    PROVE  TypeInv'
<1>1. h \in Header /\ MayFollow(stream, h) /\ stream \in Stream
  BY FollowersType DEF TypeInv, TypeOK
<1>2. RandomAccessSkip(h) /\ stream' = Coded(stream, h)
      /\ m_cListPic' = AfterPriorPics(m_cListPic, h)
  BY DEF SkipFirstSlice
<1>3. stream' \in Stream
  BY <1>1, <1>2, CodedType
<1>4. m_cListPic' \in SUBSET Picture /\ ListTyped'
  <2>1. m_cListPic \in SUBSET Picture /\ ListTyped
    BY DEF TypeInv, TypeOK
  <2>2. PICK f \in [m_cListPic -> Picture] :
              /\ m_cListPic' = {f[p] : p \in m_cListPic}
              /\ \A p \in m_cListPic : f[p].id = p.id
    BY <1>2, <2>1, AfterPriorPicsMap
  <2>3. CASE ~StartsCvs(stream, h)
    <3>1. stream'.cvs = stream.cvs /\ Used(stream) \subseteq Used(stream')
      BY <1>1, <1>2, <2>3, CodedType
    <3>2. Used(stream)' = Used(stream')
      BY DEF Used, Of
    <3> QED BY <2>1, <2>2, <3>1, <3>2, SameIdsTyped
  <2>4. CASE StartsCvs(stream, h)
    <3>1. stream'.cvs = stream.cvs + 1 /\ stream.cvs \in Nat
      BY <1>1, <1>2, <2>4, CodedType DEF Stream
    <3>2. /\ m_cListPic' \in SUBSET Picture /\ IsFiniteSet(m_cListPic')
          /\ Distinct(m_cListPic') /\ IdsOf(m_cListPic') = IdsOf(m_cListPic)
      BY <2>1, <2>2, Mapped DEF ListTyped
    <3>3. \A x \in IdsOf(m_cListPic) : x \in PicId
      BY <2>1 DEF IdsOf, Picture
    <3>4. \A x \in IdsOf(m_cListPic) : x[1] <= stream'.cvs /\ x[1] # stream'.cvs
      BY <2>1, <3>1, <3>3 DEF ListTyped, PicId
    <3> QED BY <3>2, <3>4 DEF ListTyped
  <2> QED BY <2>3, <2>4
<1>5. /\ count' = [Counted("pics") EXCEPT !.slices = 1]
      /\ m_iPOCLastDisplay' \in {m_iPOCLastDisplay, m_iPOCLastDisplay + 1}
      /\ DerivePriorPicFlags(h)
      /\ m_newCLVS' = NewCLVS(h)
      /\ bPicSkipped' = TRUE
      /\ prevPicSkipped' = IF h.kind = "RASL" THEN prevPicSkipped ELSE TRUE
      /\ part' = "skipped" /\ eof' = last /\ nalu' = "slice"
      /\ pc' \in {"finish", "output"}
      /\ UNCHANGED <<loopFiltered, isEosPresentInPu, isEosPresentInLastPu, log,
                     gdrRecoveryPeriod, m_pcPic, m_bFirstSliceInPicture,
                     m_firstSliceInSequence, m_firstSliceInBitstream, m_pocRandomAccess,
                     m_prevGDRInSameLayerPOC, m_prevGDRInSameLayerRecoveryPOC, pcSlice>>
  BY DEF SkipFirstSlice, EndsPass, eosFlags, firstFlags, gdr
<1>6. count' \in [pics : Nat, slices : Nat, eos : Nat, drops : Nat]
  BY <1>5, CountedPicture DEF TypeInv, TypeOK
<1>7. /\ m_isNoOutputPriorPics' \in BOOLEAN
      /\ m_lastNoOutputBeforeRecoveryFlag' \in BOOLEAN
      /\ m_lastPOCNoOutputPriorPics' \in Poc \cup {-1}
  BY <1>1, <1>5, PriorPicFlagsType DEF TypeInv
<1>8. m_newCLVS' \in BOOLEAN /\ prevPicSkipped' \in BOOLEAN /\ m_iPOCLastDisplay' \in Int
  <2>1. /\ m_newCLVS \in BOOLEAN /\ prevPicSkipped \in BOOLEAN
        /\ isEosPresentInLastPu \in BOOLEAN /\ m_iPOCLastDisplay \in Int
    BY DEF TypeInv, TypeOK
  <2>2. m_iPOCLastDisplay + 1 \in Int
    BY <2>1
  <2>3. NewCLVS(h) \in BOOLEAN
    BY <2>1 DEF NewCLVS, StartsIrap
  <2> QED BY <1>5, <2>1, <2>2, <2>3
<1>9. TypeOK'
  BY <1>3, <1>4, <1>5, <1>6, <1>7, <1>8 DEF TypeInv, TypeOK
<1> QED BY <1>4, <1>9 DEF TypeInv

\* The list and the stream as they were.
LEMMA SameListTyped ==
    ASSUME ListTyped, UNCHANGED m_cListPic, stream'.cvs = stream.cvs,
           stream'.pics = stream.pics
    PROVE  ListTyped'
<1>1. Used(stream)' = Used(stream)
  BY DEF Used, Of
<1> QED BY <1>1 DEF ListTyped, IdsOf, Distinct

LEMMA SkipNextSliceTyped ==
    ASSUME TypeInv, NEW last \in BOOLEAN, SkipNextSlice(last)
    PROVE  TypeInv'
<1>1. /\ m_newCLVS' = (isEosPresentInLastPu /\ m_newCLVS)
      /\ m_iPOCLastDisplay' = m_iPOCLastDisplay + 1
      /\ count' = Counted("slices")
      /\ eof' = last /\ nalu' = "slice" /\ pc' \in {"finish", "output"}
      /\ UNCHANGED <<stream, part, bPicSkipped, prevPicSkipped, loopFiltered,
                     isEosPresentInPu, isEosPresentInLastPu, log, gdrRecoveryPeriod,
                     m_cListPic, m_pcPic, m_bFirstSliceInPicture,
                     m_firstSliceInSequence, m_firstSliceInBitstream, m_pocRandomAccess,
                     m_isNoOutputPriorPics, m_lastPOCNoOutputPriorPics,
                     m_lastNoOutputBeforeRecoveryFlag,
                     m_prevGDRInSameLayerPOC, m_prevGDRInSameLayerRecoveryPOC, pcSlice>>
  BY DEF SkipNextSlice, EndsPass, skipFlags, eosFlags, firstFlags, gdr, priorPics
<1>2. count' \in [pics : Nat, slices : Nat, eos : Nat, drops : Nat]
  BY <1>1, CountedType DEF TypeInv, TypeOK
<1>3. TypeOK'
  BY <1>1, <1>2 DEF TypeInv, TypeOK
<1> QED BY <1>1, <1>3, SameListTyped DEF TypeInv

LEMMA DecodeNextSliceTyped ==
    ASSUME TypeInv, NEW last \in BOOLEAN, DecodeNextSlice(last)
    PROVE  TypeInv'
<1>1. /\ SetRecoveryPoc(pcSlice) /\ DerivePriorPicFlags(pcSlice)
      /\ m_cListPic' = AfterPriorPics(m_cListPic, pcSlice)
      /\ pcSlice' = [pcSlice EXCEPT !.output = PicOutputFlag(pcSlice)]
      /\ gdrRecoveryPeriod' = (gdrRecoveryPeriod \/ (prevPicSkipped /\ pcSlice.kind = "GDR"))
      /\ count' = Counted("slices")
      /\ eof' = last /\ nalu' = "slice" /\ pc' \in {"finish", "output"}
      /\ UNCHANGED <<stream, part, bPicSkipped, prevPicSkipped, loopFiltered,
                     isEosPresentInPu, isEosPresentInLastPu, log, m_iPOCLastDisplay,
                     m_newCLVS, m_pcPic, m_bFirstSliceInPicture,
                     m_firstSliceInSequence, m_firstSliceInBitstream, m_pocRandomAccess,
                     m_prevGDRInSameLayerPOC>>
  BY DEF DecodeNextSlice, EndsPass, skipFlags, eosFlags, firstFlags, display
<1>2. count' \in [pics : Nat, slices : Nat, eos : Nat, drops : Nat]
  BY <1>1, CountedType DEF TypeInv, TypeOK
<1>3. pcSlice \in Header \cup {NoSlice} /\ pcSlice' \in Header \cup {NoSlice}
  BY <1>1, HeaderType DEF TypeInv, TypeOK
<1>4. /\ m_isNoOutputPriorPics' \in BOOLEAN
      /\ m_lastNoOutputBeforeRecoveryFlag' \in BOOLEAN
      /\ m_lastPOCNoOutputPriorPics' \in Poc \cup {-1}
      /\ m_prevGDRInSameLayerRecoveryPOC' \in (0..MaxPoc + MaxRecovery) \cup {MinusInf}
  BY <1>1, <1>3, PriorPicFlagsType, RecoveryPocType DEF TypeInv
<1>5. m_cListPic' \in SUBSET Picture /\ ListTyped'
  <2>1. m_cListPic \in SUBSET Picture /\ ListTyped
    BY DEF TypeInv, TypeOK
  <2>2. PICK f \in [m_cListPic -> Picture] :
              /\ m_cListPic' = {f[p] : p \in m_cListPic}
              /\ \A p \in m_cListPic : f[p].id = p.id
    BY <1>1, <2>1, AfterPriorPicsMap
  <2>3. stream'.cvs = stream.cvs /\ Used(stream)' = Used(stream)
    BY <1>1 DEF Used, Of
  <2> QED BY <2>1, <2>2, <2>3, SameIdsTyped
<1>6. TypeOK'
  BY <1>1, <1>2, <1>3, <1>4, <1>5 DEF TypeInv, TypeOK
<1> QED BY <1>5, <1>6 DEF TypeInv

LEMMA DropSliceTyped ==
    ASSUME TypeInv, NEW last \in BOOLEAN, DropSlice(last)
    PROVE  TypeInv'
<1>1. /\ m_newCLVS' = (isEosPresentInLastPu /\ m_newCLVS)
      /\ bPicSkipped' = TRUE /\ prevPicSkipped' = TRUE /\ m_bFirstSliceInPicture' = FALSE
      /\ count' = Counted("drops") /\ part' = "dropped"
      /\ eof' = last /\ nalu' = "slice" /\ pc' \in {"finish", "output"}
      /\ UNCHANGED <<stream, loopFiltered,
                     isEosPresentInPu, isEosPresentInLastPu, log, m_iPOCLastDisplay,
                     gdrRecoveryPeriod, m_cListPic, m_pcPic,
                     m_firstSliceInSequence, m_firstSliceInBitstream, m_pocRandomAccess,
                     m_isNoOutputPriorPics, m_lastPOCNoOutputPriorPics,
                     m_lastNoOutputBeforeRecoveryFlag,
                     m_prevGDRInSameLayerPOC, m_prevGDRInSameLayerRecoveryPOC, pcSlice>>
  BY DEF DropSlice, EndsPass, eosFlags, firstFlags, gdr, priorPics, display
<1>2. count' \in [pics : Nat, slices : Nat, eos : Nat, drops : Nat]
  BY <1>1, CountedType DEF TypeInv, TypeOK
<1>3. TypeOK'
  BY <1>1, <1>2 DEF TypeInv, TypeOK
<1> QED BY <1>1, <1>3, SameListTyped DEF TypeInv

LEMMA DecodeEosTyped ==
    ASSUME TypeInv, NEW last \in BOOLEAN, DecodeEos(last)
    PROVE  TypeInv'
<1>1. /\ m_prevGDRInSameLayerPOC' = MinusInf
      /\ m_prevGDRInSameLayerRecoveryPOC' = MinusInf
      /\ m_pocRandomAccess' = PlusInf
      /\ isEosPresentInPu' = TRUE /\ m_newCLVS' = TRUE
      /\ stream' = [stream EXCEPT !.fresh = TRUE]
      /\ count' = Counted("eos") /\ part' = "eos"
      /\ eof' = last /\ nalu' = "EOS" /\ pc' = "finish"
      /\ UNCHANGED <<bPicSkipped, prevPicSkipped, loopFiltered,
                     isEosPresentInLastPu, log, m_iPOCLastDisplay,
                     gdrRecoveryPeriod, m_cListPic, m_pcPic, m_bFirstSliceInPicture,
                     m_firstSliceInSequence, m_firstSliceInBitstream,
                     m_isNoOutputPriorPics, m_lastPOCNoOutputPriorPics,
                     m_lastNoOutputBeforeRecoveryFlag, pcSlice>>
  BY DEF DecodeEos, firstFlags, priorPics, display, skipFlags
<1>2. count' \in [pics : Nat, slices : Nat, eos : Nat, drops : Nat]
  BY <1>1, CountedType DEF TypeInv, TypeOK
<1>3. stream' \in Stream /\ stream'.cvs = stream.cvs /\ stream'.pics = stream.pics
  BY <1>1 DEF TypeInv, TypeOK, Stream
<1>4. TypeOK'
  BY <1>1, <1>2, <1>3 DEF TypeInv, TypeOK
<1> QED BY <1>1, <1>3, <1>4, SameListTyped DEF TypeInv

LEMMA LookAheadTyped == ASSUME TypeInv, LookAhead PROVE TypeInv'
<1>1. /\ part' = "picture" /\ pc' = "finish" /\ nalu' = "new"
      /\ UNCHANGED <<stream, eof, count, bPicSkipped, prevPicSkipped, loopFiltered,
                     isEosPresentInPu, isEosPresentInLastPu, log, m_iPOCLastDisplay,
                     m_newCLVS, gdrRecoveryPeriod, m_cListPic, m_pcPic, m_bFirstSliceInPicture,
                     m_firstSliceInSequence, m_firstSliceInBitstream, m_pocRandomAccess,
                     m_isNoOutputPriorPics, m_lastPOCNoOutputPriorPics,
                     m_lastNoOutputBeforeRecoveryFlag,
                     m_prevGDRInSameLayerPOC, m_prevGDRInSameLayerRecoveryPOC, pcSlice>>
  BY DEF LookAhead, eosFlags, firstFlags, priorPics, display, skipFlags, gdr
<1>2. TypeOK'
  BY <1>1 DEF TypeInv, TypeOK
<1> QED BY <1>1, <1>2, SameListTyped DEF TypeInv

LEMMA FinishBlockTyped == ASSUME TypeInv, FinishBlock PROVE TypeInv'
<1>1. /\ pc' = "output"
      /\ UNCHANGED <<stream, part, eof, count, nalu, bPicSkipped, prevPicSkipped,
                     isEosPresentInPu, isEosPresentInLastPu, m_newCLVS, log,
                     m_iPOCLastDisplay, m_pcPic, m_firstSliceInBitstream,
                     m_pocRandomAccess, m_isNoOutputPriorPics, m_lastPOCNoOutputPriorPics,
                     m_lastNoOutputBeforeRecoveryFlag,
                     m_prevGDRInSameLayerRecoveryPOC, pcSlice>>
  BY DEF FinishBlock, bitstream, skipFlags, eosFlags, priorPics, display
<1>2. /\ m_bFirstSliceInPicture' \in BOOLEAN /\ m_firstSliceInSequence' \in BOOLEAN
      /\ loopFiltered' \in BOOLEAN /\ gdrRecoveryPeriod' \in BOOLEAN
      /\ m_prevGDRInSameLayerPOC' \in Poc \cup {MinusInf}
  <2>1. m_pcPic[2] \in Poc
    BY DEF TypeInv, TypeOK, PicId
  <2> QED BY <2>1 DEF FinishBlock, TypeInv, TypeOK
<1>3. m_cListPic' \in SUBSET Picture /\ ListTyped'
  <2>1. m_cListPic \in SUBSET Picture /\ ListTyped /\ pcSlice.output \in BOOLEAN
    BY HeaderType DEF TypeInv, TypeOK
  <2>2. CASE m_cListPic' = Finished(m_cListPic)
    <3>1. PICK f \in [m_cListPic -> Picture] :
                /\ Finished(m_cListPic) = {f[p] : p \in m_cListPic}
                /\ \A p \in m_cListPic :
                      /\ f[p].id = p.id
                      /\ f[p].referenced = p.referenced
                      /\ IsCurrent(p) => (f[p].neededForOutput <=>
                           pcSlice.output /\ ~(m_newCLVS /\ pcSlice.kind = "RASL"))
                      /\ ~IsCurrent(p) => f[p] = p
      BY <2>1, FinishedMap
    <3>2. stream'.cvs = stream.cvs /\ Used(stream)' = Used(stream)
      BY <1>1 DEF Used, Of
    <3> QED BY <2>1, <2>2, <3>1, <3>2, SameIdsTyped
  <2>3. CASE m_cListPic' = m_cListPic
    BY <1>1, <2>1, <2>3, SameListTyped
  <2> QED BY <2>2, <2>3 DEF FinishBlock
<1>4. TypeOK'
  BY <1>1, <1>2, <1>3 DEF TypeInv, TypeOK
<1> QED BY <1>3, <1>4 DEF TypeInv

\* What is written are pictures of the list.
LEMMA HighestPoc ==
    ASSUME NEW out \in SUBSET Picture, out # {}
    PROVE  /\ HighestOf({PocOf(p) : p \in out}) \in {PocOf(p) : p \in out}
           /\ \A p \in out : PocOf(p) <= HighestOf({PocOf(q) : q \in out})
           /\ HighestOf({PocOf(p) : p \in out}) \in Poc
<1> DEFINE S == {PocOf(p) : p \in out}
<1>1. S # {} /\ S \subseteq Poc
  BY DEF Picture, PicId, PocOf
<1>2. \E x \in S : \A y \in S : y <= x
  <2> HIDE DEF S
  <2> QED BY <1>1, HighestExists
<1>3. HighestOf(S) \in S /\ \A y \in S : y <= HighestOf(S)
  <2> HIDE DEF S
  <2> QED BY <1>2 DEF HighestOf
<1> QED BY <1>1, <1>3

LEMMA OutputBlockTyped == ASSUME TypeInv, OutputBlock PROVE TypeInv'
<1> DEFINE list == Suppressed(m_cListPic)
           out == ToOutput(list, m_iPOCLastDisplay)
<1>1. /\ pc' \in {"flush", "look"}
      /\ isEosPresentInPu' \in {isEosPresentInPu, FALSE}
      /\ isEosPresentInLastPu' \in {isEosPresentInLastPu, isEosPresentInPu}
      /\ m_bFirstSliceInPicture' = (m_bFirstSliceInPicture /\ nalu # "EOS")
      /\ xWriteOutput(list)
      /\ UNCHANGED <<stream, part, eof, count, nalu, bPicSkipped, prevPicSkipped,
                     loopFiltered, m_newCLVS, gdrRecoveryPeriod, m_pcPic,
                     m_firstSliceInSequence, m_firstSliceInBitstream,
                     m_pocRandomAccess, m_isNoOutputPriorPics, m_lastPOCNoOutputPriorPics,
                     m_lastNoOutputBeforeRecoveryFlag, m_prevGDRInSameLayerPOC,
                     m_prevGDRInSameLayerRecoveryPOC, pcSlice>>
  BY DEF OutputBlock, bitstream, skipFlags, eosFlags, priorPics, firstFlags, gdr
<1>2. m_cListPic \in SUBSET Picture /\ ListTyped /\ log \in Seq(PicId)
      /\ m_iPOCLastDisplay \in Int
  BY DEF TypeInv, TypeOK
<1>3. /\ list \in SUBSET Picture /\ IsFiniteSet(list) /\ Distinct(list)
      /\ IdsOf(list) = IdsOf(m_cListPic)
  <2>1. PICK f \in [m_cListPic -> Picture] :
                /\ Suppressed(m_cListPic) = {f[p] : p \in m_cListPic}
                /\ \A p \in m_cListPic :
                      /\ f[p].id = p.id
                      /\ f[p].referenced = p.referenced
                      /\ f[p].neededForOutput <=> p.neededForOutput /\ ~gdrRecoveryPeriod
    BY <1>2, SuppressedMap
  <2> QED BY <1>2, <2>1, Mapped DEF ListTyped
<1>4. out \in SUBSET list
  BY DEF ToOutput, Shown
<1>5. /\ log' = log \o Rows(out)
      /\ m_iPOCLastDisplay' = IF out = {} THEN m_iPOCLastDisplay
                              ELSE HighestOf({PocOf(p) : p \in out})
      /\ m_cListPic' = WrittenList(list, out)
  BY <1>1 DEF xWriteOutput, WrittenList
<1> HIDE DEF list, out
<1>6. out \in SUBSET Picture /\ IsFiniteSet(out) /\ Distinct(out)
  BY <1>3, <1>4, FS_Subset DEF Distinct
<1>7. log' \in Seq(PicId)
  <2>1. Rows(out) \in Seq(PicId)
    BY <1>6, RowsFacts
  <2> QED BY <1>2, <1>5, <2>1
<1>8. m_iPOCLastDisplay' \in Int
  <2>1. out # {} => HighestOf({PocOf(p) : p \in out}) \in Poc
    BY <1>6, HighestPoc
  <2> QED BY <1>2, <1>5, <2>1, Sentinels
<1>9. m_cListPic' \in SUBSET Picture /\ ListTyped'
  <2>1. PICK f \in [list -> Picture] :
              /\ WrittenList(list, out) = {f[p] : p \in list}
              /\ \A p \in list :
                    /\ f[p].id = p.id
                    /\ f[p].referenced = p.referenced
                    /\ f[p].neededForOutput <=> p.neededForOutput /\ p \notin out
    BY <1>3, WrittenMap
  <2>2. /\ m_cListPic' \in SUBSET Picture /\ IsFiniteSet(m_cListPic')
        /\ Distinct(m_cListPic') /\ IdsOf(m_cListPic') = IdsOf(list)
    BY <1>3, <1>5, <2>1, Mapped
  <2>3. stream'.cvs = stream.cvs /\ Used(stream)' = Used(stream)
    BY <1>1 DEF Used, Of
  <2> QED BY <1>2, <1>3, <2>2, <2>3 DEF ListTyped
<1>10. TypeOK'
  <2>1. /\ isEosPresentInPu' \in BOOLEAN /\ isEosPresentInLastPu' \in BOOLEAN
        /\ m_bFirstSliceInPicture' \in BOOLEAN
    BY <1>1 DEF TypeInv, TypeOK
  <2> QED BY <1>1, <1>7, <1>8, <1>9, <2>1 DEF TypeInv, TypeOK
<1> QED BY <1>9, <1>10 DEF TypeInv

LEMMA FlushTyped == ASSUME TypeInv, Flush PROVE TypeInv'
<1>1. /\ pc' = "done" /\ m_cListPic' = {}
      /\ log' = log \o Rows(Needed(m_cListPic))
      /\ m_iPOCLastDisplay' = FlushedDisplay
      /\ UNCHANGED <<stream, part, eof, count, nalu, bPicSkipped, prevPicSkipped,
                     loopFiltered, isEosPresentInPu, isEosPresentInLastPu,
                     m_newCLVS, gdrRecoveryPeriod, m_pcPic, m_bFirstSliceInPicture,
                     m_firstSliceInSequence, m_firstSliceInBitstream,
                     m_pocRandomAccess, m_isNoOutputPriorPics, m_lastPOCNoOutputPriorPics,
                     m_lastNoOutputBeforeRecoveryFlag, m_prevGDRInSameLayerPOC,
                     m_prevGDRInSameLayerRecoveryPOC, pcSlice>>
  BY DEF Flush, FlushedLog, bitstream, skipFlags, eosFlags, priorPics, firstFlags, gdr
<1>2. log' \in Seq(PicId)
  <2>1. log \in Seq(PicId) /\ Needed(m_cListPic) \in SUBSET m_cListPic
    BY DEF TypeInv, TypeOK, Needed
  <2> QED BY <1>1, <2>1, LogType
<1>3. m_iPOCLastDisplay' \in Int
  BY <1>1, Sentinels DEF TypeInv, TypeOK, FlushedDisplay
<1>4. ListTyped'
  BY <1>1, FS_EmptySet DEF ListTyped, Distinct, IdsOf
<1>5. TypeOK'
  BY <1>1, <1>2, <1>3 DEF TypeInv, TypeOK
<1> QED BY <1>4, <1>5 DEF TypeInv

LEMMA InitTyped == Init => TypeInv
<1> SUFFICES ASSUME Init PROVE TypeInv
  OBVIOUS
<1>1. EmptyStream \in Stream
  BY DEF EmptyStream, Stream, Anchors
<1>2. NoPic \in PicId
  BY StreamAssumption DEF NoPic, PicId, Poc
<1>3. count \in [pics : Nat, slices : Nat, eos : Nat, drops : Nat]
  BY DEF Init
<1>4. MinusInf \in Int
  BY Sentinels
<1>5. log \in Seq(PicId)
  BY DEF Init
<1>6. TypeOK
  BY <1>1, <1>2, <1>3, <1>4, <1>5 DEF Init, TypeOK
<1>7. ListTyped
  BY FS_EmptySet DEF Init, ListTyped, Distinct, IdsOf
<1> QED BY <1>6, <1>7 DEF TypeInv

LEMMA NextTyped == ASSUME TypeInv, [Next]_vars PROVE TypeInv'
<1>1. ASSUME NEW last \in BOOLEAN, ReadNal(last)
      PROVE  TypeInv'
  <2>1. ASSUME NEW h \in Followers(stream), DecodeFirstSlice(h, last)
        PROVE  TypeInv'
    BY <2>1, DecodeFirstSliceTyped
  <2>2. ASSUME NEW h \in Followers(stream), SkipFirstSlice(h, last)
        PROVE  TypeInv'
    BY <2>2, SkipFirstSliceTyped
  <2> QED BY <1>1, <2>1, <2>2, SkipNextSliceTyped, DecodeNextSliceTyped, DropSliceTyped,
             DecodeEosTyped DEF ReadNal
<1>2. CASE UNCHANGED vars
  <2>1. UNCHANGED <<stream, part, eof, count, nalu, pc, bPicSkipped, prevPicSkipped,
                     loopFiltered, isEosPresentInPu, isEosPresentInLastPu,
                     m_newCLVS, gdrRecoveryPeriod, m_pcPic, m_bFirstSliceInPicture,
                     m_firstSliceInSequence, m_firstSliceInBitstream,
                     m_pocRandomAccess, m_isNoOutputPriorPics, m_lastPOCNoOutputPriorPics,
                     m_lastNoOutputBeforeRecoveryFlag, m_prevGDRInSameLayerPOC,
                     m_prevGDRInSameLayerRecoveryPOC, pcSlice, log, m_iPOCLastDisplay,
                     m_cListPic>>
    BY <1>2 DEF vars, bitstream, skipFlags, eosFlags, priorPics, firstFlags, gdr, display
  <2>2. TypeOK'
    BY <2>1 DEF TypeInv, TypeOK
  <2> QED BY <2>1, <2>2, SameListTyped DEF TypeInv
<1> QED BY <1>1, <1>2, LookAheadTyped, FinishBlockTyped, OutputBlockTyped, FlushTyped DEF Next

\* Every variable keeps its type; in particular the log stays a sequence of
\* ids: whatever the list holds when it is written (xWriteOutput,
\* xFlushOutput), no two of its pictures have the same place in the order.
THEOREM TypeCorrect == Spec => []TypeOK
<1>1. TypeInv /\ [Next]_vars => TypeInv'
  BY NextTyped
<1>2. TypeInv => TypeOK
  BY DEF TypeInv
<1> QED BY <1>1, <1>2, InitTyped, PTL DEF Spec

-----------------------------------------------------------------------------
(***************************************************************************)
(* The pass of the loop: when the current picture waits to be finished.    *)
(***************************************************************************)
Unfinished == ~bPicSkipped /\ ~m_firstSliceInSequence /\ ~m_bFirstSliceInPicture

FlowKnown ==
    /\ pc = "look" => ~eof
    /\ part = "decoded" /\ pc = "finish" => eof
    /\ part = "decoded" /\ (pc \in {"look", "finish"} \/ (pc = "output" /\ ~eof)) => Unfinished
    /\ Unfinished => /\ part = "decoded" \/ (part \in {"eos", "picture"} /\ pc = "finish")
                     /\ pc \in {"look", "finish"} \/ (pc = "output" /\ ~eof)
    /\ pc = "finish" /\ Finishes => Unfinished
    /\ part = "eos" => stream.fresh /\ (pc # "finish" => ~Finishes)
    /\ part \in {"skipped", "dropped"} => bPicSkipped
    /\ count.eos > 0 \/ ~stream.fresh \/ pc = "look"
    /\ ~stream.fresh => ~m_firstSliceInSequence
    /\ loopFiltered => /\ count.eos > 0
                       /\ stream.fresh \/ (Unfinished /\ Cardinality(stream.pics) = 1)
    /\ eof /\ pc = "finish" => ~loopFiltered
    /\ stream.fresh /\ count.eos > 0 => stream.pics # {}
    /\ stream.pics = {} => stream.fresh

\* The streams in which the decoder outputs what it should: of the situations
\* only a skipped or dropped picture before an EOS may occur.
Orderly == Allow \subseteq {"skippedBeforeEos"}

\* The invariants so far.
LoopInv == TypeInv /\ RefsInv /\ FlowKnown

LEMMA CodedPics ==
    ASSUME NEW s \in Stream, NEW h \in Header, MayFollow(s, h)
    PROVE  /\ Coded(s, h).pics # {}
           /\ StartsCvs(s, h) => /\ Coded(s, h).fresh = FALSE
                                 /\ Cardinality(Coded(s, h).pics) = 1
           /\ ~StartsCvs(s, h) => Coded(s, h).fresh = s.fresh
<1>1. CASE StartsCvs(s, h)
  <2>1. h.kind \in Anchors
    BY <1>1 DEF StartsCvs, MayFollow, Anchors
  <2>2. Coded(s, h).fresh = FALSE /\ Coded(s, h).pics = {<<h.poc, "anchor">>}
    BY <1>1, <2>1, FirstPictureFacts
  <2>3. Cardinality(Coded(s, h).pics) = 1
    BY <2>2, FS_Singleton
  <2> QED BY <1>1, <2>2, <2>3
<1>2. CASE ~StartsCvs(s, h)
  <2>1. Coded(s, h).fresh = s.fresh /\ Coded(s, h).pics = PicsWith(s, h)
    <3>1. CASE Undecodable(s, h)
      BY <1>2, <3>1, UndecodableFacts DEF Stream
    <3>2. CASE ~Undecodable(s, h)
      BY <1>2, <3>2, FurtherPictureFacts
    <3> QED BY <3>1, <3>2
  <2>2. PicsWith(s, h) # {}
    BY DEF PicsWith
  <2> QED BY <1>2, <2>1, <2>2
<1> QED BY <1>1, <1>2

LEMMA DecodeFirstSliceFlow ==
    ASSUME LoopInv, Orderly, NEW h \in Followers(stream), NEW last \in BOOLEAN,
           DecodeFirstSlice(h, last)
    PROVE  FlowKnown'
<1>1. /\ m_bFirstSliceInPicture
      /\ ~(last /\ stream.fresh /\ count.eos > 0)
      /\ stream' = Coded(stream, h)
      /\ part' = "decoded" /\ eof' = last
      /\ pc' = IF last THEN "finish" ELSE "output"
      /\ bPicSkipped' = FALSE /\ m_firstSliceInSequence' = FALSE
      /\ m_bFirstSliceInPicture' = FALSE
      /\ loopFiltered' = loopFiltered
      /\ count' = [Counted("pics") EXCEPT !.slices = 1]
  BY DEF DecodeFirstSlice, ReadsFirstSlice, EndsPass, Orderly
<1>2. h \in Header /\ MayFollow(stream, h) /\ stream \in Stream
  BY FollowersType DEF LoopInv, TypeInv, TypeOK
<1>3. stream'.pics # {} /\ stream'.fresh = FALSE
      /\ (stream.fresh => Cardinality(stream'.pics) = 1)
  <2>1. ~stream.fresh => stream.fresh = FALSE
    BY <1>2 DEF Stream
  <2> QED BY <1>1, <1>2, <2>1, CodedPics DEF StartsCvs
<1>4. count'.eos = count.eos
  BY <1>1, CountedPicture DEF LoopInv, TypeInv, TypeOK
<1>5. Unfinished' /\ ~Unfinished
  BY <1>1 DEF Unfinished
<1>6. loopFiltered' => count.eos > 0 /\ stream.fresh
  BY <1>1, <1>5 DEF LoopInv, FlowKnown
<1> QED BY <1>1, <1>3, <1>4, <1>5, <1>6 DEF FlowKnown

LEMMA SkipFirstSliceFlow ==
    ASSUME LoopInv, NEW h \in Followers(stream), NEW last \in BOOLEAN,
           SkipFirstSlice(h, last)
    PROVE  FlowKnown'
<1>1. /\ m_bFirstSliceInPicture /\ RandomAccessSkip(h)
      /\ stream' = Coded(stream, h)
      /\ part' = "skipped" /\ eof' = last
      /\ pc' = IF last THEN "finish" ELSE "output"
      /\ bPicSkipped' = TRUE /\ m_firstSliceInSequence' = m_firstSliceInSequence
      /\ loopFiltered' = loopFiltered
  BY DEF SkipFirstSlice, ReadsFirstSlice, EndsPass, firstFlags
<1>2. h \in Header /\ MayFollow(stream, h) /\ stream \in Stream
  BY FollowersType DEF LoopInv, TypeInv, TypeOK
<1>3. ~StartsCvs(stream, h) /\ ~stream.fresh
  BY <1>1, <1>2, SkipsUndecodable DEF LoopInv, RefsInv, StartsCvs
<1>4. stream'.pics # {} /\ ~stream'.fresh
  BY <1>1, <1>2, <1>3, CodedPics
<1>5. ~Unfinished' /\ ~Unfinished /\ ~Finishes'
  BY <1>1 DEF Unfinished, Finishes
<1>6. ~loopFiltered'
  BY <1>1, <1>3, <1>5 DEF LoopInv, FlowKnown
<1> QED BY <1>1, <1>3, <1>4, <1>5, <1>6 DEF LoopInv, FlowKnown

LEMMA SkipNextSliceFlow ==
    ASSUME LoopInv, NEW last \in BOOLEAN, SkipNextSlice(last)
    PROVE  FlowKnown'
<1>1. /\ part = "skipped" /\ count' = Counted("slices")
      /\ eof' = last /\ pc' = IF last THEN "finish" ELSE "output"
      /\ UNCHANGED <<stream, part, bPicSkipped, loopFiltered, m_firstSliceInSequence,
                     m_bFirstSliceInPicture>>
  BY DEF SkipNextSlice, EndsPass, skipFlags, firstFlags
<1>2. bPicSkipped /\ ~stream.fresh
  BY <1>1 DEF LoopInv, FlowKnown, RefsInv, EosKnown
<1>3. ~Unfinished' /\ ~Unfinished /\ ~Finishes'
  BY <1>1, <1>2 DEF Unfinished, Finishes
<1>4. ~loopFiltered
  BY <1>2, <1>3 DEF LoopInv, FlowKnown
<1> QED BY <1>1, <1>2, <1>3, <1>4 DEF LoopInv, FlowKnown

LEMMA DecodeNextSliceFlow ==
    ASSUME LoopInv, Orderly, NEW last \in BOOLEAN, DecodeNextSlice(last)
    PROVE  FlowKnown'
<1>1. /\ pc = "look" /\ part = "decoded" /\ count' = Counted("slices")
      /\ ~(last /\ Cardinality(stream.pics) = 1 /\ count.eos > 0)
      /\ eof' = last /\ pc' = IF last THEN "finish" ELSE "output"
      /\ UNCHANGED <<stream, part, bPicSkipped, loopFiltered, m_firstSliceInSequence,
                     m_bFirstSliceInPicture>>
  BY DEF DecodeNextSlice, EndsPass, skipFlags, firstFlags, Orderly
<1>2. Unfinished /\ ~stream.fresh
  BY <1>1 DEF LoopInv, FlowKnown, RefsInv, EosKnown
<1>3. Unfinished'
  BY <1>1, <1>2 DEF Unfinished
<1>4. count'.eos = count.eos
  BY <1>1, CountedType DEF LoopInv, TypeInv, TypeOK
<1> QED BY <1>1, <1>2, <1>3, <1>4 DEF LoopInv, FlowKnown

LEMMA DropSliceFlow ==
    ASSUME LoopInv, NEW last \in BOOLEAN, DropSlice(last)
    PROVE  FlowKnown'
<1>1. /\ m_bFirstSliceInPicture /\ ~stream.fresh
      /\ bPicSkipped' = TRUE /\ part' = "dropped"
      /\ eof' = last /\ pc' = IF last THEN "finish" ELSE "output"
      /\ UNCHANGED <<stream, loopFiltered, m_firstSliceInSequence>>
  BY DEF DropSlice, ReadsFirstSlice, EndsPass, firstFlags
<1>2. ~Unfinished' /\ ~Unfinished /\ ~Finishes'
  BY <1>1 DEF Unfinished, Finishes
<1>3. ~loopFiltered
  BY <1>1, <1>2 DEF LoopInv, FlowKnown
<1> QED BY <1>1, <1>2, <1>3 DEF LoopInv, FlowKnown

LEMMA DecodeEosFlow ==
    ASSUME LoopInv, Orderly, NEW last \in BOOLEAN, DecodeEos(last)
    PROVE  FlowKnown'
<1>1. /\ pc = "look" /\ part \in {"decoded", "skipped", "dropped"}
      /\ ~(last /\ Cardinality(stream.pics) = 1 /\ count.eos > 0)
      /\ count' = Counted("eos") /\ stream' = [stream EXCEPT !.fresh = TRUE]
      /\ eof' = last /\ pc' = "finish" /\ part' = "eos"
      /\ UNCHANGED <<bPicSkipped, loopFiltered, m_firstSliceInSequence,
                     m_bFirstSliceInPicture>>
  BY DEF DecodeEos, skipFlags, firstFlags, Orderly
<1>2. ~stream.fresh
  BY <1>1 DEF LoopInv, RefsInv, EosKnown
<1>3. Unfinished' = Unfinished /\ Finishes' = Finishes
  BY <1>1 DEF Unfinished, Finishes
<1>4. Finishes => Unfinished
  BY <1>1 DEF LoopInv, FlowKnown, Finishes
<1>5. stream'.fresh /\ stream'.pics = stream.pics /\ stream.pics # {}
  BY <1>1, <1>2 DEF LoopInv, FlowKnown, TypeInv, TypeOK, Stream
<1>6. count'.eos > 0
  BY <1>1, CountedType DEF LoopInv, TypeInv, TypeOK
<1>7. loopFiltered => Cardinality(stream.pics) = 1 /\ count.eos > 0
  BY <1>2 DEF LoopInv, FlowKnown
<1> QED BY <1>1, <1>3, <1>4, <1>5, <1>6, <1>7 DEF FlowKnown

LEMMA LookAheadFlow == ASSUME LoopInv, LookAhead PROVE FlowKnown'
<1>1. /\ pc = "look" /\ ~eof /\ ~m_bFirstSliceInPicture
      /\ part' = "picture" /\ pc' = "finish"
      /\ UNCHANGED <<stream, eof, count, bPicSkipped, loopFiltered, m_firstSliceInSequence,
                     m_bFirstSliceInPicture>>
      /\ part \in {"decoded", "dropped", "eos"}
  BY DEF LookAhead, skipFlags, firstFlags
<1>2. Unfinished' = Unfinished /\ Finishes' = Finishes /\ (Finishes => Unfinished)
  BY <1>1 DEF Unfinished, Finishes
<1>3. count.eos > 0 \/ ~stream.fresh
  BY <1>1 DEF LoopInv, RefsInv, EosKnown, RefsTypeOK
<1> QED BY <1>1, <1>2, <1>3 DEF LoopInv, FlowKnown

LEMMA FinishBlockFlow == ASSUME LoopInv, FinishBlock PROVE FlowKnown'
<1>1. /\ pc = "finish" /\ pc' = "output"
      /\ UNCHANGED <<stream, part, eof, count, bPicSkipped>>
  BY DEF FinishBlock, bitstream, skipFlags
<1>2. count.eos > 0 \/ ~stream.fresh
  BY <1>1 DEF LoopInv, FlowKnown
<1>3. part = "eos" <=> nalu = "EOS"
  BY DEF LoopInv, RefsInv, EosKnown
<1>4. CASE Finishes
  <2>1. ~loopFiltered \/ ~eof
    BY <1>1 DEF LoopInv, FlowKnown
  <2>2. /\ m_bFirstSliceInPicture' = TRUE
        /\ loopFiltered' = (nalu = "EOS")
        /\ m_firstSliceInSequence' = (nalu = "EOS")
    BY <1>4, <2>1 DEF FinishBlock
  <2>3. ~Unfinished'
    BY <2>2 DEF Unfinished
  <2> QED BY <1>1, <1>2, <1>3, <1>4, <2>2, <2>3 DEF LoopInv, FlowKnown, Finishes
<1>5. CASE ~Finishes
  <2>1. /\ m_bFirstSliceInPicture' = TRUE
        /\ UNCHANGED <<loopFiltered, m_firstSliceInSequence>>
    BY <1>5 DEF FinishBlock
  <2>2. ~Unfinished' /\ ~Unfinished
    BY <1>5, <2>1 DEF Unfinished, Finishes
  <2> QED BY <1>1, <1>2, <1>3, <1>5, <2>1, <2>2 DEF LoopInv, FlowKnown, Finishes
<1> QED BY <1>4, <1>5

LEMMA OutputBlockFlow == ASSUME LoopInv, OutputBlock PROVE FlowKnown'
<1>1. /\ pc = "output" /\ pc' = IF eof THEN "flush" ELSE "look"
      /\ m_bFirstSliceInPicture' = (m_bFirstSliceInPicture /\ nalu # "EOS")
      /\ UNCHANGED <<stream, part, eof, count, bPicSkipped, loopFiltered,
                     m_firstSliceInSequence>>
  BY DEF OutputBlock, bitstream, skipFlags, firstFlags
<1>2. part = "eos" <=> nalu = "EOS"
  BY DEF LoopInv, RefsInv, EosKnown
<1>3. Finishes' = Finishes
  BY <1>1 DEF Finishes
<1>4. CASE nalu = "EOS"
  <2>1. ~Finishes /\ ~Unfinished /\ ~Unfinished'
    BY <1>1, <1>2, <1>3, <1>4 DEF LoopInv, FlowKnown, Unfinished, Finishes
  <2> QED BY <1>1, <1>2, <1>3, <1>4, <2>1 DEF LoopInv, FlowKnown
<1>5. CASE nalu # "EOS"
  <2>1. Unfinished' = Unfinished
    BY <1>1, <1>5 DEF Unfinished, LoopInv, TypeInv, TypeOK
  <2> QED BY <1>1, <1>2, <1>3, <1>5, <2>1 DEF LoopInv, FlowKnown
<1> QED BY <1>4, <1>5

LEMMA FlushFlow == ASSUME LoopInv, Flush PROVE FlowKnown'
<1>1. /\ pc = "flush" /\ pc' = "done"
      /\ UNCHANGED <<stream, part, eof, count, bPicSkipped, loopFiltered,
                     m_firstSliceInSequence, m_bFirstSliceInPicture>>
  BY DEF Flush, bitstream, skipFlags, firstFlags
<1>2. Unfinished' = Unfinished /\ Finishes' = Finishes
  BY <1>1 DEF Unfinished, Finishes
<1> QED BY <1>1, <1>2 DEF LoopInv, FlowKnown

LEMMA InitFlow == Init => FlowKnown
<1> SUFFICES ASSUME Init PROVE FlowKnown
  OBVIOUS
<1>1. count.eos = 0 /\ stream.fresh /\ stream.pics = {}
  BY DEF Init, EmptyStream
<1> QED BY <1>1 DEF Init, FlowKnown, Unfinished, Finishes

LEMMA InitLoop == Init => LoopInv
BY InitFlow, InitTyped, InitRefs DEF LoopInv

LEMMA NextLoop == ASSUME LoopInv, Orderly, [Next]_vars PROVE LoopInv'
<1>1. TypeInv' /\ RefsInv'
  BY NextTyped, NextRefs DEF LoopInv, Orderly
<1>2. ASSUME NEW last \in BOOLEAN, ReadNal(last)
      PROVE  FlowKnown'
  <2>1. ASSUME NEW h \in Followers(stream), DecodeFirstSlice(h, last)
        PROVE  FlowKnown'
    BY <2>1, DecodeFirstSliceFlow
  <2>2. ASSUME NEW h \in Followers(stream), SkipFirstSlice(h, last)
        PROVE  FlowKnown'
    BY <2>2, SkipFirstSliceFlow
  <2> QED BY <1>2, <2>1, <2>2, SkipNextSliceFlow, DecodeNextSliceFlow, DropSliceFlow,
             DecodeEosFlow DEF ReadNal
<1>3. ASSUME UNCHANGED vars PROVE FlowKnown'
  <2>1. UNCHANGED <<stream, part, eof, count, pc, bPicSkipped, loopFiltered,
                     m_firstSliceInSequence, m_bFirstSliceInPicture>>
    BY <1>3 DEF vars, bitstream, skipFlags, firstFlags
  <2>2. Unfinished' = Unfinished /\ Finishes' = Finishes
    BY <2>1 DEF Unfinished, Finishes
  <2> QED BY <2>1, <2>2 DEF LoopInv, FlowKnown
<1>4. FlowKnown'
  BY <1>2, <1>3, LookAheadFlow, FinishBlockFlow, OutputBlockFlow, FlushFlow DEF Next
<1> QED BY <1>1, <1>4 DEF LoopInv

-----------------------------------------------------------------------------
(***************************************************************************)
(* What is expected of the output, and the bumping decoder.                *)
(***************************************************************************)
\* POCs of the pictures of the CVS that are output.
ExpectedPocs(s) == {x[2] : x \in {y \in s.expected : y[1] = s.cvs}}

LEMMA BumpBeforeFacts ==
    ASSUME NEW s \in Stream, NEW h \in Header, Cardinality(h.keep) < MaxDecPicBuffering
    PROVE  /\ BumpBefore(s, h) \in s.waiting \cup {s.horizon}
           /\ BumpBefore(s, h) \in Poc \cup {-1}
           /\ Room(s, h, BumpBefore(s, h))
<1> DEFINE S == s.waiting \cup {s.horizon}
           R == {x \in S : Room(s, h, x)}
<1>1. S # {} /\ S \subseteq Poc \cup {-1}
  BY DEF Stream
<1>2. PICK x \in S : \A y \in S : y <= x
  <2> HIDE DEF S
  <2> QED BY <1>1, HighestExists
<1>3. Left(s, x) = {}
  BY <1>2, StreamAssumption DEF Left, Stream, Poc
<1>4. Room(s, h, x)
  BY <1>3, FS_EmptySet, StreamAssumption DEF Room
<1>5. R # {} /\ R \subseteq Nat \cup {-1} /\ R \subseteq Poc \cup {-1}
  BY <1>1, <1>2, <1>4 DEF Poc
<1>6. LeastOf(R) \in R
  <2> HIDE DEF R
  <2> QED BY <1>5, LeastOfType
<1>7. BumpBefore(s, h) = LeastOf(R)
  BY DEF BumpBefore
<1> QED BY <1>5, <1>6, <1>7

LEMMA BumpAfterFacts ==
    ASSUME NEW waiting \in SUBSET Poc, NEW horizon \in Poc \cup {-1}
    PROVE  /\ BumpAfter(waiting, horizon) \in waiting \cup {horizon}
           /\ BumpAfter(waiting, horizon) \in Poc \cup {-1}
           /\ Cardinality({w \in waiting : w > BumpAfter(waiting, horizon)}) <= MaxNumReorder
<1> DEFINE S == waiting \cup {horizon}
           R == {x \in S : Cardinality({w \in waiting : w > x}) <= MaxNumReorder}
<1>1. S # {} /\ S \subseteq Poc \cup {-1}
  OBVIOUS
<1>2. PICK x \in S : \A y \in S : y <= x
  <2> HIDE DEF S
  <2> QED BY <1>1, HighestExists
<1>3. {w \in waiting : w > x} = {}
  <2>1. ASSUME NEW w \in waiting PROVE ~(w > x)
    BY <1>2, StreamAssumption DEF Poc
  <2> QED BY <2>1
<1>4. x \in R
  BY <1>3, FS_EmptySet, StreamAssumption
<1>5. R # {} /\ R \subseteq Nat \cup {-1} /\ R \subseteq Poc \cup {-1}
  <2>1. R \subseteq Poc \cup {-1}
    BY <1>1
  <2>2. Poc \subseteq Nat
    BY StreamAssumption DEF Poc
  <2> QED BY <2>1, <2>2, <1>4
<1>6. LeastOf(R) \in R
  <2> HIDE DEF R
  <2> QED BY <1>5, LeastOfType
<1>7. BumpAfter(waiting, horizon) = LeastOf(R)
  BY DEF BumpAfter
<1> QED BY <1>5, <1>6, <1>7

\* POCs are few.
LEMMA PocsFinite ==
    ASSUME NEW S, S \subseteq Poc
    PROVE  IsFiniteSet(S) /\ Cardinality(S) \in Nat
<1>1. IsFiniteSet(Poc)
  BY StreamAssumption, FS_Interval DEF Poc
<1> QED BY <1>1, FS_Subset, FS_CardinalityType

LEMMA FirstPictureOutput ==
    ASSUME NEW s \in Stream, NEW h \in Header, StartsCvs(s, h)
    PROVE  /\ Coded(s, h).recovery = IF h.kind = "GDR" THEN h.poc + h.recoveryPocCnt ELSE 0
           /\ Coded(s, h).expected =
                IF h.output /\ h.recoveryPocCnt = 0
                THEN s.expected \cup {<<s.cvs + 1, h.poc>>} ELSE s.expected
           /\ Coded(s, h).waiting =
                IF h.output /\ h.recoveryPocCnt = 0 /\ MaxNumReorder > 0 THEN {h.poc} ELSE {}
           /\ Coded(s, h).horizon =
                IF h.output /\ h.recoveryPocCnt = 0 /\ MaxNumReorder = 0 THEN h.poc ELSE -1
<1> DEFINE shown == h.output /\ h.recoveryPocCnt = 0
           pics == {<<h.poc, "anchor">>}
           waiting == IF shown /\ MaxNumReorder > 0 THEN {h.poc} ELSE {}
           horizon == IF shown /\ MaxNumReorder = 0 THEN h.poc ELSE -1
           recovery == IF h.kind = "GDR" THEN h.poc + h.recoveryPocCnt ELSE 0
           expected == IF shown THEN s.expected \cup {<<s.cvs + 1, h.poc>>} ELSE s.expected
<1>1. Coded(s, h) =
        [s EXCEPT !.cvs = s.cvs + 1, !.fresh = FALSE, !.anchor = h.kind, !.starts = TRUE,
                  !.pics = pics, !.dpb = {h.poc}, !.waiting = waiting,
                  !.horizon = horizon, !.recovery = recovery, !.expected = expected]
  BY DEF Coded, FirstPicture, Stream
<1> HIDE DEF pics, waiting, horizon, recovery, expected, shown
<1>2. /\ Coded(s, h).recovery = recovery /\ Coded(s, h).expected = expected
      /\ Coded(s, h).waiting = waiting /\ Coded(s, h).horizon = horizon
  BY <1>1 DEF Stream
<1>3. waiting = IF h.output /\ h.recoveryPocCnt = 0 /\ MaxNumReorder > 0 THEN {h.poc} ELSE {}
  BY DEF waiting, shown
<1>4. horizon = IF h.output /\ h.recoveryPocCnt = 0 /\ MaxNumReorder = 0 THEN h.poc ELSE -1
  BY DEF horizon, shown
<1>5. expected = IF h.output /\ h.recoveryPocCnt = 0
                 THEN s.expected \cup {<<s.cvs + 1, h.poc>>} ELSE s.expected
  BY DEF expected, shown
<1> QED BY <1>2, <1>3, <1>4, <1>5 DEF recovery

LEMMA FurtherPictureOutput ==
    ASSUME NEW s \in Stream, NEW h \in Header, MayFollow(s, h),
           ~StartsCvs(s, h), ~Undecodable(s, h)
    PROVE  /\ Coded(s, h).recovery = s.recovery
           /\ Coded(s, h).expected =
                IF h.output /\ h.poc >= s.recovery
                THEN s.expected \cup {<<s.cvs, h.poc>>} ELSE s.expected
           /\ \E b \in s.waiting \cup {s.horizon} :
                 /\ b \in Poc \cup {-1}
                 /\ b < h.poc
                 /\ Cardinality(Left(s, b)) <= MaxNumReorder
                 /\ Cardinality(Left(s, b) \cup h.keep) < MaxDecPicBuffering
                 /\ \E w \in SUBSET Poc :
                      /\ w = IF h.output /\ h.poc >= s.recovery
                             THEN Left(s, b) \cup {h.poc} ELSE Left(s, b)
                      /\ Coded(s, h).horizon \in w \cup {b}
                      /\ Coded(s, h).waiting = {x \in w : x > Coded(s, h).horizon}
                      /\ Cardinality({x \in w : x > Coded(s, h).horizon}) <= MaxNumReorder
<1>1. h.poc \in Poc /\ h.output \in BOOLEAN /\ h.keep \subseteq Poc
  BY StreamAssumption DEF Header
<1> DEFINE shown   == h.output /\ h.poc >= s.recovery
           before  == BumpBefore(s, h)
           waiting == Left(s, before) \cup (IF shown THEN {h.poc} ELSE {})
           after   == BumpAfter(waiting, before)
           rest    == {w \in waiting : w > after}
           expected == IF shown THEN s.expected \cup {<<s.cvs, h.poc>>} ELSE s.expected
           pics == PicsWith(s, h)
<1>2. /\ before \in s.waiting \cup {s.horizon} /\ before \in Poc \cup {-1}
      /\ Room(s, h, before) /\ before < h.poc
  <2>1. Cardinality(h.keep) < MaxDecPicBuffering /\ h.poc > before
    BY DEF MayFollow
  <2>2. before \in s.waiting \cup {s.horizon} /\ before \in Poc \cup {-1} /\ Room(s, h, before)
    BY <2>1, BumpBeforeFacts
  <2> HIDE DEF before
  <2>3. h.poc \in Int /\ before \in Int
    <3>1. \A x \in Poc : x \in Int
      BY Sentinels
    <3> QED BY <1>1, <2>2, <3>1
  <2> QED BY <2>1, <2>2, <2>3
<1>3. waiting \in SUBSET Poc
  BY <1>1 DEF Left, Stream
<1>4. Coded(s, h) =
        [s EXCEPT !.anchor = IF h.kind \in Anchors THEN h.kind ELSE s.anchor,
                  !.starts = IF h.kind \in Anchors THEN FALSE ELSE s.starts,
                  !.pics = pics,
                  !.dpb = h.keep \cup {h.poc},
                  !.waiting = rest,
                  !.horizon = after,
                  !.expected = expected]
  BY DEF Coded, FurtherPicture, Stream
<1>5. waiting = IF shown THEN Left(s, before) \cup {h.poc} ELSE Left(s, before)
  OBVIOUS
<1> HIDE DEF before, waiting
<1>6. after \in waiting \cup {before} /\ Cardinality(rest) <= MaxNumReorder
  BY <1>2, <1>3, BumpAfterFacts
<1>7. rest = {w \in waiting : w > after}
  OBVIOUS
<1>8. expected = IF h.output /\ h.poc >= s.recovery
                 THEN s.expected \cup {<<s.cvs, h.poc>>} ELSE s.expected
  OBVIOUS
<1> HIDE DEF after, rest, expected, pics
<1>9. /\ Coded(s, h).recovery = s.recovery /\ Coded(s, h).expected = expected
      /\ Coded(s, h).waiting = rest /\ Coded(s, h).horizon = after
  <2> HIDE DEF shown
  <2> QED BY <1>4 DEF Stream
<1>10. \E b \in s.waiting \cup {s.horizon} :
                 /\ b \in Poc \cup {-1}
                 /\ b < h.poc
                 /\ Cardinality(Left(s, b)) <= MaxNumReorder
                 /\ Cardinality(Left(s, b) \cup h.keep) < MaxDecPicBuffering
                 /\ \E w \in SUBSET Poc :
                      /\ w = IF h.output /\ h.poc >= s.recovery
                             THEN Left(s, b) \cup {h.poc} ELSE Left(s, b)
                      /\ Coded(s, h).horizon \in w \cup {b}
                      /\ Coded(s, h).waiting = {x \in w : x > Coded(s, h).horizon}
                      /\ Cardinality({x \in w : x > Coded(s, h).horizon}) <= MaxNumReorder
  <2>1. /\ Cardinality(Left(s, before)) <= MaxNumReorder
        /\ Cardinality(Left(s, before) \cup h.keep) < MaxDecPicBuffering
    BY <1>2 DEF Room
  <2>2. /\ waiting = IF h.output /\ h.poc >= s.recovery
                     THEN Left(s, before) \cup {h.poc} ELSE Left(s, before)
        /\ Coded(s, h).horizon \in waiting \cup {before}
        /\ Coded(s, h).waiting = {x \in waiting : x > Coded(s, h).horizon}
        /\ Cardinality({x \in waiting : x > Coded(s, h).horizon}) <= MaxNumReorder
    BY <1>5, <1>6, <1>7, <1>9
  <2> QED BY <1>2, <1>3, <2>1, <2>2
<1> QED BY <1>8, <1>9, <1>10

\* The limits of the stream: its bumping decoder has output what it may, and
\* what waits fits the reordering limit and, with the reference pictures, the
\* buffer.
StreamOk(s) ==
    /\ \A x \in s.expected : x[1] <= s.cvs
    /\ ExpectedPocs(s) \subseteq Used(s)
    /\ s.waiting = {poc \in ExpectedPocs(s) : poc > s.horizon}
    /\ Cardinality(s.waiting) <= MaxNumReorder
    /\ Cardinality(s.waiting \cup s.dpb) <= MaxDecPicBuffering
    /\ s.starts => ExpectedPocs(s) \subseteq Of(s, {"anchor", "radl", "trail"})
    /\ s.starts /\ s.anchor = "CRA" => s.recovery = 0

\* A CVS of one picture.
LEMMA OfOne ==
    ASSUME NEW s, NEW poc, NEW classes, s.pics = {<<poc, "anchor">>}, "anchor" \in classes
    PROVE  Of(s, classes) = {poc}
<1>1. \E x \in s.pics : x[2] \in classes /\ x[1] = poc
  <2>1. <<poc, "anchor">> \in s.pics /\ <<poc, "anchor">>[2] \in classes
        /\ <<poc, "anchor">>[1] = poc
    OBVIOUS
  <2> QED BY <2>1
<1>2. poc \in Of(s, classes)
  BY <1>1, OfMembers
<1>3. \A x \in s.pics : x[1] = poc
  OBVIOUS
<1> QED BY <1>2, <1>3 DEF Of

LEMMA UsedBy ==
    ASSUME NEW s \in Stream, NEW h \in Header, MayFollow(s, h)
    PROVE  /\ StartsCvs(s, h) => Used(Coded(s, h)) = {h.poc}
           /\ ~StartsCvs(s, h) => Used(Coded(s, h)) = Used(s) \cup {h.poc}
<1>0. /\ StartsCvs(s, h) => Coded(s, h).pics = {<<h.poc, "anchor">>}
      /\ ~StartsCvs(s, h) => Coded(s, h).pics = PicsWith(s, h)
  <2>1. CASE StartsCvs(s, h)
    <3>1. h.kind \in Anchors
      BY <2>1 DEF StartsCvs, MayFollow, Anchors
    <3> QED BY <2>1, <3>1, FirstPictureFacts
  <2>2. CASE ~StartsCvs(s, h)
    <3>1. CASE Undecodable(s, h)
      BY <2>2, <3>1, UndecodableFacts DEF Stream
    <3>2. CASE ~Undecodable(s, h)
      BY <2>2, <3>2, FurtherPictureFacts
    <3> QED BY <2>2, <3>1, <3>2
  <2> QED BY <2>1, <2>2
<1>1. ASSUME StartsCvs(s, h) PROVE Used(Coded(s, h)) = {h.poc}
  BY <1>0, <1>1, OfOne DEF Used, Classes
<1>2. ASSUME ~StartsCvs(s, h) PROVE Used(Coded(s, h)) = Used(s) \cup {h.poc}
  <2>1. Coded(s, h) \in Stream /\ Coded(s, h).pics = PicsWith(s, h)
    BY <1>0, <1>2, CodedType
  <2>2. Used(s) \subseteq Used(Coded(s, h)) /\ h.poc \in Used(Coded(s, h))
    BY <2>1, UsedWith
  <2>3. ASSUME NEW x \in PicsWith(s, h)
        PROVE  x[1] = h.poc \/ x[1] \in Used(s)
    <3>1. \A y \in s.pics : y[1] \in Used(s)
      BY DEF Used, Of, Stream
    <3>2. CASE h.kind \in Anchors
      BY <2>3, <3>1, <3>2 DEF PicsWith
    <3>3. CASE h.kind \notin Anchors
      BY <2>3, <3>1, <3>3 DEF PicsWith
    <3> QED BY <3>2, <3>3
  <2>4. Used(Coded(s, h)) \subseteq Used(s) \cup {h.poc}
    BY <2>1, <2>3 DEF Used, Of
  <2> QED BY <2>2, <2>4
<1> QED BY <1>1, <1>2

\* The pictures output, by CVS.
LEMMA ExpectedMembers ==
    ASSUME NEW s \in Stream, NEW poc
    PROVE  poc \in ExpectedPocs(s) <=> <<s.cvs, poc>> \in s.expected
<1>1. \A x \in s.expected : x = <<x[1], x[2]>>
  BY DEF Stream
<1> QED BY <1>1 DEF ExpectedPocs

LEMMA ExpectedType ==
    ASSUME NEW s \in Stream
    PROVE  ExpectedPocs(s) \subseteq Poc
BY DEF ExpectedPocs, Stream

LEMMA FirstPictureOk ==
    ASSUME NEW s \in Stream, NEW h \in Header, MayFollow(s, h), StreamOk(s),
           StartsCvs(s, h)
    PROVE  /\ StreamOk(Coded(s, h))
           /\ ExpectedPocs(Coded(s, h)) = IF h.output /\ h.recoveryPocCnt = 0
                                          THEN {h.poc} ELSE {}
<1> DEFINE t == Coded(s, h)
           shown == h.output /\ h.recoveryPocCnt = 0
<1>1. h.kind \in Anchors /\ h.poc \in Poc /\ h.poc \in Nat
  <2>1. h.kind \in Anchors /\ h.poc \in Poc
    BY DEF StartsCvs, MayFollow, Anchors, Header
  <2> QED BY <2>1, Sentinels
<1>2. /\ t \in Stream /\ t.cvs = s.cvs + 1 /\ t.dpb = {h.poc} /\ t.anchor = h.kind
      /\ t.pics = {<<h.poc, "anchor">>}
  BY <1>1, FirstPictureFacts
<1>3. /\ t.expected = IF shown THEN s.expected \cup {<<s.cvs + 1, h.poc>>} ELSE s.expected
      /\ t.waiting = IF shown /\ MaxNumReorder > 0 THEN {h.poc} ELSE {}
      /\ t.horizon = IF shown /\ MaxNumReorder = 0 THEN h.poc ELSE -1
      /\ t.recovery = IF h.kind = "GDR" THEN h.poc + h.recoveryPocCnt ELSE 0
  BY FirstPictureOutput
<1> HIDE DEF shown, t
<1>4. s.cvs \in Nat /\ \A x \in s.expected : x[1] \in Nat /\ x[1] <= s.cvs
  BY DEF Stream, StreamOk
<1>5. \A x \in t.expected : x[1] <= t.cvs
  <2>1. \A x \in s.expected : x[1] <= s.cvs + 1
    BY <1>4
  <2> QED BY <1>2, <1>3, <1>4, <2>1
<1>6. ExpectedPocs(t) = IF shown THEN {h.poc} ELSE {}
  <2>1. \A x \in s.expected : x[1] # s.cvs + 1
    BY <1>4
  <2>2. \A x : x \in ExpectedPocs(t) <=> <<s.cvs + 1, x>> \in t.expected
    BY <1>2, ExpectedMembers
  <2> HIDE DEF t
  <2>3. \A x : <<s.cvs + 1, x>> \notin s.expected
    BY <2>1
  <2>4. \A x : <<s.cvs + 1, x>> = <<s.cvs + 1, h.poc>> <=> x = h.poc
    OBVIOUS
  <2>5. CASE shown
    <3>1. \A x : x \in ExpectedPocs(t) <=> x = h.poc
      BY <1>3, <2>2, <2>3, <2>4, <2>5
    <3> QED BY <2>5, <3>1
  <2>6. CASE ~shown
    <3>1. \A x : x \notin ExpectedPocs(t)
      BY <1>3, <2>2, <2>3, <2>6
    <3> QED BY <2>6, <3>1
  <2> QED BY <2>5, <2>6
<1>7. Used(t) = {h.poc} /\ Of(t, {"anchor", "radl", "trail"}) = {h.poc}
  <2>0. t.pics = {<<h.poc, "anchor">>}
    BY <1>2
  <2>1. ASSUME NEW classes, "anchor" \in classes PROVE Of(t, classes) = {h.poc}
    BY <2>0, <2>1, OfOne
  <2> QED BY <2>1 DEF Used, Classes
<1>8. t.waiting = {poc \in ExpectedPocs(t) : poc > t.horizon}
  <2>1. MaxNumReorder > 0 <=> MaxNumReorder # 0
    BY StreamAssumption
  <2>2. h.poc > -1 /\ ~(h.poc > h.poc)
    BY <1>1
  <2> QED BY <1>3, <1>6, <2>1, <2>2
<1>9. Cardinality(t.waiting) <= MaxNumReorder
  <2>1. Cardinality({}) = 0 /\ Cardinality({h.poc}) = 1
    BY FS_EmptySet, FS_Singleton
  <2> QED BY <1>3, <2>1, StreamAssumption
<1>10. Cardinality(t.waiting \cup t.dpb) <= MaxDecPicBuffering
  <2>1. t.waiting \cup t.dpb = {h.poc}
    BY <1>2, <1>3
  <2>2. Cardinality({h.poc}) = 1
    BY FS_Singleton
  <2> QED BY <2>1, <2>2, StreamAssumption
<1>11. t.anchor = "CRA" => t.recovery = 0
  BY <1>2, <1>3
<1>12. StreamOk(t)
  BY <1>5, <1>6, <1>7, <1>8, <1>9, <1>10, <1>11 DEF StreamOk
<1> QED BY <1>6, <1>12 DEF t, shown

\* A picture that may follow comes after what has been output, and the pictures
\* that come after it in output order leave room for it.
LEMMA FurtherPictureOk ==
    ASSUME NEW s \in Stream, NEW h \in Header, MayFollow(s, h), StreamOk(s),
           ~StartsCvs(s, h), ~Undecodable(s, h)
    PROVE  /\ StreamOk(Coded(s, h))
           /\ ExpectedPocs(Coded(s, h)) =
                IF h.output /\ h.poc >= s.recovery
                THEN ExpectedPocs(s) \cup {h.poc} ELSE ExpectedPocs(s)
           /\ s.horizon < h.poc
           /\ s.horizon <= Coded(s, h).horizon
           /\ Cardinality({p \in ExpectedPocs(s) : p > h.poc}) <= MaxNumReorder
           /\ Cardinality({p \in ExpectedPocs(s) : p > h.poc} \cup Coded(s, h).dpb)
                <= MaxDecPicBuffering
<1> DEFINE t == Coded(s, h)
           shown == h.output /\ h.poc >= s.recovery
           E == ExpectedPocs(s)
           Left0(x) == Left(s, x)
<1>0. /\ \A x \in Poc : x \in Nat /\ x > -1
  BY Sentinels
<1>1. /\ h.poc \in Poc /\ h.keep \subseteq Poc /\ s.horizon \in Poc \cup {-1}
      /\ E \subseteq Poc /\ s.cvs \in Nat
  BY ExpectedType DEF Header, Stream
<1>2. /\ t \in Stream /\ t.cvs = s.cvs /\ t.dpb = h.keep \cup {h.poc}
      /\ t.pics = PicsWith(s, h)
      /\ t.starts = (s.starts /\ h.kind \notin Anchors)
      /\ t.anchor = IF h.kind \in Anchors THEN h.kind ELSE s.anchor
  BY FurtherPictureFacts
<1>3. /\ t.recovery = s.recovery
      /\ t.expected = IF shown THEN s.expected \cup {<<s.cvs, h.poc>>} ELSE s.expected
  BY FurtherPictureOutput
<1>4. PICK b \in s.waiting \cup {s.horizon} :
        /\ b \in Poc \cup {-1}
        /\ b < h.poc
        /\ Cardinality(Left(s, b)) <= MaxNumReorder
        /\ Cardinality(Left(s, b) \cup h.keep) < MaxDecPicBuffering
        /\ \E w \in SUBSET Poc :
             /\ w = IF shown THEN Left(s, b) \cup {h.poc} ELSE Left(s, b)
             /\ t.horizon \in w \cup {b}
             /\ t.waiting = {x \in w : x > t.horizon}
             /\ Cardinality({x \in w : x > t.horizon}) <= MaxNumReorder
  BY FurtherPictureOutput
<1>5. PICK w \in SUBSET Poc :
             /\ w = IF shown THEN Left(s, b) \cup {h.poc} ELSE Left(s, b)
             /\ t.horizon \in w \cup {b}
             /\ t.waiting = {x \in w : x > t.horizon}
             /\ Cardinality({x \in w : x > t.horizon}) <= MaxNumReorder
  BY <1>4
<1> HIDE DEF t, shown, E
<1>6. s.waiting = {poc \in E : poc > s.horizon}
  BY DEF StreamOk, E
<1>7. s.horizon <= b
  BY <1>0, <1>1, <1>4, <1>6
<1>8. Left(s, b) = {x \in E : x > b}
  <2>1. ASSUME NEW x \in E, x > b PROVE x > s.horizon
    BY <1>0, <1>1, <1>4, <1>7, <2>1
  <2> QED BY <1>6, <2>1 DEF Left
<1>9. ExpectedPocs(t) = IF shown THEN E \cup {h.poc} ELSE E
  <2>1. CASE shown
    <3>1. t.expected = s.expected \cup {<<s.cvs, h.poc>>}
      BY <1>3, <2>1
    <3>2. \A x : x \in ExpectedPocs(t) <=> x \in E \cup {h.poc}
      <4>1. \A x : x \in ExpectedPocs(t) <=> <<s.cvs, x>> \in t.expected
        BY <1>2, ExpectedMembers
      <4>2. \A x : x \in E <=> <<s.cvs, x>> \in s.expected
        BY ExpectedMembers DEF E
      <4>3. \A x : <<s.cvs, x>> = <<s.cvs, h.poc>> <=> x = h.poc
        OBVIOUS
      <4> QED BY <3>1, <4>1, <4>2, <4>3
    <3> QED BY <2>1, <3>2
  <2>2. CASE ~shown
    BY <1>2, <1>3, <2>2 DEF ExpectedPocs, E
  <2> QED BY <2>1, <2>2
<1>10. \A x \in t.expected : x[1] <= t.cvs
  <2>1. \A x \in s.expected : x[1] <= s.cvs
    BY DEF StreamOk
  <2> QED BY <1>1, <1>2, <1>3, <2>1
<1>11. ExpectedPocs(t) \subseteq Used(t)
  <2>1. E \subseteq Used(s)
    BY DEF StreamOk, E
  <2>2. Used(t) = Used(s) \cup {h.poc}
    BY UsedBy DEF t
  <2> QED BY <1>9, <2>1, <2>2
<1>12. b <= t.horizon /\ t.horizon \in Poc \cup {-1}
  BY <1>0, <1>1, <1>4, <1>5, <1>8
<1>13. t.waiting = {poc \in ExpectedPocs(t) : poc > t.horizon}
  <2>1. ASSUME NEW x \in E, x > t.horizon PROVE x > b
    BY <1>0, <1>1, <1>4, <1>12, <2>1
  <2> QED BY <1>5, <1>8, <1>9, <2>1
<1>14. Cardinality(t.waiting) <= MaxNumReorder
  BY <1>5
<1>15. \A S \in SUBSET (Left(s, b) \cup h.keep \cup {h.poc}) :
          Cardinality(S) <= MaxDecPicBuffering
  <2>1. Left(s, b) \cup h.keep \subseteq Poc
    BY <1>1, <1>8
  <2> DEFINE L == Left(s, b) \cup h.keep
  <2>2. IsFiniteSet(L) /\ Cardinality(L) \in Nat /\ Cardinality(L) < MaxDecPicBuffering
    BY <1>4, <2>1, PocsFinite
  <2> HIDE DEF L
  <2>3. /\ IsFiniteSet(L \cup {h.poc})
        /\ Cardinality(L \cup {h.poc}) \in {Cardinality(L), Cardinality(L) + 1}
    BY <2>2, FS_AddElement
  <2>4. Cardinality(L \cup {h.poc}) <= MaxDecPicBuffering
    BY <2>2, <2>3, StreamAssumption
  <2>5. ASSUME NEW S \in SUBSET (L \cup {h.poc}) PROVE Cardinality(S) <= MaxDecPicBuffering
    <3>1. IsFiniteSet(S) /\ Cardinality(S) <= Cardinality(L \cup {h.poc})
      BY <2>3, FS_Subset
    <3>2. Cardinality(S) \in Nat
      BY <3>1, FS_CardinalityType
    <3>3. Cardinality(L \cup {h.poc}) \in Nat
      BY <2>3, FS_CardinalityType
    <3> QED BY <2>4, <3>1, <3>2, <3>3, StreamAssumption
  <2> QED BY <2>5 DEF L
<1>16. Cardinality(t.waiting \cup t.dpb) <= MaxDecPicBuffering
  <2>1. t.waiting \cup t.dpb \subseteq Left(s, b) \cup h.keep \cup {h.poc}
    BY <1>2, <1>5
  <2> QED BY <1>15, <2>1
<1>17. {p \in E : p > h.poc} \subseteq Left(s, b)
  BY <1>0, <1>1, <1>4, <1>8
<1>18. Cardinality({p \in E : p > h.poc} \cup t.dpb) <= MaxDecPicBuffering
  <2>1. {p \in E : p > h.poc} \cup t.dpb \subseteq Left(s, b) \cup h.keep \cup {h.poc}
    BY <1>2, <1>17
  <2> QED BY <1>15, <2>1
<1>19. Cardinality({p \in E : p > h.poc}) <= MaxNumReorder
  <2>1. Left(s, b) \subseteq Poc /\ {p \in E : p > h.poc} \subseteq Poc
    BY <1>1, <1>8
  <2>2. IsFiniteSet(Left(s, b)) /\ Cardinality(Left(s, b)) \in Nat
        /\ Cardinality({p \in E : p > h.poc}) \in Nat
    BY <2>1, PocsFinite
  <2>3. Cardinality({p \in E : p > h.poc}) <= Cardinality(Left(s, b))
    BY <1>17, <2>2, FS_Subset
  <2> QED BY <1>4, <2>2, <2>3, StreamAssumption
<1>20. s.horizon < h.poc /\ s.horizon <= t.horizon
  BY <1>0, <1>1, <1>4, <1>7, <1>12
<1>21. t.starts => ExpectedPocs(t) \subseteq Of(t, {"anchor", "radl", "trail"})
  <2> SUFFICES ASSUME t.starts PROVE ExpectedPocs(t) \subseteq Of(t, {"anchor", "radl", "trail"})
    OBVIOUS
  <2>1. s.starts /\ h.kind \notin Anchors
    BY <1>2
  <2>2. h.kind \in {"TRAIL", "RADL"}
    <3>1. h.kind \in {"IDR", "CRA", "GDR", "TRAIL", "RADL", "RASL"}
      BY StreamAssumption DEF Header
    <3> QED BY <2>1, <3>1 DEF Undecodable, Anchors
  <2>3. t.pics = {<<h.poc, ClassOf(h)>>} \cup s.pics
    BY <1>2, <2>1 DEF PicsWith
  <2>4. ClassOf(h) \in {"trail", "radl"}
    BY <2>1, <2>2 DEF ClassOf, Anchors
  <2>5. E \subseteq Of(s, {"anchor", "radl", "trail"})
    BY <2>1 DEF StreamOk, E
  <2>6. Of(s, {"anchor", "radl", "trail"}) \cup {h.poc} \subseteq Of(t, {"anchor", "radl", "trail"})
    <3>1. <<h.poc, ClassOf(h)>> \in t.pics /\ \A x \in s.pics : x \in t.pics
      BY <2>3
    <3>2. ClassOf(h) \in {"anchor", "radl", "trail"}
      BY <2>4
    <3>3. h.poc \in Of(t, {"anchor", "radl", "trail"})
      BY <3>1, <3>2 DEF Of
    <3>4. Of(s, {"anchor", "radl", "trail"}) \subseteq Of(t, {"anchor", "radl", "trail"})
      BY <3>1 DEF Of
    <3> QED BY <3>3, <3>4
  <2> QED BY <1>9, <2>5, <2>6
<1>22. t.starts /\ t.anchor = "CRA" => t.recovery = 0
  BY <1>2, <1>3 DEF StreamOk
<1>23. StreamOk(t)
  BY <1>10, <1>11, <1>13, <1>14, <1>16, <1>21, <1>22 DEF StreamOk
<1> QED BY <1>9, <1>18, <1>19, <1>20, <1>23 DEF t, shown, E

\* A picture that cannot be decoded comes before all that is output of its CVS,
\* and nothing of that has been output.
LEMMA UndecodableOk ==
    ASSUME NEW s \in Stream, NEW h \in Header, MayFollow(s, h), StreamOk(s),
           ~StartsCvs(s, h), Undecodable(s, h)
    PROVE  /\ StreamOk(Coded(s, h))
           /\ Coded(s, h).expected = s.expected
           /\ Coded(s, h).cvs = s.cvs
           /\ Coded(s, h).horizon = s.horizon
           /\ Coded(s, h).recovery = s.recovery
           /\ Coded(s, h).starts = s.starts
           /\ Coded(s, h).anchor = s.anchor
           /\ Coded(s, h).dpb = s.dpb
           /\ \A poc \in ExpectedPocs(s) : poc > s.horizon
<1> DEFINE t == Coded(s, h)
<1>1. t = [s EXCEPT !.pics = PicsWith(s, h)] /\ t \in Stream
  BY UndecodableFacts
<1> HIDE DEF t
<1>2. /\ t.expected = s.expected /\ t.cvs = s.cvs /\ t.horizon = s.horizon
      /\ t.recovery = s.recovery /\ t.starts = s.starts /\ t.anchor = s.anchor
      /\ t.dpb = s.dpb /\ t.waiting = s.waiting /\ t.pics = PicsWith(s, h)
  BY <1>1 DEF Stream
<1>3. h.kind = "RASL" /\ s.starts
  BY DEF Undecodable
<1>4. t.pics = {<<h.poc, ClassOf(h)>>} \cup s.pics
  BY <1>2, <1>3 DEF PicsWith, Anchors
<1>5. ExpectedPocs(t) = ExpectedPocs(s)
  BY <1>2 DEF ExpectedPocs
<1>6. /\ \A classes : Of(s, classes) \subseteq Of(t, classes)
  BY <1>4 DEF Of
<1>7. Used(s) \subseteq Used(t)
  BY <1>6 DEF Used
<1>8. StreamOk(t)
  BY <1>2, <1>5, <1>6, <1>7 DEF StreamOk
<1>9. ASSUME NEW poc \in ExpectedPocs(s) PROVE poc > s.horizon
  <2>1. poc \in Of(s, {"anchor", "radl", "trail"})
    BY <1>3 DEF StreamOk
  <2>2. PICK x \in s.pics : x[2] \in {"anchor", "radl", "trail"} /\ x[1] = poc
    BY <2>1, OfMembers
  <2>3. /\ Of(s, {"trail"}) = {}
        /\ Above(Of(s, {"anchor"}) \cup Of(s, {"radl"}), {h.poc})
        /\ h.poc > s.horizon
    BY <1>3 DEF MayFollow, InOrder, Anchors
  <2>4. x[2] # "trail"
    BY <2>2, <2>3, OfMembers
  <2>5. poc \in Of(s, {"anchor"}) \cup Of(s, {"radl"})
    BY <2>2, <2>4, OfMembers
  <2>6. poc > h.poc
    BY <2>3, <2>5 DEF Above
  <2>7. /\ poc \in Int /\ h.poc \in Int /\ s.horizon \in Int
    <3>1. \A y \in Poc : y \in Int
      BY Sentinels
    <3>2. h.poc \in Poc /\ s.horizon \in Poc \cup {-1} /\ poc \in Poc
      BY ExpectedType DEF Header, Stream
    <3> QED BY <3>1, <3>2
  <2> QED BY <2>3, <2>6, <2>7
<1> QED BY <1>2, <1>8, <1>9 DEF t

\* The stream respects its limits; while a picture is skipped nothing of its
\* CVS has been output.
StreamKnown ==
    /\ StreamOk(stream)
    /\ part = "skipped" => \A poc \in ExpectedPocs(stream) : poc > stream.horizon

StreamInv == LoopInv /\ StreamKnown

LEMMA FollowerFacts ==
    ASSUME StreamInv, NEW h \in Followers(stream)
    PROVE  /\ h \in Header /\ MayFollow(stream, h) /\ stream \in Stream
           /\ StreamOk(stream)
           /\ h.poc \in Poc /\ h.poc \in Nat
           /\ h.kind \in {"IDR", "CRA", "GDR", "TRAIL", "RADL", "RASL"}
           /\ StartsCvs(stream, h) => h.kind \in Anchors
           /\ RandomAccessSkip(h) <=> ~StartsCvs(stream, h) /\ Undecodable(stream, h)
<1>1. stream \in Stream /\ AccessKnown
  BY DEF StreamInv, LoopInv, TypeInv, TypeOK, RefsInv
<1>2. h.poc \in Poc
  BY <1>1, FollowersType
<1>3. h.poc \in Nat
  BY <1>2, Sentinels
<1> QED BY <1>1, <1>2, <1>3, FollowersType, SkipsUndecodable DEF StreamInv, StreamKnown

LEMMA InitStream == Init => StreamInv
<1> SUFFICES ASSUME Init PROVE StreamInv
  OBVIOUS
<1>1. LoopInv
  BY InitLoop
<1>2. stream = EmptyStream /\ part = "picture"
  BY DEF Init
<1>3. ExpectedPocs(EmptyStream) = {}
  BY DEF ExpectedPocs, EmptyStream
<1>4. /\ EmptyStream.expected = {} /\ EmptyStream.waiting = {} /\ EmptyStream.dpb = {}
      /\ EmptyStream.recovery = 0
  BY DEF EmptyStream
<1>5. Cardinality({}) = 0
  BY FS_EmptySet
<1>6. {poc \in {} : poc > EmptyStream.horizon} = {}
  OBVIOUS
<1>7. StreamOk(EmptyStream)
  BY <1>3, <1>4, <1>5, <1>6, StreamAssumption DEF StreamOk
<1> QED BY <1>1, <1>2, <1>7 DEF StreamInv, StreamKnown

\* The stream changes with the first slice of a picture, and with an EOS.
LEMMA SameStreamKnown ==
    ASSUME StreamKnown, part' = "skipped" => part = "skipped",
           stream'.expected = stream.expected, stream'.cvs = stream.cvs,
           stream'.horizon = stream.horizon, stream'.recovery = stream.recovery,
           stream'.starts = stream.starts, stream'.anchor = stream.anchor,
           stream'.dpb = stream.dpb, stream'.waiting = stream.waiting,
           stream'.pics = stream.pics
    PROVE  StreamKnown'
<1>1. ExpectedPocs(stream') = ExpectedPocs(stream)
  BY DEF ExpectedPocs
<1>2. \A classes : Of(stream', classes) = Of(stream, classes)
  BY DEF Of
<1>3. Used(stream') = Used(stream)
  BY <1>2 DEF Used
<1>4. StreamOk(stream')
  BY <1>1, <1>2, <1>3 DEF StreamOk, StreamKnown
<1>5. StreamOk(stream)' /\ ExpectedPocs(stream)' = ExpectedPocs(stream)
  BY <1>1, <1>4 DEF StreamOk, ExpectedPocs, Used, Of
<1> QED BY <1>5 DEF StreamKnown

LEMMA DecodeFirstSliceStream ==
    ASSUME StreamInv, NEW h \in Followers(stream), NEW last \in BOOLEAN,
           DecodeFirstSlice(h, last)
    PROVE  StreamKnown'
<1>1. stream' = Coded(stream, h) /\ part' = "decoded" /\ ~RandomAccessSkip(h)
  BY DEF DecodeFirstSlice
<1>2. StreamOk(Coded(stream, h))
  BY <1>1, FollowerFacts, FirstPictureOk, FurtherPictureOk
<1>3. StreamOk(stream)' = StreamOk(stream')
  BY DEF StreamOk, ExpectedPocs, Used, Of
<1> QED BY <1>1, <1>2, <1>3 DEF StreamKnown

LEMMA SkipFirstSliceStream ==
    ASSUME StreamInv, NEW h \in Followers(stream), NEW last \in BOOLEAN,
           SkipFirstSlice(h, last)
    PROVE  StreamKnown'
<1>1. stream' = Coded(stream, h) /\ RandomAccessSkip(h)
  BY DEF SkipFirstSlice
<1>2. /\ StreamOk(Coded(stream, h)) /\ stream'.expected = stream.expected
      /\ stream'.cvs = stream.cvs /\ stream'.horizon = stream.horizon
      /\ \A poc \in ExpectedPocs(stream) : poc > stream.horizon
  BY <1>1, FollowerFacts, UndecodableOk
<1>3. StreamOk(stream)' = StreamOk(stream')
  BY DEF StreamOk, ExpectedPocs, Used, Of
<1>4. ExpectedPocs(stream)' = ExpectedPocs(stream)
  BY <1>2 DEF ExpectedPocs
<1> QED BY <1>1, <1>2, <1>3, <1>4 DEF StreamKnown

LEMMA NextStream == ASSUME StreamInv, Orderly, [Next]_vars PROVE StreamInv'
<1>1. LoopInv'
  BY NextLoop DEF StreamInv
<1>2. stream \in Stream
  BY DEF StreamInv, LoopInv, TypeInv, TypeOK
<1>3. ASSUME stream' = stream \/ stream' = [stream EXCEPT !.fresh = TRUE],
             part' = "skipped" => part = "skipped"
      PROVE  StreamKnown'
  <2>1. /\ stream'.expected = stream.expected /\ stream'.cvs = stream.cvs
        /\ stream'.horizon = stream.horizon /\ stream'.recovery = stream.recovery
        /\ stream'.starts = stream.starts /\ stream'.anchor = stream.anchor
        /\ stream'.dpb = stream.dpb /\ stream'.waiting = stream.waiting
        /\ stream'.pics = stream.pics
    BY <1>2, <1>3 DEF Stream
  <2> QED BY <1>3, <2>1, SameStreamKnown DEF StreamInv
<1>4. ASSUME NEW last \in BOOLEAN, ReadNal(last)
      PROVE  StreamKnown'
  <2>1. ASSUME NEW h \in Followers(stream), DecodeFirstSlice(h, last)
        PROVE  StreamKnown'
    BY <2>1, DecodeFirstSliceStream
  <2>2. ASSUME NEW h \in Followers(stream), SkipFirstSlice(h, last)
        PROVE  StreamKnown'
    BY <2>2, SkipFirstSliceStream
  <2>3. CASE SkipNextSlice(last)
    BY <1>3, <2>3 DEF SkipNextSlice
  <2>4. CASE DecodeNextSlice(last)
    BY <1>3, <2>4 DEF DecodeNextSlice
  <2>5. CASE DropSlice(last)
    BY <1>3, <2>5 DEF DropSlice
  <2>6. CASE DecodeEos(last)
    BY <1>3, <2>6 DEF DecodeEos
  <2> QED BY <1>4, <2>1, <2>2, <2>3, <2>4, <2>5, <2>6 DEF ReadNal
<1>5. ASSUME UNCHANGED vars \/ LookAhead \/ FinishBlock \/ OutputBlock \/ Flush
      PROVE  StreamKnown'
  <2>1. stream' = stream /\ (part' = part \/ part' = "picture")
    BY <1>5 DEF vars, bitstream, LookAhead, FinishBlock, OutputBlock, Flush
  <2> QED BY <1>3, <2>1
<1>6. StreamKnown'
  BY <1>4, <1>5 DEF Next
<1> QED BY <1>1, <1>6 DEF StreamInv

-----------------------------------------------------------------------------
(***************************************************************************)
(* The current picture: whether it is output, and whether a GDR picture    *)
(* has still to recover.                                                   *)
(***************************************************************************)
\* A skipped or dropped picture is remembered at the start of the stream, or
\* when a temporal layer is dropped.
SkipKnown ==
    /\ prevPicSkipped => count.drops > 0 \/ (stream.fresh /\ count.eos = 0)
    /\ part = "decoded" /\ pcSlice.kind # "RASL" => ~prevPicSkipped
    /\ stream.fresh /\ count.eos = 0 =>
         prevPicSkipped /\ ~gdrRecoveryPeriod /\ m_prevGDRInSameLayerPOC = MinusInf

\* The slice header says of the current picture what the stream expects.
HeaderOutput ==
    Unfinished =>
         /\ m_pcPic = <<stream.cvs, pcSlice.poc>>
         /\ pcSlice \in Header
         /\ pcSlice.poc \in Used(stream)
         /\ m_pcPic \in stream.expected <=> pcSlice.output /\ pcSlice.poc >= stream.recovery
         /\ pcSlice.kind = "RASL" => ~m_newCLVS
         /\ pcSlice.kind = "RASL" /\ ~stream.fresh => ~stream.starts /\ stream.anchor = "CRA"
         /\ pcSlice.kind = "IDR" => stream.pics = {<<pcSlice.poc, "anchor">>}

\* What the flags of an earlier anchor still do.
PriorKnown ==
    /\ ~stream.fresh /\ ~stream.starts /\ stream.anchor = "CRA" => ~m_lastNoOutputBeforeRecoveryFlag
    /\ m_isNoOutputPriorPics /\ ~stream.fresh =>
         stream.pics = {<<m_lastPOCNoOutputPriorPics, "anchor">>}

GdrKnown ==
    /\ gdrRecoveryPeriod => \A poc \in Used(stream) :
                              poc < stream.recovery \/ (Unfinished /\ poc = pcSlice.poc)
    /\ gdrRecoveryPeriod /\ ~stream.fresh => m_prevGDRInSameLayerRecoveryPOC = stream.recovery
    /\ gdrRecoveryPeriod /\ stream.fresh => m_prevGDRInSameLayerRecoveryPOC = MinusInf
    /\ stream.pics # {} /\ Recovering(stream) => gdrRecoveryPeriod /\ ~stream.fresh
    /\ Unfinished /\ pcSlice.poc < stream.recovery => Recovering(stream)
    /\ Unfinished /\ pcSlice.kind = "GDR" /\ gdrRecoveryPeriod =>
         pcSlice.poc + pcSlice.recoveryPocCnt = stream.recovery

CurrentKnown == SkipKnown /\ HeaderOutput /\ PriorKnown /\ GdrKnown
CurrentInv == StreamInv /\ CurrentKnown

LEMMA HeaderSame ==
    ASSUME NEW h \in Header \cup {NoSlice}, NEW b
    PROVE  /\ [h EXCEPT !.output = b].kind = h.kind
           /\ [h EXCEPT !.output = b].poc = h.poc
           /\ [h EXCEPT !.output = b].keep = h.keep
           /\ [h EXCEPT !.output = b].recoveryPocCnt = h.recoveryPocCnt
           /\ [h EXCEPT !.output = b].output = b
<1>1. CASE h \in Header
  BY <1>1 DEF Header
<1>2. CASE h = NoSlice
  BY <1>2 DEF NoSlice
<1> QED BY <1>1, <1>2

LEMMA CountedDrops ==
    ASSUME count \in [pics : Nat, slices : Nat, eos : Nat, drops : Nat],
           NEW field \in {"slices", "eos", "drops"}
    PROVE  /\ field = "drops" => Counted(field).drops > 0
           /\ field # "drops" => Counted(field).drops = count.drops
           /\ field = "slices" => Counted(field).slices = count.slices + 1
           /\ field # "slices" => Counted(field).slices = count.slices
           /\ Counted(field).pics = count.pics
<1>1. Counted(field) = [count EXCEPT ![field] = count[field] + 1]
  BY DEF Counted
<1>2. field = "slices" \/ field = "eos" \/ field = "drops"
  OBVIOUS
<1>3. CASE field = "slices"
  BY <1>1, <1>3
<1>4. CASE field = "eos"
  BY <1>1, <1>4
<1>5. CASE field = "drops"
  BY <1>1, <1>5
<1> QED BY <1>2, <1>3, <1>4, <1>5

\* The first slice of a picture that is decoded, in one place.
LEMMA DecodeFirstSliceFacts ==
    ASSUME StreamInv, Orderly, NEW h \in Followers(stream), NEW last \in BOOLEAN,
           DecodeFirstSlice(h, last)
    PROVE  /\ stream' = Coded(stream, h) /\ stream' \in Stream
           /\ m_pcPic' = <<stream'.cvs, h.poc>>
           /\ Used(stream)' = Used(stream')
           /\ Recovering(stream)' = Recovering(stream')
           /\ Unfinished' /\ ~Unfinished
           /\ m_bFirstSliceInPicture
           /\ ~isEosPresentInLastPu \/ stream.fresh
           /\ ~stream'.fresh
           /\ StartsCvs(stream, h) \/ ~Undecodable(stream, h)
           /\ pcSlice' \in Header
           /\ pcSlice'.kind = h.kind /\ pcSlice'.poc = h.poc
           /\ pcSlice'.recoveryPocCnt = h.recoveryPocCnt
           /\ pcSlice'.output = PicOutputFlag(h)
           /\ count'.eos = count.eos /\ count'.drops = count.drops
           /\ stream.fresh => h.kind \in Anchors
<1>1. /\ stream' = Coded(stream, h)
      /\ m_pcPic' = <<Coded(stream, h).cvs, h.poc>>
      /\ pcSlice' = [h EXCEPT !.output = PicOutputFlag(h)]
      /\ count' = [Counted("pics") EXCEPT !.slices = 1]
      /\ ~RandomAccessSkip(h)
      /\ m_bFirstSliceInPicture /\ pc = "look" /\ part \in {"picture", "skipped"}
      /\ Unfinished'
  BY DEF DecodeFirstSlice, ReadsFirstSlice, Unfinished
<1>2. h \in Header /\ MayFollow(stream, h) /\ stream \in Stream
      /\ (StartsCvs(stream, h) \/ ~Undecodable(stream, h))
      /\ (stream.fresh => h.kind \in Anchors)
  BY <1>1, FollowerFacts DEF StartsCvs
<1>3. stream' \in Stream
  BY <1>1, <1>2, CodedType
<1>4. ~stream'.fresh
  <2>1. stream.fresh => StartsCvs(stream, h)
    BY DEF StartsCvs
  <2> QED BY <1>1, <1>2, <2>1, CodedPics
<1>5. /\ pcSlice'.kind = h.kind /\ pcSlice'.poc = h.poc
      /\ pcSlice'.recoveryPocCnt = h.recoveryPocCnt
      /\ pcSlice'.output = PicOutputFlag(h)
  BY <1>1, <1>2, HeaderSame
<1>6. pcSlice' \in Header
  <2>1. PicOutputFlag(h) \in BOOLEAN
    BY DEF PicOutputFlag
  <2> QED BY <1>1, <1>2, <2>1 DEF Header
<1>7. count'.eos = count.eos /\ count'.drops = count.drops
  BY <1>1, CountedPicture DEF StreamInv, LoopInv, TypeInv, TypeOK
<1>8. Used(stream)' = Used(stream') /\ Recovering(stream)' = Recovering(stream')
  BY DEF Used, Of, Recovering
<1>9. ~isEosPresentInLastPu \/ stream.fresh
  BY <1>1 DEF StreamInv, LoopInv, RefsInv, EosKnown
<1>10. ~Unfinished
  BY <1>1 DEF Unfinished
<1> QED BY <1>1, <1>2, <1>3, <1>4, <1>5, <1>6, <1>7, <1>8, <1>9, <1>10

LEMMA DecodeFirstSliceSkip ==
    ASSUME CurrentInv, Orderly, NEW h \in Followers(stream), NEW last \in BOOLEAN,
           DecodeFirstSlice(h, last)
    PROVE  SkipKnown'
<1>1. prevPicSkipped' = IF h.kind = "RASL" THEN prevPicSkipped ELSE FALSE
  BY DEF DecodeFirstSlice
<1>2. /\ ~stream'.fresh /\ pcSlice'.kind = h.kind /\ count'.drops = count.drops
      /\ stream.fresh => h.kind \in Anchors
  BY DecodeFirstSliceFacts DEF CurrentInv
<1>3. "RASL" \notin Anchors
  BY DEF Anchors
<1> QED BY <1>1, <1>2, <1>3 DEF SkipKnown, CurrentInv, CurrentKnown

LEMMA DecodeFirstSlicePrior ==
    ASSUME CurrentInv, Orderly, NEW h \in Followers(stream), NEW last \in BOOLEAN,
           DecodeFirstSlice(h, last)
    PROVE  PriorKnown'
<1>0. StreamInv /\ PriorKnown
  BY DEF CurrentInv, CurrentKnown
<1>1. /\ h \in Header /\ MayFollow(stream, h) /\ stream \in Stream /\ stream' = Coded(stream, h)
      /\ StartsCvs(stream, h) \/ ~Undecodable(stream, h)
      /\ StartsCvs(stream, h) => h.kind \in Anchors
      /\ m_bFirstSliceInPicture /\ DerivePriorPicFlags(h)
      /\ ~stream.fresh => ~m_firstSliceInSequence
  BY <1>0, FollowerFacts, DecodeFirstSliceFacts
     DEF DecodeFirstSlice, StreamInv, LoopInv, FlowKnown
<1>2. CASE StartsCvs(stream, h)
  <2>1. h.kind \in Anchors /\ stream'.starts /\ stream'.pics = {<<h.poc, "anchor">>}
    BY <1>1, <1>2, FirstPictureFacts
  <2>2. m_isNoOutputPriorPics' => m_lastPOCNoOutputPriorPics' = h.poc
    BY <1>1, <2>1 DEF DerivePriorPicFlags
  <2> QED BY <2>1, <2>2 DEF PriorKnown
<1>3. CASE ~StartsCvs(stream, h) /\ h.kind \in Anchors
  <2>1. h.kind \in {"CRA", "GDR"} /\ ~m_firstSliceInSequence
    BY <1>1, <1>3 DEF StartsCvs, Anchors
  <2>2. ~NoOutputBeforeRecovery(h)
    BY <2>1 DEF NoOutputBeforeRecovery
  <2>3. ~m_isNoOutputPriorPics' /\ ~m_lastNoOutputBeforeRecoveryFlag'
    BY <1>1, <1>3, <2>1, <2>2 DEF DerivePriorPicFlags
  <2> QED BY <2>3 DEF PriorKnown
<1>4. CASE ~StartsCvs(stream, h) /\ h.kind \notin Anchors
  <2>1. stream'.starts = stream.starts /\ stream'.anchor = stream.anchor /\ ~stream.fresh
    BY <1>1, <1>4, FurtherPictureFacts DEF StartsCvs, Stream
  <2>2. ~m_isNoOutputPriorPics' /\ m_lastNoOutputBeforeRecoveryFlag' = m_lastNoOutputBeforeRecoveryFlag
    BY <1>1, <1>4 DEF DerivePriorPicFlags, Consumes
  <2> QED BY <1>0, <2>1, <2>2 DEF PriorKnown
<1> QED BY <1>2, <1>3, <1>4

LEMMA DecodeFirstSliceHeader ==
    ASSUME CurrentInv, Orderly, NEW h \in Followers(stream), NEW last \in BOOLEAN,
           DecodeFirstSlice(h, last)
    PROVE  HeaderOutput'
<1>0. StreamInv /\ PriorKnown
  BY DEF CurrentInv, CurrentKnown
<1>1. /\ h \in Header /\ MayFollow(stream, h) /\ stream \in Stream /\ stream' = Coded(stream, h)
      /\ StartsCvs(stream, h) \/ ~Undecodable(stream, h)
      /\ StartsCvs(stream, h) => h.kind \in Anchors
      /\ StreamOk(stream) /\ h.poc \in Nat
      /\ m_newCLVS' = NewCLVS(h)
  BY <1>0, FollowerFacts, DecodeFirstSliceFacts DEF DecodeFirstSlice
<1>2. /\ m_pcPic' = <<stream'.cvs, h.poc>>
      /\ Used(stream)' = Used(stream')
      /\ m_bFirstSliceInPicture
      /\ ~isEosPresentInLastPu \/ stream.fresh
      /\ pcSlice' \in Header
      /\ pcSlice'.kind = h.kind /\ pcSlice'.poc = h.poc
      /\ pcSlice'.output = PicOutputFlag(h)
  BY <1>0, DecodeFirstSliceFacts
<1>3. h.poc \in Used(stream')
  BY <1>1, CodedType
<1>4. CASE StartsCvs(stream, h)
  <2>1. /\ h.kind \in Anchors /\ stream'.pics = {<<h.poc, "anchor">>}
        /\ stream'.cvs = stream.cvs + 1
    BY <1>1, <1>4, FirstPictureFacts
  <2>2. /\ stream'.recovery = IF h.kind = "GDR" THEN h.poc + h.recoveryPocCnt ELSE 0
        /\ stream'.expected =
                IF h.output /\ h.recoveryPocCnt = 0
                THEN stream.expected \cup {<<stream.cvs + 1, h.poc>>} ELSE stream.expected
    BY <1>1, <1>4, FirstPictureOutput
  <2>3. <<stream.cvs + 1, h.poc>> \notin stream.expected
    BY <1>1 DEF StreamOk, Stream
  <2>4. pcSlice'.output <=> h.output
    BY <1>2, <2>1 DEF PicOutputFlag, Anchors
  <2>5. h.recoveryPocCnt = 0 <=> h.poc >= stream'.recovery
    <3>1. h.recoveryPocCnt \in Nat
      BY <1>1, StreamAssumption DEF Header
    <3>2. h.kind # "GDR" => h.recoveryPocCnt = 0
      BY <1>1 DEF MayFollow
    <3> QED BY <1>1, <2>2, <3>1, <3>2
  <2>6. m_pcPic' \in stream'.expected <=> pcSlice'.output /\ pcSlice'.poc >= stream'.recovery
    BY <1>2, <2>1, <2>2, <2>3, <2>4, <2>5
  <2>7. pcSlice'.kind # "RASL"
    BY <1>2, <2>1 DEF Anchors
  <2> QED BY <1>2, <1>3, <2>1, <2>6, <2>7 DEF HeaderOutput
<1>5. CASE ~StartsCvs(stream, h)
  <2>1. /\ stream'.cvs = stream.cvs
        /\ stream'.starts = (stream.starts /\ h.kind \notin Anchors)
        /\ stream'.anchor = IF h.kind \in Anchors THEN h.kind ELSE stream.anchor
    BY <1>1, <1>5, FurtherPictureFacts
  <2>2. /\ stream'.recovery = stream.recovery
        /\ stream'.expected = IF h.output /\ h.poc >= stream.recovery
                              THEN stream.expected \cup {<<stream.cvs, h.poc>>}
                              ELSE stream.expected
    BY <1>1, <1>5, FurtherPictureOutput
  <2>3. <<stream.cvs, h.poc>> \notin stream.expected
    <3>1. h.poc \notin Used(stream)
      BY <1>1, <1>5 DEF MayFollow
    <3>2. h.poc \notin ExpectedPocs(stream)
      BY <1>1, <3>1 DEF StreamOk
    <3> QED BY <1>1, <3>2, ExpectedMembers
  <2>4. h.kind = "RASL" => ~stream.starts /\ stream.anchor = "CRA" /\ h.kind \notin Anchors
    BY <1>1, <1>5 DEF Undecodable, MayFollow, InOrder, Anchors
  <2>5. ~stream.fresh /\ h.kind # "IDR"
    BY <1>1, <1>5 DEF StartsCvs, Stream
  <2>6. pcSlice'.output <=> h.output
    BY <1>0, <1>2, <2>4, <2>5 DEF PicOutputFlag, PriorKnown
  <2>7. m_pcPic' \in stream'.expected <=> pcSlice'.output /\ pcSlice'.poc >= stream'.recovery
    BY <1>2, <2>1, <2>2, <2>3, <2>6
  <2>8. h.kind = "RASL" => ~m_newCLVS'
    BY <1>1, <1>2, <2>5 DEF NewCLVS, StartsIrap
  <2> QED BY <1>2, <1>3, <2>1, <2>4, <2>5, <2>7, <2>8 DEF HeaderOutput
<1> QED BY <1>4, <1>5

\* Between two pictures a recovery period is that of the stream.
LEMMA GdrBetween ==
    ASSUME CurrentInv, ~Unfinished, gdrRecoveryPeriod
    PROVE  Recovering(stream)
BY DEF CurrentInv, CurrentKnown, GdrKnown, Recovering

\* A picture of the CVS makes Recovering false or leaves it.
LEMMA RecoveringWith ==
    ASSUME NEW s \in Stream, NEW t \in Stream, NEW poc,
           Used(t) = Used(s) \cup {poc}, t.recovery = s.recovery
    PROVE  Recovering(t) <=> Recovering(s) /\ poc < s.recovery
BY DEF Recovering

LEMMA DecodeFirstSliceGdr ==
    ASSUME CurrentInv, Orderly, NEW h \in Followers(stream), NEW last \in BOOLEAN,
           DecodeFirstSlice(h, last)
    PROVE  GdrKnown'
<1>0. StreamInv /\ GdrKnown /\ SkipKnown
  BY DEF CurrentInv, CurrentKnown
<1>1. /\ h \in Header /\ MayFollow(stream, h) /\ stream \in Stream /\ stream' = Coded(stream, h)
      /\ StartsCvs(stream, h) \/ ~Undecodable(stream, h)
      /\ StartsCvs(stream, h) => h.kind \in Anchors
      /\ h.poc \in Nat
      /\ h.recoveryPocCnt \in Nat
  BY <1>0, FollowerFacts, DecodeFirstSliceFacts, StreamAssumption DEF DecodeFirstSlice, Header
<1>2. /\ Used(stream)' = Used(stream')
      /\ Recovering(stream)' = Recovering(stream')
      /\ Unfinished' /\ ~Unfinished /\ ~stream'.fresh /\ stream' \in Stream
      /\ pcSlice'.kind = h.kind /\ pcSlice'.poc = h.poc
      /\ pcSlice'.recoveryPocCnt = h.recoveryPocCnt
  BY <1>0, DecodeFirstSliceFacts
<1>3. /\ gdrRecoveryPeriod' = (gdrRecoveryPeriod \/ (prevPicSkipped /\ h.kind = "GDR"))
      /\ SetRecoveryPoc(h)
      /\ h.kind = "GDR" /\ stream.fresh => ~(count.eos > 0)
      /\ h.kind = "IDR" /\ Recovering(stream) => stream.fresh
      /\ h.kind = "GDR" => ~(count.drops > 0)
      /\ ~StartsCvs(stream, h) /\ h.poc < stream.recovery => Recovering(stream)
  BY DEF DecodeFirstSlice, Admitted, Orderly
<1>4. count.eos \in Nat /\ gdrRecoveryPeriod \in BOOLEAN
  BY <1>0 DEF StreamInv, LoopInv, TypeInv, TypeOK
<1>5. CASE StartsCvs(stream, h)
  <2>1. /\ Used(stream') = {h.poc} /\ stream'.pics = {<<h.poc, "anchor">>}
        /\ stream'.recovery = IF h.kind = "GDR" THEN h.poc + h.recoveryPocCnt ELSE 0
    BY <1>1, <1>5, UsedBy, FirstPictureFacts, FirstPictureOutput
  <2>2. CASE stream.fresh /\ count.eos = 0
    <3>1. prevPicSkipped /\ ~gdrRecoveryPeriod /\ m_prevGDRInSameLayerPOC = MinusInf
      BY <1>0, <2>2 DEF SkipKnown
    <3>2. gdrRecoveryPeriod' <=> h.kind = "GDR"
      BY <1>3, <3>1
    <3>3. h.kind = "GDR" => m_prevGDRInSameLayerRecoveryPOC' = stream'.recovery
      BY <1>3, <2>1, <3>1 DEF SetRecoveryPoc
    <3>4. Recovering(stream') => h.kind = "GDR"
      BY <1>1, <2>1 DEF Recovering
    <3>5. pcSlice'.poc < stream'.recovery => Recovering(stream')
      BY <1>2, <2>1 DEF Recovering
    <3> QED BY <1>2, <2>1, <3>2, <3>3, <3>4, <3>5 DEF GdrKnown
  <2>3. CASE ~(stream.fresh /\ count.eos = 0)
    <3>1. h.kind # "GDR"
      BY <1>3, <1>4, <1>5, <2>3 DEF StartsCvs
    <3>2. ~gdrRecoveryPeriod
      <4>1. SUFFICES ASSUME gdrRecoveryPeriod PROVE FALSE
        OBVIOUS
      <4>2. Recovering(stream)
        BY <1>2, <4>1, GdrBetween
      <4>3. stream.fresh
        BY <1>3, <1>5, <4>2 DEF StartsCvs
      <4>4. stream.pics # {}
        BY <1>0, <1>4, <2>3, <4>3 DEF StreamInv, LoopInv, FlowKnown
      <4> QED BY <1>0, <4>2, <4>3, <4>4 DEF GdrKnown
    <3>3. ~gdrRecoveryPeriod'
      BY <1>3, <3>1, <3>2
    <3>4. ~Recovering(stream') /\ ~(pcSlice'.poc < stream'.recovery)
      BY <1>1, <1>2, <2>1, <3>1 DEF Recovering
    <3> QED BY <1>2, <3>3, <3>4 DEF GdrKnown
  <2> QED BY <2>2, <2>3
<1>6. CASE ~StartsCvs(stream, h)
  <2>1. /\ Used(stream') = Used(stream) \cup {h.poc}
        /\ stream'.recovery = stream.recovery
        /\ ~stream.fresh
    BY <1>1, <1>6, UsedBy, FurtherPictureOutput DEF StartsCvs
  <2>2. stream.pics # {}
    BY <1>0, <2>1 DEF StreamInv, LoopInv, FlowKnown
  <2>3. gdrRecoveryPeriod' = gdrRecoveryPeriod
    BY <1>0, <1>3, <1>4, <2>1 DEF SkipKnown
  <2>4. gdrRecoveryPeriod => h.kind \notin Anchors /\ Recovering(stream)
    BY <1>1, <1>2, <1>6, GdrBetween DEF MayFollow
  <2>5. gdrRecoveryPeriod => m_prevGDRInSameLayerRecoveryPOC' = stream.recovery
    BY <1>0, <1>3, <2>1, <2>4 DEF SetRecoveryPoc, GdrKnown, Anchors
  <2>6. Recovering(stream') <=> Recovering(stream) /\ h.poc < stream.recovery
    BY <1>1, <1>2, <2>1, RecoveringWith
  <2>7. gdrRecoveryPeriod' => \A poc \in Used(stream') : poc < stream'.recovery \/ poc = pcSlice'.poc
    BY <1>2, <2>1, <2>3, <2>4 DEF Recovering
  <2>8. Recovering(stream') => gdrRecoveryPeriod'
    BY <1>0, <2>2, <2>3, <2>6 DEF GdrKnown
  <2>9. pcSlice'.poc < stream'.recovery => Recovering(stream')
    BY <1>2, <1>3, <1>6, <2>1, <2>6
  <2>10. pcSlice'.kind = "GDR" => ~gdrRecoveryPeriod'
    BY <1>2, <2>3, <2>4 DEF Anchors
  <2> QED BY <1>2, <2>1, <2>3, <2>5, <2>7, <2>8, <2>9, <2>10 DEF GdrKnown
<1> QED BY <1>5, <1>6

LEMMA SkipFirstSliceCurrent ==
    ASSUME CurrentInv, NEW h \in Followers(stream), NEW last \in BOOLEAN,
           SkipFirstSlice(h, last)
    PROVE  CurrentKnown'
<1>0. StreamInv /\ GdrKnown /\ SkipKnown /\ PriorKnown
  BY DEF CurrentInv, CurrentKnown
<1>1. /\ RandomAccessSkip(h) /\ stream' = Coded(stream, h)
      /\ m_bFirstSliceInPicture /\ bPicSkipped' = TRUE /\ part' = "skipped"
      /\ prevPicSkipped' = IF h.kind = "RASL" THEN prevPicSkipped ELSE TRUE
      /\ count' = [Counted("pics") EXCEPT !.slices = 1]
      /\ DerivePriorPicFlags(h)
      /\ UNCHANGED <<gdrRecoveryPeriod, m_prevGDRInSameLayerPOC,
                     m_prevGDRInSameLayerRecoveryPOC>>
  BY DEF SkipFirstSlice, ReadsFirstSlice, gdr
<1>2. /\ h \in Header /\ MayFollow(stream, h) /\ stream \in Stream
      /\ ~StartsCvs(stream, h) /\ Undecodable(stream, h) /\ StreamOk(stream)
      /\ h.poc \in Nat
  BY <1>0, <1>1, FollowerFacts
<1>3. /\ stream'.recovery = stream.recovery /\ stream'.starts = stream.starts
      /\ stream'.anchor = stream.anchor
  BY <1>1, <1>2, UndecodableOk
<1>4. stream' \in Stream /\ ~stream.fresh /\ ~stream'.fresh /\ stream.pics # {}
  BY <1>0, <1>1, <1>2, CodedType, CodedPics DEF StartsCvs, StreamInv, LoopInv, FlowKnown
<1>5. h.kind = "RASL" /\ stream.starts
  BY <1>2 DEF Undecodable
<1>6. stream.anchor = "CRA" /\ stream.recovery = 0
  BY <1>2, <1>5 DEF MayFollow, InOrder, StreamOk, Anchors
<1>7. count'.drops = count.drops
  BY <1>0, <1>1, CountedPicture DEF StreamInv, LoopInv, TypeInv, TypeOK
<1>8. Used(stream') = Used(stream) \cup {h.poc}
  BY <1>1, <1>2, UsedBy
<1>9. ~Recovering(stream) /\ ~Recovering(stream')
  <2>1. Used(stream) # {} /\ Used(stream) \subseteq Poc
    <3>1. \A x \in stream.pics : x[1] \in Used(stream)
      BY <1>2 DEF Used, Of, Stream
    <3> QED BY <1>2, <1>4, <3>1 DEF Used, Of, Stream
  <2>2. \A poc \in Used(stream) : ~(poc < 0)
    <3>1. \A x \in Poc : ~(x < 0)
      BY Sentinels
    <3> QED BY <2>1, <3>1
  <2> QED BY <1>3, <1>6, <1>8, <2>1, <2>2 DEF Recovering
<1>10. ~Unfinished /\ ~Unfinished'
  BY <1>1 DEF Unfinished
<1>11. ~gdrRecoveryPeriod'
  BY <1>1, <1>9, <1>10, GdrBetween
<1>12. Recovering(stream)' = Recovering(stream')
  BY DEF Used, Of, Recovering
<1>13. GdrKnown'
  BY <1>9, <1>10, <1>11, <1>12 DEF GdrKnown
<1>14. SkipKnown'
  BY <1>0, <1>1, <1>4, <1>5, <1>7 DEF SkipKnown
<1>15. HeaderOutput'
  BY <1>10 DEF HeaderOutput
<1>16. PriorKnown'
  <2>1. ~m_isNoOutputPriorPics'
    BY <1>1, <1>5 DEF DerivePriorPicFlags, Consumes, Anchors
  <2> QED BY <1>3, <1>5, <2>1 DEF PriorKnown
<1> QED BY <1>13, <1>14, <1>15, <1>16 DEF CurrentKnown

\* The picture and the stream as they were.
LEMMA SameCurrent ==
    ASSUME CurrentInv, UNCHANGED <<stream, m_pcPic, pcSlice, gdrRecoveryPeriod,
               m_prevGDRInSameLayerRecoveryPOC, m_prevGDRInSameLayerPOC,
               m_isNoOutputPriorPics, m_lastPOCNoOutputPriorPics,
               m_lastNoOutputBeforeRecoveryFlag>>,
           Unfinished' => Unfinished /\ m_newCLVS' = m_newCLVS,
           ~Unfinished' => ~Unfinished
    PROVE  HeaderOutput' /\ PriorKnown' /\ GdrKnown'
<1>1. Used(stream)' = Used(stream) /\ Recovering(stream)' = Recovering(stream)
  BY DEF Used, Of, Recovering
<1>2. HeaderOutput'
  BY <1>1 DEF CurrentInv, CurrentKnown, HeaderOutput
<1>3. PriorKnown'
  BY DEF CurrentInv, CurrentKnown, PriorKnown
<1>4. GdrKnown'
  BY <1>1 DEF CurrentInv, CurrentKnown, GdrKnown
<1> QED BY <1>2, <1>3, <1>4

LEMMA SkipNextSliceCurrent ==
    ASSUME CurrentInv, NEW last \in BOOLEAN, SkipNextSlice(last)
    PROVE  CurrentKnown'
<1>1. /\ part = "skipped" /\ count' = Counted("slices")
      /\ UNCHANGED <<stream, part, bPicSkipped, prevPicSkipped, m_pcPic, pcSlice, gdrRecoveryPeriod,
               m_prevGDRInSameLayerRecoveryPOC, m_prevGDRInSameLayerPOC,
               m_isNoOutputPriorPics, m_lastPOCNoOutputPriorPics,
               m_lastNoOutputBeforeRecoveryFlag>>
  BY DEF SkipNextSlice, skipFlags, gdr, priorPics
<1>2. ~Unfinished /\ ~Unfinished'
  BY <1>1 DEF Unfinished, CurrentInv, StreamInv, LoopInv, FlowKnown
<1>3. count'.eos = count.eos /\ count'.drops = count.drops
  BY <1>1, CountedType, CountedDrops DEF CurrentInv, StreamInv, LoopInv, TypeInv, TypeOK
<1>4. SkipKnown'
  BY <1>1, <1>3 DEF CurrentInv, CurrentKnown, SkipKnown
<1> QED BY <1>1, <1>2, <1>4, SameCurrent DEF CurrentKnown

LEMMA DropSliceCurrent ==
    ASSUME CurrentInv, NEW last \in BOOLEAN, DropSlice(last)
    PROVE  CurrentKnown'
<1>1. /\ count' = Counted("drops") /\ bPicSkipped' = TRUE /\ m_bFirstSliceInPicture
      /\ ~stream.fresh /\ part' = "dropped"
      /\ UNCHANGED <<stream, m_pcPic, pcSlice, gdrRecoveryPeriod,
               m_prevGDRInSameLayerRecoveryPOC, m_prevGDRInSameLayerPOC,
               m_isNoOutputPriorPics, m_lastPOCNoOutputPriorPics,
               m_lastNoOutputBeforeRecoveryFlag>>
  BY DEF DropSlice, ReadsFirstSlice, gdr, priorPics
<1>2. ~Unfinished /\ ~Unfinished'
  BY <1>1 DEF Unfinished
<1>3. count'.drops > 0
  BY <1>1, CountedDrops DEF CurrentInv, StreamInv, LoopInv, TypeInv, TypeOK
<1>4. SkipKnown'
  BY <1>1, <1>3 DEF SkipKnown
<1> QED BY <1>1, <1>2, <1>4, SameCurrent DEF CurrentKnown

LEMMA DecodeNextSliceCurrent ==
    ASSUME CurrentInv, Orderly, NEW last \in BOOLEAN, DecodeNextSlice(last)
    PROVE  CurrentKnown'
<1>0. StreamInv /\ GdrKnown /\ SkipKnown /\ PriorKnown /\ HeaderOutput
  BY DEF CurrentInv, CurrentKnown
<1>1. /\ pc = "look" /\ part = "decoded" /\ count' = Counted("slices")
      /\ pcSlice' = [pcSlice EXCEPT !.output = PicOutputFlag(pcSlice)]
      /\ DerivePriorPicFlags(pcSlice) /\ SetRecoveryPoc(pcSlice)
      /\ gdrRecoveryPeriod' = (gdrRecoveryPeriod \/ (prevPicSkipped /\ pcSlice.kind = "GDR"))
      /\ UNCHANGED <<stream, part, bPicSkipped, prevPicSkipped, m_pcPic, m_newCLVS,
                     m_bFirstSliceInPicture, m_firstSliceInSequence,
                     m_prevGDRInSameLayerPOC>>
  BY DEF DecodeNextSlice, skipFlags, firstFlags
<1>2. Unfinished /\ ~stream.fresh
  BY <1>0, <1>1 DEF StreamInv, LoopInv, FlowKnown, RefsInv, EosKnown
<1>3. Unfinished'
  BY <1>1, <1>2 DEF Unfinished
<1>4. count'.eos = count.eos /\ count'.drops = count.drops
  BY <1>0, <1>1, CountedType, CountedDrops DEF StreamInv, LoopInv, TypeInv, TypeOK
<1>5. pcSlice \in Header
  BY <1>0, <1>2 DEF HeaderOutput
<1>6. /\ pcSlice'.kind = pcSlice.kind /\ pcSlice'.poc = pcSlice.poc
      /\ pcSlice'.recoveryPocCnt = pcSlice.recoveryPocCnt
      /\ pcSlice'.output = PicOutputFlag(pcSlice)
  BY <1>1, <1>5, HeaderSame
<1>7. pcSlice'.output <=> pcSlice.output
  BY <1>0, <1>2, <1>6 DEF PicOutputFlag, HeaderOutput, PriorKnown
<1>8. pcSlice' \in Header
  <2>1. PicOutputFlag(pcSlice) \in BOOLEAN
    BY DEF PicOutputFlag
  <2> QED BY <1>1, <1>5, <2>1 DEF Header
<1>9. Used(stream)' = Used(stream) /\ Recovering(stream)' = Recovering(stream)
  BY <1>1 DEF Used, Of, Recovering
<1>10. HeaderOutput'
  BY <1>0, <1>1, <1>2, <1>6, <1>7, <1>8, <1>9 DEF HeaderOutput
<1>11. SkipKnown'
  BY <1>0, <1>1, <1>2, <1>4, <1>6 DEF SkipKnown
<1>12. PriorKnown'
  <2>1. ~m_firstSliceInSequence
    BY <1>2 DEF Unfinished
  <2>2. CASE pcSlice.kind \in Anchors
    <3>1. m_isNoOutputPriorPics' => pcSlice.kind = "IDR"
      BY <1>1, <2>1, <2>2 DEF DerivePriorPicFlags, NoOutputBeforeRecovery
    <3>2. m_isNoOutputPriorPics' => m_lastPOCNoOutputPriorPics' = pcSlice.poc
      BY <1>1, <2>2 DEF DerivePriorPicFlags
    <3>3. m_lastNoOutputBeforeRecoveryFlag' => m_lastNoOutputBeforeRecoveryFlag
      BY <1>1, <2>1, <2>2 DEF DerivePriorPicFlags, NoOutputBeforeRecovery
    <3>4. pcSlice.kind = "IDR" => stream.pics = {<<pcSlice.poc, "anchor">>}
      BY <1>0, <1>2 DEF HeaderOutput
    <3> QED BY <1>0, <1>1, <3>1, <3>2, <3>3, <3>4 DEF PriorKnown
  <2>3. CASE pcSlice.kind \notin Anchors
    BY <1>0, <1>1, <2>3 DEF DerivePriorPicFlags, PriorKnown
  <2> QED BY <2>2, <2>3
<1>13. GdrKnown'
  <2>1. gdrRecoveryPeriod' = gdrRecoveryPeriod
    <3>1. pcSlice.kind = "GDR" => ~prevPicSkipped
      BY <1>0, <1>1 DEF SkipKnown
    <3>2. gdrRecoveryPeriod \in BOOLEAN
      BY <1>0 DEF StreamInv, LoopInv, TypeInv, TypeOK
    <3> QED BY <1>1, <3>1, <3>2
  <2>2. gdrRecoveryPeriod => m_prevGDRInSameLayerRecoveryPOC' = stream.recovery
    BY <1>0, <1>1, <1>2 DEF SetRecoveryPoc, GdrKnown
  <2> QED BY <1>0, <1>1, <1>2, <1>3, <1>6, <1>9, <2>1, <2>2 DEF GdrKnown
<1> QED BY <1>10, <1>11, <1>12, <1>13 DEF CurrentKnown

LEMMA DecodeEosCurrent ==
    ASSUME CurrentInv, Orderly, NEW last \in BOOLEAN, DecodeEos(last)
    PROVE  CurrentKnown'
<1>0. StreamInv /\ GdrKnown /\ SkipKnown /\ PriorKnown /\ HeaderOutput
  BY DEF CurrentInv, CurrentKnown
<1>1. /\ pc = "look" /\ part \in {"decoded", "skipped", "dropped"} /\ count' = Counted("eos")
      /\ part = "decoded" => pcSlice.kind # "RASL"
      /\ ~Recovering(stream)
      /\ m_prevGDRInSameLayerRecoveryPOC' = MinusInf
      /\ stream' = [stream EXCEPT !.fresh = TRUE] /\ part' = "eos"
      /\ UNCHANGED <<bPicSkipped, prevPicSkipped, m_pcPic, pcSlice, gdrRecoveryPeriod,
                     m_bFirstSliceInPicture, m_firstSliceInSequence>>
  BY DEF DecodeEos, skipFlags, firstFlags, Orderly
<1>2. ~stream.fresh /\ stream \in Stream
  BY <1>0, <1>1 DEF StreamInv, LoopInv, RefsInv, EosKnown, TypeInv, TypeOK
<1>3. /\ stream'.fresh /\ stream'.cvs = stream.cvs /\ stream'.pics = stream.pics
      /\ stream'.recovery = stream.recovery /\ stream'.expected = stream.expected
  BY <1>1, <1>2 DEF Stream
<1>4. Unfinished' = Unfinished
  BY <1>1 DEF Unfinished
<1>5. Unfinished => part = "decoded" /\ pcSlice.kind # "RASL"
  BY <1>0, <1>1 DEF StreamInv, LoopInv, FlowKnown
<1>6. Used(stream)' = Used(stream) /\ Recovering(stream)' = Recovering(stream)
  BY <1>3 DEF Used, Of, Recovering
<1>7. count'.drops = count.drops /\ count'.eos > 0
  BY <1>0, <1>1, CountedType, CountedDrops DEF StreamInv, LoopInv, TypeInv, TypeOK
<1>8. SkipKnown'
  BY <1>0, <1>1, <1>2, <1>7 DEF SkipKnown
<1>9. HeaderOutput'
  BY <1>0, <1>1, <1>3, <1>4, <1>5, <1>6 DEF HeaderOutput
<1>10. PriorKnown'
  BY <1>3 DEF PriorKnown
<1>11. GdrKnown'
  BY <1>0, <1>1, <1>3, <1>4, <1>6 DEF GdrKnown
<1> QED BY <1>8, <1>9, <1>10, <1>11 DEF CurrentKnown

LEMMA LookAheadCurrent == ASSUME CurrentInv, LookAhead PROVE CurrentKnown'
<1>1. /\ part' = "picture"
      /\ UNCHANGED <<stream, count, prevPicSkipped, m_pcPic, pcSlice, gdrRecoveryPeriod,
               m_prevGDRInSameLayerRecoveryPOC, m_prevGDRInSameLayerPOC,
               m_isNoOutputPriorPics, m_lastPOCNoOutputPriorPics,
               m_lastNoOutputBeforeRecoveryFlag, m_newCLVS>>
      /\ Unfinished' = Unfinished
  BY DEF LookAhead, skipFlags, gdr, priorPics, firstFlags, Unfinished
<1>2. SkipKnown'
  BY <1>1 DEF CurrentInv, CurrentKnown, SkipKnown
<1> QED BY <1>1, <1>2, SameCurrent DEF CurrentKnown

\* Either the current picture is finished or there is none.
LEMMA FinishBlockCases ==
    ASSUME LoopInv, FinishBlock
    PROVE  /\ ~Unfinished'
           /\ \/ /\ Unfinished /\ Finishes
                 /\ m_cListPic' = Finished(m_cListPic)
                 /\ gdrRecoveryPeriod' = (gdrRecoveryPeriod /\ ~GDRRecoveryPocReached)
              \/ /\ ~Unfinished /\ ~Finishes
                 /\ UNCHANGED <<m_cListPic, gdrRecoveryPeriod, m_prevGDRInSameLayerPOC>>
<1>1. pc = "finish"
  BY DEF FinishBlock
<1>2. CASE Finishes
  <2>1. Unfinished /\ (~loopFiltered \/ ~eof)
    BY <1>1, <1>2 DEF LoopInv, FlowKnown
  <2>2. /\ m_cListPic' = Finished(m_cListPic) /\ m_bFirstSliceInPicture' = TRUE
        /\ gdrRecoveryPeriod' = (gdrRecoveryPeriod /\ ~GDRRecoveryPocReached)
    BY <1>2, <2>1 DEF FinishBlock
  <2> QED BY <1>2, <2>1, <2>2 DEF Unfinished
<1>3. CASE ~Finishes
  <2>1. /\ m_bFirstSliceInPicture' = TRUE
        /\ UNCHANGED <<m_cListPic, gdrRecoveryPeriod, m_prevGDRInSameLayerPOC>>
    BY <1>3 DEF FinishBlock
  <2> QED BY <1>3, <2>1 DEF Unfinished, Finishes
<1> QED BY <1>2, <1>3

LEMMA FinishBlockCurrent == ASSUME CurrentInv, FinishBlock PROVE CurrentKnown'
<1>0. StreamInv /\ GdrKnown /\ SkipKnown /\ PriorKnown /\ HeaderOutput
  BY DEF CurrentInv, CurrentKnown
<1>1. /\ pc = "finish"
      /\ UNCHANGED <<stream, part, count, prevPicSkipped, m_pcPic, pcSlice,
               m_prevGDRInSameLayerRecoveryPOC,
               m_isNoOutputPriorPics, m_lastPOCNoOutputPriorPics,
               m_lastNoOutputBeforeRecoveryFlag, m_newCLVS>>
  BY DEF FinishBlock, skipFlags, bitstream, priorPics
<1>2. ~(stream.fresh /\ count.eos = 0)
  BY <1>0, <1>1 DEF StreamInv, LoopInv, FlowKnown
<1>3. SkipKnown'
  BY <1>0, <1>1, <1>2 DEF SkipKnown
<1>4. /\ ~Unfinished'
      /\ \/ /\ Unfinished
            /\ gdrRecoveryPeriod' = (gdrRecoveryPeriod /\ ~GDRRecoveryPocReached)
         \/ /\ ~Unfinished /\ gdrRecoveryPeriod' = gdrRecoveryPeriod
  BY <1>0, FinishBlockCases DEF StreamInv
<1>5. HeaderOutput' /\ PriorKnown'
  BY <1>0, <1>1, <1>4 DEF HeaderOutput, PriorKnown
<1>6. Used(stream)' = Used(stream) /\ Recovering(stream)' = Recovering(stream)
  BY <1>1 DEF Used, Of, Recovering
<1>7. GdrKnown'
  <2>1. CASE ~Unfinished
    BY <1>0, <1>1, <1>4, <1>6, <2>1 DEF GdrKnown
  <2>2. CASE Unfinished
    <3>1. m_pcPic[2] = pcSlice.poc /\ pcSlice.poc \in Used(stream) /\ pcSlice.poc \in Nat
      <4>1. pcSlice.poc \in Poc
        BY <1>0, <2>2 DEF HeaderOutput, Header
      <4>2. pcSlice.poc \in Nat
        BY <4>1, Sentinels
      <4> QED BY <1>0, <2>2, <4>2 DEF HeaderOutput
    <3>2. gdrRecoveryPeriod' <=> gdrRecoveryPeriod /\ ~(pcSlice.poc >= m_prevGDRInSameLayerRecoveryPOC)
      BY <1>4, <2>2, <3>1 DEF GDRRecoveryPocReached
    <3>3. stream.fresh => ~gdrRecoveryPeriod'
      <4>1. pcSlice.poc >= MinusInf
        BY <3>1, Sentinels
      <4> QED BY <1>0, <3>2, <4>1 DEF GdrKnown
    <3>4. stream.recovery \in Nat
      BY <1>0 DEF StreamInv, LoopInv, TypeInv, TypeOK, Stream
    <3>5. gdrRecoveryPeriod' => ~stream.fresh /\ gdrRecoveryPeriod /\ pcSlice.poc < stream.recovery
                                /\ m_prevGDRInSameLayerRecoveryPOC = stream.recovery
      BY <1>0, <3>1, <3>2, <3>3, <3>4 DEF GdrKnown
    <3>6. stream.pics # {} /\ Recovering(stream) => gdrRecoveryPeriod' /\ ~stream.fresh
      <4>1. SUFFICES ASSUME stream.pics # {}, Recovering(stream)
                     PROVE  gdrRecoveryPeriod' /\ ~stream.fresh
        OBVIOUS
      <4>2. gdrRecoveryPeriod /\ ~stream.fresh /\ pcSlice.poc < stream.recovery
        BY <1>0, <3>1, <4>1 DEF GdrKnown, Recovering
      <4>3. m_prevGDRInSameLayerRecoveryPOC = stream.recovery
        BY <1>0, <4>2 DEF GdrKnown
      <4> QED BY <3>1, <3>2, <3>4, <4>2, <4>3
    <3>7. gdrRecoveryPeriod' => \A poc \in Used(stream) : poc < stream.recovery
      BY <1>0, <3>5 DEF GdrKnown
    <3> QED BY <1>1, <1>4, <1>6, <3>5, <3>6, <3>7 DEF GdrKnown
  <2> QED BY <2>1, <2>2
<1> QED BY <1>3, <1>5, <1>7 DEF CurrentKnown

\* Writing pictures leaves the current one as it is.
LEMMA OutputBlockUnfinished == ASSUME LoopInv, OutputBlock PROVE Unfinished' = Unfinished
<1>1. /\ pc = "output"
      /\ m_bFirstSliceInPicture' = (m_bFirstSliceInPicture /\ nalu # "EOS")
      /\ UNCHANGED <<bPicSkipped, m_firstSliceInSequence>>
  BY DEF OutputBlock, skipFlags, firstFlags
<1>2. CASE nalu = "EOS"
  <2>1. ~Finishes
    BY <1>1, <1>2 DEF LoopInv, FlowKnown, RefsInv, EosKnown
  <2> QED BY <1>1, <2>1 DEF Finishes, Unfinished
<1>3. CASE nalu # "EOS"
  BY <1>1, <1>3 DEF Unfinished, LoopInv, TypeInv, TypeOK
<1> QED BY <1>2, <1>3

LEMMA OutputBlockCurrent == ASSUME CurrentInv, OutputBlock PROVE CurrentKnown'
<1>1. /\ UNCHANGED <<stream, part, count, prevPicSkipped, m_pcPic, pcSlice, gdrRecoveryPeriod,
               m_prevGDRInSameLayerRecoveryPOC, m_prevGDRInSameLayerPOC,
               m_isNoOutputPriorPics, m_lastPOCNoOutputPriorPics,
               m_lastNoOutputBeforeRecoveryFlag, m_newCLVS>>
  BY DEF OutputBlock, skipFlags, gdr, priorPics, bitstream
<1>2. Unfinished' = Unfinished
  BY OutputBlockUnfinished DEF CurrentInv, StreamInv
<1>3. SkipKnown'
  BY <1>1 DEF CurrentInv, CurrentKnown, SkipKnown
<1> QED BY <1>1, <1>2, <1>3, SameCurrent DEF CurrentKnown

LEMMA OtherCurrent == ASSUME CurrentInv, Flush \/ UNCHANGED vars PROVE CurrentKnown'
<1>1. /\ UNCHANGED <<stream, part, count, prevPicSkipped, m_pcPic, pcSlice, gdrRecoveryPeriod,
               m_prevGDRInSameLayerRecoveryPOC, m_prevGDRInSameLayerPOC,
               m_isNoOutputPriorPics, m_lastPOCNoOutputPriorPics,
               m_lastNoOutputBeforeRecoveryFlag, m_newCLVS>>
      /\ Unfinished' = Unfinished
  BY DEF Flush, vars, skipFlags, gdr, priorPics, bitstream, firstFlags, Unfinished
<1>2. SkipKnown'
  BY <1>1 DEF CurrentInv, CurrentKnown, SkipKnown
<1> QED BY <1>1, <1>2, SameCurrent DEF CurrentKnown

LEMMA InitCurrent == Init => CurrentInv
<1> SUFFICES ASSUME Init PROVE CurrentInv
  OBVIOUS
<1>1. stream = EmptyStream /\ count.eos = 0 /\ stream.fresh /\ stream.pics = {}
  BY DEF Init, EmptyStream
<1>2. ~Unfinished /\ ~gdrRecoveryPeriod
  BY DEF Init, Unfinished
<1>3. SkipKnown
  BY <1>1 DEF Init, SkipKnown
<1>4. HeaderOutput /\ PriorKnown /\ GdrKnown
  BY <1>1, <1>2 DEF HeaderOutput, PriorKnown, GdrKnown
<1> QED BY <1>3, <1>4, InitStream DEF CurrentInv, CurrentKnown

LEMMA NextCurrent == ASSUME CurrentInv, Orderly, [Next]_vars PROVE CurrentInv'
<1>1. StreamInv'
  BY NextStream DEF CurrentInv
<1>2. ASSUME NEW last \in BOOLEAN, ReadNal(last)
      PROVE  CurrentKnown'
  <2>1. ASSUME NEW h \in Followers(stream), DecodeFirstSlice(h, last)
        PROVE  CurrentKnown'
    BY <2>1, DecodeFirstSliceSkip, DecodeFirstSliceHeader, DecodeFirstSlicePrior,
       DecodeFirstSliceGdr DEF CurrentKnown
  <2>2. ASSUME NEW h \in Followers(stream), SkipFirstSlice(h, last)
        PROVE  CurrentKnown'
    BY <2>2, SkipFirstSliceCurrent
  <2> QED BY <1>2, <2>1, <2>2, SkipNextSliceCurrent, DecodeNextSliceCurrent, DropSliceCurrent,
             DecodeEosCurrent DEF ReadNal
<1>3. CurrentKnown'
  BY <1>2, LookAheadCurrent, FinishBlockCurrent, OutputBlockCurrent, OtherCurrent DEF Next
<1> QED BY <1>1, <1>3 DEF CurrentInv

-----------------------------------------------------------------------------
(***************************************************************************)
(* The list: its pictures are those of the CVS, and what is visible of it. *)
(***************************************************************************)
\* Each row once.
Once(seq) == \A i, j \in 1..Len(seq) : seq[i] = seq[j] => i = j

LEMMA AppendRows ==
    ASSUME NEW seq \in Seq(PicId), Once(seq),
           NEW list \in SUBSET Picture, IsFiniteSet(list), Distinct(list),
           RowsOf(seq) \cap IdsOf(list) = {}
    PROVE  /\ seq \o Rows(list) \in Seq(PicId)
           /\ RowsOf(seq \o Rows(list)) = RowsOf(seq) \cup IdsOf(list)
           /\ Once(seq \o Rows(list))
<1> DEFINE rows == Rows(list)
           all == seq \o rows
<1>1. /\ rows \in Seq(PicId) /\ RowsOf(rows) = IdsOf(list)
      /\ \A i, j \in 1..Len(rows) : rows[i] = rows[j] => i = j
  BY RowsFacts
<1> HIDE DEF rows
<1>2. /\ all \in Seq(PicId) /\ Len(all) = Len(seq) + Len(rows)
      /\ Len(seq) \in Nat /\ Len(rows) \in Nat
  BY <1>1
<1>3. \A i \in 1..Len(seq) : all[i] = seq[i]
  BY <1>1
<1>4. \A i \in 1..Len(rows) : all[Len(seq) + i] = rows[i]
  BY <1>1
<1> HIDE DEF all
<1>5. \A i \in 1..Len(all) : i \in 1..Len(seq) \/ (i - Len(seq) \in 1..Len(rows)
                                                    /\ i = Len(seq) + (i - Len(seq)))
  BY <1>2
<1>6. \A i \in 1..Len(seq) : i \in 1..Len(all)
  BY <1>2
<1>7. \A i \in 1..Len(rows) : Len(seq) + i \in 1..Len(all)
  BY <1>2
<1>8. RowsOf(all) = RowsOf(seq) \cup RowsOf(rows)
  <2>1. ASSUME NEW i \in 1..Len(all) PROVE all[i] \in RowsOf(seq) \cup RowsOf(rows)
    BY <1>3, <1>4, <1>5 DEF RowsOf
  <2>2. \A i \in 1..Len(seq) : seq[i] \in RowsOf(all)
    BY <1>3, <1>6 DEF RowsOf
  <2>3. \A i \in 1..Len(rows) : rows[i] \in RowsOf(all)
    BY <1>4, <1>7 DEF RowsOf
  <2> QED BY <2>1, <2>2, <2>3 DEF RowsOf
<1>9. ASSUME NEW i \in 1..Len(all), NEW j \in 1..Len(all), all[i] = all[j]
      PROVE  i = j
  <2>1. CASE i \in 1..Len(seq) /\ j \in 1..Len(seq)
    BY <1>3, <1>9, <2>1 DEF Once
  <2>2. CASE i \in 1..Len(seq) /\ j \notin 1..Len(seq)
    <3>1. all[i] \in RowsOf(seq)
      BY <1>3, <2>2 DEF RowsOf
    <3>2. all[j] \in RowsOf(rows)
      BY <1>4, <1>5, <2>2 DEF RowsOf
    <3> QED BY <1>1, <1>9, <3>1, <3>2
  <2>3. CASE i \notin 1..Len(seq) /\ j \in 1..Len(seq)
    <3>1. all[j] \in RowsOf(seq)
      BY <1>3, <2>3 DEF RowsOf
    <3>2. all[i] \in RowsOf(rows)
      BY <1>4, <1>5, <2>3 DEF RowsOf
    <3> QED BY <1>1, <1>9, <3>1, <3>2
  <2>4. CASE i \notin 1..Len(seq) /\ j \notin 1..Len(seq)
    <3>1. /\ i - Len(seq) \in 1..Len(rows) /\ j - Len(seq) \in 1..Len(rows)
          /\ i = Len(seq) + (i - Len(seq)) /\ j = Len(seq) + (j - Len(seq))
      BY <1>5, <2>4
    <3>2. rows[i - Len(seq)] = rows[j - Len(seq)]
      BY <1>4, <1>9, <3>1
    <3>3. i - Len(seq) = j - Len(seq)
      BY <1>1, <3>1, <3>2
    <3> QED BY <3>1, <3>3
  <2> QED BY <2>1, <2>2, <2>3, <2>4
<1> QED BY <1>1, <1>2, <1>8, <1>9 DEF Once, all, rows

\* The pictures of the list are pictures of the CVS; the current one waits for
\* its end, and in a recovery period none waits for output.
OfTheCvs ==
    \A p \in m_cListPic : /\ p.id[1] = stream.cvs
                          /\ PocOf(p) \in Used(stream)
                          /\ p.referenced => PocOf(p) \in stream.dpb

ListOwn ==
    /\ OfTheCvs
    /\ Unfinished => \E p \in m_cListPic : IsCurrent(p)
    /\ Unfinished => \A p \in m_cListPic : IsCurrent(p) => ~p.neededForOutput
    /\ m_cListPic = {} => (stream.fresh /\ count.eos = 0) \/ pc = "done"
    /\ gdrRecoveryPeriod /\ pc # "output" => Needed(m_cListPic) = {}

ListInv == CurrentInv /\ ListOwn

\* What the output block sees of the list.
VisibleIds == IF gdrRecoveryPeriod THEN {} ELSE IdsOf(Needed(m_cListPic))

LEMMA ListFacts ==
    ASSUME ListInv
    PROVE  /\ m_cListPic \in SUBSET Picture /\ IsFiniteSet(m_cListPic) /\ Distinct(m_cListPic)
           /\ stream \in Stream /\ log \in Seq(PicId)
           /\ Needed(m_cListPic) \in SUBSET Picture
           /\ IsFiniteSet(Needed(m_cListPic)) /\ Distinct(Needed(m_cListPic))
           /\ pc # "output" => VisibleIds = IdsOf(Needed(m_cListPic))
<1>1. /\ m_cListPic \in SUBSET Picture /\ IsFiniteSet(m_cListPic) /\ Distinct(m_cListPic)
      /\ stream \in Stream /\ log \in Seq(PicId)
  BY DEF ListInv, CurrentInv, StreamInv, LoopInv, TypeInv, TypeOK, ListTyped
<1>2. Needed(m_cListPic) \subseteq m_cListPic
  BY DEF Needed
<1>3. IsFiniteSet(Needed(m_cListPic)) /\ Distinct(Needed(m_cListPic))
  BY <1>1, <1>2, FS_Subset DEF Distinct
<1>4. pc # "output" /\ gdrRecoveryPeriod => IdsOf(Needed(m_cListPic)) = {}
  BY DEF ListInv, ListOwn, IdsOf
<1> QED BY <1>1, <1>2, <1>3, <1>4 DEF VisibleIds

\* checkNoOutputPriorPics finds no picture of the CVS to hide: the pictures it
\* is meant for have left the list when the picture that asked for it came.
LEMMA PriorPicsKept ==
    ASSUME ListInv, ~stream.fresh, NEW h
    PROVE  AfterPriorPics(m_cListPic, h) = m_cListPic
<1>1. CASE ~Consumes(h)
  BY <1>1 DEF AfterPriorPics
<1>2. CASE Consumes(h)
  <2>1. stream.pics = {<<m_lastPOCNoOutputPriorPics, "anchor">>}
    BY <1>2 DEF Consumes, ListInv, CurrentInv, CurrentKnown, PriorKnown
  <2>2. Used(stream) = {m_lastPOCNoOutputPriorPics}
    <3>1. "anchor" \in Classes
      BY DEF Classes
    <3>2. \A c : "anchor" \in c => Of(stream, c) = {m_lastPOCNoOutputPriorPics}
      BY <2>1, OfOne
    <3> QED BY <3>1, <3>2 DEF Used
  <2>3. \A p \in m_cListPic : p \in Picture /\ PocOf(p) = m_lastPOCNoOutputPriorPics
    BY <2>2, ListFacts DEF ListInv, ListOwn, OfTheCvs
  <2>4. \A p \in m_cListPic :
          [p EXCEPT !.neededForOutput = p.neededForOutput /\ PocOf(p) = m_lastPOCNoOutputPriorPics] = p
    <3> SUFFICES ASSUME NEW p \in m_cListPic
                 PROVE  [p EXCEPT !.neededForOutput = p.neededForOutput
                                     /\ PocOf(p) = m_lastPOCNoOutputPriorPics] = p
      OBVIOUS
    <3>1. (p.neededForOutput /\ PocOf(p) = m_lastPOCNoOutputPriorPics) = p.neededForOutput
      BY <2>3 DEF Picture
    <3>2. [p EXCEPT !.neededForOutput = p.neededForOutput] = p
      BY <2>3 DEF Picture
    <3> QED BY <3>1, <3>2
  <2>5. AfterPriorPics(m_cListPic, h) =
          {[p EXCEPT !.neededForOutput = p.neededForOutput /\ PocOf(p) = m_lastPOCNoOutputPriorPics] :
             p \in m_cListPic}
    BY <1>2 DEF AfterPriorPics
  <2> QED BY <2>4, <2>5
<1> QED BY <1>1, <1>2

\* The steps that leave the list, the log and the current picture alone.
Quiet ==
    /\ UNCHANGED <<m_cListPic, log, gdrRecoveryPeriod, m_pcPic>>
    /\ Unfinished' <=> Unfinished
    /\ stream'.cvs = stream.cvs /\ stream'.expected = stream.expected
    /\ stream'.horizon = stream.horizon /\ stream'.dpb = stream.dpb
    /\ Used(stream) \subseteq Used(stream')
    /\ stream'.fresh /\ count'.eos = 0 <=> stream.fresh /\ count.eos = 0
    /\ pc = "look" \/ pc' = pc

LEMMA QuietOwn ==
    ASSUME ListInv, Quiet
    PROVE  ListOwn' /\ VisibleIds' = VisibleIds
<1>1. Used(stream)' = Used(stream')
  BY DEF Used, Of
<1>2. \A p : IsCurrent(p)' <=> IsCurrent(p)
  BY DEF Quiet, IsCurrent
<1>3. VisibleIds' = VisibleIds /\ Needed(m_cListPic)' = Needed(m_cListPic)
  BY DEF Quiet, VisibleIds, Needed
<1>4. \A p \in m_cListPic' : /\ p.id[1] = stream'.cvs
                             /\ PocOf(p) \in Used(stream)'
                             /\ p.referenced => PocOf(p) \in stream'.dpb
  BY <1>1 DEF Quiet, ListInv, ListOwn, OfTheCvs
<1>5. Unfinished' => \E p \in m_cListPic' : IsCurrent(p)'
  BY <1>2 DEF Quiet, ListInv, ListOwn
<1>6. Unfinished' => \A p \in m_cListPic' : IsCurrent(p)' => ~p.neededForOutput
  BY <1>2 DEF Quiet, ListInv, ListOwn
<1>7. m_cListPic' = {} => (stream'.fresh /\ count'.eos = 0) \/ pc' = "done"
  BY DEF Quiet, ListInv, ListOwn
<1>8. gdrRecoveryPeriod' /\ pc' # "output" => Needed(m_cListPic)' = {}
  BY <1>3 DEF Quiet, ListInv, ListOwn
<1>9. OfTheCvs'
  BY <1>4 DEF OfTheCvs
<1> QED BY <1>3, <1>5, <1>6, <1>7, <1>8, <1>9 DEF ListOwn

LEMMA SkipFirstSliceQuiet ==
    ASSUME ListInv, NEW h \in Followers(stream), NEW last \in BOOLEAN,
           SkipFirstSlice(h, last)
    PROVE  Quiet /\ \A poc \in ExpectedPocs(stream) : poc > stream.horizon
<1>0. StreamInv
  BY DEF ListInv, CurrentInv
<1>1. /\ stream' = Coded(stream, h) /\ RandomAccessSkip(h)
      /\ m_bFirstSliceInPicture /\ pc = "look" /\ bPicSkipped' = TRUE
      /\ m_cListPic' = AfterPriorPics(m_cListPic, h)
      /\ UNCHANGED <<log, gdrRecoveryPeriod, m_pcPic, pcSlice>>
      /\ count' = [Counted("pics") EXCEPT !.slices = 1]
  BY DEF SkipFirstSlice, ReadsFirstSlice
<1>2. /\ stream \in Stream /\ StreamOk(stream) /\ h \in Header /\ MayFollow(stream, h)
      /\ ~StartsCvs(stream, h) /\ Undecodable(stream, h)
  BY <1>0, <1>1, FollowerFacts
<1>3. ~stream.fresh
  BY <1>2 DEF StartsCvs
<1>4. m_cListPic' = m_cListPic
  BY <1>1, <1>3, PriorPicsKept
<1>5. /\ stream'.expected = stream.expected
      /\ stream'.cvs = stream.cvs /\ stream'.horizon = stream.horizon
      /\ \A poc \in ExpectedPocs(stream) : poc > stream.horizon
  BY <1>1, <1>2, UndecodableOk
<1>6. stream' = [stream EXCEPT !.pics = PicsWith(stream, h)]
  BY <1>1, <1>2, UndecodableFacts
<1>7. stream'.dpb = stream.dpb /\ stream'.fresh = stream.fresh
  BY <1>2, <1>6 DEF Stream
<1>8. Used(stream) \subseteq Used(stream')
  BY <1>1, <1>2, CodedType
<1>9. ~Unfinished /\ ~Unfinished'
  BY <1>1 DEF Unfinished
<1> QED BY <1>1, <1>3, <1>4, <1>5, <1>7, <1>8, <1>9 DEF Quiet

LEMMA SameStream ==
    ASSUME stream' = stream
    PROVE  /\ stream'.cvs = stream.cvs /\ stream'.expected = stream.expected
           /\ stream'.horizon = stream.horizon /\ stream'.dpb = stream.dpb
           /\ stream'.fresh = stream.fresh
           /\ Used(stream) \subseteq Used(stream')
OBVIOUS

LEMMA CountedEos ==
    ASSUME ListInv, NEW field \in {"slices", "drops"}, count' = Counted(field)
    PROVE  count'.eos = count.eos
<1>1. count \in [pics : Nat, slices : Nat, eos : Nat, drops : Nat]
  BY DEF ListInv, CurrentInv, StreamInv, LoopInv, TypeInv, TypeOK
<1>2. count' = [count EXCEPT ![field] = count[field] + 1]
  BY DEF Counted
<1> QED BY <1>1, <1>2

LEMMA SkipNextSliceQuiet ==
    ASSUME ListInv, NEW last \in BOOLEAN, SkipNextSlice(last)
    PROVE  Quiet
<1>1. /\ stream' = stream /\ pc = "look" /\ count' = Counted("slices")
      /\ UNCHANGED <<m_cListPic, log, gdrRecoveryPeriod, m_pcPic>>
      /\ Unfinished' <=> Unfinished
  BY DEF SkipNextSlice, skipFlags, firstFlags, Unfinished
<1> QED BY <1>1, SameStream, CountedEos DEF Quiet

LEMMA DecodeNextSliceQuiet ==
    ASSUME ListInv, NEW last \in BOOLEAN, DecodeNextSlice(last)
    PROVE  Quiet
<1>1. /\ stream' = stream /\ pc = "look" /\ count' = Counted("slices")
      /\ part = "decoded"
      /\ m_cListPic' = AfterPriorPics(m_cListPic, pcSlice)
      /\ gdrRecoveryPeriod' = (gdrRecoveryPeriod \/ (prevPicSkipped /\ pcSlice.kind = "GDR"))
      /\ UNCHANGED <<log, m_pcPic>>
      /\ Unfinished' <=> Unfinished
  BY DEF DecodeNextSlice, skipFlags, firstFlags, Unfinished, display
<1>2. Unfinished /\ ~stream.fresh
  BY <1>1 DEF ListInv, CurrentInv, StreamInv, LoopInv, FlowKnown, RefsInv, EosKnown
<1>3. m_cListPic' = m_cListPic
  BY <1>1, <1>2, PriorPicsKept
<1>4. gdrRecoveryPeriod' = gdrRecoveryPeriod
  <2>1. ~(prevPicSkipped /\ pcSlice.kind = "GDR")
    BY <1>1 DEF ListInv, CurrentInv, CurrentKnown, SkipKnown
  <2>2. gdrRecoveryPeriod \in BOOLEAN
    BY DEF ListInv, CurrentInv, StreamInv, LoopInv, TypeInv, TypeOK
  <2> QED BY <1>1, <2>1, <2>2
<1> QED BY <1>1, <1>3, <1>4, SameStream, CountedEos DEF Quiet

LEMMA DropSliceQuiet ==
    ASSUME ListInv, NEW last \in BOOLEAN, DropSlice(last)
    PROVE  Quiet
<1>1. /\ stream' = stream /\ pc = "look" /\ count' = Counted("drops")
      /\ m_bFirstSliceInPicture /\ bPicSkipped' = TRUE
      /\ UNCHANGED <<m_cListPic, log, gdrRecoveryPeriod, m_pcPic>>
  BY DEF DropSlice, ReadsFirstSlice, display
<1>2. ~Unfinished /\ ~Unfinished'
  BY <1>1 DEF Unfinished
<1> QED BY <1>1, <1>2, SameStream, CountedEos DEF Quiet

LEMMA DecodeEosQuiet ==
    ASSUME ListInv, NEW last \in BOOLEAN, DecodeEos(last)
    PROVE  Quiet
<1>1. /\ stream' = [stream EXCEPT !.fresh = TRUE] /\ pc = "look" /\ count' = Counted("eos")
      /\ part \in {"decoded", "skipped", "dropped"}
      /\ UNCHANGED <<m_cListPic, log, gdrRecoveryPeriod, m_pcPic>>
      /\ Unfinished' <=> Unfinished
  BY DEF DecodeEos, skipFlags, firstFlags, Unfinished, display
<1>2. stream \in Stream /\ count \in [pics : Nat, slices : Nat, eos : Nat, drops : Nat]
  BY DEF ListInv, CurrentInv, StreamInv, LoopInv, TypeInv, TypeOK
<1>3. ~stream.fresh
  BY <1>1 DEF ListInv, CurrentInv, StreamInv, LoopInv, RefsInv, EosKnown
<1>4. count'.eos > 0
  BY <1>1, <1>2, CountedType
<1>5. stream'.cvs = stream.cvs /\ stream'.expected = stream.expected
      /\ stream'.horizon = stream.horizon /\ stream'.dpb = stream.dpb
      /\ stream'.pics = stream.pics
  BY <1>1, <1>2 DEF Stream
<1>6. Used(stream') = Used(stream)
  BY <1>5 DEF Used, Of
<1> QED BY <1>1, <1>3, <1>4, <1>5, <1>6 DEF Quiet

LEMMA LookAheadQuiet == ASSUME ListInv, LookAhead PROVE Quiet
<1>1. /\ stream' = stream /\ pc = "look" /\ count' = count
      /\ UNCHANGED <<m_cListPic, log, gdrRecoveryPeriod, m_pcPic>>
      /\ Unfinished' <=> Unfinished
  BY DEF LookAhead, skipFlags, firstFlags, Unfinished, display
<1> QED BY <1>1, SameStream DEF Quiet

LEMMA StutterQuiet == ASSUME ListInv, UNCHANGED vars PROVE Quiet
<1>1. /\ stream' = stream /\ pc' = pc /\ count' = count
      /\ UNCHANGED <<m_cListPic, log, gdrRecoveryPeriod, m_pcPic>>
      /\ Unfinished' <=> Unfinished
  BY DEF vars, skipFlags, firstFlags, Unfinished, display, bitstream
<1> QED BY <1>1, SameStream DEF Quiet

-----------------------------------------------------------------------------
(***************************************************************************)
(* The first slice of a picture.                                           *)
(***************************************************************************)
\* The first picture of a CVS comes to an empty list: all that waited is
\* written before.
LEMMA FirstSliceFlushes ==
    ASSUME ListInv, Orderly, NEW h \in Followers(stream), NEW last \in BOOLEAN,
           DecodeFirstSlice(h, last), StartsCvs(stream, h)
    PROVE  /\ m_cListPic' = {NewPicture(<<stream'.cvs, h.poc>>)}
           /\ \/ /\ log' = log \o Rows(Needed(m_cListPic))
                 /\ m_iPOCLastDisplay' = FlushedDisplay
              \/ /\ m_cListPic = {} /\ log' = log /\ m_iPOCLastDisplay' = m_iPOCLastDisplay
<1>1. RefsInv /\ "gdrAfterEos" \notin Allow
  BY DEF ListInv, CurrentInv, StreamInv, LoopInv, Orderly
<1>2. m_cListPic' = {NewPicture(<<Coded(stream, h).cvs, h.poc>>)}
  BY <1>1, FirstOfCvs
<1>3. /\ stream' = Coded(stream, h) /\ m_bFirstSliceInPicture
      /\ log' = IF StartsIrap(h) THEN FlushedLog ELSE log
      /\ m_iPOCLastDisplay' = IF StartsIrap(h) THEN FlushedDisplay ELSE m_iPOCLastDisplay
      /\ pc = "look" /\ part \in {"picture", "skipped"}
      /\ h.kind = "GDR" /\ stream.fresh /\ count.eos > 0 => FALSE
  BY <1>1 DEF DecodeFirstSlice, ReadsFirstSlice, Admitted
<1>4. h.kind \in Anchors /\ count.eos \in Nat
  BY FollowersType DEF ListInv, CurrentInv, StreamInv, LoopInv, TypeInv, TypeOK
<1>5. StartsIrap(h) \/ m_cListPic = {}
  <2>1. CASE h.kind = "IDR"
    BY <1>3, <2>1 DEF StartsIrap
  <2>2. CASE h.kind # "IDR" /\ count.eos = 0
    BY <1>1, <2>2 DEF StartsCvs, RefsInv, EosKnown
  <2>3. CASE h.kind # "IDR" /\ count.eos > 0
    <3>1. stream.fresh /\ h.kind = "CRA"
      BY <1>3, <1>4, <2>3 DEF StartsCvs, Anchors
    <3>2. part = "picture"
      BY <1>1, <1>3, <3>1 DEF RefsInv, EosKnown
    <3>3. isEosPresentInLastPu
      BY <1>1, <1>3, <2>3, <3>1, <3>2 DEF RefsInv, EosKnown
    <3> QED BY <1>3, <3>1, <3>3 DEF StartsIrap
  <2> QED BY <1>4, <2>1, <2>2, <2>3
<1> QED BY <1>2, <1>3, <1>5 DEF FlushedLog

\* A further picture of the CVS.
LEMMA FirstSliceJoins ==
    ASSUME ListInv, Orderly, NEW h \in Followers(stream), NEW last \in BOOLEAN,
           DecodeFirstSlice(h, last), ~StartsCvs(stream, h)
    PROVE  /\ WithNewPicture(Marked(m_cListPic, h), <<stream.cvs, h.poc>>, m_cListPic')
           /\ stream'.cvs = stream.cvs /\ stream'.dpb = h.keep \cup {h.poc}
           /\ UNCHANGED <<log, m_iPOCLastDisplay, gdrRecoveryPeriod>>
<1>0. StreamInv
  BY DEF ListInv, CurrentInv
<1>1. /\ stream' = Coded(stream, h) /\ pc = "look" /\ part \in {"picture", "skipped"}
      /\ log' = IF StartsIrap(h) THEN FlushedLog ELSE log
      /\ m_iPOCLastDisplay' = IF StartsIrap(h) THEN FlushedDisplay ELSE m_iPOCLastDisplay
      /\ gdrRecoveryPeriod' = (gdrRecoveryPeriod \/ (prevPicSkipped /\ h.kind = "GDR"))
      /\ WithNewPicture(Marked(AfterPriorPics(IF StartsIrap(h) THEN {} ELSE m_cListPic, h), h),
                        <<Coded(stream, h).cvs, h.poc>>, m_cListPic')
      /\ h.kind = "GDR" => ~(count.drops > 0)
      /\ ~RandomAccessSkip(h)
  BY DEF DecodeFirstSlice, ReadsFirstSlice, Admitted, Orderly
<1>2. /\ stream \in Stream /\ h \in Header /\ MayFollow(stream, h)
      /\ ~Undecodable(stream, h)
  BY <1>0, <1>1, FollowerFacts
<1>3. ~stream.fresh /\ h.kind # "IDR"
  BY DEF StartsCvs
<1>4. ~StartsIrap(h)
  BY <1>0, <1>1, <1>3 DEF StartsIrap, StreamInv, LoopInv, RefsInv, EosKnown
<1>5. stream'.cvs = stream.cvs /\ stream'.dpb = h.keep \cup {h.poc}
  BY <1>1, <1>2, FurtherPictureFacts
<1>6. AfterPriorPics(m_cListPic, h) = m_cListPic
  BY <1>3, PriorPicsKept
<1>7. gdrRecoveryPeriod' = gdrRecoveryPeriod
  <2>1. ~(prevPicSkipped /\ h.kind = "GDR")
    BY <1>1, <1>3 DEF ListInv, CurrentInv, CurrentKnown, SkipKnown
  <2>2. gdrRecoveryPeriod \in BOOLEAN
    BY <1>0 DEF StreamInv, LoopInv, TypeInv, TypeOK
  <2> QED BY <1>1, <2>1, <2>2
<1> QED BY <1>1, <1>4, <1>5, <1>6, <1>7

\* What becomes of the pictures of the list when another one joins.
LEMMA JoinedPictures ==
    ASSUME NEW list \in SUBSET Picture, IsFiniteSet(list), Distinct(list),
           NEW h, NEW id \in PicId, id \notin IdsOf(list), NEW listNew,
           WithNewPicture(Marked(list, h), id, listNew)
    PROVE  /\ NewPicture(id) \in listNew
           /\ \A p \in listNew : p = NewPicture(id) \/ \E q \in list :
                 /\ p.id = q.id /\ p.neededForOutput = q.neededForOutput
                 /\ p.referenced =>
                      q.referenced /\ (PocOf(q) \in h.keep \/ PocOf(q) = h.poc)
           /\ IdsOf(Needed(listNew)) = IdsOf(Needed(list))
<1> DEFINE marked == Marked(list, h)
<1>1. PICK f \in [list -> Picture] :
              /\ Marked(list, h) = {f[p] : p \in list}
              /\ \A p \in list :
                    /\ f[p].id = p.id
                    /\ f[p].referenced <=>
                         p.referenced /\ (PocOf(p) \in h.keep \/ PocOf(p) = h.poc)
                    /\ f[p].reconstructed = p.reconstructed
                    /\ f[p].neededForOutput = p.neededForOutput
  BY MarkedMap
<1>2. marked = {f[p] : p \in list}
  BY <1>1
<1>3. WithNewPicture(marked, id, listNew)
  OBVIOUS
<1> HIDE DEF marked
<1>4. NewPicture(id).id = id /\ NewPicture(id).neededForOutput = FALSE
  BY DEF NewPicture
<1>5. /\ NewPicture(id) \in listNew
      /\ \A p \in listNew : p = NewPicture(id) \/ p \in marked
      /\ \A p \in marked : p.neededForOutput => p \in listNew
  BY <1>3 DEF WithNewPicture, Free
<1>6. \A p \in marked : \E q \in list :
                 /\ p.id = q.id /\ p.neededForOutput = q.neededForOutput
                 /\ p.referenced =>
                      q.referenced /\ (PocOf(q) \in h.keep \/ PocOf(q) = h.poc)
  BY <1>1, <1>2
<1>7. \A q \in list : \E p \in marked : p.id = q.id /\ p.neededForOutput = q.neededForOutput
  BY <1>1, <1>2
<1>8. IdsOf(Needed(listNew)) \subseteq IdsOf(Needed(list))
  <2>1. \A p \in Needed(listNew) : \E q \in Needed(list) : p.id = q.id
    BY <1>4, <1>5, <1>6 DEF Needed
  <2> QED BY <2>1 DEF IdsOf
<1>9. IdsOf(Needed(list)) \subseteq IdsOf(Needed(listNew))
  <2>1. \A q \in Needed(list) : \E p \in Needed(listNew) : p.id = q.id
    BY <1>5, <1>7 DEF Needed
  <2> QED BY <2>1 DEF IdsOf
<1> QED BY <1>5, <1>6, <1>8, <1>9

LEMMA QuietStep ==
    ASSUME ListInv, NEW last \in BOOLEAN,
           \/ \E h \in Followers(stream) : SkipFirstSlice(h, last)
           \/ SkipNextSlice(last)
           \/ DecodeNextSlice(last)
           \/ DropSlice(last)
           \/ DecodeEos(last)
           \/ LookAhead
           \/ UNCHANGED vars
    PROVE  Quiet
BY SkipFirstSliceQuiet, SkipNextSliceQuiet, DecodeNextSliceQuiet, DropSliceQuiet,
   DecodeEosQuiet, LookAheadQuiet, StutterQuiet

\* The ids of the list and of the new picture.
LEMMA FirstSliceId ==
    ASSUME ListInv, Orderly, NEW h \in Followers(stream), NEW last \in BOOLEAN,
           DecodeFirstSlice(h, last)
    PROVE  /\ <<stream'.cvs, h.poc>> \in PicId
           /\ ~StartsCvs(stream, h) => /\ <<stream.cvs, h.poc>> \in PicId
                                       /\ <<stream.cvs, h.poc>> \notin IdsOf(m_cListPic)
<1>1. /\ stream' \in Stream /\ stream \in Stream /\ h.poc \in Poc /\ MayFollow(stream, h)
  BY DecodeFirstSliceFacts, FollowerFacts DEF ListInv, CurrentInv
<1>2. <<stream'.cvs, h.poc>> \in PicId /\ <<stream.cvs, h.poc>> \in PicId
  BY <1>1 DEF Stream, PicId
<1>3. ~StartsCvs(stream, h) => <<stream.cvs, h.poc>> \notin IdsOf(m_cListPic)
  <2>1. ~StartsCvs(stream, h) => h.poc \notin Used(stream)
    BY <1>1 DEF MayFollow
  <2>2. \A p \in m_cListPic : p.id[2] \in Used(stream)
    BY DEF ListInv, ListOwn, OfTheCvs, PocOf
  <2> QED BY <2>1, <2>2 DEF IdsOf
<1> QED BY <1>2, <1>3

LEMMA DecodeFirstSliceOwn ==
    ASSUME ListInv, Orderly, NEW h \in Followers(stream), NEW last \in BOOLEAN,
           DecodeFirstSlice(h, last)
    PROVE  /\ ListOwn'
           /\ StartsCvs(stream, h) => VisibleIds' = {}
           /\ ~StartsCvs(stream, h) => VisibleIds' = VisibleIds
<1> DEFINE id == <<stream'.cvs, h.poc>>
<1>1. /\ stream' = Coded(stream, h) /\ stream' \in Stream /\ stream \in Stream
      /\ h \in Header /\ MayFollow(stream, h) /\ h.poc \in Poc
      /\ m_pcPic' = id /\ Used(stream)' = Used(stream')
      /\ h.poc \in Used(stream')
      /\ ~StartsCvs(stream, h) => Used(stream) \subseteq Used(stream')
  BY DecodeFirstSliceFacts, FollowerFacts, CodedType DEF ListInv, CurrentInv
<1>2. id \in PicId
  BY FirstSliceId
<1>3. /\ NewPicture(id).id = id /\ NewPicture(id).neededForOutput = FALSE
      /\ PocOf(NewPicture(id)) = h.poc
  BY DEF NewPicture, PocOf
<1>4. pc = "look"
  BY DEF DecodeFirstSlice, ReadsFirstSlice
<1>5. CASE StartsCvs(stream, h)
  <2>1. m_cListPic' = {NewPicture(id)}
    BY <1>5, FirstSliceFlushes
  <2>2. stream'.dpb = {h.poc}
    <3>1. h.kind \in Anchors
      BY <1>1, <1>5 DEF StartsCvs, MayFollow, Anchors
    <3> QED BY <1>1, <1>5, <3>1, FirstPictureFacts
  <2> HIDE DEF id
  <2>3. Needed(m_cListPic)' = {}
    BY <1>3, <2>1 DEF Needed
  <2>4. VisibleIds' = {}
    BY <2>3 DEF VisibleIds, IdsOf
  <2>5. \A p \in m_cListPic' : p = NewPicture(id)
    BY <2>1
  <2>6. id[1] = stream'.cvs
    BY DEF id
  <2>7. \A p \in m_cListPic' : /\ p.id[1] = stream'.cvs
                               /\ PocOf(p) \in Used(stream)'
                               /\ PocOf(p) \in stream'.dpb
    BY <1>1, <1>3, <2>2, <2>5, <2>6
  <2>8. \E p \in m_cListPic' : IsCurrent(p)'
    BY <1>1, <1>3, <2>1 DEF IsCurrent
  <2>9. \A p \in m_cListPic' : ~p.neededForOutput
    BY <1>3, <2>5
  <2>10. OfTheCvs'
    BY <2>7 DEF OfTheCvs
  <2>11. m_cListPic' # {}
    BY <2>1
  <2>12. ListOwn'
    BY <2>3, <2>8, <2>9, <2>10, <2>11 DEF ListOwn
  <2> QED BY <1>5, <2>4, <2>12
<1>6. CASE ~StartsCvs(stream, h)
  <2>1. /\ WithNewPicture(Marked(m_cListPic, h), <<stream.cvs, h.poc>>, m_cListPic')
        /\ stream'.cvs = stream.cvs /\ stream'.dpb = h.keep \cup {h.poc}
        /\ gdrRecoveryPeriod' = gdrRecoveryPeriod
    BY <1>6, FirstSliceJoins
  <2>2. <<stream.cvs, h.poc>> = id /\ id \notin IdsOf(m_cListPic)
    BY <1>6, <2>1, FirstSliceId
  <2>3. id[1] = stream.cvs
    BY <2>1
  <2> HIDE DEF id
  <2>4. m_cListPic \in SUBSET Picture /\ IsFiniteSet(m_cListPic) /\ Distinct(m_cListPic)
    BY ListFacts
  <2>5. WithNewPicture(Marked(m_cListPic, h), id, m_cListPic')
    BY <2>1, <2>2
  <2>6. /\ NewPicture(id) \in m_cListPic'
        /\ \A p \in m_cListPic' : p = NewPicture(id) \/ \E q \in m_cListPic :
                 /\ p.id = q.id /\ p.neededForOutput = q.neededForOutput
                 /\ p.referenced =>
                      q.referenced /\ (PocOf(q) \in h.keep \/ PocOf(q) = h.poc)
        /\ IdsOf(Needed(m_cListPic')) = IdsOf(Needed(m_cListPic))
    BY <1>2, <2>2, <2>4, <2>5, JoinedPictures
  <2>7. IdsOf(Needed(m_cListPic))' = IdsOf(Needed(m_cListPic))
    BY <2>6 DEF IdsOf, Needed
  <2>8. VisibleIds' = VisibleIds
    BY <2>1, <2>7 DEF VisibleIds
  <2>9. \A p \in m_cListPic' : /\ p.id[1] = stream'.cvs
                               /\ PocOf(p) \in Used(stream)'
                               /\ p.referenced => PocOf(p) \in stream'.dpb
    <3> SUFFICES ASSUME NEW p \in m_cListPic'
                 PROVE  /\ p.id[1] = stream'.cvs
                        /\ PocOf(p) \in Used(stream)'
                        /\ p.referenced => PocOf(p) \in stream'.dpb
      OBVIOUS
    <3>1. CASE p = NewPicture(id)
      BY <1>1, <1>3, <2>1, <2>3, <3>1
    <3>2. ASSUME NEW q \in m_cListPic, p.id = q.id,
                 p.referenced => q.referenced /\ (PocOf(q) \in h.keep \/ PocOf(q) = h.poc)
          PROVE  /\ p.id[1] = stream'.cvs
                 /\ PocOf(p) \in Used(stream)'
                 /\ p.referenced => PocOf(p) \in stream'.dpb
      <4>1. PocOf(p) = PocOf(q)
        BY <3>2 DEF PocOf
      <4>2. q.id[1] = stream.cvs /\ PocOf(q) \in Used(stream)
        BY DEF ListInv, ListOwn, OfTheCvs
      <4> QED BY <1>1, <1>6, <2>1, <3>2, <4>1, <4>2
    <3> QED BY <2>6, <3>1, <3>2
  <2>10. \E p \in m_cListPic' : IsCurrent(p)'
    BY <1>1, <1>3, <2>6 DEF IsCurrent
  <2>11. \A p \in m_cListPic' : IsCurrent(p)' => ~p.neededForOutput
    <3>1. \A q \in m_cListPic : q.id # id
      BY <2>2 DEF IdsOf
    <3> QED BY <1>1, <1>3, <2>6, <3>1 DEF IsCurrent
  <2>12. m_cListPic' # {}
    BY <2>6
  <2>13. gdrRecoveryPeriod' => Needed(m_cListPic)' = {}
    <3>1. gdrRecoveryPeriod => IdsOf(Needed(m_cListPic)) = {}
      BY <1>4 DEF ListInv, ListOwn, IdsOf
    <3>2. IdsOf(Needed(m_cListPic))' = {} => Needed(m_cListPic)' = {}
      BY DEF IdsOf
    <3> QED BY <2>1, <2>7, <3>1, <3>2
  <2>14. ListOwn'
    <3>1. OfTheCvs'
      BY <2>9 DEF OfTheCvs
    <3> QED BY <2>10, <2>11, <2>12, <2>13, <3>1 DEF ListOwn
  <2> QED BY <1>6, <2>8, <2>14
<1> QED BY <1>5, <1>6

-----------------------------------------------------------------------------
(***************************************************************************)
(* The end of a picture and the output.                                    *)
(***************************************************************************)
\* The current picture, if it is output: it is the last to become visible.
Pending == IF Unfinished THEN {m_pcPic} \cap stream.expected ELSE {}

LEMMA FinishBlockOwn ==
    ASSUME ListInv, FinishBlock
    PROVE  /\ ListOwn'
           /\ ~Unfinished'
           /\ VisibleIds' = VisibleIds \cup Pending
<1>1. /\ pc = "finish" /\ pc' = "output" /\ ~Unfinished'
      /\ UNCHANGED <<stream, count, m_pcPic>>
      /\ \/ /\ Unfinished
            /\ m_cListPic' = Finished(m_cListPic)
            /\ gdrRecoveryPeriod' = (gdrRecoveryPeriod /\ ~GDRRecoveryPocReached)
         \/ /\ ~Unfinished
            /\ UNCHANGED <<m_cListPic, gdrRecoveryPeriod>>
  BY FinishBlockCases DEF FinishBlock, bitstream, ListInv, CurrentInv, StreamInv
<1>2. Used(stream)' = Used(stream)
  BY <1>1 DEF Used, Of
<1>3. CASE ~Unfinished
  <2>1. UNCHANGED <<m_cListPic, gdrRecoveryPeriod>>
    BY <1>1, <1>3
  <2>2. VisibleIds' = VisibleIds \cup Pending
    BY <1>3, <2>1 DEF VisibleIds, Pending, IdsOf, Needed
  <2>3. OfTheCvs'
    BY <1>1, <1>2, <2>1 DEF OfTheCvs, ListInv, ListOwn
  <2>4. ListOwn'
    BY <1>1, <2>1, <2>3 DEF ListInv, ListOwn
  <2> QED BY <1>1, <2>2, <2>4
<1>4. CASE Unfinished
  <2>1. /\ m_cListPic' = Finished(m_cListPic)
        /\ gdrRecoveryPeriod' = (gdrRecoveryPeriod /\ ~GDRRecoveryPocReached)
    BY <1>1, <1>4
  <2>2. /\ m_pcPic = <<stream.cvs, pcSlice.poc>> /\ pcSlice \in Header
        /\ m_pcPic \in stream.expected <=> pcSlice.output /\ pcSlice.poc >= stream.recovery
        /\ pcSlice.kind = "RASL" => ~m_newCLVS
        /\ pcSlice.poc \in Used(stream)
    BY <1>4 DEF ListInv, CurrentInv, CurrentKnown, HeaderOutput
  <2>3. PICK f \in [m_cListPic -> Picture] :
              /\ Finished(m_cListPic) = {f[p] : p \in m_cListPic}
              /\ \A p \in m_cListPic :
                    /\ f[p].id = p.id
                    /\ f[p].referenced = p.referenced
                    /\ IsCurrent(p) => (f[p].neededForOutput <=>
                         pcSlice.output /\ ~(m_newCLVS /\ pcSlice.kind = "RASL"))
                    /\ ~IsCurrent(p) => f[p] = p
    BY <2>2, FinishedMap, ListFacts DEF Header
  <2>4. m_cListPic' = {f[p] : p \in m_cListPic}
    BY <2>1, <2>3
  <2>5. PICK c \in m_cListPic : IsCurrent(c)
    BY <1>4 DEF ListInv, ListOwn
  <2>6. IdsOf(Needed(m_cListPic')) =
          IdsOf(Needed(m_cListPic)) \cup (IF pcSlice.output THEN {m_pcPic} ELSE {})
    <3>1. ~c.neededForOutput
      BY <1>4, <2>5 DEF ListInv, ListOwn
    <3>2. \A p \in m_cListPic : IsCurrent(p) => ~p.neededForOutput
      BY <1>4 DEF ListInv, ListOwn
    <3>3. \A p \in Needed(m_cListPic) : p \in Needed(m_cListPic')
      BY <2>3, <2>4, <3>2 DEF Needed
    <3>4. pcSlice.output => f[c] \in Needed(m_cListPic') /\ f[c].id = m_pcPic
      BY <2>2, <2>3, <2>4, <2>5 DEF Needed, IsCurrent
    <3>5. \A q \in Needed(m_cListPic') : q \in Needed(m_cListPic) \/ (pcSlice.output /\ q.id = m_pcPic)
      BY <2>2, <2>3, <2>4 DEF Needed, IsCurrent
    <3> QED BY <3>3, <3>4, <3>5 DEF IdsOf
  <2>7. VisibleIds = IdsOf(Needed(m_cListPic))
    BY <1>1, ListFacts
  <2>8. /\ m_pcPic[2] = pcSlice.poc /\ pcSlice.poc \in Nat /\ stream.recovery \in Nat
    <3>1. pcSlice.poc \in Poc
      BY <2>2 DEF Header
    <3> QED BY <2>2, <3>1, Sentinels, ListFacts DEF Stream
  <2>9. gdrRecoveryPeriod' => pcSlice.poc < stream.recovery /\ VisibleIds = {}
    <3>1. SUFFICES ASSUME gdrRecoveryPeriod, ~(pcSlice.poc >= m_prevGDRInSameLayerRecoveryPOC)
                   PROVE  pcSlice.poc < stream.recovery /\ VisibleIds = {}
      BY <2>1, <2>8 DEF GDRRecoveryPocReached
    <3>2. ~stream.fresh
      <4>1. stream.fresh => m_prevGDRInSameLayerRecoveryPOC = MinusInf
        BY <3>1 DEF ListInv, CurrentInv, CurrentKnown, GdrKnown
      <4>2. pcSlice.poc >= MinusInf
        BY <2>8, Sentinels
      <4> QED BY <3>1, <4>1, <4>2
    <3>3. m_prevGDRInSameLayerRecoveryPOC = stream.recovery
      BY <3>1, <3>2 DEF ListInv, CurrentInv, CurrentKnown, GdrKnown
    <3> QED BY <2>8, <3>1, <3>3 DEF VisibleIds
  <2>10. ~gdrRecoveryPeriod' => pcSlice.poc >= stream.recovery
    <3>1. SUFFICES ASSUME pcSlice.poc < stream.recovery PROVE gdrRecoveryPeriod'
      BY <2>8
    <3>2. Recovering(stream)
      BY <1>4, <3>1 DEF ListInv, CurrentInv, CurrentKnown, GdrKnown
    <3>3. stream.pics # {}
      BY <2>2 DEF Used, Of
    <3>4. gdrRecoveryPeriod /\ ~stream.fresh
      BY <3>2, <3>3 DEF ListInv, CurrentInv, CurrentKnown, GdrKnown
    <3>5. m_prevGDRInSameLayerRecoveryPOC = stream.recovery
      BY <3>4 DEF ListInv, CurrentInv, CurrentKnown, GdrKnown
    <3>6. ~GDRRecoveryPocReached
      BY <2>8, <3>1, <3>5 DEF GDRRecoveryPocReached
    <3> QED BY <2>1, <3>4, <3>6
  <2>11. IdsOf(Needed(m_cListPic))' = IdsOf(Needed(m_cListPic'))
    BY DEF IdsOf, Needed
  <2>12. Pending = {m_pcPic} \cap stream.expected
    BY <1>4 DEF Pending
  <2>13. VisibleIds' = VisibleIds \cup Pending
    <3>1. CASE gdrRecoveryPeriod'
      <4>1. m_pcPic \notin stream.expected
        BY <2>2, <2>8, <2>9, <3>1
      <4> QED BY <2>9, <2>12, <3>1, <4>1 DEF VisibleIds
    <3>2. CASE ~gdrRecoveryPeriod'
      <4>1. m_pcPic \in stream.expected <=> pcSlice.output
        BY <2>2, <2>10, <3>2
      <4>2. VisibleIds' = IdsOf(Needed(m_cListPic'))
        BY <2>11, <3>2 DEF VisibleIds
      <4> QED BY <2>6, <2>7, <2>12, <4>1, <4>2
    <3> QED BY <3>1, <3>2
  <2>14. \A q \in m_cListPic' : /\ q.id[1] = stream'.cvs
                                /\ PocOf(q) \in Used(stream)'
                                /\ q.referenced => PocOf(q) \in stream'.dpb
    <3>1. \A q \in m_cListPic' : \E p \in m_cListPic : q.id = p.id /\ q.referenced = p.referenced
      BY <2>3, <2>4
    <3> QED BY <1>1, <1>2, <3>1 DEF ListInv, ListOwn, OfTheCvs, PocOf
  <2>15. m_cListPic' # {}
    BY <2>4, <2>5
  <2>16. ~Unfinished' /\ pc' = "output"
    BY <1>1
  <2>17. ListOwn'
    <3>1. OfTheCvs'
      BY <2>14 DEF OfTheCvs
    <3>2. ~(m_cListPic' = {}) /\ ~(gdrRecoveryPeriod' /\ pc' # "output")
      BY <2>15, <2>16
    <3> QED BY <2>16, <3>1, <3>2 DEF ListOwn
  <2> QED BY <2>13, <2>16, <2>17
<1> QED BY <1>3, <1>4

-----------------------------------------------------------------------------
(***************************************************************************)
(* The log against what the stream expects.                                *)
(***************************************************************************)
\* Pictures expected after POC c in output order.
After(c) == {poc \in ExpectedPocs(stream) : poc > c}

\* What is expected has been written, is visible in the list, or is current;
\* what has been written comes first.  Behind a current picture that is output
\* there are no more pictures than the limits allow.
RowsKnown ==
    /\ stream.expected = RowsOf(log) \cup VisibleIds \cup Pending
    /\ RowsOf(log) \cap (VisibleIds \cup Pending) = {}
    /\ Once(log)
    /\ \A x \in RowsOf(log), y \in VisibleIds \cup Pending : x[1] = stream.cvs => x[2] < y[2]
    /\ pc # "done" => \A x \in RowsOf(log) : x[1] = stream.cvs => x[2] <= stream.horizon
    /\ stream.fresh /\ count.eos = 0 => log = <<>>
    /\ Pending # {} => /\ Cardinality(After(m_pcPic[2])) <= MaxNumReorder
                       /\ Cardinality(After(m_pcPic[2]) \cup stream.dpb) <= MaxDecPicBuffering

\* Slices that may have been skipped.
SkippedSlices == IF count.pics = 0 THEN 0 ELSE (count.pics - 1) * MaxSlices + count.slices

\* m_iPOCLastDisplay is the last row of the CVS, or lower than every POC, also
\* when slices that were skipped have been counted.
DisplayKnown ==
    /\ \/ pc # "done" /\ <<stream.cvs, m_iPOCLastDisplay>> \in RowsOf(log)
       \/ /\ m_iPOCLastDisplay <= MinusInf + SkippedSlices
          /\ pc = "done" \/ \A x \in RowsOf(log) : x[1] # stream.cvs
    /\ count.pics <= MaxPics
    /\ count.slices <= MaxSlices
    /\ part \in {"decoded", "skipped"} => count.pics > 0

\* The pictures that keep their buffers.
Live(list) == {p \in list : p.neededForOutput \/ p.referenced}

BoundKnown ==
    /\ pc = "look" => Cardinality(Live(m_cListPic)) <= MaxDecPicBuffering
    /\ Cardinality(m_cListPic) <= MaxDecPicBuffering + 1
    /\ pc = "done" => m_cListPic = {}

OutputInv == ListInv /\ RowsKnown /\ DisplayKnown /\ BoundKnown

\* Pictures of one CVS are not more than their POCs.
LEMMA PocCount ==
    ASSUME NEW list \in SUBSET Picture, IsFiniteSet(list), Distinct(list),
           NEW cvs, \A p \in list : p.id[1] = cvs,
           NEW T, IsFiniteSet(T), \A p \in list : PocOf(p) \in T
    PROVE  /\ Cardinality(list) <= Cardinality(T)
           /\ Cardinality(list) \in Nat /\ Cardinality(T) \in Nat
<1> DEFINE f == [p \in list |-> PocOf(p)]
<1>1. f \in [list -> T] /\ \A p \in list : f[p] = PocOf(p)
  OBVIOUS
<1>2. \A p, q \in list : f[p] = f[q] => p = q
  <2>1. \A p \in list : p.id \in Nat \X Nat
    BY Sentinels DEF Picture, PicId
  <2>2. \A p \in list : p.id = <<p.id[1], p.id[2]>>
    BY <2>1
  <2> HIDE DEF f
  <2>3. \A p, q \in list : f[p] = f[q] => p.id = q.id
    BY <1>1, <2>2 DEF PocOf
  <2> QED BY <2>3 DEF Distinct
<1> HIDE DEF f
<1>3. ~(Cardinality(T) < Cardinality(list))
  <2>1. Cardinality(T) < Cardinality(list) => \E p, q \in list : p # q /\ f[p] = f[q]
    BY <1>1, FS_PigeonHole
  <2> QED BY <1>2, <2>1
<1>4. Cardinality(list) \in Nat /\ Cardinality(T) \in Nat
  BY FS_CardinalityType
<1> QED BY <1>3, <1>4

LEMMA MoreCount ==
    ASSUME NEW S, NEW T, IsFiniteSet(T), S \subseteq T
    PROVE  Cardinality(S) <= Cardinality(T) /\ Cardinality(S) \in Nat /\ Cardinality(T) \in Nat
BY FS_Subset, FS_CardinalityType

\* m_iPOCLastDisplay stays below the POCs while no picture of the CVS has been
\* written: skipped slices do not count it up that far.
LEMMA SkippedBound ==
    ASSUME count \in [pics : Nat, slices : Nat, eos : Nat, drops : Nat],
           count.pics <= MaxPics, count.slices <= MaxSlices
    PROVE  SkippedSlices \in Nat /\ MinusInf + SkippedSlices < 0
<1>1. /\ count.pics \in Nat /\ count.slices \in Nat
      /\ MaxPics \in Nat /\ MaxSlices \in Nat
  BY LoopAssumption
<1> DEFINE n == count.pics - 1
<1>2. CASE count.pics = 0
  <2>1. MaxPics * MaxSlices \in Nat
    BY <1>1
  <2> QED BY <1>2, <2>1 DEF SkippedSlices, MinusInf
<1>3. CASE count.pics # 0
  <2>1. n \in Nat /\ n + 1 <= MaxPics
    BY <1>1, <1>3
  <2>2. SkippedSlices = n * MaxSlices + count.slices
    BY <1>3 DEF SkippedSlices
  <2> HIDE DEF n
  <2>3. n * MaxSlices \in Nat /\ MaxPics * MaxSlices \in Nat
    BY <1>1, <2>1
  <2>4. n * MaxSlices + MaxSlices <= MaxPics * MaxSlices
    <3>1. PICK k \in Nat : MaxPics = (n + 1) + k
      <4>1. MaxPics - (n + 1) \in Nat /\ MaxPics = (n + 1) + (MaxPics - (n + 1))
        BY <1>1, <2>1
      <4> QED BY <4>1
    <3>2. ((n + 1) + k) * MaxSlices = n * MaxSlices + MaxSlices + k * MaxSlices
      BY <1>1, <2>1
    <3>3. k * MaxSlices \in Nat
      BY <1>1
    <3> QED BY <1>1, <2>3, <3>1, <3>2, <3>3
  <2> DEFINE a == n * MaxSlices
             b == MaxPics * MaxSlices
  <2>5. a \in Nat /\ b \in Nat /\ a + MaxSlices <= b /\ SkippedSlices = a + count.slices
        /\ MinusInf = -(b + 1)
    BY <2>2, <2>3, <2>4 DEF MinusInf
  <2> HIDE DEF a, b
  <2> QED BY <1>1, <2>5
<1> QED BY <1>2, <1>3

-----------------------------------------------------------------------------
(***************************************************************************)
(* xWriteOutput.                                                           *)
(***************************************************************************)
Listed == Suppressed(m_cListPic)
Out == ToOutput(Listed, m_iPOCLastDisplay)

\* The list that xWriteOutput is given.
LEMMA ListedFacts ==
    ASSUME ListInv, pc = "output"
    PROVE  /\ Listed \in SUBSET Picture /\ IsFiniteSet(Listed) /\ Distinct(Listed)
           /\ Cardinality(Listed) = Cardinality(m_cListPic)
           /\ Listed = {} <=> m_cListPic = {}
           /\ \A p \in Listed : /\ p.id[1] = stream.cvs
                                /\ PocOf(p) \in Used(stream)
                                /\ PocOf(p) \in Poc
                                /\ p.referenced => PocOf(p) \in stream.dpb
           /\ IdsOf(Listed) = IdsOf(m_cListPic)
           /\ IdsOf(Needed(Listed)) = VisibleIds
           /\ Unfinished => /\ \E p \in Listed : IsCurrent(p)
                            /\ \A p \in Listed : IsCurrent(p) => ~p.neededForOutput
<1>1. m_cListPic \in SUBSET Picture /\ IsFiniteSet(m_cListPic) /\ Distinct(m_cListPic)
  BY ListFacts
<1>2. PICK f \in [m_cListPic -> Picture] :
              /\ Suppressed(m_cListPic) = {f[p] : p \in m_cListPic}
              /\ \A p \in m_cListPic :
                    /\ f[p].id = p.id
                    /\ f[p].referenced = p.referenced
                    /\ f[p].neededForOutput <=> p.neededForOutput /\ ~gdrRecoveryPeriod
  BY <1>1, SuppressedMap
<1>3. Listed = {f[p] : p \in m_cListPic}
  BY <1>2 DEF Listed
<1>4. /\ Listed \in SUBSET Picture /\ IsFiniteSet(Listed) /\ Distinct(Listed)
      /\ Cardinality(Listed) = Cardinality(m_cListPic)
      /\ IdsOf(Listed) = IdsOf(m_cListPic)
  BY <1>1, <1>2, <1>3, Mapped
<1>5. \A p \in Listed : \E q \in m_cListPic :
         /\ p.id = q.id /\ p.referenced = q.referenced
         /\ p.neededForOutput <=> q.neededForOutput /\ ~gdrRecoveryPeriod
  BY <1>2, <1>3
<1>6. \A q \in m_cListPic : \E p \in Listed :
         /\ p.id = q.id
         /\ p.neededForOutput <=> q.neededForOutput /\ ~gdrRecoveryPeriod
  BY <1>2, <1>3
<1>7. \A p \in Listed : /\ p.id[1] = stream.cvs
                        /\ PocOf(p) \in Used(stream)
                        /\ PocOf(p) \in Poc
                        /\ p.referenced => PocOf(p) \in stream.dpb
  <2>1. \A p \in Listed : PocOf(p) \in Poc
    BY <1>4 DEF Picture, PicId, PocOf
  <2> QED BY <1>5, <2>1 DEF ListInv, ListOwn, OfTheCvs, PocOf
<1>8. IdsOf(Needed(Listed)) = VisibleIds
  <2>1. \A p \in Needed(Listed) : ~gdrRecoveryPeriod /\ \E q \in Needed(m_cListPic) : p.id = q.id
    BY <1>5 DEF Needed
  <2>2. ~gdrRecoveryPeriod => \A q \in Needed(m_cListPic) : \E p \in Needed(Listed) : p.id = q.id
    BY <1>6 DEF Needed
  <2>3. IdsOf(Needed(Listed)) \subseteq VisibleIds
    BY <2>1 DEF VisibleIds, IdsOf
  <2>4. VisibleIds \subseteq IdsOf(Needed(Listed))
    BY <2>2 DEF VisibleIds, IdsOf
  <2> QED BY <2>3, <2>4
<1>9. Unfinished => /\ \E p \in Listed : IsCurrent(p)
                    /\ \A p \in Listed : IsCurrent(p) => ~p.neededForOutput
  BY <1>5, <1>6 DEF ListInv, ListOwn, IsCurrent
<1>10. Listed = {} <=> m_cListPic = {}
  BY <1>3
<1> QED BY <1>4, <1>7, <1>8, <1>9, <1>10

\* xWriteOutput considers every picture that is to be output.
LEMMA ShownAll ==
    ASSUME OutputInv, pc = "output"
    PROVE  Shown(Listed, m_iPOCLastDisplay) = Needed(Listed)
<1>1. \A p \in Needed(Listed) : p \in Listed /\ p.id \in VisibleIds /\ PocOf(p) \in Poc
  <2>1. \A p \in Needed(Listed) : p.id \in IdsOf(Needed(Listed))
    BY DEF IdsOf
  <2> QED BY <2>1, ListedFacts DEF Needed, OutputInv
<1>2. \A x \in Poc : x \in Nat
  BY Sentinels
<1>3. m_iPOCLastDisplay \in Int
  BY DEF OutputInv, ListInv, CurrentInv, StreamInv, LoopInv, TypeInv, TypeOK
<1>4. ASSUME NEW p \in Needed(Listed)
      PROVE  PocOf(p) >= m_iPOCLastDisplay
  <2>1. p.id \in VisibleIds /\ PocOf(p) \in Nat
    BY <1>1, <1>2
  <2>2. CASE <<stream.cvs, m_iPOCLastDisplay>> \in RowsOf(log)
    <3>1. m_iPOCLastDisplay < p.id[2]
      BY <2>1, <2>2 DEF OutputInv, RowsKnown
    <3> QED BY <1>3, <2>1, <3>1 DEF PocOf
  <2>3. CASE m_iPOCLastDisplay <= MinusInf + SkippedSlices
    <3>1. count \in [pics : Nat, slices : Nat, eos : Nat, drops : Nat]
      BY DEF OutputInv, ListInv, CurrentInv, StreamInv, LoopInv, TypeInv, TypeOK
    <3>2. SkippedSlices \in Nat /\ MinusInf + SkippedSlices < 0
      BY <3>1, SkippedBound DEF OutputInv, DisplayKnown
    <3>3. MinusInf \in Int
      BY Sentinels
    <3> QED BY <1>3, <2>1, <2>3, <3>2, <3>3
  <2> QED BY <2>2, <2>3 DEF OutputInv, DisplayKnown
<1> QED BY <1>4 DEF Shown, Needed

\* What is written does not exceed a POC behind which there are no more
\* pictures than the limits allow.
LEMMA NotAbove ==
    ASSUME OutputInv, pc = "output", NEW c \in Int,
           Cardinality(After(c)) <= MaxNumReorder,
           Cardinality(After(c) \cup stream.dpb) <= MaxDecPicBuffering,
           NEW p \in Out
    PROVE  PocOf(p) <= c
<1>1. /\ Listed \in SUBSET Picture /\ IsFiniteSet(Listed) /\ Distinct(Listed)
      /\ IdsOf(Needed(Listed)) = VisibleIds
      /\ \A q \in Listed : /\ q.id[1] = stream.cvs
                           /\ PocOf(q) \in Poc
                           /\ q.referenced => PocOf(q) \in stream.dpb
  BY ListedFacts DEF OutputInv
<1>2. Shown(Listed, m_iPOCLastDisplay) = Needed(Listed)
  BY ShownAll
<1>3. \A x \in Poc : x \in Nat
  BY Sentinels
<1>4. \A q \in Needed(Listed) : PocOf(q) \in ExpectedPocs(stream)
  <2>1. stream \in Stream
    BY ListFacts DEF OutputInv
  <2>2. \A q \in Needed(Listed) : q.id \in stream.expected
    BY <1>1 DEF OutputInv, RowsKnown, IdsOf
  <2>3. \A q \in Needed(Listed) : q.id[1] = stream.cvs /\ q.id \in Nat \X Poc
    BY <1>1 DEF Needed, Picture, PicId
  <2>4. \A q \in Needed(Listed) : q.id = <<stream.cvs, PocOf(q)>>
    BY <2>3 DEF PocOf
  <2> QED BY <2>1, <2>2, <2>4, ExpectedMembers
<1>5. SUFFICES ASSUME PocOf(p) > c PROVE FALSE
  <2>1. PocOf(p) \in Poc
    BY <1>1 DEF Out, ToOutput, Shown
  <2> QED BY <1>3, <2>1
<1> DEFINE S == {q \in Needed(Listed) : ~Precedes(q, p)}
           R == {q \in Listed : \/ q.referenced
                                \/ q \in Needed(Listed) /\ ~Precedes(q, p)}
<1>6. p \in Listed
  BY DEF Out, ToOutput, Shown
<1>7. \/ Cardinality(S) > MaxNumReorder
      \/ Cardinality(R) > MaxDecPicBuffering
  BY <1>2 DEF Out, ToOutput, NotYetDisplayed, DpbFullness
<1>8. /\ IsFiniteSet(S) /\ S \in SUBSET Picture /\ Distinct(S)
      /\ IsFiniteSet(R) /\ R \in SUBSET Picture /\ Distinct(R)
  <2>1. S \subseteq Listed /\ R \subseteq Listed
    BY DEF Needed
  <2> HIDE DEF S, R
  <2>2. IsFiniteSet(S) /\ IsFiniteSet(R)
    BY <1>1, <2>1, FS_Subset
  <2> QED BY <1>1, <2>1, <2>2 DEF Distinct
<1>9. \A q \in Needed(Listed) : ~Precedes(q, p) => PocOf(q) \in After(c)
  <2> TAKE q \in Needed(Listed)
  <2> HAVE ~Precedes(q, p)
  <2>1. PocOf(q) \in Nat /\ PocOf(p) \in Nat
    BY <1>1, <1>3, <1>6 DEF Needed
  <2>2. PocOf(q) > c
    BY <1>5, <2>1 DEF Precedes
  <2> QED BY <1>4, <2>2 DEF After
<1>10. \A q \in S : PocOf(q) \in After(c) /\ q.id[1] = stream.cvs
  BY <1>1, <1>9 DEF Needed
<1>11. \A q \in R : PocOf(q) \in After(c) \cup stream.dpb /\ q.id[1] = stream.cvs
  BY <1>1, <1>9
<1> HIDE DEF S, R
<1>12. /\ IsFiniteSet(After(c)) /\ Cardinality(After(c)) \in Nat
       /\ IsFiniteSet(After(c) \cup stream.dpb) /\ Cardinality(After(c) \cup stream.dpb) \in Nat
  <2>1. stream \in Stream
    BY ListFacts DEF OutputInv
  <2>2. ExpectedPocs(stream) \subseteq Poc /\ stream.dpb \subseteq Poc
    BY <2>1, ExpectedType DEF Stream
  <2>3. After(c) \subseteq Poc
    BY <2>2 DEF After
  <2> QED BY <2>2, <2>3, PocsFinite
<1>13. Cardinality(S) <= Cardinality(After(c)) /\ Cardinality(S) \in Nat
  BY <1>8, <1>10, <1>12, PocCount
<1>14. Cardinality(R) <= Cardinality(After(c) \cup stream.dpb) /\ Cardinality(R) \in Nat
  BY <1>8, <1>11, <1>12, PocCount
<1>15. MaxNumReorder \in Nat /\ MaxDecPicBuffering \in Nat
  BY StreamAssumption
<1> QED BY <1>7, <1>12, <1>13, <1>14, <1>15

\* The picture behind the first that stays in the list satisfies the limits.
LEMMA OutBelow ==
    ASSUME OutputInv, pc = "output", NEW p \in Out,
           NEW q \in Needed(Listed) \ Out
    PROVE  PocOf(p) < PocOf(q)
<1>1. /\ Listed \in SUBSET Picture /\ IsFiniteSet(Listed) /\ Distinct(Listed)
      /\ \A r \in Listed : r.id[1] = stream.cvs /\ PocOf(r) \in Poc
  BY ListedFacts DEF OutputInv
<1>2. Shown(Listed, m_iPOCLastDisplay) = Needed(Listed)
  BY ShownAll
<1>3. /\ p \in Listed /\ p \in Needed(Listed) /\ q \in Listed /\ q # p
      /\ PocOf(p) \in Nat /\ PocOf(q) \in Nat
  <2>1. \A x \in Poc : x \in Nat
    BY Sentinels
  <2>2. p \in Needed(Listed)
    BY <1>2 DEF Out, ToOutput
  <2> QED BY <1>1, <2>1, <2>2 DEF Needed
<1>4. SUFFICES ASSUME ~(PocOf(p) < PocOf(q)) PROVE FALSE
  OBVIOUS
<1>5. Precedes(q, p)
  BY <1>1, <1>3, <1>4, PrecedesOrder DEF Precedes
<1> DEFINE Sp == {r \in Needed(Listed) : ~Precedes(r, p)}
           Sq == {r \in Needed(Listed) : ~Precedes(r, q)}
           Rp == {r \in Listed : r.referenced \/ (r \in Needed(Listed) /\ ~Precedes(r, p))}
           Rq == {r \in Listed : r.referenced \/ (r \in Needed(Listed) /\ ~Precedes(r, q))}
<1>6. Sp \subseteq Sq /\ Rp \subseteq Rq
  <2>1. \A r \in Listed : Precedes(r, q) => Precedes(r, p)
    BY <1>1, <1>3, <1>5, PrecedesOrder
  <2> QED BY <2>1 DEF Needed
<1>7. \/ Cardinality(Sp) > MaxNumReorder
      \/ Cardinality(Rp) > MaxDecPicBuffering
  BY <1>2 DEF Out, ToOutput, NotYetDisplayed, DpbFullness
<1>8. ~(Cardinality(Sq) > MaxNumReorder) /\ ~(Cardinality(Rq) > MaxDecPicBuffering)
  <2>1. q \in Shown(Listed, m_iPOCLastDisplay) /\ q \notin Out
    BY <1>2
  <2> QED BY <1>2, <2>1 DEF Out, ToOutput, NotYetDisplayed, DpbFullness
<1>9. Sq \subseteq Listed /\ Rq \subseteq Listed
  BY DEF Needed
<1> HIDE DEF Sp, Sq, Rp, Rq
<1>10. /\ Cardinality(Sp) <= Cardinality(Sq) /\ Cardinality(Sp) \in Nat /\ Cardinality(Sq) \in Nat
       /\ Cardinality(Rp) <= Cardinality(Rq) /\ Cardinality(Rp) \in Nat /\ Cardinality(Rq) \in Nat
  <2>1. IsFiniteSet(Sq) /\ IsFiniteSet(Rq)
    BY <1>1, <1>9, FS_Subset
  <2> QED BY <1>6, <2>1, MoreCount
<1>11. MaxNumReorder \in Nat /\ MaxDecPicBuffering \in Nat
  BY StreamAssumption
<1> QED BY <1>7, <1>8, <1>10, <1>11

\* What the output block leaves in the list.
LEMMA WrittenFacts ==
    ASSUME OutputInv, OutputBlock
    PROVE  /\ m_cListPic' = WrittenList(Listed, Out)
           /\ log' = log \o Rows(Out)
           /\ m_iPOCLastDisplay' = IF Out = {} THEN m_iPOCLastDisplay
                                   ELSE HighestOf({PocOf(p) : p \in Out})
           /\ UNCHANGED <<stream, count, part, eof, m_pcPic, gdrRecoveryPeriod>>
           /\ pc = "output" /\ pc' = IF eof THEN "flush" ELSE "look"
           /\ Unfinished' = Unfinished
BY OutputBlockUnfinished
   DEF OutputBlock, xWriteOutput, Listed, Out, WrittenList, bitstream, OutputInv, ListInv,
       CurrentInv, StreamInv

\* What the output block writes.
LEMMA OutFacts ==
    ASSUME OutputInv, pc = "output"
    PROVE  /\ Out \subseteq Needed(Listed)
           /\ Out \in SUBSET Picture /\ IsFiniteSet(Out) /\ Distinct(Out)
           /\ IdsOf(Out) \subseteq VisibleIds
           /\ \A p \in Out : p.id = <<stream.cvs, PocOf(p)>>
           /\ \A p \in Out : PocOf(p) <= stream.horizon
           /\ Pending # {} => \A p \in Out : PocOf(p) < m_pcPic[2]
           /\ \A x \in IdsOf(Out), y \in VisibleIds \ IdsOf(Out) : x[2] < y[2]
<1>1. /\ Listed \in SUBSET Picture /\ IsFiniteSet(Listed) /\ Distinct(Listed)
      /\ IdsOf(Needed(Listed)) = VisibleIds
      /\ \A p \in Listed : p.id[1] = stream.cvs /\ PocOf(p) \in Poc
      /\ Unfinished => \A p \in Listed : IsCurrent(p) => ~p.neededForOutput
  BY ListedFacts DEF OutputInv
<1>2. Shown(Listed, m_iPOCLastDisplay) = Needed(Listed)
  BY ShownAll
<1>3. Out \subseteq Needed(Listed)
  BY <1>2 DEF Out, ToOutput
<1>4. Out \in SUBSET Picture /\ IsFiniteSet(Out) /\ Distinct(Out)
  <2>1. Out \subseteq Listed
    BY <1>3 DEF Needed
  <2>2. IsFiniteSet(Out)
    BY <1>1, <2>1, FS_Subset
  <2> QED BY <1>1, <2>1, <2>2 DEF Distinct
<1>5. \A p \in Listed : p.id = <<stream.cvs, PocOf(p)>>
  <2>1. \A p \in Listed : p.id \in Nat \X Poc
    BY <1>1 DEF Picture, PicId
  <2> QED BY <1>1, <2>1 DEF PocOf
<1>6. stream \in Stream /\ StreamOk(stream)
  BY ListFacts DEF OutputInv, ListInv, CurrentInv, StreamInv, StreamKnown
<1>7. stream.horizon \in Int /\ \A x \in Poc : x \in Int
  <2>1. \A x \in Poc : x \in Int
    BY Sentinels
  <2>2. stream.horizon \in Poc \cup {-1}
    BY <1>6 DEF Stream
  <2> QED BY <2>1, <2>2
<1>8. \A p \in Out : PocOf(p) <= stream.horizon
  <2>1. After(stream.horizon) = stream.waiting
    BY <1>6 DEF StreamOk, After
  <2>2. /\ Cardinality(After(stream.horizon)) <= MaxNumReorder
        /\ Cardinality(After(stream.horizon) \cup stream.dpb) <= MaxDecPicBuffering
    BY <1>6, <2>1 DEF StreamOk
  <2> QED BY <1>7, <2>2, NotAbove
<1>9. ASSUME Pending # {}, NEW p \in Out
      PROVE  PocOf(p) < m_pcPic[2]
  <2>1. Unfinished /\ m_pcPic \in stream.expected
    BY <1>9 DEF Pending
  <2>2. m_pcPic = <<stream.cvs, m_pcPic[2]>> /\ m_pcPic[2] \in Poc
    <3>1. m_pcPic = <<stream.cvs, pcSlice.poc>> /\ pcSlice \in Header
      BY <2>1 DEF OutputInv, ListInv, CurrentInv, CurrentKnown, HeaderOutput
    <3> QED BY <3>1 DEF Header
  <2>3. m_pcPic[2] \in Int
    BY <1>7, <2>2
  <2>4. PocOf(p) <= m_pcPic[2]
    <3>1. /\ Cardinality(After(m_pcPic[2])) <= MaxNumReorder
          /\ Cardinality(After(m_pcPic[2]) \cup stream.dpb) <= MaxDecPicBuffering
      BY <1>9 DEF OutputInv, RowsKnown
    <3> QED BY <2>3, <3>1, NotAbove
  <2>5. p \in Listed /\ p.neededForOutput
    BY <1>3 DEF Needed
  <2>6. p.id # m_pcPic
    BY <1>1, <2>1, <2>5 DEF IsCurrent
  <2>7. PocOf(p) # m_pcPic[2]
    BY <1>5, <2>2, <2>5, <2>6
  <2>8. PocOf(p) \in Int
    BY <1>1, <1>7, <2>5
  <2> QED BY <2>3, <2>4, <2>7, <2>8
<1>10. IdsOf(Out) \subseteq VisibleIds
  BY <1>1, <1>3 DEF IdsOf
<1>11. \A x \in IdsOf(Out), y \in VisibleIds \ IdsOf(Out) : x[2] < y[2]
  <2> TAKE x \in IdsOf(Out), y \in VisibleIds \ IdsOf(Out)
  <2>1. PICK p \in Out : x = p.id
    BY DEF IdsOf
  <2>2. PICK q \in Needed(Listed) : y = q.id
    BY <1>1 DEF IdsOf
  <2>3. q \in Needed(Listed) \ Out
    BY <2>2 DEF IdsOf
  <2>4. PocOf(p) < PocOf(q)
    BY <2>3, OutBelow
  <2> QED BY <2>1, <2>2, <2>4 DEF PocOf
<1>12. \A p \in Out : p.id = <<stream.cvs, PocOf(p)>>
  BY <1>3, <1>5 DEF Needed
<1> QED BY <1>3, <1>4, <1>8, <1>9, <1>10, <1>11, <1>12

LEMMA OutputBlockOwn ==
    ASSUME OutputInv, OutputBlock
    PROVE  /\ ListOwn'
           /\ VisibleIds' = VisibleIds \ IdsOf(Out)
           /\ Pending' = Pending
<1>1. /\ m_cListPic' = WrittenList(Listed, Out)
      /\ UNCHANGED <<stream, count, m_pcPic, gdrRecoveryPeriod>>
      /\ pc = "output" /\ pc' # "output"
      /\ Unfinished' = Unfinished
  BY WrittenFacts
<1>2. /\ Listed \in SUBSET Picture /\ Distinct(Listed)
      /\ Listed = {} <=> m_cListPic = {}
      /\ \A p \in Listed : /\ p.id[1] = stream.cvs
                           /\ PocOf(p) \in Used(stream)
                           /\ p.referenced => PocOf(p) \in stream.dpb
      /\ IdsOf(Needed(Listed)) = VisibleIds
      /\ Unfinished => /\ \E p \in Listed : IsCurrent(p)
                       /\ \A p \in Listed : IsCurrent(p) => ~p.neededForOutput
  BY <1>1, ListedFacts DEF OutputInv
<1>3. PICK f \in [Listed -> Picture] :
              /\ WrittenList(Listed, Out) = {f[p] : p \in Listed}
              /\ \A p \in Listed :
                    /\ f[p].id = p.id
                    /\ f[p].referenced = p.referenced
                    /\ f[p].neededForOutput <=> p.neededForOutput /\ p \notin Out
  <2>1. Listed \in SUBSET Picture
    BY <1>2
  <2> QED BY ONLY <2>1, WrittenMap, Zenon
<1>4. \A p \in m_cListPic' : \E q \in Listed :
         /\ p.id = q.id /\ p.referenced = q.referenced
         /\ p.neededForOutput <=> q.neededForOutput /\ q \notin Out
  BY <1>1, <1>3
<1>5. \A q \in Listed : \E p \in m_cListPic' :
         /\ p.id = q.id
         /\ p.neededForOutput <=> q.neededForOutput /\ q \notin Out
  BY <1>1, <1>3
<1>6. Used(stream)' = Used(stream)
  BY <1>1 DEF Used, Of
<1>7. OfTheCvs'
  <2>1. \A p \in m_cListPic' : /\ p.id[1] = stream'.cvs
                               /\ PocOf(p) \in Used(stream)'
                               /\ p.referenced => PocOf(p) \in stream'.dpb
    BY <1>1, <1>2, <1>4, <1>6 DEF PocOf
  <2> QED BY <2>1 DEF OfTheCvs
<1>8. Unfinished' => /\ \E p \in m_cListPic' : IsCurrent(p)'
                     /\ \A p \in m_cListPic' : IsCurrent(p)' => ~p.neededForOutput
  BY <1>1, <1>2, <1>4, <1>5 DEF IsCurrent
<1>9. IdsOf(Needed(m_cListPic')) = VisibleIds \ IdsOf(Out)
  <2>1. \A p \in Needed(m_cListPic') : \E q \in Needed(Listed) : q \notin Out /\ p.id = q.id
    BY <1>4 DEF Needed
  <2>2. \A q \in Needed(Listed) : q \notin Out => \E p \in Needed(m_cListPic') : p.id = q.id
    BY <1>5 DEF Needed
  <2>3. \A q \in Needed(Listed) : q \in Out <=> q.id \in IdsOf(Out)
    <3>1. Out \subseteq Listed /\ \A q \in Needed(Listed) : q \in Listed
      BY <1>1, OutFacts DEF Needed
    <3> QED BY <1>2, <3>1 DEF IdsOf, Distinct
  <2> QED BY <1>2, <2>1, <2>2, <2>3 DEF IdsOf
<1>10. gdrRecoveryPeriod => VisibleIds = {}
  BY DEF VisibleIds
<1>11. gdrRecoveryPeriod' => Needed(m_cListPic)' = {}
  <2>1. gdrRecoveryPeriod' => IdsOf(Needed(m_cListPic')) = {}
    BY <1>1, <1>9, <1>10
  <2>2. IdsOf(Needed(m_cListPic')) = {} => Needed(m_cListPic)' = {}
    BY DEF IdsOf, Needed
  <2> QED BY <2>1, <2>2
<1>12. VisibleIds' = VisibleIds \ IdsOf(Out)
  <2>1. IdsOf(Needed(m_cListPic))' = IdsOf(Needed(m_cListPic'))
    BY DEF IdsOf, Needed
  <2> QED BY <1>1, <1>9, <1>10, <2>1 DEF VisibleIds
<1>13. m_cListPic' = {} => m_cListPic = {}
  BY <1>2, <1>5
<1>14. ListOwn'
  <2>1. m_cListPic' = {} => (stream'.fresh /\ count'.eos = 0)
    BY <1>1, <1>13 DEF OutputInv, ListInv, ListOwn
  <2> QED BY <1>7, <1>8, <1>11, <2>1 DEF ListOwn
<1>15. Pending' = Pending
  BY <1>1 DEF Pending
<1> QED BY <1>12, <1>14, <1>15

LEMMA OutputBlockRows ==
    ASSUME OutputInv, OutputBlock
    PROVE  /\ RowsOf(log') = RowsOf(log) \cup IdsOf(Out)
           /\ RowsKnown'
<1>1. /\ log' = log \o Rows(Out)
      /\ UNCHANGED <<stream, count, m_pcPic>>
      /\ pc = "output"
  BY WrittenFacts
<1>2. /\ Out \in SUBSET Picture /\ IsFiniteSet(Out) /\ Distinct(Out)
      /\ IdsOf(Out) \subseteq VisibleIds
      /\ \A p \in Out : p.id = <<stream.cvs, PocOf(p)>>
      /\ \A p \in Out : PocOf(p) <= stream.horizon
      /\ Pending # {} => \A p \in Out : PocOf(p) < m_pcPic[2]
      /\ \A x \in IdsOf(Out), y \in VisibleIds \ IdsOf(Out) : x[2] < y[2]
  BY <1>1, OutFacts
<1>3. VisibleIds' = VisibleIds \ IdsOf(Out) /\ Pending' = Pending
  BY OutputBlockOwn
<1>4. /\ stream.expected = RowsOf(log) \cup VisibleIds \cup Pending
      /\ RowsOf(log) \cap (VisibleIds \cup Pending) = {}
      /\ Once(log)
      /\ \A x \in RowsOf(log), y \in VisibleIds \cup Pending : x[1] = stream.cvs => x[2] < y[2]
      /\ \A x \in RowsOf(log) : x[1] = stream.cvs => x[2] <= stream.horizon
  BY <1>1 DEF OutputInv, RowsKnown
<1>5. /\ RowsOf(log') = RowsOf(log) \cup IdsOf(Out)
      /\ Once(log')
  <2>1. log \in Seq(PicId)
    BY ListFacts DEF OutputInv
  <2> QED BY <1>1, <1>2, <1>4, <2>1, AppendRows
<1>6. \A y \in Pending : y = m_pcPic
  BY DEF Pending
<1>7. Pending \cap VisibleIds = {}
  <2>1. ASSUME m_pcPic \in VisibleIds, Unfinished PROVE FALSE
    <3>1. \E p \in m_cListPic : p.neededForOutput /\ IsCurrent(p)
      BY <2>1 DEF VisibleIds, IdsOf, Needed, IsCurrent
    <3> QED BY <2>1, <3>1 DEF OutputInv, ListInv, ListOwn
  <2> QED BY <2>1 DEF Pending
<1>8. stream.expected = RowsOf(log') \cup VisibleIds' \cup Pending'
  BY <1>2, <1>3, <1>4, <1>5
<1>9. RowsOf(log') \cap (VisibleIds' \cup Pending') = {}
  BY <1>2, <1>3, <1>4, <1>5, <1>7
<1>10. \A x \in RowsOf(log'), y \in VisibleIds' \cup Pending' : x[1] = stream.cvs => x[2] < y[2]
  <2>1. \A x \in IdsOf(Out) : Pending # {} => x[2] < m_pcPic[2]
    BY <1>2 DEF IdsOf, PocOf
  <2> QED BY <1>2, <1>3, <1>4, <1>5, <1>6, <2>1
<1>11. \A x \in RowsOf(log') : x[1] = stream.cvs => x[2] <= stream.horizon
  <2>1. \A x \in IdsOf(Out) : x[2] <= stream.horizon
    BY <1>2 DEF IdsOf, PocOf
  <2> QED BY <1>4, <1>5, <2>1
<1>12. ~(stream.fresh /\ count.eos = 0)
  <2>1. count.eos > 0 \/ ~stream.fresh
    BY <1>1 DEF OutputInv, ListInv, CurrentInv, StreamInv, LoopInv, FlowKnown
  <2>2. count.eos \in Nat
    BY DEF OutputInv, ListInv, CurrentInv, StreamInv, LoopInv, TypeInv, TypeOK
  <2> QED BY <2>1, <2>2
<1>13. Pending' # {} => /\ Cardinality(After(m_pcPic[2])') <= MaxNumReorder
                        /\ Cardinality(After(m_pcPic[2])' \cup stream'.dpb) <= MaxDecPicBuffering
  <2>1. After(m_pcPic[2])' = After(m_pcPic[2])
    BY <1>1 DEF After, ExpectedPocs
  <2> QED BY <1>1, <1>3, <2>1 DEF OutputInv, RowsKnown
<1>14. /\ stream'.expected = RowsOf(log)' \cup VisibleIds' \cup Pending'
       /\ RowsOf(log)' \cap (VisibleIds' \cup Pending') = {}
       /\ Once(log)'
       /\ \A x \in RowsOf(log)', y \in VisibleIds' \cup Pending' : x[1] = stream'.cvs => x[2] < y[2]
       /\ \A x \in RowsOf(log)' : x[1] = stream'.cvs => x[2] <= stream'.horizon
       /\ ~(stream'.fresh /\ count'.eos = 0)
  <2>1. RowsOf(log)' = RowsOf(log') /\ (Once(log)' <=> Once(log'))
    BY DEF RowsOf, Once
  <2> QED BY <1>1, <1>5, <1>8, <1>9, <1>10, <1>11, <1>12, <2>1
<1>15. RowsKnown'
  BY <1>13, <1>14 DEF RowsKnown
<1> QED BY <1>5, <1>15

\* Pictures are not more than those whose ids they have.
LEMMA IdCount ==
    ASSUME NEW list \in SUBSET Picture, IsFiniteSet(list), Distinct(list),
           NEW D, IsFiniteSet(D), \A p \in list : \E q \in D : q.id = p.id
    PROVE  /\ Cardinality(list) <= Cardinality(D)
           /\ Cardinality(list) \in Nat /\ Cardinality(D) \in Nat
<1> DEFINE f == [p \in list |-> CHOOSE q \in D : q.id = p.id]
<1>1. f \in [list -> D] /\ \A p \in list : f[p].id = p.id
  OBVIOUS
<1> HIDE DEF f
<1>2. \A p, q \in list : f[p] = f[q] => p = q
  BY <1>1 DEF Distinct
<1>3. ~(Cardinality(D) < Cardinality(list))
  <2>1. Cardinality(D) < Cardinality(list) => \E p, q \in list : p # q /\ f[p] = f[q]
    BY <1>1, FS_PigeonHole
  <2> QED BY <1>2, <2>1
<1>4. Cardinality(list) \in Nat /\ Cardinality(D) \in Nat
  BY FS_CardinalityType
<1> QED BY <1>3, <1>4

LEMMA OutputBlockDisplay ==
    ASSUME OutputInv, OutputBlock
    PROVE  DisplayKnown'
<1>1. /\ m_iPOCLastDisplay' = IF Out = {} THEN m_iPOCLastDisplay
                              ELSE HighestOf({PocOf(p) : p \in Out})
      /\ UNCHANGED <<stream, count, part>>
      /\ pc = "output" /\ pc' # "done"
  BY WrittenFacts
<1>2. RowsOf(log') = RowsOf(log) \cup IdsOf(Out)
  BY OutputBlockRows
<1>3. SkippedSlices' = SkippedSlices
  BY <1>1 DEF SkippedSlices
<1>4. MinusInf' = MinusInf
  BY DEF MinusInf
<1>5. RowsOf(log)' = RowsOf(log')
  BY DEF RowsOf
<1>6. CASE Out = {}
  <2>1. RowsOf(log)' = RowsOf(log)
    BY <1>2, <1>5, <1>6 DEF IdsOf
  <2> QED BY <1>1, <1>3, <1>6, <2>1 DEF OutputInv, DisplayKnown
<1>7. CASE Out # {}
  <2>1. Out \in SUBSET Picture /\ \A p \in Out : p.id = <<stream.cvs, PocOf(p)>>
    BY <1>1, OutFacts
  <2>2. m_iPOCLastDisplay' \in {PocOf(p) : p \in Out}
    BY <1>1, <1>7, <2>1, HighestPoc
  <2>3. PICK p \in Out : m_iPOCLastDisplay' = PocOf(p)
    BY <2>2
  <2>4. <<stream'.cvs, m_iPOCLastDisplay'>> \in RowsOf(log)'
    BY <1>1, <1>2, <1>5, <2>1, <2>3 DEF IdsOf
  <2> QED BY <1>1, <2>4 DEF OutputInv, DisplayKnown
<1> QED BY <1>6, <1>7

LEMMA OutputBlockBound ==
    ASSUME OutputInv, OutputBlock
    PROVE  BoundKnown'
<1>1. m_cListPic' = WrittenList(Listed, Out) /\ pc = "output" /\ pc' # "done"
  BY WrittenFacts
<1>2. /\ Listed \in SUBSET Picture /\ IsFiniteSet(Listed) /\ Distinct(Listed)
      /\ Cardinality(Listed) = Cardinality(m_cListPic)
      /\ \A p \in Listed : /\ p.id[1] = stream.cvs
                           /\ p.referenced => PocOf(p) \in stream.dpb
  BY <1>1, ListedFacts DEF OutputInv
<1>3. PICK f \in [Listed -> Picture] :
              /\ WrittenList(Listed, Out) = {f[p] : p \in Listed}
              /\ \A p \in Listed :
                    /\ f[p].id = p.id
                    /\ f[p].referenced = p.referenced
                    /\ f[p].neededForOutput <=> p.neededForOutput /\ p \notin Out
  <2>1. Listed \in SUBSET Picture
    BY <1>2
  <2> QED BY ONLY <2>1, WrittenMap, Zenon
<1>4. /\ m_cListPic' \in SUBSET Picture /\ IsFiniteSet(m_cListPic') /\ Distinct(m_cListPic')
      /\ Cardinality(m_cListPic') = Cardinality(m_cListPic)
  BY <1>1, <1>2, <1>3, Mapped
<1> DEFINE L == Live(m_cListPic')
           D == {p \in Listed : p.referenced \/ (p \in Needed(Listed) /\ p \notin Out)}
<1>5. /\ L \in SUBSET Picture /\ IsFiniteSet(L) /\ Distinct(L)
      /\ \A p \in L : \E q \in D : q.id = p.id
      /\ \A p \in L : \E q \in Listed : q.id = p.id
  <2>1. L \subseteq m_cListPic'
    BY DEF Live
  <2>2. IsFiniteSet(L)
    BY <1>4, <2>1, FS_Subset
  <2>3. \A p \in L : \E q \in D : q.id = p.id
    BY <1>1, <1>3 DEF Live, Needed
  <2>4. \A p \in L : \E q \in Listed : q.id = p.id
    BY <2>3
  <2> HIDE DEF L, D
  <2> QED BY <1>4, <2>1, <2>2, <2>3, <2>4 DEF Distinct
<1>6. Cardinality(L) <= MaxDecPicBuffering
  <2>1. CASE Needed(Listed) \ Out # {}
    <3> DEFINE left == Needed(Listed) \ Out
    <3>1. left \in SUBSET Picture /\ IsFiniteSet(left) /\ Distinct(left)
      <4>1. left \subseteq Listed
        BY DEF Needed
      <4> HIDE DEF left
      <4>2. IsFiniteSet(left)
        BY <1>2, <4>1, FS_Subset
      <4> QED BY <1>2, <4>1, <4>2 DEF Distinct
    <3>2. left # {}
      BY <2>1
    <3>3. left \subseteq Needed(Listed) /\ \A p \in left : p \notin Out
      OBVIOUS
    <3>4. \A p \in Needed(Listed) : p \notin Out => p \in left
      OBVIOUS
    <3> HIDE DEF left
    <3>5. Cardinality(left) \in Nat /\ Cardinality(left) # 0
      BY <3>1, <3>2, FS_CardinalityType, FS_EmptySet
    <3>6. 1 \in 1..Cardinality(left)
      BY <3>5
    <3> DEFINE q == Ranked(left, 1)
               B == {p \in left : Precedes(p, q)}
               R == {p \in Listed : p.referenced \/ (p \in Needed(Listed) /\ ~Precedes(p, q))}
    <3>7. q \in left /\ Cardinality(B) = 0
      <4>1. q \in left /\ Cardinality(B) = 1 - 1
        BY <3>1, <3>6, RankedOnce
      <4> QED BY <4>1
    <3>8. B = {}
      <4>1. B \subseteq left
        OBVIOUS
      <4> HIDE DEF B
      <4>2. IsFiniteSet(B)
        BY <3>1, <4>1, FS_Subset
      <4> QED BY <3>7, <4>2, FS_EmptySet
    <3>9. D \subseteq R
      <4>1. \A p \in left : ~Precedes(p, q)
        BY <3>8
      <4> QED BY <3>4, <4>1
    <3>10. ~(Cardinality(R) > MaxDecPicBuffering)
      <4>1. Shown(Listed, m_iPOCLastDisplay) = Needed(Listed)
        BY <1>1, ShownAll
      <4>2. q \in Shown(Listed, m_iPOCLastDisplay) /\ q \notin Out
        BY <3>3, <3>7, <4>1
      <4> HIDE DEF q
      <4> QED BY <4>1, <4>2 DEF Out, ToOutput, DpbFullness
    <3>11. R \subseteq Listed
      OBVIOUS
    <3> HIDE DEF R, D, L
    <3>12. IsFiniteSet(R) /\ IsFiniteSet(D)
      BY <1>2, <3>9, <3>11, FS_Subset
    <3>13. Cardinality(L) <= Cardinality(D) /\ Cardinality(L) \in Nat /\ Cardinality(D) \in Nat
      BY <1>5, <3>12, IdCount
    <3>14. Cardinality(D) <= Cardinality(R) /\ Cardinality(R) \in Nat
      BY <3>9, <3>12, MoreCount
    <3>15. MaxDecPicBuffering \in Nat
      BY StreamAssumption
    <3> QED BY <3>10, <3>13, <3>14, <3>15
  <2>2. CASE Needed(Listed) \ Out = {}
    <3>1. \A p \in L : p.id[1] = stream.cvs /\ PocOf(p) \in stream.dpb
      <4>1. \A q \in D : q.id[1] = stream.cvs /\ PocOf(q) \in stream.dpb
        BY <1>2, <2>2
      <4> HIDE DEF L, D
      <4> QED BY <1>5, <4>1 DEF PocOf
    <3>2. stream \in Stream /\ StreamOk(stream)
      BY ListFacts DEF OutputInv, ListInv, CurrentInv, StreamInv, StreamKnown
    <3> DEFINE W == stream.waiting \cup stream.dpb
    <3>3. IsFiniteSet(W) /\ stream.dpb \subseteq W /\ IsFiniteSet(stream.dpb)
      <4>1. W \subseteq Poc /\ stream.dpb \subseteq Poc
        BY <3>2 DEF Stream
      <4> QED BY <4>1, PocsFinite
    <3>4. Cardinality(W) <= MaxDecPicBuffering
      BY <3>2 DEF StreamOk
    <3> HIDE DEF W, L, D
    <3>5. Cardinality(L) <= Cardinality(stream.dpb) /\ Cardinality(L) \in Nat
      BY <1>5, <3>1, <3>3, PocCount
    <3>6. /\ Cardinality(stream.dpb) <= Cardinality(W)
          /\ Cardinality(stream.dpb) \in Nat /\ Cardinality(W) \in Nat
      BY <3>3, MoreCount
    <3>7. MaxDecPicBuffering \in Nat
      BY StreamAssumption
    <3> QED BY <3>4, <3>5, <3>6, <3>7
  <2> QED BY <2>1, <2>2
<1>7. Live(m_cListPic)' = Live(m_cListPic')
  BY DEF Live
<1> QED BY <1>1, <1>4, <1>6, <1>7 DEF OutputInv, BoundKnown

LEMMA OutputBlockOutput ==
    ASSUME OutputInv, Orderly, OutputBlock
    PROVE  OutputInv'
<1>1. CurrentInv'
  <2>1. [Next]_vars
    BY DEF Next
  <2>2. CurrentInv
    BY DEF OutputInv, ListInv
  <2> QED BY <2>1, <2>2, NextCurrent
<1>2. ListInv'
  BY <1>1, OutputBlockOwn DEF ListInv
<1>3. RowsKnown'
  BY OutputBlockRows
<1>4. DisplayKnown' /\ BoundKnown'
  BY OutputBlockDisplay, OutputBlockBound
<1> QED BY <1>2, <1>3, <1>4 DEF OutputInv

\* The first slice of the next picture counts at least one slice more.
LEMMA FirstSliceCount ==
    ASSUME count \in [pics : Nat, slices : Nat, eos : Nat, drops : Nat],
           count.pics < MaxPics, count.slices <= MaxSlices,
           count' = [Counted("pics") EXCEPT !.slices = 1]
    PROVE  /\ SkippedSlices \in Nat /\ SkippedSlices' \in Nat
           /\ SkippedSlices + 1 <= SkippedSlices'
           /\ count'.pics <= MaxPics /\ count'.slices <= MaxSlices /\ count'.pics > 0
<1>1. /\ count.pics \in Nat /\ count.slices \in Nat
      /\ MaxPics \in Nat /\ MaxSlices \in Nat /\ MaxSlices > 0
  BY LoopAssumption
<1>2. count'.pics = count.pics + 1 /\ count'.slices = 1
  BY DEF Counted
<1> DEFINE a == count.pics * MaxSlices
           b == (count.pics - 1) * MaxSlices
<1>3. a \in Nat /\ (count.pics # 0 => b \in Nat /\ a = b + MaxSlices)
  <2>1. a \in Nat
    BY <1>1
  <2>2. CASE count.pics = 0
    BY <2>1, <2>2
  <2>3. CASE count.pics # 0
    <3>1. PICK n \in Nat : count.pics = n + 1
      <4>1. count.pics - 1 \in Nat /\ count.pics = (count.pics - 1) + 1
        BY <1>1, <2>3
      <4> QED BY <4>1
    <3>2. count.pics - 1 = n
      BY <3>1
    <3>3. n * MaxSlices \in Nat /\ (n + 1) * MaxSlices = n * MaxSlices + MaxSlices
      BY <1>1
    <3> QED BY <2>1, <3>1, <3>2, <3>3
  <2> QED BY <2>2, <2>3
<1>4. SkippedSlices' = a + 1
  <2>1. count'.pics # 0 /\ count'.pics - 1 = count.pics
    BY <1>1, <1>2
  <2>2. SkippedSlices' = (count'.pics - 1) * MaxSlices + count'.slices
    BY <2>1 DEF SkippedSlices
  <2> QED BY <1>2, <2>1, <2>2
<1>5. SkippedSlices = IF count.pics = 0 THEN 0 ELSE b + count.slices
  BY DEF SkippedSlices
<1> HIDE DEF a, b
<1> QED BY <1>1, <1>2, <1>3, <1>4, <1>5

LEMMA NextSliceCount ==
    ASSUME count \in [pics : Nat, slices : Nat, eos : Nat, drops : Nat],
           count.pics > 0, count.slices < MaxSlices, count' = Counted("slices")
    PROVE  /\ SkippedSlices \in Nat /\ SkippedSlices' \in Nat
           /\ SkippedSlices + 1 = SkippedSlices'
           /\ count'.pics = count.pics /\ count'.slices <= MaxSlices
<1>1. /\ count.pics \in Nat /\ count.slices \in Nat /\ MaxSlices \in Nat
  BY LoopAssumption
<1>2. count'.pics = count.pics /\ count'.slices = count.slices + 1
  BY DEF Counted
<1> DEFINE b == (count.pics - 1) * MaxSlices
<1>3. b \in Nat
  <2>1. count.pics - 1 \in Nat
    BY <1>1
  <2> QED BY <1>1, <2>1
<1>4. SkippedSlices = b + count.slices
  BY <1>1 DEF SkippedSlices
<1>5. SkippedSlices' = b + count'.slices
  <2>1. SkippedSlices' = (count'.pics - 1) * MaxSlices + count'.slices
    BY <1>1, <1>2 DEF SkippedSlices
  <2> QED BY <1>2, <2>1
<1> HIDE DEF b
<1> QED BY <1>1, <1>2, <1>3, <1>4, <1>5

LEMMA AddOne ==
    ASSUME NEW S, IsFiniteSet(S), NEW x
    PROVE  /\ IsFiniteSet(S \cup {x})
           /\ Cardinality(S \cup {x}) <= Cardinality(S) + 1
           /\ Cardinality(S \cup {x}) \in Nat /\ Cardinality(S) \in Nat
<1>1. IsFiniteSet(S \cup {x}) /\ Cardinality(S) \in Nat
  BY FS_AddElement, FS_CardinalityType
<1>2. Cardinality(S \cup {x}) = IF x \in S THEN Cardinality(S) ELSE Cardinality(S) + 1
  BY FS_AddElement
<1> QED BY <1>1, <1>2

\* A picture is added to a list whose buffers are all in use, or takes one.
LEMMA JoinedCount ==
    ASSUME NEW list \in SUBSET Picture, IsFiniteSet(list), Distinct(list),
           NEW h, NEW id, NEW listNew, WithNewPicture(Marked(list, h), id, listNew),
           Cardinality(list) <= MaxDecPicBuffering + 1,
           Cardinality(Live(list)) <= MaxDecPicBuffering
    PROVE  Cardinality(listNew) <= MaxDecPicBuffering + 1
<1> DEFINE M == Marked(list, h)
<1>1. PICK f \in [list -> Picture] :
              /\ Marked(list, h) = {f[p] : p \in list}
              /\ \A p \in list :
                    /\ f[p].id = p.id
                    /\ f[p].referenced <=>
                         p.referenced /\ (PocOf(p) \in h.keep \/ PocOf(p) = h.poc)
                    /\ f[p].reconstructed = p.reconstructed
                    /\ f[p].neededForOutput = p.neededForOutput
  BY MarkedMap
<1>2. /\ M \in SUBSET Picture /\ IsFiniteSet(M) /\ Distinct(M)
      /\ Cardinality(M) = Cardinality(list)
  BY <1>1, Mapped
<1>3. Cardinality(M) \in Nat /\ MaxDecPicBuffering \in Nat
  BY <1>2, FS_CardinalityType, StreamAssumption
<1>4. IsFiniteSet(M \cup {NewPicture(id)})
      /\ Cardinality(M \cup {NewPicture(id)}) <= Cardinality(M) + 1
      /\ Cardinality(M \cup {NewPicture(id)}) \in Nat
  <2> HIDE DEF M
  <2> QED BY <1>2, AddOne
<1>5. CASE /\ Cardinality(M) < MaxDecPicBuffering \/ Free(M) = {}
           /\ listNew = M \cup {NewPicture(id)}
  <2>1. Free(M) = {} => Cardinality(M) <= MaxDecPicBuffering
    <3>1. SUFFICES ASSUME Free(M) = {} PROVE Cardinality(M) <= MaxDecPicBuffering
      OBVIOUS
    <3>2. \A p \in M : p.neededForOutput \/ p.referenced
      BY <3>1 DEF Free
    <3>3. \A p \in M : \E q \in Live(list) : q.id = p.id
      <4>1. \A q \in list : f[q] \in M
        BY <1>1
      <4>2. \A q \in list : q \in Live(list)
        BY <1>1, <3>2, <4>1 DEF Live
      <4>3. \A p \in M : \E q \in list : q.id = p.id
        BY <1>1
      <4> QED BY <4>2, <4>3
    <3>4. IsFiniteSet(Live(list))
      BY FS_Subset DEF Live
    <3> HIDE DEF M
    <3>5. Cardinality(M) <= Cardinality(Live(list)) /\ Cardinality(Live(list)) \in Nat
      BY <1>2, <3>3, <3>4, IdCount
    <3> QED BY <1>3, <3>5
  <2> HIDE DEF M
  <2> QED BY <1>3, <1>4, <1>5, <2>1
<1>6. ASSUME NEW p \in Free(M), listNew = (M \ {p}) \cup {NewPicture(id)}
      PROVE  Cardinality(listNew) <= MaxDecPicBuffering + 1
  <2>1. p \in M
    BY DEF Free
  <2> HIDE DEF M
  <2>2. IsFiniteSet(M \ {p}) /\ Cardinality(M \ {p}) = Cardinality(M) - 1
    BY <1>2, <2>1, FS_RemoveElement
  <2>3. Cardinality((M \ {p}) \cup {NewPicture(id)}) <= Cardinality(M \ {p}) + 1
    BY <2>2, AddOne
  <2>4. Cardinality(listNew) \in Nat
    BY <1>6, <2>2, AddOne
  <2> QED BY <1>2, <1>3, <1>6, <2>2, <2>3, <2>4
<1> QED BY <1>5, <1>6 DEF WithNewPicture

\* Before the first slice of a picture none is unfinished: what is expected
\* has been written or is visible in the list.
LEMMA BetweenPictures ==
    ASSUME OutputInv, Orderly, NEW h \in Followers(stream), NEW last \in BOOLEAN,
           DecodeFirstSlice(h, last)
    PROVE  /\ pc = "look" /\ pc' # "done" /\ pc' # "look"
           /\ Pending = {}
           /\ VisibleIds = IdsOf(Needed(m_cListPic))
           /\ stream.expected = RowsOf(log) \cup VisibleIds
           /\ RowsOf(log) \cap VisibleIds = {}
           /\ Once(log) /\ log \in Seq(PicId)
           /\ \A x \in RowsOf(log), y \in VisibleIds : x[1] = stream.cvs => x[2] < y[2]
           /\ \A x \in RowsOf(log) : x[1] = stream.cvs => x[2] <= stream.horizon
           /\ Pending' = {m_pcPic'} \cap stream'.expected
           /\ ~stream'.fresh
<1>1. pc = "look" /\ pc' # "done" /\ pc' # "look" /\ m_bFirstSliceInPicture
  BY DEF DecodeFirstSlice, ReadsFirstSlice, EndsPass
<1>2. Pending = {}
  BY <1>1 DEF Pending, Unfinished
<1>3. VisibleIds = IdsOf(Needed(m_cListPic)) /\ log \in Seq(PicId)
  BY <1>1, ListFacts DEF OutputInv
<1>4. Unfinished' /\ ~stream'.fresh
  BY DecodeFirstSliceFacts DEF OutputInv, ListInv, CurrentInv
<1>5. Pending' = {m_pcPic'} \cap stream'.expected
  BY <1>4 DEF Pending
<1> QED BY <1>1, <1>2, <1>3, <1>4, <1>5 DEF OutputInv, RowsKnown

LEMMA AfterNone ==
    ASSUME NEW s \in Stream, NEW poc \in Nat, ExpectedPocs(s) \subseteq {poc}, s.dpb = {poc}
    PROVE  /\ Cardinality({p \in ExpectedPocs(s) : p > poc}) <= MaxNumReorder
           /\ Cardinality({p \in ExpectedPocs(s) : p > poc} \cup s.dpb) <= MaxDecPicBuffering
<1>1. {p \in ExpectedPocs(s) : p > poc} = {}
  OBVIOUS
<1>2. Cardinality({}) = 0 /\ Cardinality({poc}) = 1
  BY FS_EmptySet, FS_Singleton
<1>3. /\ MaxNumReorder \in Nat /\ MaxDecPicBuffering \in Nat /\ MaxDecPicBuffering # 0
  BY StreamAssumption
<1>4. {p \in ExpectedPocs(s) : p > poc} \cup s.dpb = {poc}
  BY <1>1
<1>5. 0 <= MaxNumReorder /\ 1 <= MaxDecPicBuffering
  BY <1>3
<1>6. Cardinality({p \in ExpectedPocs(s) : p > poc}) = 0
  BY <1>1, <1>2
<1>7. Cardinality({p \in ExpectedPocs(s) : p > poc} \cup s.dpb) = 1
  BY <1>2, <1>4
<1> QED BY <1>5, <1>6, <1>7

\* The picture that starts a CVS.
LEMMA FirstPictureRows ==
    ASSUME OutputInv, Orderly, NEW h \in Followers(stream), NEW last \in BOOLEAN,
           DecodeFirstSlice(h, last), StartsCvs(stream, h)
    PROVE  /\ RowsOf(log)' = stream.expected
           /\ RowsKnown'
<1>1. /\ stream' = Coded(stream, h) /\ stream' \in Stream /\ stream \in Stream
      /\ h \in Header /\ MayFollow(stream, h) /\ h.poc \in Nat /\ StreamOk(stream)
      /\ m_pcPic' = <<stream'.cvs, h.poc>>
      /\ h.kind \in Anchors
  BY DecodeFirstSliceFacts, FollowerFacts DEF OutputInv, ListInv, CurrentInv
<1>2. /\ pc' # "done"
      /\ VisibleIds = IdsOf(Needed(m_cListPic))
      /\ stream.expected = RowsOf(log) \cup VisibleIds
      /\ RowsOf(log) \cap VisibleIds = {}
      /\ Once(log) /\ log \in Seq(PicId)
      /\ Pending' = {m_pcPic'} \cap stream'.expected
      /\ ~stream'.fresh
  BY BetweenPictures
<1>3. VisibleIds' = {}
  BY DecodeFirstSliceOwn DEF OutputInv
<1>4. RowsOf(log') = stream.expected /\ Once(log')
  <2>1. CASE log' = log \o Rows(Needed(m_cListPic))
    <3>1. /\ Needed(m_cListPic) \in SUBSET Picture
          /\ IsFiniteSet(Needed(m_cListPic)) /\ Distinct(Needed(m_cListPic))
      BY ListFacts DEF OutputInv
    <3> QED BY <1>2, <2>1, <3>1, AppendRows
  <2>2. CASE m_cListPic = {} /\ log' = log
    <3>1. VisibleIds = {}
      BY <1>2, <2>2 DEF IdsOf, Needed
    <3> QED BY <1>2, <2>2, <3>1
  <2> QED BY <2>1, <2>2, FirstSliceFlushes DEF OutputInv
<1>5. stream'.cvs = stream.cvs + 1 /\ stream'.dpb = {h.poc}
  BY <1>1, FirstPictureFacts
<1>6. /\ stream'.expected = stream.expected \/ stream'.expected = stream.expected \cup {m_pcPic'}
      /\ m_pcPic' \notin stream.expected
      /\ \A x \in stream.expected : x[1] # stream'.cvs
  <2>1. stream'.expected = stream.expected
        \/ stream'.expected = stream.expected \cup {<<stream.cvs + 1, h.poc>>}
    BY <1>1, FirstPictureOutput
  <2>2. \A x \in stream.expected : x[1] \in Nat /\ x[1] <= stream.cvs
    BY <1>1 DEF StreamOk, Stream
  <2>3. stream.cvs \in Nat
    BY <1>1 DEF Stream
  <2>4. \A x \in stream.expected : x[1] # stream.cvs + 1
    BY <2>2, <2>3
  <2> HIDE DEF Stream
  <2>5. m_pcPic' = <<stream.cvs + 1, h.poc>>
    BY <1>1, <1>5
  <2>6. m_pcPic' \notin stream.expected
    <3>1. m_pcPic'[1] = stream.cvs + 1
      BY <2>5
    <3> QED BY <2>4, <3>1
  <2> QED BY <1>5, <2>1, <2>4, <2>5, <2>6
<1>7. ExpectedPocs(stream') \subseteq {h.poc}
  BY <1>1, FirstPictureOk
<1>8. /\ Cardinality({p \in ExpectedPocs(stream') : p > h.poc}) <= MaxNumReorder
      /\ Cardinality({p \in ExpectedPocs(stream') : p > h.poc} \cup stream'.dpb)
           <= MaxDecPicBuffering
  BY <1>1, <1>5, <1>7, AfterNone
<1>9. After(m_pcPic[2])' = {p \in ExpectedPocs(stream') : p > h.poc}
  <2>1. m_pcPic'[2] = h.poc
    BY <1>1
  <2> QED BY <2>1 DEF After, ExpectedPocs
<1>10. RowsOf(log)' = RowsOf(log') /\ (Once(log)' <=> Once(log'))
  BY DEF RowsOf, Once
<1>11. /\ stream'.expected = RowsOf(log)' \cup VisibleIds' \cup Pending'
       /\ RowsOf(log)' \cap (VisibleIds' \cup Pending') = {}
       /\ Once(log)'
       /\ \A x \in RowsOf(log)' : x[1] # stream'.cvs
  BY <1>2, <1>3, <1>4, <1>6, <1>10
<1>12. RowsKnown'
  BY <1>2, <1>8, <1>9, <1>11 DEF RowsKnown
<1> QED BY <1>4, <1>10, <1>12

\* A further picture of the CVS.
LEMMA FurtherPictureRows ==
    ASSUME OutputInv, Orderly, NEW h \in Followers(stream), NEW last \in BOOLEAN,
           DecodeFirstSlice(h, last), ~StartsCvs(stream, h)
    PROVE  /\ RowsKnown'
           /\ \/ stream'.expected = stream.expected
              \/ stream'.expected = stream.expected \cup {<<stream.cvs, h.poc>>}
           /\ \A x \in RowsOf(log) : x[1] = stream.cvs => x[2] < h.poc
<1>1. /\ stream' = Coded(stream, h) /\ stream' \in Stream /\ stream \in Stream
      /\ h \in Header /\ MayFollow(stream, h) /\ h.poc \in Nat /\ StreamOk(stream)
      /\ m_pcPic' = <<stream'.cvs, h.poc>>
      /\ ~Undecodable(stream, h)
  BY DecodeFirstSliceFacts, FollowerFacts DEF OutputInv, ListInv, CurrentInv
<1>2. /\ pc' # "done"
      /\ Pending = {}
      /\ stream.expected = RowsOf(log) \cup VisibleIds
      /\ RowsOf(log) \cap VisibleIds = {}
      /\ Once(log)
      /\ \A x \in RowsOf(log), y \in VisibleIds : x[1] = stream.cvs => x[2] < y[2]
      /\ \A x \in RowsOf(log) : x[1] = stream.cvs => x[2] <= stream.horizon
      /\ Pending' = {m_pcPic'} \cap stream'.expected
      /\ ~stream'.fresh
  BY BetweenPictures
<1>3. VisibleIds' = VisibleIds
  BY DecodeFirstSliceOwn DEF OutputInv
<1>4. log' = log /\ stream'.cvs = stream.cvs
  BY FirstSliceJoins DEF OutputInv
<1>5. /\ stream.horizon < h.poc
      /\ stream.horizon <= stream'.horizon
      /\ Cardinality({p \in ExpectedPocs(stream) : p > h.poc}) <= MaxNumReorder
      /\ Cardinality({p \in ExpectedPocs(stream) : p > h.poc} \cup stream'.dpb)
           <= MaxDecPicBuffering
      /\ \/ ExpectedPocs(stream') = ExpectedPocs(stream)
         \/ ExpectedPocs(stream') = ExpectedPocs(stream) \cup {h.poc}
  BY <1>1, FurtherPictureOk
<1>6. /\ \/ stream'.expected = stream.expected
         \/ stream'.expected = stream.expected \cup {<<stream.cvs, h.poc>>}
      /\ <<stream.cvs, h.poc>> \notin stream.expected
  <2>1. h.poc \notin ExpectedPocs(stream)
    BY <1>1 DEF StreamOk, MayFollow
  <2> QED BY <1>1, <2>1, ExpectedMembers, FurtherPictureOutput
<1>7. m_pcPic' = <<stream.cvs, h.poc>>
  BY <1>1, <1>4
<1>8. \A x \in RowsOf(log) : x[2] \in Int
  <2>1. \A x \in RowsOf(log) : x \in stream.expected
    BY <1>2
  <2>2. stream.expected \subseteq Nat \X Poc
    BY <1>1 DEF Stream
  <2>3. \A x \in Poc : x \in Int
    BY Sentinels
  <2>4. \A x \in Nat \X Poc : x[2] \in Int
    BY <2>3
  <2> QED BY <2>1, <2>2, <2>4
<1>9. stream.horizon \in Int /\ stream'.horizon \in Int
  <2>1. \A x \in Poc \cup {-1} : x \in Int
    BY Sentinels
  <2> QED BY <1>1, <2>1 DEF Stream
<1>10. /\ \A x \in RowsOf(log) : x[1] = stream.cvs => x[2] < h.poc
       /\ \A x \in RowsOf(log) : x[1] = stream.cvs => x[2] <= stream'.horizon
  BY <1>1, <1>2, <1>5, <1>8, <1>9
<1>11. After(m_pcPic[2])' = {p \in ExpectedPocs(stream) : p > h.poc}
  <2>1. m_pcPic'[2] = h.poc
    BY <1>7
  <2>2. After(m_pcPic[2])' = {p \in ExpectedPocs(stream') : p > h.poc}
    BY <2>1 DEF After, ExpectedPocs
  <2>3. ~(h.poc > h.poc)
    BY <1>1
  <2> QED BY <1>5, <2>2, <2>3
<1>12. RowsOf(log)' = RowsOf(log) /\ (Once(log)' <=> Once(log))
  BY <1>4 DEF RowsOf, Once
<1>13. /\ stream'.expected = RowsOf(log)' \cup VisibleIds' \cup Pending'
       /\ RowsOf(log)' \cap (VisibleIds' \cup Pending') = {}
  BY <1>2, <1>3, <1>6, <1>7, <1>12
<1>14. \A x \in RowsOf(log)', y \in VisibleIds' \cup Pending' : x[1] = stream'.cvs => x[2] < y[2]
  <2>1. \A y \in Pending' : y[2] = h.poc
    BY <1>2, <1>7
  <2> QED BY <1>2, <1>3, <1>4, <1>10, <1>12, <2>1
<1>15. RowsKnown'
  BY <1>2, <1>4, <1>5, <1>10, <1>11, <1>12, <1>13, <1>14 DEF RowsKnown
<1> QED BY <1>6, <1>10, <1>15

LEMMA DecodeFirstSliceDisplay ==
    ASSUME OutputInv, Orderly, NEW h \in Followers(stream), NEW last \in BOOLEAN,
           DecodeFirstSlice(h, last), count.pics < MaxPics
    PROVE  DisplayKnown'
<1>1. /\ count' = [Counted("pics") EXCEPT !.slices = 1]
      /\ pc = "look" /\ pc' # "done"
  BY DEF DecodeFirstSlice, ReadsFirstSlice, EndsPass
<1>2. /\ count \in [pics : Nat, slices : Nat, eos : Nat, drops : Nat]
      /\ m_iPOCLastDisplay \in Int
  BY DEF OutputInv, ListInv, CurrentInv, StreamInv, LoopInv, TypeInv, TypeOK
<1>3. /\ SkippedSlices \in Nat /\ SkippedSlices' \in Nat
      /\ SkippedSlices + 1 <= SkippedSlices'
      /\ count'.pics <= MaxPics /\ count'.slices <= MaxSlices /\ count'.pics > 0
  BY <1>1, <1>2, FirstSliceCount DEF OutputInv, DisplayKnown
<1>4. MinusInf' = MinusInf /\ MinusInf \in Int
  BY Sentinels DEF MinusInf
<1>5. MinusInf <= MinusInf + SkippedSlices'
      /\ (m_iPOCLastDisplay <= MinusInf + SkippedSlices
            => m_iPOCLastDisplay <= MinusInf + SkippedSlices')
  <2> DEFINE a == SkippedSlices
             b == SkippedSlices'
  <2>1. a \in Nat /\ b \in Nat /\ a + 1 <= b
    BY <1>3
  <2> HIDE DEF a, b
  <2>2. MinusInf <= MinusInf + b
        /\ (m_iPOCLastDisplay <= MinusInf + a => m_iPOCLastDisplay <= MinusInf + b)
    BY <1>2, <1>4, <2>1
  <2> QED BY <2>2 DEF a, b
<1>6. CASE StartsCvs(stream, h)
  <2>1. RowsOf(log)' = stream.expected
    BY <1>6, FirstPictureRows
  <2>2. \A x \in RowsOf(log)' : x[1] # stream'.cvs
    <3>1. /\ stream' = Coded(stream, h) /\ stream \in Stream /\ StreamOk(stream)
          /\ h \in Header /\ h.kind \in Anchors
      BY <1>6, DecodeFirstSliceFacts, FollowerFacts DEF OutputInv, ListInv, CurrentInv
    <3>2. stream'.cvs = stream.cvs + 1
      BY <1>6, <3>1, FirstPictureFacts
    <3>3. \A x \in stream.expected : x[1] \in Nat /\ x[1] <= stream.cvs
      BY <3>1 DEF StreamOk, Stream
    <3>4. stream.cvs \in Nat
      BY <3>1 DEF Stream
    <3> QED BY <2>1, <3>2, <3>3, <3>4
  <2>3. m_iPOCLastDisplay' <= MinusInf + SkippedSlices'
    <3>1. CASE m_cListPic # {}
      <4>1. m_iPOCLastDisplay' = MinusInf
        BY <1>6, <3>1, FirstSliceFlushes DEF FlushedDisplay, OutputInv
      <4> QED BY <1>5, <4>1
    <3>2. CASE m_cListPic = {}
      <4>1. log = <<>>
        BY <1>1, <3>2 DEF OutputInv, ListInv, ListOwn, RowsKnown
      <4>2. RowsOf(log) = {}
        BY <4>1 DEF RowsOf
      <4>3. m_iPOCLastDisplay <= MinusInf + SkippedSlices
        BY <4>2 DEF OutputInv, DisplayKnown
      <4>4. m_iPOCLastDisplay' = m_iPOCLastDisplay
        BY <1>6, <3>2, FirstSliceFlushes DEF FlushedDisplay, OutputInv
      <4> QED BY <1>5, <4>3, <4>4
    <3> QED BY <3>1, <3>2
  <2> QED BY <1>3, <1>4, <2>2, <2>3 DEF DisplayKnown
<1>7. CASE ~StartsCvs(stream, h)
  <2>1. UNCHANGED <<log, m_iPOCLastDisplay>> /\ stream'.cvs = stream.cvs
    BY <1>7, FirstSliceJoins DEF OutputInv
  <2>2. RowsOf(log)' = RowsOf(log)
    BY <2>1 DEF RowsOf
  <2> QED BY <1>1, <1>3, <1>4, <1>5, <2>1, <2>2 DEF OutputInv, DisplayKnown
<1> QED BY <1>6, <1>7

LEMMA DecodeFirstSliceBound ==
    ASSUME OutputInv, Orderly, NEW h \in Followers(stream), NEW last \in BOOLEAN,
           DecodeFirstSlice(h, last)
    PROVE  BoundKnown'
<1>1. pc = "look" /\ pc' # "look" /\ pc' # "done"
  BY BetweenPictures
<1>2. MaxDecPicBuffering \in Nat
  BY StreamAssumption
<1>3. CASE StartsCvs(stream, h)
  <2>1. m_cListPic' = {NewPicture(<<stream'.cvs, h.poc>>)}
    BY <1>3, FirstSliceFlushes DEF OutputInv
  <2>2. Cardinality(m_cListPic') = 1
    BY <2>1, FS_Singleton
  <2>3. Cardinality(m_cListPic') <= MaxDecPicBuffering + 1
    BY <1>2, <2>2
  <2> QED BY <1>1, <2>3 DEF BoundKnown
<1>4. CASE ~StartsCvs(stream, h)
  <2>1. WithNewPicture(Marked(m_cListPic, h), <<stream.cvs, h.poc>>, m_cListPic')
    BY <1>4, FirstSliceJoins DEF OutputInv
  <2>2. m_cListPic \in SUBSET Picture /\ IsFiniteSet(m_cListPic) /\ Distinct(m_cListPic)
    BY ListFacts DEF OutputInv
  <2>3. /\ Cardinality(Live(m_cListPic)) <= MaxDecPicBuffering
        /\ Cardinality(m_cListPic) <= MaxDecPicBuffering + 1
    BY <1>1 DEF OutputInv, BoundKnown
  <2>4. Cardinality(m_cListPic') <= MaxDecPicBuffering + 1
    BY <2>1, <2>2, <2>3, JoinedCount
  <2> QED BY <1>1, <2>4 DEF BoundKnown
<1> QED BY <1>3, <1>4

LEMMA DecodeFirstSliceOutput ==
    ASSUME OutputInv, Orderly, NEW h \in Followers(stream), NEW last \in BOOLEAN,
           DecodeFirstSlice(h, last), count.pics < MaxPics
    PROVE  ListOwn' /\ RowsKnown' /\ DisplayKnown' /\ BoundKnown'
<1>1. ListOwn'
  BY DecodeFirstSliceOwn DEF OutputInv
<1>2. RowsKnown'
  BY FirstPictureRows, FurtherPictureRows
<1> QED BY <1>1, <1>2, DecodeFirstSliceDisplay, DecodeFirstSliceBound

-----------------------------------------------------------------------------
(***************************************************************************)
(* The other steps.                                                        *)
(***************************************************************************)
\* Nothing changes what is expected, written, listed or current.
LEMMA QuietRows ==
    ASSUME OutputInv, Quiet
    PROVE  /\ VisibleIds' = VisibleIds /\ Pending' = Pending
           /\ RowsOf(log)' = RowsOf(log)
           /\ RowsKnown'
<1>1. VisibleIds' = VisibleIds
  BY QuietOwn DEF OutputInv
<1>2. /\ UNCHANGED <<m_cListPic, log, gdrRecoveryPeriod, m_pcPic>>
      /\ Unfinished' <=> Unfinished
      /\ stream'.cvs = stream.cvs /\ stream'.expected = stream.expected
      /\ stream'.horizon = stream.horizon /\ stream'.dpb = stream.dpb
      /\ stream'.fresh /\ count'.eos = 0 <=> stream.fresh /\ count.eos = 0
      /\ pc = "look" \/ pc' = pc
  BY DEF Quiet
<1>3. Pending' = Pending
  BY <1>2 DEF Pending
<1>4. RowsOf(log)' = RowsOf(log) /\ (Once(log)' <=> Once(log))
  BY <1>2 DEF RowsOf, Once
<1>5. After(m_pcPic[2])' = After(m_pcPic[2])
  <2>1. ExpectedPocs(stream)' = ExpectedPocs(stream)
    BY <1>2 DEF ExpectedPocs
  <2> QED BY <1>2, <2>1 DEF After
<1>6. pc' # "done" => pc # "done"
  BY <1>2
<1>7. RowsKnown'
  BY <1>1, <1>2, <1>3, <1>4, <1>5, <1>6 DEF OutputInv, RowsKnown
<1> QED BY <1>1, <1>3, <1>4, <1>7

LEMMA QuietBound ==
    ASSUME OutputInv, Quiet, pc' = "look" => pc = "look", pc' = "done" => pc = "done"
    PROVE  BoundKnown'
<1>1. m_cListPic' = m_cListPic
  BY DEF Quiet
<1>2. Live(m_cListPic)' = Live(m_cListPic)
  BY <1>1 DEF Live
<1> QED BY <1>1, <1>2 DEF OutputInv, BoundKnown

\* What is displayed last is not changed by what is not written.
LEMMA QuietDisplay ==
    ASSUME OutputInv, Quiet, pc' = "done" => pc = "done",
           m_iPOCLastDisplay' = m_iPOCLastDisplay,
           SkippedSlices' \in Nat, SkippedSlices \in Nat, SkippedSlices <= SkippedSlices',
           count'.pics <= MaxPics, count'.slices <= MaxSlices,
           part' \in {"decoded", "skipped"} => count'.pics > 0
    PROVE  DisplayKnown'
<1>1. RowsOf(log)' = RowsOf(log) /\ stream'.cvs = stream.cvs
  BY QuietRows DEF Quiet
<1>2. pc = "done" => pc' = "done"
  BY DEF Quiet
<1>3. MinusInf' = MinusInf /\ MinusInf \in Int
  BY Sentinels DEF MinusInf
<1>4. m_iPOCLastDisplay \in Int
  BY DEF OutputInv, ListInv, CurrentInv, StreamInv, LoopInv, TypeInv, TypeOK
<1>5. m_iPOCLastDisplay <= MinusInf + SkippedSlices
        => m_iPOCLastDisplay <= MinusInf + SkippedSlices'
  <2> DEFINE a == SkippedSlices
             b == SkippedSlices'
  <2>1. a \in Nat /\ b \in Nat /\ a <= b
    OBVIOUS
  <2> HIDE DEF a, b
  <2>2. m_iPOCLastDisplay <= MinusInf + a => m_iPOCLastDisplay <= MinusInf + b
    BY <1>3, <1>4, <2>1
  <2> QED BY <2>2 DEF a, b
<1> QED BY <1>1, <1>2, <1>3, <1>5 DEF OutputInv, DisplayKnown

\* While skipped pictures may be counted no picture of the CVS has been written.
LEMMA SkippedDisplay ==
    ASSUME OutputInv, Quiet, pc = "look", pc' # "done",
           \A poc \in ExpectedPocs(stream) : poc > stream.horizon,
           m_iPOCLastDisplay' \in {m_iPOCLastDisplay, m_iPOCLastDisplay + 1},
           SkippedSlices' \in Nat, SkippedSlices \in Nat, SkippedSlices + 1 <= SkippedSlices',
           count'.pics <= MaxPics, count'.slices <= MaxSlices, count'.pics > 0
    PROVE  DisplayKnown'
<1>1. /\ RowsOf(log)' = RowsOf(log) /\ stream'.cvs = stream.cvs
  BY QuietRows DEF Quiet
<1>2. stream \in Stream /\ stream.horizon \in Int /\ \A x \in Poc : x \in Int
  <2>1. stream \in Stream
    BY ListFacts DEF OutputInv
  <2>2. \A x \in Poc \cup {-1} : x \in Int
    BY Sentinels
  <2> QED BY <2>1, <2>2 DEF Stream
<1>3. \A x \in RowsOf(log) : x[1] # stream.cvs
  <2> SUFFICES ASSUME NEW x \in RowsOf(log), x[1] = stream.cvs
               PROVE  FALSE
    OBVIOUS
  <2>1. x \in stream.expected /\ x[2] <= stream.horizon
    BY DEF OutputInv, RowsKnown
  <2>2. x \in Nat \X Poc
    BY <1>2, <2>1 DEF Stream
  <2>3. x = <<stream.cvs, x[2]>> /\ x[2] \in Poc
    BY <2>2
  <2>4. x[2] \in ExpectedPocs(stream)
    BY <1>2, <2>1, <2>3, ExpectedMembers
  <2>5. x[2] > stream.horizon
    BY <2>4
  <2> QED BY <1>2, <2>1, <2>3, <2>5
<1>4. m_iPOCLastDisplay <= MinusInf + SkippedSlices
  BY <1>3 DEF OutputInv, DisplayKnown
<1>5. MinusInf' = MinusInf /\ MinusInf \in Int
  BY Sentinels DEF MinusInf
<1>6. m_iPOCLastDisplay \in Int
  BY DEF OutputInv, ListInv, CurrentInv, StreamInv, LoopInv, TypeInv, TypeOK
<1>7. m_iPOCLastDisplay' <= MinusInf + SkippedSlices'
  <2> DEFINE a == SkippedSlices
             b == SkippedSlices'
             c == m_iPOCLastDisplay'
  <2>1. a \in Nat /\ b \in Nat /\ a + 1 <= b /\ m_iPOCLastDisplay <= MinusInf + a
        /\ c \in {m_iPOCLastDisplay, m_iPOCLastDisplay + 1}
    BY <1>4
  <2> HIDE DEF a, b, c
  <2>2. c <= MinusInf + b
    BY <1>5, <1>6, <2>1
  <2> QED BY <2>2 DEF b, c
<1> QED BY <1>1, <1>3, <1>5, <1>7 DEF DisplayKnown

LEMMA CountedSame ==
    ASSUME OutputInv, count'.pics = count.pics, count'.slices = count.slices
    PROVE  /\ SkippedSlices' = SkippedSlices /\ SkippedSlices \in Nat
           /\ SkippedSlices <= SkippedSlices'
           /\ count'.pics <= MaxPics /\ count'.slices <= MaxSlices
<1>1. count \in [pics : Nat, slices : Nat, eos : Nat, drops : Nat]
  BY DEF OutputInv, ListInv, CurrentInv, StreamInv, LoopInv, TypeInv, TypeOK
<1>2. SkippedSlices \in Nat
  BY <1>1, SkippedBound DEF OutputInv, DisplayKnown
<1>3. SkippedSlices' = SkippedSlices
  BY DEF SkippedSlices
<1>4. SkippedSlices <= SkippedSlices'
  <2> DEFINE a == SkippedSlices
  <2>1. a \in Nat
    BY <1>2
  <2> HIDE DEF a
  <2>2. a <= a
    BY <2>1
  <2> QED BY <1>3, <2>2 DEF a
<1> QED BY <1>2, <1>3, <1>4 DEF OutputInv, DisplayKnown

LEMMA SkipFirstSliceDisplay ==
    ASSUME OutputInv, NEW h \in Followers(stream), NEW last \in BOOLEAN,
           SkipFirstSlice(h, last), count.pics < MaxPics
    PROVE  DisplayKnown'
<1>1. Quiet /\ \A poc \in ExpectedPocs(stream) : poc > stream.horizon
  BY SkipFirstSliceQuiet DEF OutputInv
<1>2. /\ count' = [Counted("pics") EXCEPT !.slices = 1]
      /\ pc = "look" /\ pc' # "done"
      /\ m_iPOCLastDisplay' \in {m_iPOCLastDisplay, m_iPOCLastDisplay + 1}
  BY DEF SkipFirstSlice, ReadsFirstSlice, EndsPass
<1>3. count \in [pics : Nat, slices : Nat, eos : Nat, drops : Nat]
  BY DEF OutputInv, ListInv, CurrentInv, StreamInv, LoopInv, TypeInv, TypeOK
<1>4. /\ SkippedSlices \in Nat /\ SkippedSlices' \in Nat
      /\ SkippedSlices + 1 <= SkippedSlices'
      /\ count'.pics <= MaxPics /\ count'.slices <= MaxSlices /\ count'.pics > 0
  BY <1>2, <1>3, FirstSliceCount DEF OutputInv, DisplayKnown
<1> QED BY <1>1, <1>2, <1>4, SkippedDisplay

LEMMA NextSliceDisplay ==
    ASSUME OutputInv, NEW last \in BOOLEAN,
           SkipNextSlice(last) \/ DecodeNextSlice(last)
    PROVE  DisplayKnown'
<1>1. Quiet
  BY SkipNextSliceQuiet, DecodeNextSliceQuiet DEF OutputInv
<1>2. /\ count.slices < MaxSlices /\ count' = Counted("slices")
      /\ pc = "look" /\ pc' # "done"
      /\ part \in {"decoded", "skipped"}
  BY DEF SkipNextSlice, DecodeNextSlice, EndsPass
<1>3. count \in [pics : Nat, slices : Nat, eos : Nat, drops : Nat] /\ count.pics > 0
  BY <1>2 DEF OutputInv, ListInv, CurrentInv, StreamInv, LoopInv, TypeInv, TypeOK, DisplayKnown
<1>4. /\ SkippedSlices \in Nat /\ SkippedSlices' \in Nat
      /\ SkippedSlices + 1 = SkippedSlices'
      /\ count'.pics = count.pics /\ count'.slices <= MaxSlices
  BY <1>2, <1>3, NextSliceCount
<1>5. SkippedSlices + 1 <= SkippedSlices' /\ SkippedSlices <= SkippedSlices'
  <2> DEFINE a == SkippedSlices
             b == SkippedSlices'
  <2>1. a \in Nat /\ b \in Nat /\ a + 1 = b
    BY <1>4
  <2> HIDE DEF a, b
  <2>2. a + 1 <= b /\ a <= b
    BY <2>1
  <2> QED BY <2>2 DEF a, b
<1>6. count'.pics <= MaxPics /\ count'.pics > 0
  BY <1>3, <1>4 DEF OutputInv, DisplayKnown
<1>7. CASE SkipNextSlice(last)
  <2>1. m_iPOCLastDisplay' \in {m_iPOCLastDisplay, m_iPOCLastDisplay + 1} /\ part = "skipped"
    BY <1>7 DEF SkipNextSlice
  <2>2. \A poc \in ExpectedPocs(stream) : poc > stream.horizon
    BY <2>1 DEF OutputInv, ListInv, CurrentInv, StreamInv, StreamKnown
  <2> QED BY <1>1, <1>2, <1>4, <1>5, <1>6, <2>1, <2>2, SkippedDisplay
<1>8. CASE DecodeNextSlice(last)
  <2>1. m_iPOCLastDisplay' = m_iPOCLastDisplay
    BY <1>8 DEF DecodeNextSlice, display
  <2> QED BY <1>1, <1>2, <1>4, <1>5, <1>6, <2>1, QuietDisplay
<1> QED BY <1>7, <1>8

LEMMA OtherDisplay ==
    ASSUME OutputInv, NEW last \in BOOLEAN,
           DropSlice(last) \/ DecodeEos(last) \/ LookAhead \/ UNCHANGED vars
    PROVE  DisplayKnown'
<1>1. Quiet
  BY DropSliceQuiet, DecodeEosQuiet, LookAheadQuiet, StutterQuiet DEF OutputInv
<1>2. count \in [pics : Nat, slices : Nat, eos : Nat, drops : Nat]
  BY DEF OutputInv, ListInv, CurrentInv, StreamInv, LoopInv, TypeInv, TypeOK
<1>3. /\ m_iPOCLastDisplay' = m_iPOCLastDisplay
      /\ pc' = "done" => pc = "done"
      /\ part' \in {"decoded", "skipped"} => part' = part
      /\ count' = Counted("drops") \/ count' = Counted("eos") \/ count' = count
  BY DEF DropSlice, DecodeEos, LookAhead, vars, display, bitstream, EndsPass
<1>4. count'.pics = count.pics /\ count'.slices = count.slices
  BY <1>2, <1>3, CountedDrops
<1>5. part' \in {"decoded", "skipped"} => count'.pics > 0
  BY <1>3, <1>4 DEF OutputInv, DisplayKnown
<1>6. /\ SkippedSlices' = SkippedSlices /\ SkippedSlices \in Nat
      /\ SkippedSlices <= SkippedSlices'
      /\ count'.pics <= MaxPics /\ count'.slices <= MaxSlices
  BY <1>4, CountedSame
<1>7. SkippedSlices' \in Nat
  BY <1>6
<1> QED BY <1>1, <1>3, <1>5, <1>6, <1>7, QuietDisplay

LEMMA QuietOutput ==
    ASSUME OutputInv, NEW last \in BOOLEAN,
           \/ count.pics < MaxPics /\ \E h \in Followers(stream) : SkipFirstSlice(h, last)
           \/ SkipNextSlice(last) \/ DecodeNextSlice(last) \/ DropSlice(last)
           \/ DecodeEos(last) \/ LookAhead \/ UNCHANGED vars
    PROVE  ListOwn' /\ RowsKnown' /\ DisplayKnown' /\ BoundKnown'
<1>1. Quiet
  BY QuietStep DEF OutputInv
<1>2. ListOwn'
  BY <1>1, QuietOwn DEF OutputInv
<1>3. RowsKnown'
  BY <1>1, QuietRows
<1>4. BoundKnown'
  <2>1. (pc' = "look" => pc = "look") /\ (pc' = "done" => pc = "done")
    BY DEF SkipFirstSlice, SkipNextSlice, DecodeNextSlice, DropSlice, DecodeEos, LookAhead,
           vars, EndsPass
  <2> QED BY <1>1, <2>1, QuietBound
<1>5. DisplayKnown'
  <2>1. ASSUME count.pics < MaxPics, NEW h \in Followers(stream), SkipFirstSlice(h, last)
        PROVE  DisplayKnown'
    BY <2>1, SkipFirstSliceDisplay
  <2>2. SkipNextSlice(last) \/ DecodeNextSlice(last) => DisplayKnown'
    BY NextSliceDisplay
  <2>3. DropSlice(last) \/ DecodeEos(last) \/ LookAhead \/ UNCHANGED vars => DisplayKnown'
    BY OtherDisplay
  <2> QED BY <2>1, <2>2, <2>3
<1> QED BY <1>2, <1>3, <1>4, <1>5

\* The picture that is finished becomes visible, if it is to be output.
LEMMA FinishBlockOutput ==
    ASSUME OutputInv, FinishBlock
    PROVE  ListOwn' /\ RowsKnown' /\ DisplayKnown' /\ BoundKnown'
<1>1. /\ ListOwn'
      /\ ~Unfinished'
      /\ VisibleIds' = VisibleIds \cup Pending
  BY FinishBlockOwn DEF OutputInv
<1>2. /\ UNCHANGED <<stream, part, count, log, m_iPOCLastDisplay>>
      /\ pc = "finish" /\ pc' = "output"
  BY DEF FinishBlock, bitstream, display
<1>3. Pending' = {}
  BY <1>1 DEF Pending
<1>4. RowsOf(log)' = RowsOf(log) /\ (Once(log)' <=> Once(log))
  BY <1>2 DEF RowsOf, Once
<1>5. /\ stream'.expected = RowsOf(log)' \cup VisibleIds' \cup Pending'
      /\ RowsOf(log)' \cap (VisibleIds' \cup Pending') = {}
      /\ \A x \in RowsOf(log)', y \in VisibleIds' \cup Pending' : x[1] = stream'.cvs => x[2] < y[2]
  BY <1>1, <1>2, <1>3, <1>4 DEF OutputInv, RowsKnown
<1>6. RowsKnown'
  BY <1>2, <1>3, <1>4, <1>5 DEF OutputInv, RowsKnown
<1>7. DisplayKnown'
  <2>1. SkippedSlices' = SkippedSlices /\ MinusInf' = MinusInf
    BY <1>2 DEF SkippedSlices, MinusInf
  <2> QED BY <1>2, <1>4, <2>1 DEF OutputInv, DisplayKnown
<1>8. Cardinality(m_cListPic') = Cardinality(m_cListPic)
  <2>1. m_cListPic \in SUBSET Picture /\ IsFiniteSet(m_cListPic) /\ Distinct(m_cListPic)
    BY ListFacts DEF OutputInv
  <2>2. CASE m_cListPic' = m_cListPic
    BY <2>2
  <2>3. CASE m_cListPic' = Finished(m_cListPic) /\ Unfinished
    <3>1. pcSlice.output \in BOOLEAN
      BY <2>3 DEF OutputInv, ListInv, CurrentInv, CurrentKnown, HeaderOutput, Header
    <3>2. PICK f \in [m_cListPic -> Picture] :
                /\ Finished(m_cListPic) = {f[p] : p \in m_cListPic}
                /\ \A p \in m_cListPic :
                      /\ f[p].id = p.id
                      /\ f[p].referenced = p.referenced
                      /\ IsCurrent(p) => (f[p].neededForOutput <=>
                           pcSlice.output /\ ~(m_newCLVS /\ pcSlice.kind = "RASL"))
                      /\ ~IsCurrent(p) => f[p] = p
      BY <2>1, <3>1, FinishedMap
    <3> QED BY <2>1, <2>3, <3>2, Mapped
  <2> QED BY <2>2, <2>3, FinishBlockCases DEF OutputInv, ListInv, CurrentInv, StreamInv
<1>9. BoundKnown'
  BY <1>2, <1>8 DEF OutputInv, BoundKnown
<1> QED BY <1>1, <1>6, <1>7, <1>9

\* At the end no picture is unfinished and the list is emptied.
LEMMA FlushOutput ==
    ASSUME OutputInv, Flush
    PROVE  ListOwn' /\ RowsKnown' /\ DisplayKnown' /\ BoundKnown'
<1>1. /\ pc = "flush" /\ pc' = "done"
      /\ log' = log \o Rows(Needed(m_cListPic))
      /\ m_iPOCLastDisplay' = FlushedDisplay
      /\ m_cListPic' = {}
      /\ UNCHANGED <<stream, part, count, gdrRecoveryPeriod, m_pcPic, bPicSkipped,
                     m_firstSliceInSequence, m_bFirstSliceInPicture>>
  BY DEF Flush, FlushedLog, bitstream, skipFlags, firstFlags
<1>2. ~Unfinished /\ ~Unfinished' /\ ~(stream.fresh /\ count.eos = 0)
  <2>1. FlowKnown /\ count.eos \in Nat
    BY DEF OutputInv, ListInv, CurrentInv, StreamInv, LoopInv, TypeInv, TypeOK
  <2>2. ~Unfinished /\ ~(stream.fresh /\ count.eos = 0)
    BY <1>1, <2>1 DEF FlowKnown
  <2>3. Unfinished' <=> Unfinished
    BY <1>1 DEF Unfinished
  <2> QED BY <2>2, <2>3
<1>3. Pending = {} /\ Pending' = {} /\ VisibleIds' = {}
  BY <1>1, <1>2 DEF Pending, VisibleIds, IdsOf, Needed
<1>4. VisibleIds = IdsOf(Needed(m_cListPic))
  BY <1>1, ListFacts DEF OutputInv
<1>5. RowsOf(log') = stream.expected /\ Once(log')
  <2>1. /\ Needed(m_cListPic) \in SUBSET Picture
        /\ IsFiniteSet(Needed(m_cListPic)) /\ Distinct(Needed(m_cListPic))
        /\ log \in Seq(PicId)
    BY ListFacts DEF OutputInv
  <2>2. /\ stream.expected = RowsOf(log) \cup VisibleIds
        /\ RowsOf(log) \cap VisibleIds = {} /\ Once(log)
    BY <1>3 DEF OutputInv, RowsKnown
  <2> QED BY <1>1, <1>4, <2>1, <2>2, AppendRows
<1>6. RowsOf(log)' = RowsOf(log') /\ (Once(log)' <=> Once(log'))
  BY DEF RowsOf, Once
<1>7. RowsKnown'
  BY <1>1, <1>2, <1>3, <1>5, <1>6 DEF RowsKnown
<1>8. ListOwn'
  BY <1>1, <1>2 DEF ListOwn, OfTheCvs, Needed
<1>9. DisplayKnown'
  <2>1. m_cListPic # {}
    BY <1>1, <1>2 DEF OutputInv, ListInv, ListOwn
  <2>2. /\ SkippedSlices' = SkippedSlices /\ SkippedSlices \in Nat
        /\ count'.pics <= MaxPics /\ count'.slices <= MaxSlices
    BY <1>1, CountedSame
  <2>3. MinusInf' = MinusInf /\ MinusInf \in Int /\ m_iPOCLastDisplay' = MinusInf
    BY <1>1, <2>1, Sentinels DEF MinusInf, FlushedDisplay
  <2>4. MinusInf <= MinusInf + SkippedSlices
    <3> DEFINE a == SkippedSlices
    <3>1. a \in Nat
      BY <2>2
    <3> HIDE DEF a
    <3>2. MinusInf <= MinusInf + a
      BY <2>3, <3>1
    <3> QED BY <3>2 DEF a
  <2> QED BY <1>1, <2>2, <2>3, <2>4 DEF OutputInv, DisplayKnown
<1>10. BoundKnown'
  <2>1. Cardinality({}) = 0 /\ MaxDecPicBuffering \in Nat
    BY FS_EmptySet, StreamAssumption
  <2> QED BY <1>1, <2>1 DEF BoundKnown
<1> QED BY <1>7, <1>8, <1>9, <1>10

LEMMA InitOutput == Init => OutputInv
<1> SUFFICES ASSUME Init PROVE OutputInv
  OBVIOUS
<1>1. /\ stream = EmptyStream /\ part = "picture" /\ pc = "look"
      /\ count = [pics |-> 0, slices |-> 0, eos |-> 0, drops |-> 0]
      /\ m_iPOCLastDisplay = MinusInf /\ log = <<>> /\ m_cListPic = {}
      /\ ~gdrRecoveryPeriod /\ m_firstSliceInSequence
  BY DEF Init
<1>2. /\ count.pics = 0 /\ count.slices = 0 /\ count.eos = 0
      /\ stream.fresh /\ stream.expected = {}
  BY <1>1 DEF EmptyStream
<1>3. ~Unfinished
  BY <1>1 DEF Unfinished
<1>4. Pending = {} /\ VisibleIds = {} /\ RowsOf(log) = {} /\ Once(log)
  BY <1>1, <1>3 DEF Pending, VisibleIds, IdsOf, Needed, RowsOf, Once
<1>5. ListInv
  BY <1>1, <1>2, <1>3, InitCurrent DEF ListInv, ListOwn, OfTheCvs, Needed
<1>6. RowsKnown
  BY <1>1, <1>2, <1>4 DEF RowsKnown
<1>7. DisplayKnown
  <2>1. SkippedSlices = 0 /\ MinusInf \in Int /\ MinusInf <= MinusInf + 0
    BY <1>2, Sentinels DEF SkippedSlices
  <2>2. 0 <= MaxPics /\ 0 <= MaxSlices
    BY LoopAssumption
  <2> QED BY <1>1, <1>2, <1>4, <2>1, <2>2 DEF DisplayKnown
<1>8. BoundKnown
  <2>1. Cardinality({}) = 0 /\ MaxDecPicBuffering \in Nat
    BY FS_EmptySet, StreamAssumption
  <2>2. Live(m_cListPic) = {}
    BY <1>1 DEF Live
  <2>3. Cardinality(m_cListPic) = 0 /\ Cardinality(Live(m_cListPic)) = 0
    BY <1>1, <2>1, <2>2
  <2>4. 0 <= MaxDecPicBuffering /\ 0 <= MaxDecPicBuffering + 1
    BY <2>1
  <2> QED BY <1>1, <2>3, <2>4 DEF BoundKnown
<1> QED BY <1>5, <1>6, <1>7, <1>8 DEF OutputInv

LEMMA NextOutput == ASSUME OutputInv, Orderly, [Next]_vars PROVE OutputInv'
<1>1. CurrentInv'
  <2>1. CurrentInv
    BY DEF OutputInv, ListInv
  <2> QED BY <2>1, NextCurrent
<1> DEFINE Kept == ListOwn' /\ RowsKnown' /\ DisplayKnown' /\ BoundKnown'
<1>2. ASSUME NEW last \in BOOLEAN, ReadNal(last)
      PROVE  Kept
  <2>1. ASSUME count.pics < MaxPics, NEW h \in Followers(stream), DecodeFirstSlice(h, last)
        PROVE  Kept
    BY <2>1, DecodeFirstSliceOutput
  <2>2. ASSUME count.pics < MaxPics, NEW h \in Followers(stream), SkipFirstSlice(h, last)
        PROVE  Kept
    BY <2>2, QuietOutput
  <2>3. SkipNextSlice(last) \/ DecodeNextSlice(last) \/ DropSlice(last) \/ DecodeEos(last)
          => Kept
    BY QuietOutput
  <2> HIDE DEF Kept
  <2> QED BY <1>2, <2>1, <2>2, <2>3 DEF ReadNal
<1>3. LookAhead \/ UNCHANGED vars => Kept
  BY QuietOutput
<1>4. FinishBlock => Kept
  BY FinishBlockOutput
<1>5. OutputBlock => Kept
  BY OutputBlockOutput DEF OutputInv, ListInv
<1>6. Flush => Kept
  BY FlushOutput
<1>7. Kept
  <2> HIDE DEF Kept
  <2> QED BY <1>2, <1>3, <1>4, <1>5, <1>6 DEF Next
<1> QED BY <1>1, <1>7 DEF OutputInv, ListInv

\* A sequence that repeats no row has as many rows as elements.
LEMMA OnceCount ==
    ASSUME NEW seq \in Seq(PicId), Once(seq)
    PROVE  Len(seq) = Cardinality(RowsOf(seq))
<1> DEFINE I == 1..Len(seq)
           f == [i \in I |-> seq[i]]
<1>1. Len(seq) \in Nat
  OBVIOUS
<1>2. IsFiniteSet(I) /\ Cardinality(I) = Len(seq)
  BY <1>1, FS_Interval
<1>3. f \in Surjection(I, RowsOf(seq))
  BY DEF Surjection, RowsOf
<1>4. f \in Injection(I, RowsOf(seq))
  <2>1. IsInjective(f)
    BY DEF IsInjective, Once
  <2>2. f \in [I -> RowsOf(seq)]
    BY <1>3 DEF Surjection
  <2> QED BY <2>1, <2>2 DEF Injection
<1> HIDE DEF I, f
<1>5. Cardinality(RowsOf(seq)) = Cardinality(I)
  BY <1>2, <1>3, <1>4, FS_Surjection
<1> QED BY <1>2, <1>5

\* When the program has ended, the log has one row for each picture that is to
\* be output and no other, whatever the stream is in which no situation but a
\* skipped picture before an EOS occurs (xWriteOutput, xFlushOutput,
\* checkNoOutputPriorPics, finishPicture).
THEOREM LogIsComplete ==
    ASSUME Orderly
    PROVE  Spec => []LogComplete
<1>1. Init => OutputInv
  BY InitOutput
<1>2. OutputInv /\ [Next]_vars => OutputInv'
  BY NextOutput
<1>3. OutputInv => LogComplete
  <2> SUFFICES ASSUME OutputInv, pc = "done"
               PROVE  /\ {log[i] : i \in 1..Len(log)} = stream.expected
                      /\ Len(log) = Cardinality(stream.expected)
    BY DEF LogComplete
  <2>1. ~Unfinished /\ m_cListPic = {}
    BY DEF OutputInv, ListInv, CurrentInv, StreamInv, LoopInv, FlowKnown, BoundKnown
  <2>2. Pending = {} /\ VisibleIds = {}
    BY <2>1 DEF Pending, VisibleIds, IdsOf, Needed
  <2>3. RowsOf(log) = stream.expected /\ Once(log)
    BY <2>2 DEF OutputInv, RowsKnown
  <2>4. log \in Seq(PicId)
    BY ListFacts DEF OutputInv
  <2>5. Len(log) = Cardinality(RowsOf(log))
    BY <2>3, <2>4, OnceCount
  <2> QED BY <2>3, <2>5 DEF RowsOf
<1> QED BY <1>1, <1>2, <1>3, PTL DEF Spec

\* In these streams no picture is written before a bumping decoder has output
\* it, so that no picture that may still come precedes it (xWriteOutput).
THEOREM WritesNotAhead ==
    ASSUME Orderly
    PROVE  Spec => []NeverAhead
<1>1. Init => OutputInv
  BY InitOutput
<1>2. OutputInv /\ [Next]_vars => OutputInv'
  BY NextOutput
<1>3. OutputInv => NeverAhead
  BY DEF OutputInv, RowsKnown, RowsOf, NeverAhead
<1> QED BY <1>1, <1>2, <1>3, PTL DEF Spec

\* In these streams the list never holds more than one picture above the limit
\* of the SPS: a buffer is free whenever the list is full (xGetNewPicBuffer,
\* xWriteOutput).
THEOREM ListIsBounded ==
    ASSUME Orderly
    PROVE  Spec => []ListBounded
<1>1. Init => OutputInv
  BY InitOutput
<1>2. OutputInv /\ [Next]_vars => OutputInv'
  BY NextOutput
<1>3. OutputInv => ListBounded
  BY DEF OutputInv, BoundKnown, ListBounded
<1> QED BY <1>1, <1>2, <1>3, PTL DEF Spec

-----------------------------------------------------------------------------
(***************************************************************************)
(* The output order.                                                       *)
(***************************************************************************)
\* The rows of a list are in the order in which its pictures are searched.
LEMMA RowsSorted ==
    ASSUME NEW list \in SUBSET Picture, IsFiniteSet(list), Distinct(list),
           NEW i \in 1..Cardinality(list), NEW j \in 1..Cardinality(list), i < j
    PROVE  Precedes(Ranked(list, i), Ranked(list, j))
<1> DEFINE p == Ranked(list, i)
           q == Ranked(list, j)
           P == {r \in list : Precedes(r, p)}
           Q == {r \in list : Precedes(r, q)}
<1>1. p \in list /\ q \in list /\ Cardinality(P) = i - 1 /\ Cardinality(Q) = j - 1
  BY RankedOnce
<1>2. Cardinality(list) \in Nat
  BY FS_CardinalityType
<1>3. p # q
  <2>1. i - 1 # j - 1
    BY <1>2
  <2> HIDE DEF p, q
  <2> QED BY <1>1, <2>1
<1>4. ASSUME Precedes(q, p) PROVE FALSE
  <2> HIDE DEF p, q
  <2>1. Q \subseteq P
    BY <1>1, <1>4, PrecedesOrder
  <2>2. IsFiniteSet(P)
    BY FS_Subset
  <2> HIDE DEF P, Q
  <2>3. Cardinality(Q) <= Cardinality(P)
    BY <2>1, <2>2, FS_Subset
  <2> QED BY <1>1, <1>2, <2>3
<1> HIDE DEF p, q
<1>5. Precedes(p, q)
  BY <1>1, <1>3, <1>4, PrecedesOrder
<1> QED BY <1>5 DEF p, q

LEMMA AppendFacts ==
    ASSUME NEW S, NEW s \in Seq(S), NEW t \in Seq(S)
    PROVE  /\ Len(s \o t) = Len(s) + Len(t)
           /\ \A i \in 1..Len(s) : (s \o t)[i] = s[i]
           /\ \A i \in Len(s) + 1 .. Len(s) + Len(t) : (s \o t)[i] = t[i - Len(s)]
OBVIOUS

\* In one CVS this is the order of the output.
LEMMA EmitRows ==
    ASSUME NEW list \in SUBSET Picture, IsFiniteSet(list), Distinct(list),
           NEW cvs, \A p \in list : p.id[1] = cvs,
           log \in Seq(PicId), log' = log \o Rows(list),
           \A a \in IdsOf(list), b \in Output!Waiting \ IdsOf(list) : Output!Earlier(a, b)
    PROVE  Output!Emit(IdsOf(list))
<1> DEFINE n == Len(log)
           m == Cardinality(list)
           row(i) == Ranked(list, i).id
<1>1. n \in Nat /\ m \in Nat
  BY FS_CardinalityType
<1>2. /\ Rows(list) \in Seq(PicId) /\ Len(Rows(list)) = m
      /\ RowsOf(Rows(list)) = IdsOf(list)
  BY RowsFacts
<1>3. \A i \in 1..m : Rows(list)[i] = row(i)
  BY DEF Rows
<1>4. \A i, j \in 1..m : i < j => Output!Earlier(row(i), row(j))
  <2> TAKE i, j \in 1..m
  <2> HAVE i < j
  <2>1. Precedes(Ranked(list, i), Ranked(list, j))
    BY RowsSorted
  <2>2. Ranked(list, i) \in list /\ Ranked(list, j) \in list
    BY RankedOnce
  <2>3. row(i)[1] = cvs /\ row(j)[1] = cvs /\ row(i) \in Nat \X Poc
    BY <2>2 DEF Picture, PicId
  <2>4. cvs \in Nat
    BY <2>3
  <2>5. row(i)[2] < row(j)[2]
    BY <2>1, <2>3, <2>4 DEF Precedes, PocOf
  <2> HIDE DEF row
  <2> QED BY <2>3, <2>5 DEF Output!Earlier
<1> HIDE DEF row
<1>5. /\ Len(log') = n + m
      /\ \A i \in 1..n : log'[i] = log[i]
      /\ \A i \in n + 1 .. n + m : log'[i] = Rows(list)[i - n]
  <2> DEFINE rows == Rows(list)
  <2>1. rows \in Seq(PicId) /\ Len(rows) = m /\ log' = log \o rows
    BY <1>2
  <2> HIDE DEF rows, m
  <2>2. /\ Len(log \o rows) = Len(log) + Len(rows)
        /\ \A i \in 1..Len(log) : (log \o rows)[i] = log[i]
        /\ \A i \in Len(log) + 1 .. Len(log) + Len(rows) :
              (log \o rows)[i] = rows[i - Len(log)]
    BY <2>1, AppendFacts
  <2>3. /\ Len(log') = n + m
        /\ \A i \in 1..n : log'[i] = log[i]
        /\ \A i \in n + 1 .. n + m : log'[i] = rows[i - n]
    BY <2>1, <2>2
  <2> QED BY <2>3 DEF rows
<1>6. \A i \in n + 1 .. n + m : i - n \in 1..m /\ log'[i] = row(i - n)
  BY <1>1, <1>3, <1>5
<1>7. \A k \in 1..m : k + n \in n + 1 .. n + m /\ log'[k + n] = row(k)
  <2> TAKE k \in 1..m
  <2>1. k + n \in n + 1 .. n + m /\ (k + n) - n = k
    BY <1>1
  <2> QED BY <1>6, <2>1
<1>8. {log'[i] : i \in n + 1 .. n + m} = IdsOf(list)
  <2>1. IdsOf(list) = {row(k) : k \in 1..m}
    BY <1>2, <1>3 DEF RowsOf
  <2> QED BY <1>6, <1>7, <2>1
<1>9. \A i, j \in n + 1 .. n + m : i < j => Output!Earlier(log'[i], log'[j])
  <2> TAKE i, j \in n + 1 .. n + m
  <2> HAVE i < j
  <2>1. i - n \in 1..m /\ j - n \in 1..m /\ log'[i] = row(i - n) /\ log'[j] = row(j - n)
    BY <1>6
  <2>2. i - n < j - n
    BY <1>1
  <2> QED BY <1>4, <2>1, <2>2
<1>10. n <= n + m
  BY <1>1
<1> HIDE DEF m
<1> QED BY <1>5, <1>8, <1>9, <1>10 DEF Output!Emit

\* What waits in the abstract specification is visible in the list or current.
LEMMA WaitingRows ==
    ASSUME OutputInv
    PROVE  /\ Output!LogRows = RowsOf(log)
           /\ Output!Waiting = VisibleIds \cup Pending
           /\ \A x \in stream.expected : x[1] \in Nat /\ x[1] <= stream.cvs /\ x[2] \in Int
           /\ stream.cvs \in Nat /\ log \in Seq(PicId)
<1>1. Output!LogRows = RowsOf(log)
  BY DEF Output!LogRows, RowsOf
<1>2. Output!Waiting = VisibleIds \cup Pending
  BY <1>1 DEF Output!Waiting, OutputInv, RowsKnown
<1>3. stream \in Stream /\ StreamOk(stream) /\ log \in Seq(PicId)
  BY ListFacts DEF OutputInv, ListInv, CurrentInv, StreamInv, StreamKnown
<1>4. \A x \in stream.expected : x[1] \in Nat /\ x[2] \in Poc
  BY <1>3 DEF Stream
<1>5. \A x \in Poc : x \in Int
  BY Sentinels
<1> QED BY <1>1, <1>2, <1>3, <1>4, <1>5 DEF StreamOk, Stream

\* Nothing is written.
LEMMA EmitNone ==
    ASSUME log' = log, log \in Seq(PicId)
    PROVE  Output!Emit({}) /\ {} \in SUBSET Output!Waiting
<1>1. Len(log) \in Nat
  OBVIOUS
<1> DEFINE new == Len(log) + 1 .. Len(log')
<1>2. new = {}
  BY <1>1
<1>3. Len(log) <= Len(log')
  BY <1>1
<1> HIDE DEF new
<1>4. /\ {log'[i] : i \in new} = {}
      /\ \A i, j \in new : i < j => Output!Earlier(log'[i], log'[j])
  BY <1>2
<1>5. Output!Emit({})
  BY <1>3, <1>4 DEF Output!Emit, new
<1> QED BY <1>5

\* All that waits is written.
LEMMA EmitAll ==
    ASSUME OutputInv, pc # "output", Pending = {}, log' = log \o Rows(Needed(m_cListPic))
    PROVE  Output!Emit(Output!Waiting)
<1>1. /\ Needed(m_cListPic) \in SUBSET Picture
      /\ IsFiniteSet(Needed(m_cListPic)) /\ Distinct(Needed(m_cListPic))
      /\ VisibleIds = IdsOf(Needed(m_cListPic))
      /\ log \in Seq(PicId)
  BY ListFacts DEF OutputInv
<1>2. \A p \in Needed(m_cListPic) : p.id[1] = stream.cvs
  BY DEF Needed, OutputInv, ListInv, ListOwn, OfTheCvs
<1>3. Output!Waiting = IdsOf(Needed(m_cListPic))
  BY <1>1, WaitingRows
<1>4. \A a \in IdsOf(Needed(m_cListPic)), b \in Output!Waiting \ IdsOf(Needed(m_cListPic)) :
         Output!Earlier(a, b)
  BY <1>3
<1> QED BY <1>1, <1>2, <1>3, <1>4, EmitRows

LEMMA DecodeFirstSliceEmits ==
    ASSUME OutputInv, Orderly, NEW h \in Followers(stream), NEW last \in BOOLEAN,
           DecodeFirstSlice(h, last)
    PROVE  Output!Next
<1>1. /\ pc = "look"
      /\ Pending = {}
      /\ stream.expected = RowsOf(log) \cup VisibleIds
      /\ log \in Seq(PicId)
      /\ VisibleIds = IdsOf(Needed(m_cListPic))
  BY BetweenPictures
<1>2. /\ Output!Waiting = VisibleIds
      /\ \A x \in stream.expected : x[1] \in Nat /\ x[1] <= stream.cvs /\ x[2] \in Int
      /\ stream.cvs \in Nat
  BY <1>1, WaitingRows
<1>3. /\ h \in Header /\ MayFollow(stream, h) /\ stream \in Stream /\ h.poc \in Nat
      /\ stream' = Coded(stream, h) /\ h.poc \in Poc
  BY DecodeFirstSliceFacts, FollowerFacts DEF OutputInv, ListInv, CurrentInv
<1>4. CASE StartsCvs(stream, h)
  <2>1. \/ stream'.expected = stream.expected
        \/ stream'.expected = stream.expected \cup {<<stream.cvs + 1, h.poc>>}
    BY <1>3, <1>4, FirstPictureOutput
  <2>2. RowsOf(log)' = stream.expected
    BY <1>4, FirstPictureRows
  <2>3. Output!Code(stream'.expected \ stream.expected)
    <3> DEFINE new == stream'.expected \ stream.expected
    <3>1. stream'.expected = stream.expected \cup new
      BY <2>1
    <3>2. \A a \in new : a = <<stream.cvs + 1, h.poc>>
      BY <2>1
    <3>3. \A i \in 1..Len(log') : log'[i] \in stream.expected
      BY <2>2 DEF RowsOf
    <3>4. \A x \in stream.expected : x[1] < stream.cvs + 1
      BY <1>2
    <3> HIDE DEF new
    <3>5. \A a \in new, i \in 1..Len(log') : Output!Earlier(log'[i], a)
      BY <3>2, <3>3, <3>4 DEF Output!Earlier
    <3> QED BY <3>1, <3>5 DEF Output!Code, new
  <2>4. \E rows \in SUBSET Output!Waiting : Output!Emit(rows)
    <3>1. CASE log' = log \o Rows(Needed(m_cListPic))
      BY <1>1, <3>1, EmitAll
    <3>2. CASE log' = log
      BY <1>1, <3>2, EmitNone
    <3> QED BY <1>4, <3>1, <3>2, FirstSliceFlushes DEF OutputInv
  <2> QED BY <2>3, <2>4 DEF Output!Next
<1>5. CASE ~StartsCvs(stream, h)
  <2>1. log' = log
    BY <1>5, FirstSliceJoins DEF OutputInv
  <2>2. /\ \/ stream'.expected = stream.expected
           \/ stream'.expected = stream.expected \cup {<<stream.cvs, h.poc>>}
        /\ \A x \in RowsOf(log) : x[1] = stream.cvs => x[2] < h.poc
    BY <1>5, FurtherPictureRows
  <2>3. Output!Code(stream'.expected \ stream.expected)
    <3> DEFINE new == stream'.expected \ stream.expected
    <3>1. stream'.expected = stream.expected \cup new
      BY <2>2
    <3>2. \A a \in new : a = <<stream.cvs, h.poc>>
      BY <2>2
    <3>3. \A i \in 1..Len(log') : log'[i] \in RowsOf(log) /\ log'[i] \in stream.expected
      BY <1>1, <2>1 DEF RowsOf
    <3>4. \A x \in RowsOf(log) : x[1] < stream.cvs \/ (x[1] = stream.cvs /\ x[2] < h.poc)
      BY <1>1, <1>2, <2>2
    <3> HIDE DEF new
    <3>5. \A a \in new, i \in 1..Len(log') : Output!Earlier(log'[i], a)
      BY <3>2, <3>3, <3>4 DEF Output!Earlier
    <3> QED BY <3>1, <3>5 DEF Output!Code, new
  <2>4. \E rows \in SUBSET Output!Waiting : Output!Emit(rows)
    BY <1>1, <2>1, EmitNone
  <2> QED BY <2>3, <2>4 DEF Output!Next
<1> QED BY <1>4, <1>5

LEMMA OutputBlockEmits ==
    ASSUME OutputInv, OutputBlock
    PROVE  Output!Next
<1>1. log' = log \o Rows(Out) /\ stream' = stream /\ pc = "output"
  BY WrittenFacts
<1>2. /\ Out \in SUBSET Picture /\ IsFiniteSet(Out) /\ Distinct(Out)
      /\ IdsOf(Out) \subseteq VisibleIds
      /\ \A p \in Out : p.id = <<stream.cvs, PocOf(p)>>
      /\ Pending # {} => \A p \in Out : PocOf(p) < m_pcPic[2]
      /\ \A x \in IdsOf(Out), y \in VisibleIds \ IdsOf(Out) : x[2] < y[2]
  BY <1>1, OutFacts
<1>3. Output!Waiting = VisibleIds \cup Pending /\ log \in Seq(PicId)
  BY WaitingRows
<1>4. \A p \in Out : p.id[1] = stream.cvs
  BY <1>2
<1>5. \A y \in VisibleIds \cup Pending : y[1] = stream.cvs
  <2>1. \A y \in VisibleIds : y[1] = stream.cvs
    BY DEF VisibleIds, IdsOf, Needed, OutputInv, ListInv, ListOwn, OfTheCvs
  <2>2. \A y \in Pending : y[1] = stream.cvs
    BY DEF Pending, OutputInv, ListInv, CurrentInv, CurrentKnown, HeaderOutput
  <2> QED BY <2>1, <2>2
<1>6. \A a \in IdsOf(Out), b \in Output!Waiting \ IdsOf(Out) : Output!Earlier(a, b)
  <2> TAKE a \in IdsOf(Out), b \in Output!Waiting \ IdsOf(Out)
  <2>1. a[1] = stream.cvs /\ b[1] = stream.cvs
    BY <1>3, <1>4, <1>5 DEF IdsOf
  <2>2. CASE b \in VisibleIds
    BY <1>2, <2>1, <2>2 DEF Output!Earlier
  <2>3. CASE b \in Pending
    <3>1. PICK p \in Out : a = p.id
      BY DEF IdsOf
    <3>2. b = m_pcPic
      BY <2>3 DEF Pending
    <3>3. a[2] < b[2]
      BY <1>2, <2>3, <3>1, <3>2 DEF PocOf
    <3> QED BY <2>1, <3>3 DEF Output!Earlier
  <2> QED BY <1>3, <2>2, <2>3
<1>7. Output!Emit(IdsOf(Out))
  BY <1>1, <1>2, <1>3, <1>4, <1>6, EmitRows
<1>8. IdsOf(Out) \in SUBSET Output!Waiting
  BY <1>2, <1>3
<1> QED BY <1>1, <1>7, <1>8 DEF Output!Next

LEMMA FlushEmits ==
    ASSUME OutputInv, Flush
    PROVE  Output!Next
<1>1. /\ pc = "flush" /\ log' = log \o Rows(Needed(m_cListPic)) /\ stream' = stream
  BY DEF Flush, FlushedLog, bitstream
<1>2. Pending = {}
  <2>1. ~Unfinished
    BY <1>1 DEF OutputInv, ListInv, CurrentInv, StreamInv, LoopInv, FlowKnown
  <2> QED BY <2>1 DEF Pending
<1>3. Output!Emit(Output!Waiting)
  BY <1>1, <1>2, EmitAll
<1> QED BY <1>1, <1>3 DEF Output!Next

\* Each step of the decoder is one of the output order, or none.
LEMMA NextEmits ==
    ASSUME OutputInv, Orderly, [Next]_vars
    PROVE  [Output!Next]_<<stream.expected, log>>
<1>1. ASSUME Quiet PROVE UNCHANGED <<stream.expected, log>>
  BY <1>1 DEF Quiet
<1>2. ASSUME NEW last \in BOOLEAN, ReadNal(last)
      PROVE  Output!Next \/ UNCHANGED <<stream.expected, log>>
  <2>1. ASSUME NEW h \in Followers(stream), DecodeFirstSlice(h, last)
        PROVE  Output!Next
    BY <2>1, DecodeFirstSliceEmits
  <2>2. ASSUME NEW h \in Followers(stream), SkipFirstSlice(h, last)
        PROVE  Quiet
    BY <2>2, QuietStep DEF OutputInv
  <2>3. SkipNextSlice(last) \/ DecodeNextSlice(last) \/ DropSlice(last) \/ DecodeEos(last)
          => Quiet
    BY QuietStep DEF OutputInv
  <2> QED BY <1>1, <1>2, <2>1, <2>2, <2>3 DEF ReadNal
<1>3. LookAhead \/ UNCHANGED vars => Quiet
  BY LookAheadQuiet, StutterQuiet DEF OutputInv
<1>4. FinishBlock => UNCHANGED <<stream.expected, log>>
  BY DEF FinishBlock, bitstream, display
<1>5. OutputBlock \/ Flush => Output!Next
  BY OutputBlockEmits, FlushEmits
<1> QED BY <1>1, <1>2, <1>3, <1>4, <1>5 DEF Next

\* In these streams each step of the decoder is a step of OutputOrder: it writes
\* the earliest of the pictures that wait, once and in order, and codes only
\* pictures that follow all that are written (xWriteOutput, xFlushOutput).
THEOREM OutputsInOrder ==
    ASSUME Orderly
    PROVE  Spec => InOutputOrder
<1>1. Init => OutputInv
  BY InitOutput
<1>2. OutputInv /\ [Next]_vars => OutputInv'
  BY NextOutput
<1>3. Init => Output!Init
  BY DEF Init, EmptyStream, Output!Init
<1>4. OutputInv /\ [Next]_vars => [Output!Next]_<<stream.expected, log>>
  BY NextEmits
<1> QED BY <1>1, <1>2, <1>3, <1>4, PTL DEF Spec, InOutputOrder, Output!Spec
=============================================================================
