----------------------------- MODULE DecoderLoop -----------------------------
(***************************************************************************)
(* The decoder application: the NAL unit loop of DecApp::decode, the       *)
(* picture level of DecLib (xDecodeSlice, xGetNewPicBuffer, finishPicture, *)
(* the marking of reference pictures) and the output process               *)
(* (xWriteOutput, xFlushOutput), for frames of one layer, without -s.      *)
(*                                                                         *)
(* A pass of the loop reads a NAL unit, or stops at the look-ahead         *)
(* (isNewPicture) when a new picture follows; it then goes through the     *)
(* block that finishes a picture and the block that writes pictures:       *)
(*                                                                         *)
(*      look --> finish --> output --> look  or, at the end, flush, done   *)
(*        \__________________^                                             *)
(*                                                                         *)
(* m_cListPic is a set of pictures.  A picture is known by its CVS and     *)
(* POC; the program knows the POC only.  The list is sorted by POC when it *)
(* is searched, so "first in the list" is "of lowest POC".  pcListPic is   *)
(* set by the first finishPicture; before that the list holds no picture   *)
(* to output, and the output block does nothing.                           *)
(***************************************************************************)
EXTENDS CodedStream, Sequences

CONSTANTS
    MaxPics,    \* bound: pictures of the stream
    MaxSlices,  \* bound: slices of a picture
    MaxEos,     \* bound: EOS NAL units
    MaxDrops,   \* bound: pictures of a temporal layer above -t
    Allow       \* the situations the stream may contain, of Situations

\* Situations that a run admits or excludes.
Situations == {"gdrAfterEos",        \* a GDR picture after an EOS
               "raslBeforeEos",      \* a decoded RASL picture right before an EOS
               "skippedBeforeEos",   \* a skipped or dropped picture before an EOS
               "recoveringBeforeEos", \* an EOS before a GDR picture has recovered
               "recoveringBeforeIdr", \* an IDR before it has
               "lateRecovering",     \* a picture before the recovery point,
                                     \* decoded after one that is not
               "droppedBeforeGdr",   \* a dropped picture somewhere before a GDR
               "loneLastPicture"}    \* one picture between an EOS and the end

ASSUME LoopAssumption ==
    /\ MaxPics \in Nat
    /\ MaxSlices \in Nat \ {0}
    /\ MaxEos \in Nat
    /\ MaxDrops \in Nat
    /\ Allow \subseteq Situations

VARIABLES
    \* The bitstream.
    stream,     \* state of the coded stream
    part,       \* what was read last: "picture" when a new one follows
    eof,        \* the last NAL unit has been read
    count,      \* pictures, slices of the picture, EOSs, dropped pictures
    \* DecApp
    pc,         \* position in the pass
    nalu,       \* of this pass: "slice", "EOS", or "new" for the look-ahead
    bPicSkipped, prevPicSkipped, loopFiltered, isEosPresentInPu,
    isEosPresentInLastPu, m_newCLVS, m_iPOCLastDisplay, gdrRecoveryPeriod,
    log,        \* the output log: <<cvs, poc>> in the order written
    \* DecLib
    m_cListPic, m_pcPic, m_bFirstSliceInPicture, m_firstSliceInSequence,
    m_firstSliceInBitstream, m_pocRandomAccess, m_isNoOutputPriorPics,
    m_lastPOCNoOutputPriorPics, m_lastNoOutputBeforeRecoveryFlag,
    m_prevGDRInSameLayerPOC, m_prevGDRInSameLayerRecoveryPOC,
    pcSlice     \* header of the picture, with PicOutputFlag in output

bitstream == <<stream, part, eof, count>>
eosFlags == <<isEosPresentInPu, isEosPresentInLastPu>>
skipFlags == <<bPicSkipped, prevPicSkipped>>
firstFlags == <<m_firstSliceInSequence, m_firstSliceInBitstream>>
priorPics == <<m_isNoOutputPriorPics, m_lastPOCNoOutputPriorPics,
               m_lastNoOutputBeforeRecoveryFlag>>
gdr == <<m_prevGDRInSameLayerPOC, m_prevGDRInSameLayerRecoveryPOC>>
display == <<m_iPOCLastDisplay, log>>

vars == <<bitstream, pc, nalu, skipFlags, loopFiltered, eosFlags, m_newCLVS,
          display, gdrRecoveryPeriod, m_cListPic, m_pcPic,
          m_bFirstSliceInPicture, firstFlags, m_pocRandomAccess, priorPics, gdr,
          pcSlice>>

\* -MAX_INT and MAX_INT.  A skipped slice increments the POC displayed last.
MinusInf == -(MaxPics * MaxSlices + 1)
PlusInf == MaxPoc + MaxRecovery + 1

PicId == Nat \X Poc
Picture == [id : PicId, neededForOutput : BOOLEAN, reconstructed : BOOLEAN,
            referenced : BOOLEAN]
NoPic == <<0, 0>>
NoSlice == [kind |-> "IDR", poc |-> 0, output |-> FALSE, keep |-> {},
            recoveryPocCnt |-> 0]

PocOf(p) == p.id[2]

TypeOK ==
    /\ stream \in Stream
    /\ part \in {"picture", "decoded", "skipped", "dropped", "eos"}
    /\ eof \in BOOLEAN
    /\ count \in [pics : Nat, slices : Nat, eos : Nat, drops : Nat]
    /\ pc \in {"look", "finish", "output", "flush", "done"}
    /\ nalu \in {"new", "slice", "EOS"}
    /\ {bPicSkipped, prevPicSkipped, loopFiltered, isEosPresentInPu,
        isEosPresentInLastPu, m_newCLVS, gdrRecoveryPeriod,
        m_bFirstSliceInPicture, m_firstSliceInSequence, m_firstSliceInBitstream,
        m_isNoOutputPriorPics, m_lastNoOutputBeforeRecoveryFlag} \subseteq BOOLEAN
    /\ m_iPOCLastDisplay \in Int
    /\ m_pocRandomAccess \in Poc \cup {MinusInf, PlusInf}
    /\ m_lastPOCNoOutputPriorPics \in Poc \cup {-1}
    /\ m_prevGDRInSameLayerPOC \in Poc \cup {MinusInf}
    /\ m_prevGDRInSameLayerRecoveryPOC \in (0..MaxPoc + MaxRecovery) \cup {MinusInf}
    /\ log \in Seq(PicId)
    /\ m_cListPic \subseteq Picture
    /\ m_pcPic \in PicId
    /\ pcSlice \in Header \cup {NoSlice}

Init ==
    /\ stream = EmptyStream
    /\ part = "picture"
    /\ eof = FALSE
    /\ count = [pics |-> 0, slices |-> 0, eos |-> 0, drops |-> 0]
    /\ pc = "look"
    /\ nalu = "new"
    /\ bPicSkipped = FALSE
    /\ prevPicSkipped = TRUE
    /\ loopFiltered = FALSE
    /\ isEosPresentInPu = FALSE
    /\ isEosPresentInLastPu = FALSE
    /\ m_newCLVS = TRUE
    /\ m_iPOCLastDisplay = MinusInf
    /\ gdrRecoveryPeriod = FALSE
    /\ log = <<>>
    /\ m_cListPic = {}
    /\ m_pcPic = NoPic
    /\ m_bFirstSliceInPicture = TRUE
    /\ m_firstSliceInSequence = TRUE
    /\ m_firstSliceInBitstream = TRUE
    /\ m_pocRandomAccess = PlusInf
    /\ m_isNoOutputPriorPics = FALSE
    /\ m_lastPOCNoOutputPriorPics = -1
    /\ m_lastNoOutputBeforeRecoveryFlag = FALSE
    /\ m_prevGDRInSameLayerPOC = MinusInf
    /\ m_prevGDRInSameLayerRecoveryPOC = MinusInf
    /\ pcSlice = NoSlice

-----------------------------------------------------------------------------
(***************************************************************************)
(* Output: xWriteOutput and xFlushOutput.                                  *)
(***************************************************************************)
Precedes(p, q) == \/ PocOf(p) < PocOf(q)
                  \/ PocOf(p) = PocOf(q) /\ p.id[1] < q.id[1]

\* The ids of pictures in this order: row i has i - 1 of them before it.
Ranked(pictures, n) ==
    CHOOSE p \in pictures : Cardinality({q \in pictures : Precedes(q, p)}) = n - 1
Rows(pictures) == [i \in 1..Cardinality(pictures) |-> Ranked(pictures, i).id]

Shown(list, last) == {p \in list : p.neededForOutput /\ PocOf(p) >= last}

\* numPicsNotYetDisplayed and dpbFullness when the loop reaches picture p.
NotYetDisplayed(list, last, p) ==
    Cardinality({q \in Shown(list, last) : ~Precedes(q, p)})
DpbFullness(list, last, p) ==
    Cardinality({q \in list : \/ q.referenced
                              \/ q \in Shown(list, last) /\ ~Precedes(q, p)})

\* Mutant of ToOutput: one picture early.
ToOutputEarly(list, last) ==
    {p \in Shown(list, last) :
        \/ NotYetDisplayed(list, last, p) > MaxNumReorder
        \/ DpbFullness(list, last, p) >= MaxDecPicBuffering}

ToOutput(list, last) ==
    {p \in Shown(list, last) :
        \/ NotYetDisplayed(list, last, p) > MaxNumReorder
        \/ DpbFullness(list, last, p) > MaxDecPicBuffering}

\* Mutant of Released: the picture stays marked for output.
ReleasedMarked(p) == [p EXCEPT !.reconstructed = @ /\ p.referenced]

\* An output picture that is not a reference gives its buffer back.
Released(p) == [p EXCEPT !.neededForOutput = FALSE,
                         !.reconstructed = p.reconstructed /\ p.referenced]

xWriteOutput(list) ==
    LET out == ToOutput(list, m_iPOCLastDisplay) IN
    /\ log' = log \o Rows(out)
    /\ m_iPOCLastDisplay' = IF out = {} THEN m_iPOCLastDisplay
                            ELSE HighestOf({PocOf(p) : p \in out})
    /\ m_cListPic' = {IF p \in out THEN Released(p) ELSE p : p \in list}

Needed(list) == {p \in list : p.neededForOutput}

\* The log and the POC displayed last after xFlushOutput empties the list.
FlushedLog == log \o Rows(Needed(m_cListPic))
FlushedDisplay == IF m_cListPic = {} THEN m_iPOCLastDisplay ELSE MinusInf

-----------------------------------------------------------------------------
(***************************************************************************)
(* A slice: the start of the pass in DecApp::decode and xDecodeSlice.      *)
(***************************************************************************)
\* Mutant of StartsIrap: a CRA picture after an EOS does not empty the list.
StartsIdr(h) == m_bFirstSliceInPicture /\ h.kind = "IDR"

\* The pictures before which xFlushOutput empties the list.
StartsIrap(h) ==
    m_bFirstSliceInPicture /\ (h.kind = "IDR" \/ (h.kind = "CRA" /\ isEosPresentInLastPu))

\* m_newCLVS at the start of the pass.
NewCLVS(h) ==
    IF ~m_bFirstSliceInPicture THEN m_newCLVS
    ELSE StartsIrap(h) \/ (h.kind # "CRA" /\ isEosPresentInLastPu /\ m_newCLVS)

\* The list when xDecodeSlice has consumed m_isNoOutputPriorPics
\* (checkNoOutputPriorPics), on the first slice and on each CRA or GDR slice.
Consumes(h) ==
    m_isNoOutputPriorPics /\ (m_bFirstSliceInPicture \/ h.kind \in {"CRA", "GDR"})

AfterPriorPics(list, h) ==
    IF Consumes(h)
    THEN {[p EXCEPT !.neededForOutput = @ /\ PocOf(p) = m_lastPOCNoOutputPriorPics] :
             p \in list}
    ELSE list

NoOutputBeforeRecovery(h) == m_firstSliceInSequence \/ h.kind = "IDR"

\* NoOutputBeforeRecoveryFlag and NoOutputOfPriorPicsFlag of a slice.
DerivePriorPicFlags(h) ==
    IF h.kind \in Anchors
    THEN LET noOutputOfPriorPics == NoOutputBeforeRecovery(h) /\ ~m_firstSliceInBitstream IN
         /\ m_lastNoOutputBeforeRecoveryFlag' =
              IF h.kind = "IDR" THEN m_lastNoOutputBeforeRecoveryFlag
              ELSE NoOutputBeforeRecovery(h)
         /\ m_isNoOutputPriorPics' = noOutputOfPriorPics
         /\ m_lastPOCNoOutputPriorPics' = IF noOutputOfPriorPics THEN h.poc
                                          ELSE m_lastPOCNoOutputPriorPics
    ELSE /\ m_isNoOutputPriorPics' = (m_isNoOutputPriorPics /\ ~Consumes(h))
         /\ UNCHANGED <<m_lastPOCNoOutputPriorPics, m_lastNoOutputBeforeRecoveryFlag>>

PicOutputFlag(h) ==
    h.output /\ ~(h.kind = "RASL" /\ m_lastNoOutputBeforeRecoveryFlag)

\* Only the first GDR picture of the layer sets the recovery POC.
SetRecoveryPoc(h) ==
    m_prevGDRInSameLayerRecoveryPOC' =
        IF h.kind = "GDR" /\ m_prevGDRInSameLayerPOC = MinusInf
        THEN h.poc + h.recoveryPocCnt ELSE m_prevGDRInSameLayerRecoveryPOC

\* isRandomAccessSkipPicture.
SkipsUntilAccess(h) == m_pocRandomAccess = PlusInf /\ h.kind \notin Anchors
SkipsLeading(h) == h.kind = "RASL" /\ h.poc < m_pocRandomAccess
RandomAccessSkip(h) == SkipsUntilAccess(h) \/ SkipsLeading(h)

\* Mutant of PocRandomAccess: after a GDR picture the decoder waits for its
\* recovery point.
PocOfRecovery(h) ==
    CASE h.kind = "IDR" -> MinusInf
      [] h.kind \in {"CRA", "GDR"} /\ m_pocRandomAccess = PlusInf -> h.poc + h.recoveryPocCnt
      [] OTHER -> m_pocRandomAccess

PocRandomAccess(h) ==
    CASE h.kind = "IDR" -> MinusInf
      [] h.kind \in {"CRA", "GDR"} /\ m_pocRandomAccess = PlusInf -> h.poc
      [] OTHER -> m_pocRandomAccess

\* applyReferencePictureListBasedMarking.
Marked(list, h) ==
    {[p EXCEPT !.referenced = @ /\ (PocOf(p) \in h.keep \/ PocOf(p) = h.poc)] : p \in list}

\* Mutants of Free: reference pictures, or waiting ones, are taken too; only
\* the buffers that the output released are taken.
FreeReferences(list) == {p \in list : ~p.neededForOutput}
FreeWaiting(list) == {p \in list : ~p.reconstructed \/ ~p.referenced}
FreeReleased(list) == {p \in list : ~p.neededForOutput /\ ~p.reconstructed}

\* The buffers that xGetNewPicBuffer takes, and the list it leaves with the
\* new picture in it.
Free(list) == {p \in list : ~p.neededForOutput /\ (~p.reconstructed \/ ~p.referenced)}

NewPicture(id) == [id |-> id, neededForOutput |-> FALSE, reconstructed |-> FALSE,
                   referenced |-> TRUE]

WithNewPicture(list, id, listNew) ==
    \/ /\ Cardinality(list) < MaxDecPicBuffering \/ Free(list) = {}
       /\ listNew = list \cup {NewPicture(id)}
    \/ /\ Cardinality(list) >= MaxDecPicBuffering
       /\ \E p \in Free(list) :
            /\ \A q \in Free(list) : ~Precedes(q, p)
            /\ listNew = (list \ {p}) \cup {NewPicture(id)}

EndsPass(last) ==
    /\ eof' = last
    /\ pc' = IF last THEN "finish" ELSE "output"
    /\ nalu' = "slice"

Counted(field) == [count EXCEPT ![field] = @ + 1]

\* The first slice of a picture arrives: the guard of the actions that read it.
\* After a look-ahead, or a skipped picture, m_bFirstSliceInPicture is set and
\* isNewPicture does not look ahead again.
ReadsFirstSlice ==
    /\ pc = "look" /\ ~eof
    /\ m_bFirstSliceInPicture
    /\ part \in {"picture", "skipped"}

Admitted(h) ==
    /\ h.kind = "GDR" /\ stream.fresh /\ count.eos > 0 => "gdrAfterEos" \in Allow
    /\ h.kind = "IDR" /\ Recovering(stream) /\ ~stream.fresh =>
         "recoveringBeforeIdr" \in Allow
    /\ h.kind = "GDR" /\ count.drops > 0 => "droppedBeforeGdr" \in Allow
    /\ ~StartsCvs(stream, h) /\ h.poc < stream.recovery /\ ~Recovering(stream) =>
         "lateRecovering" \in Allow

\* First slice of a picture that is decoded.
DecodeFirstSlice(h, last) ==
    LET flushed == IF StartsIrap(h) THEN {} ELSE m_cListPic
        id      == <<Coded(stream, h).cvs, h.poc>>
    IN
    /\ ReadsFirstSlice /\ Admitted(h)
    /\ last /\ stream.fresh /\ count.eos > 0 => "loneLastPicture" \in Allow
    /\ ~RandomAccessSkip(h)
    /\ log' = IF StartsIrap(h) THEN FlushedLog ELSE log
    /\ m_iPOCLastDisplay' = IF StartsIrap(h) THEN FlushedDisplay ELSE m_iPOCLastDisplay
    /\ m_newCLVS' = NewCLVS(h)
    /\ SetRecoveryPoc(h)
    /\ DerivePriorPicFlags(h)
    /\ m_pocRandomAccess' = PocRandomAccess(h)
    /\ WithNewPicture(Marked(AfterPriorPics(flushed, h), h), id, m_cListPic')
    /\ m_pcPic' = id
    /\ pcSlice' = [h EXCEPT !.output = PicOutputFlag(h)]
    /\ m_firstSliceInSequence' = FALSE
    /\ m_firstSliceInBitstream' = FALSE
    /\ m_bFirstSliceInPicture' = FALSE
    /\ gdrRecoveryPeriod' = (gdrRecoveryPeriod \/ (prevPicSkipped /\ h.kind = "GDR"))
    /\ bPicSkipped' = FALSE
    /\ prevPicSkipped' = IF h.kind = "RASL" THEN prevPicSkipped ELSE FALSE
    /\ stream' = Coded(stream, h)
    /\ part' = "decoded"
    /\ count' = [Counted("pics") EXCEPT !.slices = 1]
    /\ EndsPass(last)
    /\ UNCHANGED <<loopFiltered, eosFlags, m_prevGDRInSameLayerPOC>>

\* First slice of a picture that isRandomAccessSkipPicture skips.
SkipFirstSlice(h, last) ==
    /\ ReadsFirstSlice /\ Admitted(h)
    /\ RandomAccessSkip(h)
    /\ m_newCLVS' = NewCLVS(h)
    /\ DerivePriorPicFlags(h)
    /\ m_cListPic' = AfterPriorPics(m_cListPic, h)
    /\ m_iPOCLastDisplay' = IF SkipsUntilAccess(h) THEN m_iPOCLastDisplay
                            ELSE m_iPOCLastDisplay + 1
    /\ bPicSkipped' = TRUE
    /\ prevPicSkipped' = IF h.kind = "RASL" THEN prevPicSkipped ELSE TRUE
    /\ stream' = Coded(stream, h)
    /\ part' = "skipped"
    /\ count' = [Counted("pics") EXCEPT !.slices = 1]
    /\ EndsPass(last)
    /\ UNCHANGED <<loopFiltered, eosFlags, log, gdrRecoveryPeriod, m_pcPic,
                   m_bFirstSliceInPicture, firstFlags, m_pocRandomAccess, gdr, pcSlice>>

\* A further slice of it is skipped again, and counts again.
SkipNextSlice(last) ==
    /\ pc = "look" /\ ~eof
    /\ part = "skipped"
    /\ count.slices < MaxSlices
    /\ m_newCLVS' = (isEosPresentInLastPu /\ m_newCLVS)
    /\ m_iPOCLastDisplay' = m_iPOCLastDisplay + 1
    /\ count' = Counted("slices")
    /\ EndsPass(last)
    /\ UNCHANGED <<stream, part, skipFlags, loopFiltered, eosFlags, log,
                   gdrRecoveryPeriod, m_cListPic, m_pcPic, m_bFirstSliceInPicture,
                   firstFlags, m_pocRandomAccess, priorPics, gdr, pcSlice>>

\* A further slice of a decoded picture: the flags are derived again.
DecodeNextSlice(last) ==
    /\ pc = "look" /\ ~eof
    /\ part = "decoded"
    /\ count.slices < MaxSlices
    /\ last /\ Cardinality(stream.pics) = 1 /\ count.eos > 0 => "loneLastPicture" \in Allow
    /\ SetRecoveryPoc(pcSlice)
    /\ DerivePriorPicFlags(pcSlice)
    /\ m_cListPic' = AfterPriorPics(m_cListPic, pcSlice)
    /\ pcSlice' = [pcSlice EXCEPT !.output = PicOutputFlag(pcSlice)]
    /\ gdrRecoveryPeriod' = (gdrRecoveryPeriod \/ (prevPicSkipped /\ pcSlice.kind = "GDR"))
    /\ count' = Counted("slices")
    /\ EndsPass(last)
    /\ UNCHANGED <<stream, part, skipFlags, loopFiltered, eosFlags, m_newCLVS,
                   display, m_pcPic, m_bFirstSliceInPicture, firstFlags,
                   m_pocRandomAccess, m_prevGDRInSameLayerPOC>>

\* A slice of a temporal layer above the one of -t is not given to DecLib.
DropSlice(last) ==
    /\ ReadsFirstSlice
    /\ ~stream.fresh
    /\ count.drops < MaxDrops
    /\ m_newCLVS' = (isEosPresentInLastPu /\ m_newCLVS)
    /\ bPicSkipped' = TRUE
    /\ prevPicSkipped' = TRUE
    /\ m_bFirstSliceInPicture' = FALSE
    /\ part' = "dropped"
    /\ count' = Counted("drops")
    /\ EndsPass(last)
    /\ UNCHANGED <<stream, loopFiltered, eosFlags, display, gdrRecoveryPeriod,
                   m_cListPic, m_pcPic, firstFlags, m_pocRandomAccess, priorPics,
                   gdr, pcSlice>>

\* An end of sequence NAL unit.
DecodeEos(last) ==
    /\ pc = "look" /\ ~eof
    /\ part \in {"decoded", "skipped", "dropped"}
    /\ count.eos < MaxEos
    /\ part # "decoded" => "skippedBeforeEos" \in Allow
    /\ part = "decoded" /\ pcSlice.kind = "RASL" => "raslBeforeEos" \in Allow
    /\ Recovering(stream) => "recoveringBeforeEos" \in Allow
    /\ last /\ Cardinality(stream.pics) = 1 /\ count.eos > 0 => "loneLastPicture" \in Allow
    /\ m_prevGDRInSameLayerPOC' = MinusInf
    /\ m_prevGDRInSameLayerRecoveryPOC' = MinusInf
    /\ m_pocRandomAccess' = PlusInf
    /\ isEosPresentInPu' = TRUE
    /\ m_newCLVS' = TRUE
    /\ stream' = [stream EXCEPT !.fresh = TRUE]
    /\ part' = "eos"
    /\ count' = Counted("eos")
    /\ eof' = last
    /\ pc' = "finish"
    /\ nalu' = "EOS"
    /\ UNCHANGED <<skipFlags, loopFiltered, isEosPresentInLastPu, display,
                   gdrRecoveryPeriod, m_cListPic, m_pcPic, m_bFirstSliceInPicture,
                   firstFlags, priorPics, pcSlice>>

\* isNewPicture finds the start of a new picture ahead: nothing is read.
LookAhead ==
    /\ pc = "look" /\ ~eof
    /\ ~m_bFirstSliceInPicture
    /\ part \in {"decoded", "dropped", "eos"}
    /\ part' = "picture"
    /\ pc' = "finish"
    /\ nalu' = "new"
    /\ UNCHANGED <<stream, eof, count, skipFlags, loopFiltered, eosFlags, m_newCLVS,
                   display, gdrRecoveryPeriod, m_cListPic, m_pcPic,
                   m_bFirstSliceInPicture, firstFlags, m_pocRandomAccess, priorPics,
                   gdr, pcSlice>>

-----------------------------------------------------------------------------
(***************************************************************************)
(* The rest of the pass.                                                   *)
(***************************************************************************)
IsCurrent(p) == p.id = m_pcPic
\* Mutant of GDRRecoveryPocReached: the picture at the recovery point is late.
GDRRecoveryPocPassed == m_pcPic[2] > m_prevGDRInSameLayerRecoveryPOC
GDRRecoveryPocReached == m_pcPic[2] >= m_prevGDRInSameLayerRecoveryPOC

\* executeLoopFilters and finishPicture on m_pcPic.
Finished(list) ==
    {IF IsCurrent(p)
     THEN [p EXCEPT !.neededForOutput = pcSlice.output /\ ~(m_newCLVS /\ pcSlice.kind = "RASL"),
                    !.reconstructed = TRUE]
     ELSE p : p \in list}

\* Mutant of Finishes: a skipped picture is finished too.
FinishesSkipped == ~m_firstSliceInSequence
Finishes == ~m_firstSliceInSequence /\ ~bPicSkipped

\* The block that finishes a picture, with updatePrevGDRInSameLayer.
FinishBlock ==
    /\ pc = "finish"
    /\ pc' = "output"
    /\ IF Finishes
       THEN /\ IF ~loopFiltered \/ ~eof
               THEN m_cListPic' = Finished(m_cListPic) /\ m_bFirstSliceInPicture' = TRUE
               ELSE UNCHANGED <<m_cListPic, m_bFirstSliceInPicture>>
            /\ loopFiltered' = (nalu = "EOS")
            /\ m_firstSliceInSequence' = (nalu = "EOS")
            /\ m_prevGDRInSameLayerPOC' = IF pcSlice.kind = "GDR" THEN m_pcPic[2]
                                          ELSE m_prevGDRInSameLayerPOC
            /\ gdrRecoveryPeriod' = (gdrRecoveryPeriod /\ ~GDRRecoveryPocReached)
       ELSE /\ m_bFirstSliceInPicture' = TRUE
            /\ UNCHANGED <<m_cListPic, loopFiltered, m_firstSliceInSequence,
                           m_prevGDRInSameLayerPOC, gdrRecoveryPeriod>>
    /\ UNCHANGED <<bitstream, nalu, skipFlags, eosFlags, m_newCLVS, display, m_pcPic,
                   m_firstSliceInBitstream, m_pocRandomAccess, priorPics,
                   m_prevGDRInSameLayerRecoveryPOC, pcSlice>>

\* Mutant of Suppressed: they are.
NotSuppressed(list) == list

\* The pictures of a GDR recovery period are not output.
Suppressed(list) ==
    IF gdrRecoveryPeriod THEN {[p EXCEPT !.neededForOutput = FALSE] : p \in list}
    ELSE list

\* The block that writes pictures, and the end of the pass.
OutputBlock ==
    /\ pc = "output"
    /\ pc' = IF eof THEN "flush" ELSE "look"
    /\ xWriteOutput(Suppressed(m_cListPic))
    /\ m_bFirstSliceInPicture' = (m_bFirstSliceInPicture /\ nalu # "EOS")
    /\ IF nalu = "new"
       THEN isEosPresentInLastPu' = isEosPresentInPu /\ isEosPresentInPu' = FALSE
       ELSE UNCHANGED eosFlags
    /\ UNCHANGED <<bitstream, nalu, skipFlags, loopFiltered, m_newCLVS,
                   gdrRecoveryPeriod, m_pcPic, firstFlags, m_pocRandomAccess,
                   priorPics, gdr, pcSlice>>

\* After the loop: xFlushOutput, deletePicBuffer.
Flush ==
    /\ pc = "flush"
    /\ pc' = "done"
    /\ log' = FlushedLog
    /\ m_iPOCLastDisplay' = FlushedDisplay
    /\ m_cListPic' = {}
    /\ UNCHANGED <<bitstream, nalu, skipFlags, loopFiltered, eosFlags, m_newCLVS,
                   gdrRecoveryPeriod, m_pcPic, m_bFirstSliceInPicture, firstFlags,
                   m_pocRandomAccess, priorPics, gdr, pcSlice>>

ReadNal(last) ==
    \/ /\ ReadsFirstSlice
       /\ count.pics < MaxPics
       /\ \E h \in Followers(stream) : DecodeFirstSlice(h, last) \/ SkipFirstSlice(h, last)
    \/ SkipNextSlice(last)
    \/ DecodeNextSlice(last)
    \/ DropSlice(last)
    \/ DecodeEos(last)

Next ==
    \/ \E last \in BOOLEAN : ReadNal(last)
    \/ LookAhead
    \/ FinishBlock
    \/ OutputBlock
    \/ Flush

Spec == Init /\ [][Next]_vars

-----------------------------------------------------------------------------
(***************************************************************************)
(* Properties.                                                             *)
(***************************************************************************)
Decoding == part = "decoded" /\ pc # "done" /\ ~m_bFirstSliceInPicture

\* While a picture is decoded, each picture its slices refer to is found in
\* the list under its POC, is the picture of that POC of the same CVS, is
\* complete, and is still marked: the flush of an IDR, the marking, the
\* recycling of buffers and the output leave the references of the picture
\* alone (Slice::constructRefPicList, xGetRefPic).
RefsPresent ==
    Decoding =>
        \A poc \in pcSlice.keep :
            /\ \E p \in m_cListPic : PocOf(p) = poc
            /\ \A p \in m_cListPic : PocOf(p) = poc =>
                  p.id[1] = stream.cvs /\ p.reconstructed /\ p.referenced

\* When the program has ended the log has exactly one row for each picture to
\* output ("one row for each output picture in the bitstream, in output order",
\* software-manual.tex:5421).
LogComplete ==
    pc = "done" => /\ {log[i] : i \in 1..Len(log)} = stream.expected
                   /\ Len(log) = Cardinality(stream.expected)

\* The list never holds more than one picture above the limit of the SPS,
\* although a buffer is taken before the output makes room for it.
ListBounded == Cardinality(m_cListPic) <= MaxDecPicBuffering + 1

\* No picture is written that a bumping decoder has not output by then: what
\* is written never precedes a picture that may still come.
NeverAhead ==
    pc # "done" => \A i \in 1..Len(log) :
        log[i][1] = stream.cvs => log[i][2] <= stream.horizon

\* The decoder implements the output order: no row is missing before a later
\* one, none is written twice, none precedes a row that is already there.
Output == INSTANCE OutputOrder WITH due <- stream.expected
InOutputOrder == Output!Spec
=============================================================================
