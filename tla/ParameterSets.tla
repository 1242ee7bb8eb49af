---------------------------- MODULE ParameterSets ----------------------------
(***************************************************************************)
(* Parameter sets of the decoder: the ParameterSetMap of each kind, the    *)
(* ParameterSetManager that activates them, and the pictures of DecLib     *)
(* that keep raw pointers to them (CommonLib/ParameterSetManager.{h,cpp},  *)
(* DecLib::xActivateParameterSets, DecLib::finishPicture).                 *)
(*                                                                         *)
(* A parameter set object is an address of Objs that is fresh, live or     *)
(* deleted; addresses are never used twice, so that a pointer to a deleted *)
(* object stays recognisable.  A payload is an element of Data: the NAL    *)
(* unit bytes that storePS compares.  SpsOf gives the SPS id inside a PPS  *)
(* payload and VpsOf the VPS id inside an SPS payload.                     *)
(*                                                                         *)
(* The bitstream is the environment: it sends any parameter set NAL unit   *)
(* of Nals between pictures, prefix APSs also between slices.  An SPS, a   *)
(* PPS or a VPS never arrives inside a picture: DecLib::isNewPicture       *)
(* answers TRUE on them, so DecApp finishes the picture first.             *)
(***************************************************************************)
EXTENDS Naturals, Sequences, FiniteSets

CONSTANTS
    Ids,            \* ids of the parameter sets of each kind
    Data,           \* payloads
    Objs,           \* addresses of parameter set objects (bounds the stores)
    NULL,           \* the null pointer, and the absent entry of a map
    SpsOf, VpsOf,   \* ids a PPS, respectively an SPS payload refers to
    InferredVps,    \* VPS id 0, allocated on first access
    Nals,           \* the <<kind, id, payload>> the bitstream may contain
    GdrStart,       \* may a coded video sequence start with a GDR picture?
    Repeats,        \* may a parameter set be sent twice before a picture?
    MaxList         \* bound: pictures in the list besides the new one

Kinds == {"VPS", "SPS", "PPS", "APS"}

MapData == [changed : BOOLEAN, data : Data \cup {NULL}, ps : Objs]

\* What a picture keeps: cs->sps, cs->pps, the ids they had, cs->alfApss.
PicPointers == [spsId : Ids, ppsId : Ids, sps : Objs, pps : Objs,
                apss : SUBSET Objs, apsIds : SUBSET Ids]

ASSUME ConstantsAssumption ==
    /\ NULL \notin Objs \cup Data \cup MapData \cup PicPointers
    /\ SpsOf \in [Data -> Ids]
    /\ VpsOf \in [Data -> Ids]
    /\ InferredVps \in Ids
    /\ Nals \subseteq Kinds \X Ids \X Data
    /\ GdrStart \in BOOLEAN
    /\ Repeats \in BOOLEAN
    /\ Objs \subseteq Nat
    /\ MaxList \in Nat

VARIABLES
    m_paramsetMap,  \* [Kinds \X Ids -> MapData or NULL]
    m_activePsId,   \* [Kinds -> SUBSET Ids]
    m_lastActive,   \* [Kinds -> Objs or NULL]: m_lastActiveParameterSet
    status,         \* [Objs -> {"fresh", "live", "deleted"}]
    phase,          \* where DecApp::decode is with respect to the picture
    pic,            \* m_pcPic: the pointers of the current picture, or NULL
    listPic,        \* the other pictures of m_cListPic
    suffixAps,      \* m_suffixApsNalus
    sent,           \* environment: sets received since the last first slice
    cvsSps,         \* id and payload of the SPS of the coded video sequence
    exited          \* EXIT: the decoder gave up

vars == <<m_paramsetMap, m_activePsId, m_lastActive, status, phase, pic,
          listPic, suffixAps, sent, cvsSps, exited>>

TypeOK ==
    /\ m_paramsetMap \in [Kinds \X Ids -> MapData \cup {NULL}]
    /\ m_activePsId \in [Kinds -> SUBSET Ids]
    /\ m_lastActive \in [Kinds -> Objs \cup {NULL}]
    /\ status \in [Objs -> {"fresh", "live", "deleted"}]
    /\ phase \in {"between", "inPicture", "finishing"}
    /\ pic \in PicPointers \cup {NULL}
    /\ listPic \subseteq PicPointers
    /\ suffixAps \in Seq(Ids \X Data)
    /\ sent \subseteq Kinds \X Ids
    /\ cvsSps \in (Ids \X Data) \cup {NULL}
    /\ exited \in BOOLEAN

Init ==
    /\ m_paramsetMap = [kx \in Kinds \X Ids |-> NULL]
    /\ m_activePsId = [k \in Kinds |-> {}]
    /\ m_lastActive = [k \in Kinds |-> NULL]
    /\ status = [o \in Objs |-> "fresh"]
    /\ phase = "between"
    /\ pic = NULL
    /\ listPic = {}
    /\ suffixAps = <<>>
    /\ sent = {}
    /\ cvsSps = NULL
    /\ exited = FALSE

Entry(k, id) == m_paramsetMap[<<k, id>>]
Present(k, id) == Entry(k, id) # NULL

\* operator new: the next address.
New(o) == status[o] = "fresh" /\ \A x \in Objs : status[x] = "fresh" => o <= x

(***************************************************************************)
(* ParameterSetMap::storePS.  The flag of an entry, once set, stays set    *)
(* until the entry is activated, so a repetition is recognised only while  *)
(* it is clear.                                                            *)
(***************************************************************************)
ChangedBy(entry, d) == entry.changed \/ entry.data # d

\* The entry is known and unchanged: the new object is deleted.
KeepPS(k, id, d, o) ==
    /\ Present(k, id)
    /\ ~ChangedBy(Entry(k, id), d)
    /\ status' = [status EXCEPT ![o] = "deleted"]
    /\ UNCHANGED <<m_paramsetMap, m_lastActive>>

\* Mutant of Victim: the swap is forgotten.
VictimOwn(k, id) == Entry(k, id).ps

\* The object storePS deletes when it replaces an entry: the entry's own, or,
\* when the id is active, the one that m_lastActiveParameterSet gives up.
Victim(k, id) == IF id \in m_activePsId[k] THEN m_lastActive[k]
                                           ELSE Entry(k, id).ps

ReplacePS(k, id, d, o) ==
    /\ Present(k, id)
    /\ ChangedBy(Entry(k, id), d)
    /\ m_lastActive' = IF id \in m_activePsId[k]
                       THEN [m_lastActive EXCEPT ![k] = Entry(k, id).ps]
                       ELSE m_lastActive
    /\ status' = [x \in Objs |-> IF x = o THEN "live"
                                 ELSE IF x = Victim(k, id) THEN "deleted"
                                 ELSE status[x]]
    /\ m_paramsetMap' = [m_paramsetMap EXCEPT
                           ![<<k, id>>] = [changed |-> TRUE, data |-> d, ps |-> o]]

AddPS(k, id, d, o) ==
    /\ ~Present(k, id)
    /\ status' = [status EXCEPT ![o] = "live"]
    /\ m_paramsetMap' = [m_paramsetMap EXCEPT
                           ![<<k, id>>] = [changed |-> FALSE, data |-> d, ps |-> o]]
    /\ UNCHANGED m_lastActive

storePS(k, id, d, o) ==
    /\ New(o)
    /\ KeepPS(k, id, d, o) \/ ReplacePS(k, id, d, o) \/ AddPS(k, id, d, o)

-----------------------------------------------------------------------------
\* DecLib::xDecodeVPS, xDecodeSPS, xDecodePPS, xDecodeAPS on a NAL unit.
DecodeParameterSet(k, id, d, o) ==
    /\ ~exited
    /\ <<k, id, d>> \in Nals
    /\ phase = "between" \/ (phase = "inPicture" /\ k = "APS")
    /\ k = "VPS" => id # InferredVps
    /\ Repeats \/ <<k, id>> \notin sent
    /\ storePS(k, id, d, o)
    /\ sent' = sent \cup {<<k, id>>}
    /\ UNCHANGED <<m_activePsId, phase, pic, listPic, suffixAps, cvsSps, exited>>

\* NAL_UNIT_SUFFIX_APS in DecLib::decode: kept until the picture is finished.
BufferSuffixAps(id, d) ==
    /\ ~exited
    /\ phase = "inPicture"
    /\ <<"APS", id, d>> \in Nals
    /\ suffixAps = <<>>
    /\ suffixAps' = Append(suffixAps, <<id, d>>)
    /\ UNCHANGED <<m_paramsetMap, m_activePsId, m_lastActive, status, phase, pic,
                   listPic, sent, cvsSps, exited>>

\* Mutant of InferredEntry: the entry is made without an object.
EmptyEntry(o) == [changed |-> TRUE, data |-> NULL, ps |-> NULL]

\* ParameterSetMap::allocatePS, when getVPS(0) finds no VPS.
InferredEntry(o) == [changed |-> TRUE, data |-> NULL, ps |-> o]

\* clearSPSChangedFlag, clearPPSChangedFlag and the loop over the ALF APSs of
\* xActivateParameterSets, with the inferred VPS that getVPS(0) allocates at o.
ActivatedMap(pps, sps, vps, o) ==
    [kx \in Kinds \X Ids |->
        IF m_paramsetMap[kx] = NULL
        THEN IF kx = <<"VPS", vps>> THEN InferredEntry(o) ELSE NULL
        ELSE IF kx \in {<<"SPS", sps>>, <<"PPS", pps>>} \cup ({"APS"} \X Ids)
             THEN [m_paramsetMap[kx] EXCEPT !.changed = FALSE]
             ELSE m_paramsetMap[kx]]

PresentAps(apsIds) == {id \in apsIds : Present("APS", id)}
ApsObjs(apsIds) == {Entry("APS", id).ps : id \in PresentAps(apsIds)}

(***************************************************************************)
(* First slice of a picture: xFlushOutput for an IDR picture (start =      *)
(* "idr"), then the first branch of xActivateParameterSets with            *)
(* ParameterSetManager::activatePPS and activateAPS, xGetNewPicBuffer      *)
(* (which may recycle pictures: keep is what stays in the list) and        *)
(* Picture::finalInit, which stores the pointers in the picture.           *)
(* Conformance: the SPS of a coded video sequence is the same throughout.  *)
(***************************************************************************)
FirstSlice(ppsId, apsIds, start, keep, o) ==
    LET spsId == SpsOf[Entry("PPS", ppsId).data]
        vpsId == VpsOf[Entry("SPS", spsId).data]
        infer == vpsId = InferredVps /\ ~Present("VPS", vpsId)
    IN
    /\ ~exited
    /\ phase = "between"
    /\ Present("PPS", ppsId) /\ Present("SPS", spsId)
    /\ vpsId = InferredVps \/ Present("VPS", vpsId)
    /\ IF infer THEN o \in Objs /\ New(o) ELSE o = NULL
    /\ start = "none" => cvsSps = <<spsId, Entry("SPS", spsId).data>>
    /\ start = "gdr" => GdrStart
    /\ keep \subseteq listPic
    /\ start = "idr" => keep = {}
    /\ Cardinality(keep) <= MaxList
    /\ m_paramsetMap' = ActivatedMap(ppsId, spsId, vpsId, o)
    /\ status' = IF infer THEN [status EXCEPT ![o] = "live"] ELSE status
    /\ m_activePsId' = [k \in Kinds |->
                          CASE k = "VPS" -> m_activePsId[k] \cup {vpsId}
                            [] k = "SPS" -> {spsId}
                            [] k = "PPS" -> {ppsId}
                            [] k = "APS" -> PresentAps(apsIds)]
    /\ pic' = [spsId |-> spsId, ppsId |-> ppsId,
               sps |-> Entry("SPS", spsId).ps,
               pps |-> Entry("PPS", ppsId).ps,
               apss |-> ApsObjs(apsIds), apsIds |-> PresentAps(apsIds)]
    /\ phase' = "inPicture"
    /\ listPic' = keep
    /\ sent' = {}
    /\ cvsSps' = <<spsId, Entry("SPS", spsId).data>>
    /\ UNCHANGED <<m_lastActive, suffixAps, exited>>

\* Mutant of ChangedInPicture: the APSs are not checked.
ChangedInPictureNoAps ==
    \/ Entry("SPS", pic.spsId).changed
    \/ Entry("PPS", pic.ppsId).changed

ChangedInPicture ==
    \/ Entry("SPS", pic.spsId).changed
    \/ Entry("PPS", pic.ppsId).changed
    \/ \E id \in Ids : Present("APS", id) /\ Entry("APS", id).changed

\* Further slice: the second branch of xActivateParameterSets.
NextSlice(apsIds) ==
    /\ ~exited
    /\ phase = "inPicture"
    /\ suffixAps = <<>>
    /\ IF ChangedInPicture
       THEN exited' = TRUE /\ UNCHANGED <<m_activePsId, pic>>
       ELSE /\ m_activePsId' = [m_activePsId EXCEPT !["APS"] = @ \cup PresentAps(apsIds)]
            /\ pic' = [pic EXCEPT !.apss = @ \cup ApsObjs(apsIds),
                                  !.apsIds = @ \cup PresentAps(apsIds)]
            /\ UNCHANGED exited
    /\ UNCHANGED <<m_paramsetMap, m_lastActive, status, phase, listPic, suffixAps,
                   sent, cvsSps>>

\* DecLib::executeLoopFilters and finishPicture up to processSuffixApsNalus.
BeginFinish ==
    /\ ~exited
    /\ phase = "inPicture"
    /\ phase' = "finishing"
    /\ UNCHANGED <<m_paramsetMap, m_activePsId, m_lastActive, status, pic, listPic,
                   suffixAps, sent, cvsSps, exited>>

\* DecLib::processSuffixApsNalus: xDecodeAPS on the front of the queue.
ProcessSuffixAps(o) ==
    /\ phase = "finishing"
    /\ suffixAps # <<>>
    /\ storePS("APS", Head(suffixAps)[1], Head(suffixAps)[2], o)
    /\ suffixAps' = Tail(suffixAps)
    /\ UNCHANGED <<m_activePsId, phase, pic, listPic, sent, cvsSps, exited>>

\* The rest of finishPicture: the picture stays in the list.
FinishPicture ==
    /\ phase = "finishing"
    /\ suffixAps = <<>>
    /\ phase' = "between"
    /\ listPic' = listPic \cup {pic}
    /\ pic' = NULL
    /\ UNCHANGED <<m_paramsetMap, m_activePsId, m_lastActive, status, suffixAps,
                   sent, cvsSps, exited>>

Next ==
    \/ \E k \in Kinds, id \in Ids, d \in Data, o \in Objs : DecodeParameterSet(k, id, d, o)
    \/ \E id \in Ids, d \in Data : BufferSuffixAps(id, d)
    \/ \E ppsId \in Ids, apsIds \in SUBSET Ids, start \in {"none", "idr", "gdr"},
          keep \in SUBSET listPic, o \in Objs \cup {NULL} : FirstSlice(ppsId, apsIds, start, keep, o)
    \/ \E apsIds \in SUBSET Ids : NextSlice(apsIds)
    \/ BeginFinish
    \/ \E o \in Objs : ProcessSuffixAps(o)
    \/ FinishPicture

Spec == Init /\ [][Next]_vars

-----------------------------------------------------------------------------
(***************************************************************************)
(* Properties.                                                             *)
(***************************************************************************)
Entries == {kx \in Kinds \X Ids : m_paramsetMap[kx] # NULL}

EntriesLive == \A kx \in Entries : status[m_paramsetMap[kx].ps] = "live"
LastLive == \A k \in Kinds : m_lastActive[k] # NULL => status[m_lastActive[k]] = "live"
EntriesDistinct ==
    \A kx, ky \in Entries : m_paramsetMap[kx].ps = m_paramsetMap[ky].ps => kx = ky
LastDistinct ==
    \A k, l \in Kinds : m_lastActive[k] # NULL /\ m_lastActive[k] = m_lastActive[l] => k = l
LastNotInMap == \A kx \in Entries, k \in Kinds : m_paramsetMap[kx].ps # m_lastActive[k]
NoLeak ==
    \A x \in Objs : status[x] = "live" =>
        \/ \E kx \in Entries : m_paramsetMap[kx].ps = x
        \/ \E k \in Kinds : m_lastActive[k] = x

\* Every object the maps own is live, each is owned once, and every live
\* object is owned: storePS never deletes an object twice, never leaves a
\* deleted one in a map and never loses one, whatever order stores,
\* repetitions, activations and the swap with m_lastActiveParameterSet take.
Ownership == /\ EntriesLive /\ LastLive
             /\ EntriesDistinct /\ LastDistinct /\ LastNotInMap
             /\ NoLeak

\* The check of a further slice is sound: when no flag is set, every pointer
\* of the picture is still the object its map holds under that id.
ChangedFlagSound ==
    pic # NULL /\ phase = "inPicture" /\ ~ChangedInPicture =>
        /\ Entry("SPS", pic.spsId).ps = pic.sps
        /\ Entry("PPS", pic.ppsId).ps = pic.pps
        /\ pic.apss = {Entry("APS", id).ps : id \in pic.apsIds}

\* The SPS of every picture in the list is live.  DecApp::decode and
\* DecApp::xWriteOutput dereference pcListPic->front()->cs->sps after every
\* NAL unit.  It holds when every coded video sequence starts with an IDR
\* picture, whose first slice empties the list, and no SPS is sent twice before
\* it: m_lastActiveParameterSet protects one replaced object, not two.
ListSpsLive == \A p \in listPic : status[p.sps] = "live"
=============================================================================
