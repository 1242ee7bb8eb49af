------------------------ MODULE ParameterSets_proofs ------------------------
(***************************************************************************)
(* Type correctness and ownership of parameter set objects, for any number *)
(* of ids, payloads and objects.                                           *)
(***************************************************************************)
EXTENDS ParameterSets, TLAPS

-----------------------------------------------------------------------------
\* The part of the type invariant about the maps.
MapTypeOK ==
    /\ m_paramsetMap \in [Kinds \X Ids -> MapData \cup {NULL}]
    /\ m_lastActive \in [Kinds -> Objs \cup {NULL}]
    /\ status \in [Objs -> {"fresh", "live", "deleted"}]

\* storePS keeps the maps well typed.
LEMMA StoreType ==
    ASSUME MapTypeOK,
           NEW k \in Kinds, NEW id \in Ids, NEW d \in Data, NEW o \in Objs,
           storePS(k, id, d, o)
    PROVE  MapTypeOK'
<1>1. CASE KeepPS(k, id, d, o)
  BY <1>1 DEF KeepPS, MapTypeOK
<1>2. CASE ReplacePS(k, id, d, o)
  <2>1. Entry(k, id) \in MapData
    BY <1>2 DEF ReplacePS, Present, Entry, MapTypeOK
  <2>2. [changed |-> TRUE, data |-> d, ps |-> o] \in MapData
    BY DEF MapData
  <2>3. Entry(k, id).ps \in Objs
    BY <2>1 DEF MapData
  <2> QED BY <1>2, <2>2, <2>3 DEF ReplacePS, MapTypeOK, Entry
<1>3. CASE AddPS(k, id, d, o)
  <2>1. [changed |-> FALSE, data |-> d, ps |-> o] \in MapData
    BY DEF MapData
  <2> QED BY <1>3, <2>1 DEF AddPS, MapTypeOK
<1> QED BY <1>1, <1>2, <1>3 DEF storePS

\* Ownership only looks at the objects of the entries, not at their flags.
LEMMA SameObjects ==
    ASSUME Ownership, Entries' = Entries, m_lastActive' = m_lastActive, status' = status,
           \A kx \in Entries : m_paramsetMap'[kx].ps = m_paramsetMap[kx].ps
    PROVE  Ownership'
<1>1. EntriesLive' /\ LastLive'
  BY DEF Ownership, EntriesLive, LastLive
<1>2. EntriesDistinct'
  BY DEF Ownership, EntriesDistinct
<1>3. LastDistinct' /\ LastNotInMap'
  BY DEF Ownership, LastDistinct, LastNotInMap
<1>4. NoLeak'
  BY DEF Ownership, NoLeak
<1> QED BY <1>1, <1>2, <1>3, <1>4 DEF Ownership

\* A fresh object may enter the map under a new entry.
LEMMA AddedObject ==
    ASSUME MapTypeOK, Ownership, NEW kid, NEW o \in Objs,
           kid \notin Entries, status[o] = "fresh",
           Entries' = Entries \cup {kid},
           m_paramsetMap'[kid].ps = o,
           \A kx \in Entries : m_paramsetMap'[kx].ps = m_paramsetMap[kx].ps,
           m_lastActive' = m_lastActive,
           status'[o] = "live",
           \A x \in Objs : x # o => status'[x] = status[x]
    PROVE  Ownership'
<1>1. \A kx \in Entries : m_paramsetMap[kx].ps \in Objs
  BY ConstantsAssumption DEF MapTypeOK, Entries, MapData
<1>2. /\ \A kx \in Entries : m_paramsetMap[kx].ps # o
      /\ \A l \in Kinds : m_lastActive[l] # o
  <2>1. \A l \in Kinds : m_lastActive[l] = o => m_lastActive[l] # NULL
    BY ConstantsAssumption
  <2> QED BY <2>1 DEF Ownership, EntriesLive, LastLive
<1>3. EntriesLive' /\ LastLive'
  BY <1>1, <1>2 DEF Ownership, EntriesLive, LastLive, MapTypeOK
<1>4. EntriesDistinct'
  BY <1>2 DEF Ownership, EntriesDistinct
<1>5. LastDistinct' /\ LastNotInMap'
  BY <1>2 DEF Ownership, LastDistinct, LastNotInMap
<1>6. NoLeak'
  BY DEF Ownership, NoLeak
<1> QED BY <1>3, <1>4, <1>5, <1>6 DEF Ownership

\* storePS keeps every owned object live, owned once, and loses none.
LEMMA StoreOwnership ==
    ASSUME MapTypeOK, Ownership,
           NEW k \in Kinds, NEW id \in Ids, NEW d \in Data, NEW o \in Objs,
           storePS(k, id, d, o)
    PROVE  Ownership'
<1> USE ConstantsAssumption
<1> DEFINE kid == <<k, id>>
<1>1. status[o] = "fresh"
  BY DEF storePS, New
<1>2. /\ kid \in Kinds \X Ids
      /\ \A kx \in Entries : m_paramsetMap[kx] \in MapData /\ m_paramsetMap[kx].ps \in Objs
      /\ Entries \subseteq Kinds \X Ids
  BY DEF MapTypeOK, Entries, MapData
\* The new object is owned by nothing yet.
<1>3. /\ \A kx \in Entries : m_paramsetMap[kx].ps # o
      /\ \A l \in Kinds : m_lastActive[l] # o
  BY <1>1 DEF Ownership, EntriesLive, LastLive
<1>4. CASE KeepPS(k, id, d, o)
  <2>1. /\ Entries' = Entries
        /\ m_paramsetMap' = m_paramsetMap
        /\ m_lastActive' = m_lastActive
        /\ \A x \in Objs : x # o => status'[x] = status[x]
        /\ status'[o] = "deleted"
    BY <1>4 DEF KeepPS, Entries, MapTypeOK
  <2>2. EntriesLive' /\ LastLive'
    BY <2>1, <1>2, <1>3 DEF Ownership, EntriesLive, LastLive, MapTypeOK
  <2>3. EntriesDistinct' /\ LastDistinct' /\ LastNotInMap'
    BY <2>1 DEF Ownership, EntriesDistinct, LastDistinct, LastNotInMap
  <2>4. NoLeak'
    BY <2>1 DEF Ownership, NoLeak
  <2> QED BY <2>2, <2>3, <2>4 DEF Ownership
<1>5. CASE AddPS(k, id, d, o)
  <2> DEFINE new == [changed |-> FALSE, data |-> d, ps |-> o]
  <2>0. new \in MapData
    BY DEF MapData
  <2>1. /\ kid \notin Entries
        /\ new # NULL
    BY <1>5, <2>0 DEF AddPS, Present, Entry, Entries, MapData
  <2>2. /\ Entries' = Entries \cup {kid}
        /\ m_paramsetMap'[kid].ps = o
        /\ \A kx \in Entries : m_paramsetMap'[kx] = m_paramsetMap[kx]
        /\ m_lastActive' = m_lastActive
        /\ status'[o] = "live"
        /\ \A x \in Objs : x # o => status'[x] = status[x]
    BY <1>5, <1>2, <2>1 DEF AddPS, Entries, MapTypeOK
  <2> QED BY <1>1, <2>1, <2>2, AddedObject
<1>6. CASE ReplacePS(k, id, d, o)
  <2> DEFINE new == [changed |-> TRUE, data |-> d, ps |-> o]
             old == m_paramsetMap[kid].ps
  <2>0. new \in MapData
    BY DEF MapData
  <2>1. /\ kid \in Entries
        /\ new # NULL
        /\ old \in Objs /\ old # o
    BY <1>6, <2>0, <1>2, <1>3 DEF ReplacePS, Present, Entry, Entries, MapData
  <2>2. /\ Entries' = Entries
        /\ m_paramsetMap'[kid].ps = o
        /\ \A kx \in Entries : kx # kid => m_paramsetMap'[kx] = m_paramsetMap[kx]
        /\ status'[o] = "live"
        /\ \A x \in Objs : x # o /\ x # Victim(k, id) => status'[x] = status[x]
        /\ Victim(k, id) \in Objs => status'[Victim(k, id)] # "live"
    BY <1>6, <1>2, <2>1, <1>3 DEF ReplacePS, Entry, Entries, MapTypeOK, Victim
  <2>3. CASE id \in m_activePsId[k]
    \* The entry's object takes the place of the last active one, the victim.
    <3>1. /\ Victim(k, id) = m_lastActive[k]
          /\ m_lastActive'[k] = old
          /\ \A l \in Kinds : l # k => m_lastActive'[l] = m_lastActive[l]
      BY <1>6, <2>3 DEF ReplacePS, Entry, Victim, MapTypeOK
    <3>2. EntriesLive'
      <4> SUFFICES ASSUME NEW kx \in Entries
                   PROVE  status'[m_paramsetMap'[kx].ps] = "live"
        BY <2>2 DEF EntriesLive
      <4>1. CASE kx = kid
        BY <4>1, <2>2
      <4>2. CASE kx # kid
        <5>1. /\ m_paramsetMap'[kx] = m_paramsetMap[kx]
              /\ m_paramsetMap[kx].ps \in Objs
              /\ m_paramsetMap[kx].ps # o
              /\ m_paramsetMap[kx].ps # Victim(k, id)
          BY <4>2, <2>2, <3>1, <1>2, <1>3 DEF Ownership, LastNotInMap
        <5> QED BY <5>1, <2>2 DEF Ownership, EntriesLive
      <4> QED BY <4>1, <4>2
    <3>3. LastLive'
      BY <2>1, <2>2, <3>1, <1>2, <1>3 DEF Ownership, EntriesLive, LastLive, LastDistinct,
           LastNotInMap, MapTypeOK
    <3>4. EntriesDistinct'
      BY <2>2, <1>3 DEF Ownership, EntriesDistinct
    <3>5. LastDistinct'
      BY <2>1, <3>1 DEF Ownership, LastDistinct, LastNotInMap
    <3>6. LastNotInMap'
      BY <2>1, <2>2, <3>1, <1>3 DEF Ownership, LastNotInMap, EntriesDistinct
    <3>7. NoLeak'
      BY <2>1, <2>2, <3>1 DEF Ownership, NoLeak
    <3> QED BY <3>2, <3>3, <3>4, <3>5, <3>6, <3>7 DEF Ownership
  <2>4. CASE id \notin m_activePsId[k]
    \* The entry's own object is the victim.
    <3>1. /\ Victim(k, id) = old
          /\ m_lastActive' = m_lastActive
      BY <1>6, <2>4 DEF ReplacePS, Entry, Victim
    <3>2. EntriesLive'
      BY <2>1, <2>2, <3>1, <1>2, <1>3 DEF Ownership, EntriesLive, EntriesDistinct
    <3>3. LastLive'
      BY <2>1, <2>2, <3>1, <1>3 DEF Ownership, LastLive, LastNotInMap, MapTypeOK
    <3>4. EntriesDistinct'
      BY <2>2, <1>3 DEF Ownership, EntriesDistinct
    <3>5. LastDistinct' /\ LastNotInMap'
      BY <2>2, <3>1, <1>3 DEF Ownership, LastDistinct, LastNotInMap
    <3>6. NoLeak'
      BY <2>1, <2>2, <3>1 DEF Ownership, NoLeak
    <3> QED BY <3>2, <3>3, <3>4, <3>5, <3>6 DEF Ownership
  <2> QED BY <2>3, <2>4
<1> QED BY <1>4, <1>5, <1>6 DEF storePS

-----------------------------------------------------------------------------
\* Only the inferred VPS has no NAL unit data, so the ids that a PPS and an SPS
\* refer to are always defined.
StoredData == \A kx \in Entries : kx[1] # "VPS" => m_paramsetMap[kx].data \in Data

\* A picture is current from its first slice to the end of finishPicture.
PicPresent == phase # "between" => pic # NULL

IndInv == TypeOK /\ StoredData /\ PicPresent /\ Ownership

LEMMA StoreData ==
    ASSUME MapTypeOK, StoredData,
           NEW k \in Kinds, NEW id \in Ids, NEW d \in Data, NEW o \in Objs,
           storePS(k, id, d, o)
    PROVE  StoredData'
<1>1. SUFFICES ASSUME NEW kx \in Kinds \X Ids, m_paramsetMap'[kx] # NULL, kx[1] # "VPS"
               PROVE  m_paramsetMap'[kx].data \in Data
  BY DEF StoredData, Entries
<1>2. CASE m_paramsetMap'[kx] = m_paramsetMap[kx]
  BY <1>1, <1>2 DEF StoredData, Entries
<1>3. CASE m_paramsetMap'[kx] # m_paramsetMap[kx]
  <2>1. \/ m_paramsetMap' = [m_paramsetMap EXCEPT
                              ![<<k, id>>] = [changed |-> TRUE, data |-> d, ps |-> o]]
        \/ m_paramsetMap' = [m_paramsetMap EXCEPT
                              ![<<k, id>>] = [changed |-> FALSE, data |-> d, ps |-> o]]
    BY <1>3 DEF storePS, KeepPS, ReplacePS, AddPS
  <2>2. m_paramsetMap \in [Kinds \X Ids -> MapData \cup {NULL}]
    BY DEF MapTypeOK
  <2>3. kx = <<k, id>>
    BY <1>3, <2>1, <2>2
  <2>4. m_paramsetMap'[kx].data = d
    BY <2>1, <2>2, <2>3
  <2> QED BY <2>4
<1> QED BY <1>2, <1>3

\* The first slice of a picture: ids are well typed, and the map only changes
\* by cleared flags and the inferred VPS.
LEMMA FirstSliceInv ==
    ASSUME IndInv,
           NEW ppsId \in Ids, NEW apsIds \in SUBSET Ids,
           NEW start \in {"none", "idr", "gdr"}, NEW keep \in SUBSET listPic,
           NEW o \in Objs \cup {NULL},
           FirstSlice(ppsId, apsIds, start, keep, o)
    PROVE  IndInv'
<1> USE ConstantsAssumption
<1> DEFINE spsId == SpsOf[Entry("PPS", ppsId).data]
           vpsId == VpsOf[Entry("SPS", spsId).data]
           vid   == <<"VPS", vpsId>>
           infer == vpsId = InferredVps /\ ~Present("VPS", vpsId)
           vps0  == [changed |-> TRUE, data |-> NULL, ps |-> o]
<1>1. /\ <<"PPS", ppsId>> \in Entries
      /\ Entry("PPS", ppsId) \in MapData
      /\ spsId \in Ids
  <2>1. <<"PPS", ppsId>> \in Entries
    BY DEF FirstSlice, Present, Entry, Entries, Kinds
  <2>2. Entry("PPS", ppsId) \in MapData /\ Entry("PPS", ppsId).data \in Data
    BY <2>1 DEF IndInv, TypeOK, StoredData, Entries, Entry
  <2> QED BY <2>1, <2>2
<1>2. /\ <<"SPS", spsId>> \in Entries
      /\ Entry("SPS", spsId) \in MapData
      /\ Entry("SPS", spsId).data \in Data
      /\ vpsId \in Ids
  <2>1. <<"SPS", spsId>> \in Entries
    BY <1>1 DEF FirstSlice, Present, Entry, Entries, Kinds
  <2>2. Entry("SPS", spsId) \in MapData /\ Entry("SPS", spsId).data \in Data
    BY <2>1 DEF IndInv, TypeOK, StoredData, Entries, Entry
  <2> QED BY <2>1, <2>2
<1>3. /\ m_paramsetMap' = ActivatedMap(ppsId, spsId, vpsId, o)
      /\ m_lastActive' = m_lastActive
      /\ status' = IF infer THEN [status EXCEPT ![o] = "live"] ELSE status
      /\ infer => o \in Objs /\ status[o] = "fresh"
      /\ vpsId = InferredVps \/ Present("VPS", vpsId)
  BY DEF FirstSlice, New
<1>4. vid \in Kinds \X Ids
  BY <1>2 DEF Kinds
<1>5. infer <=> m_paramsetMap[vid] = NULL
  BY <1>3 DEF Present, Entry
<1>0. \A m \in MapData : m # NULL
  BY ConstantsAssumption
<1>6. infer => vps0 \in MapData /\ vps0 # NULL
  <2> SUFFICES ASSUME infer PROVE vps0 \in MapData
    BY <1>0
  <2>1. o \in Objs
    BY <1>3
  <2> QED BY <2>1 DEF MapData
<1>7. \A kx \in Kinds \X Ids :
        \/ kx = vid /\ infer /\ m_paramsetMap'[kx] = vps0
        \/ ~(kx = vid /\ infer) /\ m_paramsetMap[kx] = NULL /\ m_paramsetMap'[kx] = NULL
        \/ /\ m_paramsetMap[kx] \in MapData
           /\ m_paramsetMap'[kx] \in MapData
           /\ m_paramsetMap'[kx].ps = m_paramsetMap[kx].ps
           /\ m_paramsetMap'[kx].data = m_paramsetMap[kx].data
  <2> SUFFICES ASSUME NEW kx \in Kinds \X Ids
               PROVE  \/ kx = vid /\ infer /\ m_paramsetMap'[kx] = vps0
                      \/ /\ ~(kx = vid /\ infer)
                         /\ m_paramsetMap[kx] = NULL /\ m_paramsetMap'[kx] = NULL
                      \/ /\ m_paramsetMap[kx] \in MapData
                         /\ m_paramsetMap'[kx] \in MapData
                         /\ m_paramsetMap'[kx].ps = m_paramsetMap[kx].ps
                         /\ m_paramsetMap'[kx].data = m_paramsetMap[kx].data
    OBVIOUS
  <2>1. CASE m_paramsetMap[kx] = NULL
    <3>1. CASE kx = vid
      BY <2>1, <3>1, <1>3, <1>5 DEF ActivatedMap, InferredEntry
    <3>2. CASE kx # vid
      BY <2>1, <3>2, <1>3 DEF ActivatedMap, InferredEntry
    <3> QED BY <3>1, <3>2
  <2>2. CASE m_paramsetMap[kx] # NULL
    <3>1. m_paramsetMap[kx] \in MapData
      BY <2>2 DEF IndInv, TypeOK
    <3>2. \/ m_paramsetMap'[kx] = m_paramsetMap[kx]
          \/ m_paramsetMap'[kx] = [m_paramsetMap[kx] EXCEPT !.changed = FALSE]
      BY <2>2, <1>3 DEF ActivatedMap, InferredEntry
    <3> QED BY <3>1, <3>2 DEF MapData
  <2> QED BY <2>1, <2>2
<1>8. m_paramsetMap' \in [Kinds \X Ids -> MapData \cup {NULL}]
  <2>1. \A kx \in Kinds \X Ids : m_paramsetMap'[kx] \in MapData \cup {NULL}
    BY <1>6, <1>7
  <2>2. m_paramsetMap' = [kx \in Kinds \X Ids |-> m_paramsetMap'[kx]]
    BY <1>3 DEF ActivatedMap, InferredEntry
  <2> QED BY <2>1, <2>2
<1>9. Entries' = IF infer THEN Entries \cup {vid} ELSE Entries
  <2> HIDE DEF infer, vid, vps0
  <2>1. \A kx \in Kinds \X Ids :
          m_paramsetMap'[kx] # NULL <=> m_paramsetMap[kx] # NULL \/ (kx = vid /\ infer)
    <3> SUFFICES ASSUME NEW kx \in Kinds \X Ids
                 PROVE  m_paramsetMap'[kx] # NULL
                          <=> m_paramsetMap[kx] # NULL \/ (kx = vid /\ infer)
      OBVIOUS
    <3> QED BY <1>0, <1>5, <1>6, <1>7
  <2> QED BY <2>1, <1>4 DEF Entries
<1>10. \A kx \in Entries : /\ m_paramsetMap'[kx].ps = m_paramsetMap[kx].ps
                           /\ m_paramsetMap'[kx].data = m_paramsetMap[kx].data
                           /\ m_paramsetMap[kx].ps \in Objs
  BY <1>5, <1>7 DEF Entries, MapData
<1>11. infer => m_paramsetMap'[vid].ps = o
  <2>1. vps0.ps = o
    OBVIOUS
  <2> HIDE DEF infer, vid, vps0
  <2>2. infer => m_paramsetMap'[vid] = vps0
    BY <1>0, <1>4, <1>5, <1>6, <1>7
  <2> QED BY <2>1, <2>2
<1>12. Ownership'
  <2>0. MapTypeOK /\ Ownership
    BY DEF IndInv, TypeOK, MapTypeOK
  <2>1. CASE ~infer
    <3>1. /\ Entries' = Entries /\ m_lastActive' = m_lastActive /\ status' = status
          /\ \A kx \in Entries : m_paramsetMap'[kx].ps = m_paramsetMap[kx].ps
      BY <2>1, <1>3, <1>9, <1>10
    <3> QED BY <2>0, <3>1, SameObjects
  <2>2. CASE infer
    <3>1. /\ Entries' = Entries \cup {vid} /\ vid \notin Entries
          /\ m_lastActive' = m_lastActive
          /\ m_paramsetMap'[vid].ps = o
          /\ o \in Objs /\ status[o] = "fresh"
      BY <2>2, <1>3, <1>5, <1>9, <1>11 DEF Entries
    <3>2. /\ status'[o] = "live"
          /\ \A x \in Objs : x # o => status'[x] = status[x]
      BY <2>2, <3>1, <1>3 DEF IndInv, TypeOK
    <3>3. \A kx \in Entries : m_paramsetMap'[kx].ps = m_paramsetMap[kx].ps
      BY <1>10
    <3> HIDE DEF vid
    <3> QED BY <2>0, <3>1, <3>2, <3>3, AddedObject
  <2> QED BY <2>1, <2>2
<1>13. StoredData'
  BY <1>9, <1>10 DEF IndInv, StoredData
<1>14. TypeOK' /\ PicPresent'
  <2>1. status' \in [Objs -> {"fresh", "live", "deleted"}]
    BY <1>3 DEF IndInv, TypeOK
  <2>2. PresentAps(apsIds) \in SUBSET Ids
    BY DEF PresentAps
  <2>3. m_activePsId' \in [Kinds -> SUBSET Ids]
    <3> DEFINE act(k) == CASE k = "VPS" -> m_activePsId[k] \cup {vpsId}
                           [] k = "SPS" -> {spsId}
                           [] k = "PPS" -> {ppsId}
                           [] k = "APS" -> PresentAps(apsIds)
    <3>1. m_activePsId' = [k \in Kinds |-> act(k)]
      BY DEF FirstSlice
    <3>2. \A k \in Kinds : act(k) \in SUBSET Ids
      BY <1>1, <1>2, <2>2 DEF IndInv, TypeOK, Kinds
    <3> QED BY <3>1, <3>2
  <2>4. ApsObjs(apsIds) \in SUBSET Objs
    <3>1. \A id \in PresentAps(apsIds) : Entry("APS", id) \in MapData
      BY DEF PresentAps, Present, Entry, IndInv, TypeOK, Kinds
    <3> QED BY <3>1 DEF ApsObjs, MapData
  <2>5. pic' \in PicPointers
    <3>1. Entry("SPS", spsId).ps \in Objs /\ Entry("PPS", ppsId).ps \in Objs
      BY <1>1, <1>2 DEF MapData
    <3>2. pic' = [spsId |-> spsId, ppsId |-> ppsId,
                  sps |-> Entry("SPS", spsId).ps, pps |-> Entry("PPS", ppsId).ps,
                  apss |-> ApsObjs(apsIds), apsIds |-> PresentAps(apsIds)]
      BY DEF FirstSlice
    <3> QED BY <3>1, <3>2, <1>1, <1>2, <2>2, <2>4 DEF PicPointers
  <2>6. cvsSps' \in Ids \X Data
    BY <1>1, <1>2 DEF FirstSlice
  <2>7. /\ phase' = "inPicture" /\ listPic' = keep /\ sent' = {}
        /\ suffixAps' = suffixAps /\ exited' = exited
    BY DEF FirstSlice
  <2> QED BY <1>8, <1>3, <2>1, <2>3, <2>5, <2>6, <2>7 DEF IndInv, TypeOK, PicPresent
<1> QED BY <1>12, <1>13, <1>14 DEF IndInv

-----------------------------------------------------------------------------
LEMMA InitInv == Init => IndInv
<1> SUFFICES ASSUME Init PROVE IndInv
  OBVIOUS
<1>1. TypeOK /\ PicPresent
  <2>1. /\ <<>> \in Seq(Ids \X Data)
        /\ [k \in Kinds |-> {}] \in [Kinds -> SUBSET Ids]
    OBVIOUS
  <2>2. PicPresent
    BY DEF Init, PicPresent
  <2> QED BY <2>1, <2>2 DEF Init, TypeOK
<1>2. Entries = {}
  BY DEF Init, Entries
<1>3. \A k \in Kinds : m_lastActive[k] = NULL
  BY DEF Init
<1>4. EntriesLive /\ LastLive /\ EntriesDistinct /\ LastDistinct /\ LastNotInMap
  BY <1>2, <1>3 DEF EntriesLive, LastLive, EntriesDistinct, LastDistinct, LastNotInMap
<1>5. NoLeak
  BY DEF Init, NoLeak
<1> QED BY <1>1, <1>2, <1>4, <1>5 DEF IndInv, StoredData, Ownership

\* A step that leaves the maps and the objects alone keeps what is said of them.
LEMMA MapUnchanged ==
    ASSUME IndInv, UNCHANGED <<m_paramsetMap, m_lastActive, status>>
    PROVE  StoredData' /\ Ownership'
BY DEF IndInv, StoredData, Ownership, EntriesLive, LastLive, EntriesDistinct,
   LastDistinct, LastNotInMap, NoLeak, Entries

LEMMA StepInv == IndInv /\ [Next]_vars => IndInv'
<1> SUFFICES ASSUME IndInv, [Next]_vars PROVE IndInv'
  OBVIOUS
<1>0. MapTypeOK
  BY DEF IndInv, TypeOK, MapTypeOK
<1>1. ASSUME NEW k \in Kinds, NEW id \in Ids, NEW d \in Data, NEW o \in Objs,
             DecodeParameterSet(k, id, d, o)
      PROVE  IndInv'
  <2>1. storePS(k, id, d, o)
    BY <1>1 DEF DecodeParameterSet
  <2>2. MapTypeOK' /\ Ownership' /\ StoredData'
    BY <1>0, <2>1, StoreType, StoreOwnership, StoreData DEF IndInv
  <2>3. TypeOK' /\ PicPresent'
    BY <1>1, <2>2 DEF DecodeParameterSet, IndInv, TypeOK, PicPresent, MapTypeOK
  <2> QED BY <2>2, <2>3 DEF IndInv
<1>2. ASSUME NEW id \in Ids, NEW d \in Data, BufferSuffixAps(id, d)
      PROVE  IndInv'
  <2>1. StoredData' /\ Ownership'
    BY <1>2, MapUnchanged DEF BufferSuffixAps
  <2>2. TypeOK' /\ PicPresent'
    BY <1>2 DEF BufferSuffixAps, IndInv, TypeOK, PicPresent
  <2> QED BY <2>1, <2>2 DEF IndInv
<1>3. ASSUME NEW ppsId \in Ids, NEW apsIds \in SUBSET Ids,
             NEW start \in {"none", "idr", "gdr"}, NEW keep \in SUBSET listPic,
             NEW o \in Objs \cup {NULL},
             FirstSlice(ppsId, apsIds, start, keep, o)
      PROVE  IndInv'
  BY <1>3, FirstSliceInv
<1>4. ASSUME NEW apsIds \in SUBSET Ids, NextSlice(apsIds)
      PROVE  IndInv'
  <2>1. StoredData' /\ Ownership'
    BY <1>4, MapUnchanged DEF NextSlice
  <2>2. /\ m_activePsId' \in [Kinds -> SUBSET Ids]
        /\ pic' \in PicPointers
        /\ exited' \in BOOLEAN
    <3>1. CASE ChangedInPicture
      BY <1>4, <3>1 DEF NextSlice, IndInv, TypeOK, PicPresent
    <3>2. CASE ~ChangedInPicture
      <4>1. PresentAps(apsIds) \in SUBSET Ids
        BY DEF PresentAps
      <4>2. ApsObjs(apsIds) \in SUBSET Objs
        <5>1. \A id \in PresentAps(apsIds) : Entry("APS", id) \in MapData
          BY DEF PresentAps, Present, Entry, IndInv, TypeOK, Kinds
        <5> QED BY <5>1 DEF ApsObjs, MapData
      <4>3. m_activePsId' \in [Kinds -> SUBSET Ids]
        BY <1>4, <3>2, <4>1 DEF NextSlice, IndInv, TypeOK, Kinds
      <4>4. pic' = [pic EXCEPT !.apss = @ \cup ApsObjs(apsIds),
                               !.apsIds = @ \cup PresentAps(apsIds)]
        BY <1>4, <3>2 DEF NextSlice
      <4>5. pic # NULL
        BY <1>4 DEF NextSlice, IndInv, PicPresent
      <4> QED BY <1>4, <3>2, <4>1, <4>2, <4>3, <4>4, <4>5 DEF NextSlice, IndInv, TypeOK, PicPointers
    <3> QED BY <3>1, <3>2
  <2>3. TypeOK' /\ PicPresent'
    <3>1. UNCHANGED <<m_paramsetMap, m_lastActive, status, phase, listPic, suffixAps,
                      sent, cvsSps>>
      BY <1>4 DEF NextSlice
    <3>2. pic' # NULL
      BY <2>2, ConstantsAssumption
    <3>3. TypeOK'
      BY <2>2, <3>1 DEF IndInv, TypeOK
    <3> QED BY <3>2, <3>3 DEF PicPresent
  <2> QED BY <2>1, <2>3 DEF IndInv
<1>5. CASE BeginFinish
  <2>1. StoredData' /\ Ownership'
    BY <1>5, MapUnchanged DEF BeginFinish
  <2>2. TypeOK' /\ PicPresent'
    BY <1>5 DEF BeginFinish, IndInv, TypeOK, PicPresent
  <2> QED BY <2>1, <2>2 DEF IndInv
<1>6. ASSUME NEW o \in Objs, ProcessSuffixAps(o)
      PROVE  IndInv'
  <2>1. /\ Head(suffixAps) \in Ids \X Data
        /\ Tail(suffixAps) \in Seq(Ids \X Data)
    BY <1>6 DEF ProcessSuffixAps, IndInv, TypeOK
  <2>2. /\ "APS" \in Kinds
        /\ Head(suffixAps)[1] \in Ids
        /\ Head(suffixAps)[2] \in Data
    BY <2>1 DEF Kinds
  <2>3. storePS("APS", Head(suffixAps)[1], Head(suffixAps)[2], o)
    BY <1>6 DEF ProcessSuffixAps
  <2>4. MapTypeOK' /\ Ownership' /\ StoredData'
    BY <1>0, <2>2, <2>3, StoreType, StoreOwnership, StoreData DEF IndInv
  <2>5. TypeOK' /\ PicPresent'
    BY <1>6, <2>1, <2>4 DEF ProcessSuffixAps, IndInv, TypeOK, PicPresent, MapTypeOK
  <2> QED BY <2>4, <2>5 DEF IndInv
<1>7. CASE FinishPicture
  <2>1. StoredData' /\ Ownership'
    BY <1>7, MapUnchanged DEF FinishPicture
  <2>2. pic # NULL
    BY <1>7 DEF FinishPicture, IndInv, PicPresent
  <2>3. TypeOK' /\ PicPresent'
    BY <1>7, <2>2 DEF FinishPicture, IndInv, TypeOK, PicPresent
  <2> QED BY <2>1, <2>3 DEF IndInv
<1>8. CASE UNCHANGED vars
  <2>1. StoredData' /\ Ownership'
    BY <1>8, MapUnchanged DEF vars
  <2>2. TypeOK' /\ PicPresent'
    BY <1>8 DEF vars, IndInv, TypeOK, PicPresent
  <2> QED BY <2>1, <2>2 DEF IndInv
<1> QED BY <1>1, <1>2, <1>3, <1>4, <1>5, <1>6, <1>7, <1>8 DEF Next

\* The invariant holds in every reachable state.
THEOREM Invariant == Spec => []IndInv
BY InitInv, StepInv, PTL DEF Spec

\* Type correctness of the parameter set managers and of the pictures' pointers.
THEOREM TypeCorrect == Spec => []TypeOK
BY Invariant, PTL DEF IndInv

\* Ownership of the parameter set objects (ParameterSetMap::storePS): for any
\* number of ids, payloads and objects nothing is deleted twice, leaked, or
\* left dangling in a map.
THEOREM OwnershipCorrect == Spec => []Ownership
BY Invariant, PTL DEF IndInv

-----------------------------------------------------------------------------
(***************************************************************************)
(* The check of a further slice.  While a picture is decoded the flags     *)
(* tell for each of its parameter sets whether its map still holds the     *)
(* object that the picture points to; of the APSs, only for all at once.   *)
(***************************************************************************)
SameSps ==
    /\ Present("SPS", pic.spsId)
    /\ ~Entry("SPS", pic.spsId).changed => Entry("SPS", pic.spsId).ps = pic.sps
SamePps ==
    /\ Present("PPS", pic.ppsId)
    /\ ~Entry("PPS", pic.ppsId).changed => Entry("PPS", pic.ppsId).ps = pic.pps
SameAps ==
    /\ \A id \in pic.apsIds : Present("APS", id)
    /\ (\A id \in pic.apsIds : ~Entry("APS", id).changed) =>
          pic.apss = {Entry("APS", id).ps : id \in pic.apsIds}

FlagsTell == phase = "inPicture" => SameSps /\ SamePps /\ SameAps

\* What storePS may do to the entry of an id.
LEMMA StoreEntry ==
    ASSUME MapTypeOK,
           NEW k \in Kinds, NEW id \in Ids, NEW d \in Data, NEW o \in Objs,
           storePS(k, id, d, o)
    PROVE  /\ \A kx \in Kinds \X Ids : kx # <<k, id>> => m_paramsetMap'[kx] = m_paramsetMap[kx]
           /\ \/ m_paramsetMap'[<<k, id>>] = m_paramsetMap[<<k, id>>]
              \/ m_paramsetMap'[<<k, id>>] = [changed |-> TRUE, data |-> d, ps |-> o]
              \/ ~Present(k, id)
<1>1. CASE KeepPS(k, id, d, o)
  BY <1>1 DEF KeepPS
<1>2. CASE ReplacePS(k, id, d, o)
  BY <1>2 DEF ReplacePS, MapTypeOK
<1>3. CASE AddPS(k, id, d, o)
  BY <1>3 DEF AddPS, MapTypeOK
<1> QED BY <1>1, <1>2, <1>3 DEF storePS

\* An APS that arrives in the picture either leaves the entries of the
\* picture's APSs alone or sets a flag.
LEMMA StoreFlags ==
    ASSUME IndInv, pic # NULL, SameSps, SamePps, SameAps,
           NEW id \in Ids, NEW d \in Data, NEW o \in Objs,
           storePS("APS", id, d, o), pic' = pic
    PROVE  SameSps' /\ SamePps' /\ SameAps'
<1> DEFINE kid == <<"APS", id>>
           new == [changed |-> TRUE, data |-> d, ps |-> o]
<1>1. /\ pic \in PicPointers
      /\ pic.spsId \in Ids /\ pic.ppsId \in Ids /\ pic.apsIds \subseteq Ids
  BY DEF IndInv, TypeOK, PicPointers
<1>2. /\ \A kx \in Kinds \X Ids : kx # kid => m_paramsetMap'[kx] = m_paramsetMap[kx]
      /\ \/ m_paramsetMap'[kid] = m_paramsetMap[kid]
         \/ m_paramsetMap'[kid] = new
         \/ ~Present("APS", id)
  <2>1. MapTypeOK /\ "APS" \in Kinds
    BY DEF IndInv, TypeOK, MapTypeOK, Kinds
  <2> QED BY <2>1, StoreEntry
<1>3. /\ m_paramsetMap'[<<"SPS", pic.spsId>>] = m_paramsetMap[<<"SPS", pic.spsId>>]
      /\ m_paramsetMap'[<<"PPS", pic.ppsId>>] = m_paramsetMap[<<"PPS", pic.ppsId>>]
  BY <1>1, <1>2 DEF Kinds
<1>4. SameSps' /\ SamePps'
  BY <1>3 DEF SameSps, SamePps, Entry, Present
<1>5. \A x \in pic.apsIds : x # id => Entry("APS", x)' = Entry("APS", x)
  BY <1>1, <1>2 DEF Entry, Kinds
<1>6. CASE id \in pic.apsIds /\ m_paramsetMap'[kid] # m_paramsetMap[kid]
  <2>1. m_paramsetMap'[kid] = new
    BY <1>2, <1>6 DEF SameAps
  <2>2. new # NULL /\ new.changed
    <3>1. new \in MapData
      BY DEF MapData
    <3> QED BY <3>1, ConstantsAssumption
  <2>3. Present("APS", id)' /\ Entry("APS", id)'.changed
    BY <2>1, <2>2 DEF Present, Entry
  <2> QED BY <1>4, <1>5, <1>6, <2>3 DEF SameAps, Present
<1>7. CASE id \notin pic.apsIds \/ m_paramsetMap'[kid] = m_paramsetMap[kid]
  <2>1. \A x \in pic.apsIds : Entry("APS", x)' = Entry("APS", x)
    BY <1>5, <1>7 DEF Entry
  <2> QED BY <1>4, <2>1 DEF SameAps, Present
<1> QED BY <1>6, <1>7
\* The first slice clears every flag that it relies on, and takes its pointers
\* from the maps.
LEMMA FirstSliceFlags ==
    ASSUME IndInv,
           NEW ppsId \in Ids, NEW apsIds \in SUBSET Ids,
           NEW start \in {"none", "idr", "gdr"}, NEW keep \in SUBSET listPic,
           NEW o \in Objs \cup {NULL},
           FirstSlice(ppsId, apsIds, start, keep, o)
    PROVE  SameSps' /\ SamePps' /\ SameAps'
<1> DEFINE spsId == SpsOf[Entry("PPS", ppsId).data]
           vpsId == VpsOf[Entry("SPS", spsId).data]
<1>1. /\ Present("PPS", ppsId) /\ Present("SPS", spsId)
      /\ m_paramsetMap' = ActivatedMap(ppsId, spsId, vpsId, o)
      /\ pic' = [spsId |-> spsId, ppsId |-> ppsId,
                 sps |-> Entry("SPS", spsId).ps, pps |-> Entry("PPS", ppsId).ps,
                 apss |-> ApsObjs(apsIds), apsIds |-> PresentAps(apsIds)]
  BY DEF FirstSlice
<1>2. spsId \in Ids
  <2>1. <<"PPS", ppsId>> \in Entries
    BY <1>1 DEF Present, Entry, Entries, Kinds
  <2>2. Entry("PPS", ppsId).data \in Data
    BY <2>1 DEF IndInv, StoredData, Entry
  <2> QED BY <2>2, ConstantsAssumption
<1> HIDE DEF spsId, vpsId
<1>3. ASSUME NEW k \in {"SPS", "PPS", "APS"}, NEW id \in Ids, Present(k, id),
             k = "SPS" => id = spsId, k = "PPS" => id = ppsId
      PROVE  Present(k, id)' /\ Entry(k, id)'.ps = Entry(k, id).ps
  <2> DEFINE kx == <<k, id>>
  <2>1. /\ kx \in Kinds \X Ids
        /\ kx \in {<<"SPS", spsId>>, <<"PPS", ppsId>>} \cup ({"APS"} \X Ids)
        /\ m_paramsetMap[kx] \in MapData /\ m_paramsetMap[kx] # NULL
    BY <1>3 DEF Kinds, Present, Entry, IndInv, TypeOK
  <2>2. m_paramsetMap'[kx] = [m_paramsetMap[kx] EXCEPT !.changed = FALSE]
    BY <1>1, <2>1 DEF ActivatedMap
  <2>3. m_paramsetMap'[kx] \in MapData /\ m_paramsetMap'[kx].ps = m_paramsetMap[kx].ps
    BY <2>1, <2>2 DEF MapData
  <2> QED BY <2>3, ConstantsAssumption DEF Present, Entry
<1>4. SameSps'
  BY <1>1, <1>2, <1>3 DEF SameSps, Present, Entry
<1>5. SamePps'
  BY <1>1, <1>3 DEF SamePps, Present, Entry
<1>6. SameAps'
  <2>1. \A id \in PresentAps(apsIds) :
            Present("APS", id)' /\ Entry("APS", id)'.ps = Entry("APS", id).ps
    BY <1>3 DEF PresentAps
  <2>2. ApsObjs(apsIds) = {Entry("APS", id)'.ps : id \in PresentAps(apsIds)}
    BY <2>1 DEF ApsObjs
  <2> QED BY <1>1, <2>1, <2>2 DEF SameAps, Present
<1> QED BY <1>4, <1>5, <1>6

\* A further slice adds APSs only when no flag is set.
LEMMA NextSliceFlags ==
    ASSUME IndInv, SameSps, SamePps, SameAps,
           NEW apsIds \in SUBSET Ids, NextSlice(apsIds)
    PROVE  SameSps' /\ SamePps' /\ SameAps'
<1>0. m_paramsetMap' = m_paramsetMap /\ pic # NULL /\ pic \in PicPointers
  BY DEF NextSlice, IndInv, PicPresent, TypeOK
<1>1. CASE ChangedInPicture
  <2>1. pic' = pic
    BY <1>1 DEF NextSlice
  <2> QED BY <1>0, <2>1 DEF SameSps, SamePps, SameAps, Entry, Present
<1>2. CASE ~ChangedInPicture
  <2>1. /\ pic'.spsId = pic.spsId /\ pic'.ppsId = pic.ppsId
        /\ pic'.sps = pic.sps /\ pic'.pps = pic.pps
        /\ pic'.apss = pic.apss \cup ApsObjs(apsIds)
        /\ pic'.apsIds = pic.apsIds \cup PresentAps(apsIds)
    <3>1. pic' = [pic EXCEPT !.apss = @ \cup ApsObjs(apsIds),
                             !.apsIds = @ \cup PresentAps(apsIds)]
      BY <1>2 DEF NextSlice
    <3> QED BY <1>0, <3>1 DEF PicPointers
  <2>2. SameSps' /\ SamePps'
    BY <1>0, <2>1 DEF SameSps, SamePps, Entry, Present
  <2>3. pic.apss = {Entry("APS", id).ps : id \in pic.apsIds}
    <3>1. \A id \in pic.apsIds : id \in Ids /\ Present("APS", id)
      BY <1>0 DEF SameAps, PicPointers
    <3> QED BY <1>2, <3>1 DEF SameAps, ChangedInPicture
  <2>4. pic'.apss = {Entry("APS", id)'.ps : id \in pic'.apsIds}
    BY <1>0, <2>1, <2>3 DEF ApsObjs, Entry
  <2>5. \A id \in pic'.apsIds : Present("APS", id)'
    BY <1>0, <2>1 DEF SameAps, PresentAps, Present, Entry
  <2> QED BY <2>2, <2>4, <2>5 DEF SameAps
<1> QED BY <1>1, <1>2

LEMMA FlagsStep == IndInv /\ FlagsTell /\ [Next]_vars => FlagsTell'
<1> SUFFICES ASSUME IndInv, FlagsTell, [Next]_vars, phase' = "inPicture"
             PROVE  SameSps' /\ SamePps' /\ SameAps'
  BY DEF FlagsTell
<1>0. phase = "inPicture" => SameSps /\ SamePps /\ SameAps /\ pic # NULL
  BY DEF FlagsTell, IndInv, PicPresent
<1>1. ASSUME NEW k \in Kinds, NEW id \in Ids, NEW d \in Data, NEW o \in Objs,
             DecodeParameterSet(k, id, d, o)
      PROVE  SameSps' /\ SamePps' /\ SameAps'
  <2>1. /\ phase = "inPicture" /\ k = "APS" /\ pic' = pic
        /\ storePS(k, id, d, o)
    BY <1>1 DEF DecodeParameterSet
  <2> QED BY <1>0, <2>1, StoreFlags
<1>2. ASSUME NEW ppsId \in Ids, NEW apsIds \in SUBSET Ids,
             NEW start \in {"none", "idr", "gdr"}, NEW keep \in SUBSET listPic,
             NEW o \in Objs \cup {NULL},
             FirstSlice(ppsId, apsIds, start, keep, o)
      PROVE  SameSps' /\ SamePps' /\ SameAps'
  BY <1>2, FirstSliceFlags
<1>3. ASSUME NEW apsIds \in SUBSET Ids, NextSlice(apsIds)
      PROVE  SameSps' /\ SamePps' /\ SameAps'
  <2>1. phase = "inPicture"
    BY <1>3 DEF NextSlice
  <2> QED BY <1>0, <1>3, <2>1, NextSliceFlags
<1>4. CASE \/ \E id \in Ids, d \in Data : BufferSuffixAps(id, d)
           \/ UNCHANGED vars
  <2>1. UNCHANGED <<m_paramsetMap, pic>> /\ phase = "inPicture"
    BY <1>4 DEF BufferSuffixAps, vars
  <2> QED BY <1>0, <2>1 DEF SameSps, SamePps, SameAps, Entry, Present
<1>5. CASE BeginFinish \/ FinishPicture \/ \E o \in Objs : ProcessSuffixAps(o)
  BY <1>5 DEF BeginFinish, FinishPicture, ProcessSuffixAps
<1> QED BY <1>1, <1>2, <1>3, <1>4, <1>5 DEF Next

\* The check of a further slice is sound, for any number of ids, payloads and
\* objects, and for every order in which APSs, prefix and suffix, arrive
\* between the slices (xActivateParameterSets, second branch).
THEOREM ChangedFlagCorrect == Spec => []ChangedFlagSound
<1>1. Init => FlagsTell
  BY DEF Init, FlagsTell
<1>2. IndInv /\ FlagsTell => ChangedFlagSound
  <2> SUFFICES ASSUME IndInv, SameSps, SamePps, SameAps, pic # NULL, ~ChangedInPicture
               PROVE  /\ Entry("SPS", pic.spsId).ps = pic.sps
                      /\ Entry("PPS", pic.ppsId).ps = pic.pps
                      /\ pic.apss = {Entry("APS", id).ps : id \in pic.apsIds}
    BY DEF FlagsTell, ChangedFlagSound
  <2>1. \A id \in pic.apsIds : id \in Ids /\ Present("APS", id)
    BY DEF IndInv, TypeOK, PicPointers, SameAps
  <2> QED BY <2>1 DEF SameSps, SamePps, SameAps, ChangedInPicture
<1> QED BY <1>1, <1>2, FlagsStep, Invariant, PTL DEF Spec
-----------------------------------------------------------------------------
(***************************************************************************)
(* The SPS of the pictures in the list.  All of them are of one coded      *)
(* video sequence, with one SPS object.  The map holds it, unchanged, or   *)
(* another payload replaced it, and m_lastActiveParameterSet holds it for  *)
(* as long as the SPS is not replaced again.                               *)
(***************************************************************************)
HeldSps(x) ==
    LET id == cvsSps[1]
        sps == Entry("SPS", id)
    IN  /\ cvsSps \in Ids \X Data
        /\ m_activePsId["SPS"] = {id}
        /\ Present("SPS", id)
        /\ \/ ~sps.changed /\ sps.data = cvsSps[2] /\ sps.ps = x
           \/ /\ <<"SPS", id>> \in sent
              /\ sps.data # cvsSps[2]
              /\ m_lastActive["SPS"] = x

ListHeld == \A p \in listPic : HeldSps(p.sps)
PicHeld == phase # "between" => HeldSps(pic.sps)

LEMMA HeldLive ==
    ASSUME IndInv, NEW x \in Objs, HeldSps(x)
    PROVE  status[x] = "live"
<1> DEFINE kid == <<"SPS", cvsSps[1]>>
<1>1. kid \in Entries /\ "SPS" \in Kinds
  BY DEF HeldSps, Entries, Present, Entry, Kinds
<1>2. CASE m_paramsetMap[kid].ps = x
  BY <1>1, <1>2 DEF IndInv, Ownership, EntriesLive
<1>3. CASE m_lastActive["SPS"] = x
  BY <1>1, <1>3, ConstantsAssumption DEF IndInv, Ownership, LastLive
<1> QED BY <1>2, <1>3 DEF HeldSps, Entry

\* A parameter set that arrives for the first time since the last first slice.
LEMMA StoreHeld ==
    ASSUME IndInv, NEW x, HeldSps(x),
           NEW k \in Kinds, NEW id \in Ids, NEW d \in Data, NEW o \in Objs,
           storePS(k, id, d, o), k = "SPS" => <<k, id>> \notin sent,
           k = "SPS" => sent' = sent \cup {<<k, id>>}, k # "SPS" => sent \subseteq sent',
           UNCHANGED <<m_activePsId, cvsSps>>
    PROVE  HeldSps(x)'
<1> DEFINE cid == cvsSps[1]
           kid == <<"SPS", cid>>
<1>0. /\ MapTypeOK
      /\ kid \in Kinds \X Ids /\ cid \in Ids /\ "SPS" \in Kinds
      /\ m_paramsetMap[kid] # NULL
      /\ m_paramsetMap[kid] \in MapData
      /\ cvsSps' = cvsSps
  BY DEF IndInv, TypeOK, MapTypeOK, HeldSps, Kinds, Present, Entry
<1>1. /\ \A kx \in Kinds \X Ids : kx # <<k, id>> => m_paramsetMap'[kx] = m_paramsetMap[kx]
      /\ \/ m_paramsetMap'[<<k, id>>] = m_paramsetMap[<<k, id>>]
         \/ m_paramsetMap'[<<k, id>>] = [changed |-> TRUE, data |-> d, ps |-> o]
         \/ ~Present(k, id)
  BY <1>0, StoreEntry
\* The object given up last is that of another id only if that id is active.
<1>2. CASE <<k, id>> # kid
  <2>1. m_paramsetMap'[kid] = m_paramsetMap[kid]
    BY <1>0, <1>1, <1>2
  <2>2. m_lastActive'["SPS"] = m_lastActive["SPS"]
    <3>1. k = "SPS" => id \notin m_activePsId[k]
      BY <1>2 DEF HeldSps
    <3>2. m_lastActive \in [Kinds -> Objs \cup {NULL}]
      BY <1>0 DEF MapTypeOK
    <3> QED BY <1>0, <3>1, <3>2 DEF storePS, KeepPS, ReplacePS, AddPS
  <2> QED BY <1>0, <2>1, <2>2 DEF HeldSps, Entry, Present
<1>3. CASE <<k, id>> = kid
  <2>1. k = "SPS" /\ id = cid /\ kid \notin sent /\ kid \in sent'
    BY <1>3
  <2>2. /\ ~Entry("SPS", cid).changed
        /\ Entry("SPS", cid).data = cvsSps[2]
        /\ Entry("SPS", cid).ps = x
    BY <2>1 DEF HeldSps
  <2>3. CASE KeepPS(k, id, d, o)
    <3>1. m_paramsetMap' = m_paramsetMap
      BY <2>3 DEF KeepPS
    <3> QED BY <1>0, <2>2, <3>1 DEF HeldSps, Entry, Present
  <2>4. CASE ReplacePS(k, id, d, o)
    <3> DEFINE new == [changed |-> TRUE, data |-> d, ps |-> o]
    <3>1. /\ m_lastActive'["SPS"] = x
          /\ m_paramsetMap'[kid] = new
          /\ d # cvsSps[2]
      BY <1>0, <2>1, <2>2, <2>4 DEF ReplacePS, HeldSps, Entry, MapTypeOK, ChangedBy
    <3>2. new # NULL
      <4>1. new \in MapData
        BY DEF MapData
      <4> QED BY <4>1, ConstantsAssumption
    <3> QED BY <1>0, <2>1, <3>1, <3>2 DEF HeldSps, Entry, Present
  <2>5. ~AddPS(k, id, d, o)
    BY <1>0, <2>1 DEF AddPS, Present, Entry
  <2> QED BY <2>3, <2>4, <2>5 DEF storePS
<1> QED BY <1>2, <1>3

\* The first slice of the next picture of the sequence finds the map's object
\* unchanged; that of an IDR picture leaves no picture in the list.
LEMMA FirstSliceHeld ==
    ASSUME IndInv, ListHeld, GdrStart = FALSE,
           NEW ppsId \in Ids, NEW apsIds \in SUBSET Ids,
           NEW start \in {"none", "idr", "gdr"}, NEW keep \in SUBSET listPic,
           NEW o \in Objs \cup {NULL},
           FirstSlice(ppsId, apsIds, start, keep, o)
    PROVE  ListHeld' /\ PicHeld'
<1> DEFINE spsId == SpsOf[Entry("PPS", ppsId).data]
           vpsId == VpsOf[Entry("SPS", spsId).data]
           kid == <<"SPS", spsId>>
<1>1. /\ Present("PPS", ppsId) /\ Present("SPS", spsId)
      /\ m_paramsetMap' = ActivatedMap(ppsId, spsId, vpsId, o)
      /\ pic'.sps = Entry("SPS", spsId).ps
      /\ cvsSps' = <<spsId, Entry("SPS", spsId).data>>
      /\ start = "none" => cvsSps = cvsSps'
      /\ start = "idr" => keep = {}
      /\ start # "gdr"
      /\ listPic' = keep
  BY DEF FirstSlice
<1>2. m_activePsId'["SPS"] = {spsId}
  <2> DEFINE act(k) == CASE k = "VPS" -> m_activePsId[k] \cup {vpsId}
                         [] k = "SPS" -> {spsId}
                         [] k = "PPS" -> {ppsId}
                         [] k = "APS" -> PresentAps(apsIds)
  <2>1. m_activePsId' = [k \in Kinds |-> act(k)] /\ "SPS" \in Kinds
    BY DEF FirstSlice, Kinds
  <2>2. act("SPS") = {spsId}
    OBVIOUS
  <2> QED BY <2>1, <2>2
<1>3. spsId \in Ids /\ Entry("SPS", spsId).data \in Data
  <2>1. <<"PPS", ppsId>> \in Entries
    BY <1>1 DEF Present, Entry, Entries, Kinds
  <2>2. spsId \in Ids
    BY <2>1, ConstantsAssumption DEF IndInv, StoredData, Entry
  <2>3. kid \in Entries
    BY <1>1, <2>2 DEF Present, Entry, Entries, Kinds
  <2> QED BY <2>2, <2>3 DEF IndInv, StoredData, Entry
<1> HIDE DEF spsId, vpsId
<1>4. /\ m_paramsetMap'[kid] # NULL
      /\ m_paramsetMap'[kid].changed = FALSE
      /\ m_paramsetMap'[kid].data = m_paramsetMap[kid].data
      /\ m_paramsetMap'[kid].ps = m_paramsetMap[kid].ps
  <2>1. kid \in Kinds \X Ids /\ m_paramsetMap[kid] \in MapData /\ m_paramsetMap[kid] # NULL
    BY <1>1, <1>3 DEF Kinds, Present, Entry, IndInv, TypeOK
  <2>2. m_paramsetMap'[kid] = [m_paramsetMap[kid] EXCEPT !.changed = FALSE]
    BY <1>1, <2>1 DEF ActivatedMap
  <2>3. m_paramsetMap'[kid] \in MapData
    BY <2>1, <2>2 DEF MapData
  <2> QED BY <2>1, <2>2, <2>3, ConstantsAssumption DEF MapData
<1>5. ASSUME NEW CONSTANT x, m_paramsetMap[kid].ps = x PROVE HeldSps(x)'
  BY <1>1, <1>2, <1>3, <1>4, <1>5 DEF HeldSps, Entry, Present
<1>6. PicHeld'
  <2>1. PICK x : x = m_paramsetMap[kid].ps
    OBVIOUS
  <2>2. HeldSps(x)' /\ pic'.sps = x
    BY <1>1, <1>5, <2>1 DEF Entry
  <2> QED BY <2>2 DEF PicHeld, HeldSps
<1>7. ASSUME NEW p \in keep PROVE HeldSps(p.sps)'
  <2>1. start = "none" /\ cvsSps = cvsSps' /\ p \in listPic
    BY <1>1, <1>7
  <2>2. HeldSps(p.sps) /\ cvsSps[1] = spsId /\ cvsSps[2] = m_paramsetMap[kid].data
    BY <1>1, <2>1 DEF ListHeld, Entry
  <2>3. m_paramsetMap[kid].ps = p.sps
    BY <2>2 DEF HeldSps, Entry
  <2> QED BY <1>5, <2>3
<1> QED BY <1>1, <1>6, <1>7 DEF ListHeld, HeldSps

LEMMA HeldStep ==
    ASSUME GdrStart = FALSE, Repeats = FALSE,
           IndInv, ListHeld, PicHeld, [Next]_vars
    PROVE  ListHeld' /\ PicHeld'
<1>1. ASSUME NEW k \in Kinds, NEW id \in Ids, NEW d \in Data, NEW o \in Objs,
             DecodeParameterSet(k, id, d, o)
      PROVE  ListHeld' /\ PicHeld'
  <2>1. /\ storePS(k, id, d, o)
        /\ <<k, id>> \notin sent /\ sent' = sent \cup {<<k, id>>}
        /\ UNCHANGED <<m_activePsId, cvsSps, phase, pic, listPic>>
    BY <1>1 DEF DecodeParameterSet
  <2>2. ASSUME NEW x, HeldSps(x) PROVE HeldSps(x)'
    BY <2>1, <2>2, StoreHeld
  <2> QED BY <2>1, <2>2 DEF ListHeld, PicHeld
<1>2. ASSUME NEW ppsId \in Ids, NEW apsIds \in SUBSET Ids,
             NEW start \in {"none", "idr", "gdr"}, NEW keep \in SUBSET listPic,
             NEW o \in Objs \cup {NULL},
             FirstSlice(ppsId, apsIds, start, keep, o)
      PROVE  ListHeld' /\ PicHeld'
  BY <1>2, FirstSliceHeld
<1>3. ASSUME NEW o \in Objs, ProcessSuffixAps(o)
      PROVE  ListHeld' /\ PicHeld'
  <2>1. /\ storePS("APS", Head(suffixAps)[1], Head(suffixAps)[2], o)
        /\ UNCHANGED <<m_activePsId, cvsSps, phase, pic, listPic, sent>>
    BY <1>3 DEF ProcessSuffixAps
  <2>2. Head(suffixAps)[1] \in Ids /\ Head(suffixAps)[2] \in Data /\ "APS" \in Kinds
    <3>1. Head(suffixAps) \in Ids \X Data
      BY <1>3 DEF ProcessSuffixAps, IndInv, TypeOK
    <3> QED BY <3>1 DEF Kinds
  <2>3. ASSUME NEW x, HeldSps(x) PROVE HeldSps(x)'
    BY <2>1, <2>2, <2>3, StoreHeld
  <2> QED BY <2>1, <2>3 DEF ListHeld, PicHeld
<1>4. ASSUME UNCHANGED <<m_paramsetMap, m_lastActive, m_activePsId, cvsSps, sent>>
      PROVE  \A x : HeldSps(x) => HeldSps(x)'
  BY <1>4 DEF HeldSps, Entry, Present
<1>5. ASSUME NEW apsIds \in SUBSET Ids, NextSlice(apsIds)
      PROVE  ListHeld' /\ PicHeld'
  <2>1. /\ UNCHANGED <<m_paramsetMap, m_lastActive, cvsSps, sent, phase, listPic>>
        /\ m_activePsId'["SPS"] = m_activePsId["SPS"]
        /\ phase = "inPicture"
    BY <1>5 DEF NextSlice, IndInv, TypeOK, Kinds
  <2>2. \A x : HeldSps(x) => HeldSps(x)'
    BY <2>1 DEF HeldSps, Entry, Present
  <2>3. pic'.sps = pic.sps
    <3>1. pic \in PicPointers
      BY <2>1 DEF IndInv, PicPresent, TypeOK
    <3>2. CASE ChangedInPicture
      BY <1>5, <3>2 DEF NextSlice
    <3>3. CASE ~ChangedInPicture
      <4>1. pic' = [pic EXCEPT !.apss = @ \cup ApsObjs(apsIds),
                               !.apsIds = @ \cup PresentAps(apsIds)]
        BY <1>5, <3>3 DEF NextSlice
      <4> QED BY <3>1, <4>1 DEF PicPointers
    <3> QED BY <3>2, <3>3
  <2> QED BY <2>1, <2>2, <2>3 DEF ListHeld, PicHeld
<1>6. CASE (\E id \in Ids, d \in Data : BufferSuffixAps(id, d)) \/ BeginFinish \/ UNCHANGED vars
  <2>1. /\ UNCHANGED <<m_paramsetMap, m_lastActive, m_activePsId, cvsSps, sent, pic, listPic>>
        /\ phase' # "between" => phase # "between"
    BY <1>6 DEF BufferSuffixAps, BeginFinish, vars
  <2> QED BY <1>4, <2>1 DEF ListHeld, PicHeld
<1>7. CASE FinishPicture
  <2>1. /\ UNCHANGED <<m_paramsetMap, m_lastActive, m_activePsId, cvsSps, sent>>
        /\ listPic' = listPic \cup {pic} /\ phase = "finishing" /\ phase' = "between"
    BY <1>7 DEF FinishPicture
  <2> QED BY <1>4, <2>1 DEF ListHeld, PicHeld
<1> QED BY <1>1, <1>2, <1>3, <1>5, <1>6, <1>7 DEF Next

\* The SPS of every picture in the list is live, for any number of ids, payloads
\* and objects, in streams whose coded video sequences start with IDR pictures
\* and that send a parameter set once before a picture: m_lastActiveParameterSet
\* protects the one replaced object that the pictures may still point to
\* (storePS; DecApp::decode dereferences pcListPic->front()->cs->sps).
THEOREM ListSpsCorrect ==
    ASSUME GdrStart = FALSE, Repeats = FALSE
    PROVE  Spec => []ListSpsLive
<1> DEFINE Held == ListHeld /\ PicHeld
<1>1. Init => Held
  BY DEF Init, ListHeld, PicHeld
<1>2. IndInv /\ Held /\ [Next]_vars => Held'
  BY HeldStep
<1>3. IndInv /\ Held => ListSpsLive
  BY HeldLive DEF IndInv, TypeOK, PicPointers, ListHeld, ListSpsLive
<1> HIDE DEF Held
<1> QED BY <1>1, <1>2, <1>3, Invariant, PTL DEF Spec
=============================================================================
