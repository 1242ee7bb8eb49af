-------------------------- MODULE ReferencePictures --------------------------
(***************************************************************************)
(* From a slice header to reference pictures: the decoder recovers the POC *)
(* from its least significant bits (parseSliceHeader, m_prevTid0POC), the  *)
(* entries of the reference picture list from differences and LSBs, makes  *)
(* up the pictures that a random access point lacks, marks the pictures    *)
(* and fills the list (xDecodeSlice, Slice.cpp).                           *)
(*                                                                         *)
(* The decoder tunes in before any picture.  The stream (coded) knows the  *)
(* true POCs; in a coded video sequence (CVS) that the decoder enters at a *)
(* CRA or GDR picture its own POCs are lower, by offset.  Lists L0 and L1  *)
(* go through the same code one after the other; there is one here.        *)
(***************************************************************************)
EXTENDS Integers, FiniteSets, SequencesExt

CONSTANTS
    BitsForPOC,     \* SPS: log2_max_pic_order_cnt_lsb; the code has 4 to 16
    MaxPoc,         \* bound: true POCs are 0..MaxPoc
    MaxIdrPoc,      \* bound: POC of an IDR picture
    MaxPictures,    \* bound: pictures of the stream
    MaxRefs,        \* bound: entries of a reference picture list
    MaxSlices,      \* bound: slices of a picture
    MaxCoded,       \* bound: entries and slices of a picture together
    Allow           \* "inactive": entries that are not used for prediction may
                    \* be pictures that the decoder does not have

ASSUME ReferenceAssumption ==
    /\ BitsForPOC \in 1..16
    /\ {MaxPoc, MaxPictures, MaxRefs, MaxCoded} \subseteq Nat
    /\ MaxIdrPoc \in 0..(2^BitsForPOC - 1)
    /\ MaxSlices \in Nat \ {0}
    /\ Allow \subseteq {"inactive"}

VARIABLES
    coded,      \* the stream: its reference pictures and what may follow
    tunedIn,    \* the decoder receives the stream
    dropping,   \* it drops pictures of the upper temporal sublayer (-t 0)
    phase,      \* "idle", "slice" (a header arrived), "check", "decode", "failed"
    header,     \* of the picture that is decoded
    slice,      \* number of its slice
    POC, rpl,   \* of the slice, as parsed
    firstInSequence, noOutputBeforeRecovery, lastNoOutputBeforeRecovery,
    pocRandomAccess, prevTid0POC,
    pics,       \* m_cListPic
    lists,      \* the candidates that the last slice found for its entries
    offset      \* true POC of a picture minus the decoder's

decoder == <<POC, rpl, firstInSequence, noOutputBeforeRecovery,
             lastNoOutputBeforeRecovery, pocRandomAccess, prevTid0POC, pics,
             lists, offset>>
vars == <<coded, tunedIn, dropping, phase, header, slice, decoder>>

MaxPocLsb == 2^BitsForPOC
Lsb(poc) == poc % MaxPocLsb
Msb(poc) == poc - Lsb(poc)
None == MaxPoc + 1      \* MAX_INT
Always == -None         \* -MAX_INT

Kinds == {"IDR", "CRA", "GDR", "RADL", "RASL", "TRAIL"}
RandomAccess == {"CRA", "GDR"}
Anchors == {"IDR", "CRA", "GDR"}
Levels == {"base", "nonRef", "upper"}
Classes == {"main", "radl", "rasl", "old"}

\* A header gives each slice the number of entries that it uses for prediction.
Entry == [poc : 0..MaxPoc, lt : BOOLEAN, msb : BOOLEAN]
Header == [kind : Kinds, poc : 0..MaxPoc, level : Levels, rpl : Seq(Entry),
           active : Seq(Nat)]
ParsedEntry == [lt : BOOLEAN, id : Int, msb : BOOLEAN, cycle : Nat]

\* The nth picture that is made up has generated = n, a decoded one 0.
Picture == [id : 0..MaxPoc, poc : Int, longTerm : BOOLEAN,
            referenced : BOOLEAN, generated : Nat]

Coding == [dpb : SUBSET [poc : 0..MaxPoc, lt : BOOLEAN, level : Levels, class : Classes],
           near : SUBSET (0..MaxPoc), recent : SUBSET (0..MaxPoc),
           used : SUBSET (0..MaxPoc), irap : [kind : Anchors, poc : 0..MaxPoc],
           before : -1..MaxPoc,  \* POC of the anchor before irap in the CVS
           leading : BOOLEAN, count : 0..MaxPictures]

NoHeader == [kind |-> "IDR", poc |-> 0, level |-> "base", rpl |-> <<>>,
             active |-> <<0>>]

TypeOK ==
    /\ coded \in Coding
    /\ {tunedIn, dropping, firstInSequence, noOutputBeforeRecovery,
        lastNoOutputBeforeRecovery} \subseteq BOOLEAN
    /\ phase \in {"idle", "slice", "check", "decode", "failed"}
    /\ header \in Header
    /\ slice \in DOMAIN header.active
    /\ rpl \in Seq(ParsedEntry)
    /\ {POC, pocRandomAccess, prevTid0POC, offset} \subseteq Int
    /\ pics \subseteq Picture
    /\ lists \in Seq(SUBSET Picture)

Init ==
    /\ coded = [dpb |-> {}, near |-> {}, recent |-> {}, used |-> {},
                irap |-> [kind |-> "IDR", poc |-> 0], before |-> -1,
                leading |-> FALSE, count |-> 0]
    /\ tunedIn = FALSE
    /\ dropping \in BOOLEAN
    /\ phase = "idle"
    /\ header = NoHeader
    /\ slice = 1
    /\ POC = 0
    /\ rpl = <<>>
    /\ firstInSequence = TRUE
    /\ noOutputBeforeRecovery = FALSE
    /\ lastNoOutputBeforeRecovery = FALSE
    /\ pocRandomAccess = None
    /\ prevTid0POC = 0
    /\ pics = {}
    /\ lists = <<>>
    /\ offset = 0

-----------------------------------------------------------------------------
\* The stream: which picture may come next.

\* Reference pictures of class c that an active entry may name.
Usable(kind) ==
    CASE kind = "RASL" -> {"main", "rasl", "old"}
      [] kind = "RADL" -> {"main", "radl"}
      [] OTHER         -> {"main"}

\* Such a picture is in the decoder whenever this one is decoded.
Certain(kind, level, d) ==
    d.class \in Usable(kind) /\ (d.level = "upper" => level = "upper")

\* A GDR picture may start a CVS, where what its entries name is made up.  The
\* decoder can do that for POCs of the same LSB cycle.
Generable(poc, ref) == Msb(ref) = Msb(poc) /\ Lsb(ref) > 0

\* POC distance that LSBs can bridge.
Bridged(poc, from) == poc - from \in (1 - MaxPocLsb \div 2)..(MaxPocLsb \div 2)

InOrder(s, h) ==
    CASE h.kind = "TRAIL" -> h.poc > s.irap.poc
      [] h.kind = "RADL" -> s.leading /\ h.poc < s.irap.poc
      [] h.kind = "RASL" -> /\ s.leading /\ s.irap.kind = "CRA"
                            /\ s.before < h.poc /\ h.poc < s.irap.poc
      [] OTHER -> \A poc \in s.used : h.poc > poc

\* The entries that name a picture of the stream: a long-term picture remains
\* one, and is named by its LSBs alone if no recent picture shares them.
EntriesOf(s, d) ==
    {e \in [poc : {d.poc}, lt : BOOLEAN, msb : BOOLEAN] :
        /\ d.lt => e.lt
        /\ e.msb => e.lt
        /\ e.lt /\ ~e.msb => \A poc \in s.recent \ {d.poc} : Lsb(poc) # Lsb(d.poc)}

EntryAllowed(h, d, e, isActive) ==
    /\ h.kind # "IDR"
    /\ h.kind = "GDR" => Generable(h.poc, e.poc) /\ Bridged(h.poc, e.poc)
    /\ isActive => Certain(h.kind, h.level, d)
    /\ "inactive" \notin Allow =>
          /\ h.kind = "GDR" => isActive
          /\ h.kind = "CRA" => ~e.lt
          /\ Certain(h.kind, h.level, d)
    /\ h.kind \in {"TRAIL", "CRA", "GDR"} => d.class = "main"

\* Each cycle is sent as the increase over the last, which the reader expects
\* (the writer sends the number that the stored list holds).
Cycle(poc, e) == IF e.msb THEN (Msb(poc) - Msb(e.poc)) \div MaxPocLsb ELSE 0
Rising(poc, entries) ==
    LET far == {i \in DOMAIN entries : entries[i].msb} IN
    /\ \A i \in far : Cycle(poc, entries[i]) >= 0
    /\ \A i, j \in far :
          i < j => Cycle(poc, entries[i]) <= Cycle(poc, entries[j])

MayFollow(s, h) ==
    /\ s.count = 0 => h.kind = "IDR"
    /\ h.kind = "IDR" => h.poc <= MaxIdrPoc
    /\ h.kind # "IDR" =>
          /\ h.poc \notin s.used
          /\ InOrder(s, h)
          /\ \A poc \in s.near : Bridged(h.poc, poc)
    /\ h.kind \in Anchors => h.level = "base"

\* The lists of a picture: as many entries as are active in a slice, and others.
EntriesFor(s, h, isActive) ==
    UNION {{e \in EntriesOf(s, d) : EntryAllowed(h, d, e, isActive)} : d \in s.dpb}

ListsOf(s, h) ==
    LET others == EntriesFor(s, h, FALSE)
        with(a) == {[used |-> a, rpl |-> a \o o] :
                       o \in BoundedSeq(others, MaxRefs - Len(a))}
    IN {list \in UNION {with(a) : a \in BoundedSeq(EntriesFor(s, h, TRUE), MaxRefs)} :
           /\ \A i, j \in DOMAIN list.rpl : i # j => list.rpl[i].poc # list.rpl[j].poc
           /\ Rising(h.poc, list.rpl)}

\* How many entries each slice uses, none in an intra slice.  The first slice
\* of a GDR picture uses all, or the second would have to make them up.
Slices(h, list) ==
    {active \in BoundedSeq(0..Len(list.used), MaxSlices) :
        /\ Len(list.rpl) + Len(active) <= MaxCoded
        /\ \E k \in DOMAIN active : active[k] = Len(list.used)
        /\ h.kind = "CRA" => Len(list.used) = 0
        /\ h.kind = "GDR" => active[1] = Len(list.used)}

\* The headers of the pictures that may come next.
Starts(s) ==
    {h \in [kind : Kinds, poc : 0..MaxPoc, level : Levels] : MayFollow(s, h)}
HeadersFrom(h, list) ==
    {[kind |-> h.kind, poc |-> h.poc, level |-> h.level, rpl |-> list.rpl,
      active |-> active] : active \in Slices(h, list)}
Followers(s) ==
    UNION {UNION {HeadersFrom(h, list) : list \in ListsOf(s, h)} : h \in Starts(s)}

ClassOf(kind) == CASE kind = "RADL" -> "radl" [] kind = "RASL" -> "rasl"
                   [] OTHER -> "main"

\* The stream after picture h.
Coded(s, h) ==
    LET kept == {[d EXCEPT !.lt = \E i \in DOMAIN h.rpl :
                                     h.rpl[i].poc = d.poc /\ h.rpl[i].lt,
                           !.class = IF h.kind \in Anchors THEN "old" ELSE @] :
                    d \in {x \in s.dpb : \E i \in DOMAIN h.rpl : h.rpl[i].poc = x.poc}}
        self == IF h.level = "nonRef" THEN {}
                ELSE {[poc |-> h.poc, lt |-> FALSE, level |-> h.level,
                       class |-> ClassOf(h.kind)]}
        refs == {h.rpl[i].poc : i \in DOMAIN h.rpl}
        tid0 == h.level = "base" /\ h.kind \notin {"RADL", "RASL"}
    IN [dpb |-> kept \cup self,
        near |-> IF tid0 THEN {h.poc} \cup (IF h.kind = "GDR" THEN refs ELSE {})
                 ELSE s.near,
        recent |-> {h.poc} \cup (IF tid0 THEN refs ELSE s.recent),
        used |-> {h.poc} \cup (IF h.kind = "IDR" THEN {} ELSE s.used),
        irap |-> IF h.kind \in Anchors THEN [kind |-> h.kind, poc |-> h.poc] ELSE s.irap,
        before |-> CASE h.kind = "IDR" -> -1
                     [] h.kind \in RandomAccess -> s.irap.poc
                     [] OTHER -> s.before,
        leading |-> \/ h.kind \in {"IDR", "CRA"}
                    \/ s.leading /\ h.kind \in {"RADL", "RASL"},
        count |-> s.count + 1]

\* What is written of a list: differences of POCs, LSBs, differences of cycles.
LastValue(values, S, i) ==
    LET before == {j \in S : j < i}
    IN  IF before = {} THEN 0 ELSE values[Max(before)]

Syntax(h) ==
    LET short == {i \in DOMAIN h.rpl : ~h.rpl[i].lt}
        far == {i \in DOMAIN h.rpl : h.rpl[i].msb}
        deltas == [i \in DOMAIN h.rpl |-> h.rpl[i].poc - h.poc]
        cycles == [i \in DOMAIN h.rpl |-> Cycle(h.poc, h.rpl[i])]
    IN [i \in DOMAIN h.rpl |->
          [lt |-> h.rpl[i].lt,
           code |-> IF h.rpl[i].lt THEN Lsb(h.rpl[i].poc)
                    ELSE deltas[i] - LastValue(deltas, short, i),
           msb |-> h.rpl[i].msb,
           cycle |-> IF h.rpl[i].msb THEN cycles[i] - LastValue(cycles, far, i)
                     ELSE 0]]

-----------------------------------------------------------------------------
\* The decoder reads a slice header.

\* Mutant: a cycle is read as it is, not added to the one before.
ReadEntryCycle(read, x) ==
    LET delta == read.delta + x.code
    IN [entries |-> Append(read.entries,
                           [lt |-> x.lt, id |-> IF x.lt THEN x.code ELSE delta,
                            msb |-> x.msb, cycle |-> x.cycle]),
        delta |-> IF x.lt THEN read.delta ELSE delta,
        cycle |-> x.cycle]

\* parseRefPicList and the loop over delta_poc_msb_cycle_lt.
ReadEntry(read, x) ==
    LET delta == read.delta + x.code
        cycle == read.cycle + x.cycle
    IN [entries |-> Append(read.entries,
                           [lt |-> x.lt, id |-> IF x.lt THEN x.code ELSE delta,
                            msb |-> x.msb, cycle |-> cycle]),
        delta |-> IF x.lt THEN read.delta ELSE delta,
        cycle |-> cycle]

NothingRead == [entries |-> <<>>, delta |-> 0, cycle |-> 0]
ParsedRpl(h) ==
    LET syntax == Syntax(h)
        read[n \in 0..Len(h.rpl)] ==
            IF n = 0 THEN NothingRead ELSE ReadEntry(read[n - 1], syntax[n])
    IN  read[Len(h.rpl)].entries

ParsedPoc(kind, lsb) ==
    LET prevLsb == Lsb(prevTid0POC)
        msb == IF kind = "IDR" THEN 0
               ELSE IF lsb < prevLsb /\ prevLsb - lsb >= MaxPocLsb \div 2
               THEN Msb(prevTid0POC) + MaxPocLsb
               ELSE IF lsb > prevLsb /\ lsb - prevLsb > MaxPocLsb \div 2
               THEN Msb(prevTid0POC) - MaxPocLsb
               ELSE Msb(prevTid0POC)
    IN msb + lsb

\* Mutant: leading pictures count.
IsTid0Leading(h) == h.level = "base"

\* xUpdatePreviousTid0POC
IsTid0(h) == h.level = "base" /\ h.kind \notin {"RASL", "RADL"}

\* Mutant: only an IDR picture starts a CVS.
NoOutputBeforeRecoveryIdr(h) ==
    IF h.kind \in Anchors THEN h.kind = "IDR" ELSE noOutputBeforeRecovery

NoOutputBeforeRecovery(h) ==
    IF h.kind \in Anchors THEN firstInSequence \/ h.kind = "IDR"
    ELSE noOutputBeforeRecovery

LastNoOutputBeforeRecovery(h) ==
    IF h.kind \in RandomAccess THEN NoOutputBeforeRecovery(h)
    ELSE lastNoOutputBeforeRecovery

\* A CRA or GDR picture that starts a CVS loses its MSBs.
SlicePoc(h) ==
    LET poc == ParsedPoc(h.kind, Lsb(h.poc)) IN
    IF h.kind \in RandomAccess /\ LastNoOutputBeforeRecovery(h) THEN Lsb(poc) ELSE poc

\* isRandomAccessSkipPicture
PocRandomAccess(h) ==
    IF h.kind = "IDR" THEN Always
    ELSE IF pocRandomAccess = None /\ h.kind \in RandomAccess THEN SlicePoc(h)
    ELSE pocRandomAccess

Skipped(h) ==
    \/ PocRandomAccess(h) = None
    \/ /\ h.kind = "RASL"
       /\ pocRandomAccess # None
       /\ SlicePoc(h) < pocRandomAccess

\* Mutant: the slice number is not reset for the next picture.
EndSliceCounting ==
    /\ POC' = 0 /\ rpl' = <<>> /\ lists' = <<>>
    /\ slice' = slice + 1
    /\ IF slice < Len(header.active)
       THEN phase' = "slice" /\ UNCHANGED header
       ELSE phase' = "idle" /\ header' = NoHeader

\* The decoder is done with a slice, and has parsed nothing of the next.
EndSlice ==
    /\ POC' = 0 /\ rpl' = <<>> /\ lists' = <<>>
    /\ IF slice < Len(header.active)
       THEN phase' = "slice" /\ slice' = slice + 1 /\ UNCHANGED header
       ELSE phase' = "idle" /\ slice' = 1 /\ header' = NoHeader

\* xDecodeSlice up to the search for missing pictures.  Before the first slice
\* of an IDR picture the application has flushed the pictures.
ReadSlice ==
    /\ phase = "slice"
    /\ prevTid0POC' = IF IsTid0(header) THEN SlicePoc(header) ELSE prevTid0POC
    /\ noOutputBeforeRecovery' = NoOutputBeforeRecovery(header)
    /\ lastNoOutputBeforeRecovery' = LastNoOutputBeforeRecovery(header)
    /\ pocRandomAccess' = PocRandomAccess(header)
    /\ pics' = IF header.kind = "IDR" /\ slice = 1 THEN {} ELSE pics
    /\ offset' = IF header.kind = "IDR" THEN 0
                 ELSE IF header.kind \in RandomAccess /\ firstInSequence
                 THEN Msb(header.poc) ELSE offset
    /\ IF Skipped(header) THEN EndSlice
       ELSE /\ phase' = "check"
            /\ POC' = SlicePoc(header)
            /\ rpl' = ParsedRpl(header)
            /\ UNCHANGED <<header, slice, lists>>
    /\ UNCHANGED <<coded, tunedIn, dropping, firstInSequence>>

-----------------------------------------------------------------------------
\* Missing reference pictures.

ActiveEntries == SubSeq(rpl, 1, header.active[slice])

\* The POC that an entry stands for, and the pictures it may mean.
RefPoc(e) ==
    IF ~e.lt THEN POC + e.id
    ELSE IF e.msb THEN e.id + Msb(POC) - e.cycle * MaxPocLsb
    ELSE e.id
Names(e, p) == IF e.lt /\ ~e.msb THEN Lsb(p.poc) = e.id ELSE p.poc = RefPoc(e)
Named(list, e, longTerm) ==
    {p \in list : p.referenced /\ p.longTerm = longTerm /\ Names(e, p)}

\* The list is sorted by POC.
FirstOf(S) == CHOOSE p \in S : \A q \in S : p.poc <= q.poc

\* A long-term entry makes the short-term picture that it names a long-term one.
MarkLongTerm(list, e) ==
    LET short == Named(list, e, FALSE) IN
    IF ~e.lt \/ Named(list, e, TRUE) # {} \/ short = {} THEN list
    ELSE (list \ {FirstOf(short)}) \cup {[FirstOf(short) EXCEPT !.longTerm = TRUE]}

\* The entries without a picture.
Missing(list, entries) ==
    {i \in DOMAIN entries : Named(list, entries[i], entries[i].lt) = {}}

\* The long-term entries among these, one after the other.
MarkLongTerms(list, entries) ==
    LET marked[n \in 0..Len(entries)] ==
            IF n = 0 THEN list ELSE MarkLongTerm(marked[n - 1], entries[n])
    IN  marked[Len(entries)]

\* checkThatAllRefPicsAreAvailable: the pictures as it leaves them, and the POC
\* that it answers, of a long-term entry if there is one.
Checked ==
    IF header.kind = "IDR" THEN pics ELSE MarkLongTerms(pics, ActiveEntries)
MissingEntry ==
    LET missing == Missing(Checked, ActiveEntries)
        long == {i \in missing : rpl[i].lt}
    IN rpl[Min(IF long # {} THEN long ELSE missing)]
LostPoc ==
    IF header.kind = "IDR" \/ Missing(Checked, ActiveEntries) = {} THEN 0
    ELSE IF MissingEntry.lt THEN MissingEntry.id ELSE RefPoc(MissingEntry)

MayBeUnavailable == header.kind \in RandomAccess /\ noOutputBeforeRecovery

\* Mutant: the picture made up is not marked as used for reference.
MadeUpUnreferenced ==
    [id |-> LostPoc + offset, poc |-> LostPoc, longTerm |-> MissingEntry.lt,
     referenced |-> FALSE, generated |-> 1 + Max({p.generated : p \in pics} \cup {0})]

MadeUp ==
    [id |-> LostPoc + offset, poc |-> LostPoc, longTerm |-> MissingEntry.lt,
     referenced |-> TRUE, generated |-> 1 + Max({p.generated : p \in pics} \cup {0})]

\* The loop that makes up a missing picture, until none is missing: by
\* xCreateUnavailablePicture, or by xCreateLostPicture, which takes a new
\* picture, and a CHECK that it has slices ends the program.
InsertMissing ==
    /\ phase = "check"
    /\ LostPoc > 0
    /\ IF MayBeUnavailable
       THEN /\ pics' = Checked \cup {MadeUp}
            /\ prevTid0POC' = LostPoc
            /\ UNCHANGED phase
       ELSE /\ phase' = "failed"
            /\ UNCHANGED <<pics, prevTid0POC>>
    /\ UNCHANGED <<coded, tunedIn, dropping, header, slice, POC, rpl,
                   firstInSequence, noOutputBeforeRecovery,
                   lastNoOutputBeforeRecovery, pocRandomAccess, lists, offset>>

-----------------------------------------------------------------------------
\* applyReferencePictureListBasedMarking: a picture that the list does not name
\* is no reference picture any more, and a short-term entry makes it short-term.
NamedBy(p, lt) == \E i \in DOMAIN rpl : rpl[i].lt = lt /\ Names(rpl[i], p)
Remark(p) ==
    IF ~p.referenced THEN p
    ELSE IF header.kind # "IDR" /\ NamedBy(p, FALSE) THEN [p EXCEPT !.longTerm = FALSE]
    ELSE IF \/ header.kind # "IDR" /\ p.longTerm /\ NamedBy(p, TRUE)
            \/ p.poc = POC
    THEN p
    ELSE [p EXCEPT !.referenced = FALSE, !.longTerm = FALSE]
Marked(list) == {Remark(p) : p \in MarkLongTerms(list, rpl)}

CurrentPicture == [id |-> header.poc, poc |-> POC, longTerm |-> FALSE,
                   referenced |-> TRUE, generated |-> 0]

\* Before the list is constructed: the first slice marks the pictures and takes
\* a picture of its own.
Present == IF slice = 1 THEN Marked(Checked) \cup {CurrentPicture} ELSE Checked

\* xGetRefPic and xGetLongTermRefPicCandidate
Candidates(list, e) ==
    IF e.lt THEN {p \in list : p.poc # POC /\ p.referenced /\ Names(e, p)}
    ELSE {p \in list : Names(e, p)}

IsIntra == header.active[slice] = 0

\* constructRefPicList sets the marks of all the pictures that it looks up.
Constructed(list) ==
    LET of(p) == {i \in DOMAIN rpl : p \in Candidates(list, rpl[i])} IN
    IF IsIntra THEN list
    ELSE {[p EXCEPT !.longTerm = IF of(p) = {} THEN @ ELSE rpl[Max(of(p))].lt] :
             p \in list}

\* A null pointer is used: for any entry by constructRefPicList in an inter
\* slice, for a long-term entry by checkRPL in any slice.
NullPointer(list) ==
    \E i \in DOMAIN rpl :
        Candidates(list, rpl[i]) = {} /\ (rpl[i].lt \/ ~IsIntra)

\* xActivateParameterSets, constructRefPicList and checkRPL.
Activate ==
    /\ phase = "check"
    /\ LostPoc <= 0
    /\ LET present == Present
           constructed == Constructed(present)
       IN /\ pics' = constructed
          /\ lists' = [i \in DOMAIN ActiveEntries |-> Candidates(constructed, rpl[i])]
          /\ phase' = IF NullPointer(present) THEN "failed" ELSE "decode"
    /\ firstInSequence' = FALSE
    /\ UNCHANGED <<coded, tunedIn, dropping, header, slice, POC, rpl,
                   noOutputBeforeRecovery, lastNoOutputBeforeRecovery,
                   pocRandomAccess, prevTid0POC, offset>>

\* decompressSlice
DecodeSlice ==
    /\ phase = "decode"
    /\ EndSlice
    /\ UNCHANGED <<coded, tunedIn, dropping, firstInSequence,
                   noOutputBeforeRecovery, lastNoOutputBeforeRecovery,
                   pocRandomAccess, prevTid0POC, pics, offset>>

-----------------------------------------------------------------------------
\* The next picture of the stream, which the decoder may or may not receive.
Send ==
    /\ phase = "idle"
    /\ coded.count < MaxPictures
    /\ \E h \in Followers(coded) :
          /\ coded' = Coded(coded, h)
          /\ IF tunedIn /\ ~(dropping /\ h.level = "upper")
             THEN phase' = "slice" /\ header' = h
             ELSE UNCHANGED <<phase, header>>
    /\ UNCHANGED <<tunedIn, dropping, slice, decoder>>

TuneIn ==
    /\ ~tunedIn
    /\ tunedIn' = TRUE
    /\ UNCHANGED <<coded, dropping, phase, header, slice, decoder>>

Decode == ReadSlice \/ InsertMissing \/ Activate \/ DecodeSlice
Next == Send \/ TuneIn \/ Decode

Spec == Init /\ [][Next]_vars

-----------------------------------------------------------------------------
\* The POC of a slice that is decoded is the picture's, less the MSBs that the
\* CVS was entered with, whatever was discarded, skipped, dropped or made up
\* before (parseSliceHeader, m_prevTid0POC).
PocRecovered ==
    phase = "check" => POC = header.poc - offset

\* Each active entry leads to one picture: the one that the encoder used, or,
\* in the GDR picture that the decoder starts with, one made up for it; and it
\* is a long-term picture if the entry says so (constructRefPicList).
RefsResolved ==
    \A i \in DOMAIN lists :
        \E p \in lists[i] :
            /\ lists[i] = {p}
            /\ p.id = header.rpl[i].poc
            /\ p.longTerm = header.rpl[i].lt
            /\ p.referenced
            /\ p.generated > 0 => header.kind = "GDR"

\* The decoder does not give up: no reference picture counts as lost, and the
\* null pointer that stands for a missing inactive one is not used (checkRPL).
NeverGivesUp == phase # "failed"

\* Each round of the search leaves fewer entries without a picture, so that it
\* ends (the while loop of xDecodeSlice around xCreateUnavailablePicture).
Unresolved == Cardinality(Missing(Checked, ActiveEntries))
SearchAdvances ==
    [][phase = "check" /\ phase' = "check" => Unresolved' < Unresolved]_vars
=============================================================================
