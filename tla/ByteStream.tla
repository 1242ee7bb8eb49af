----------------------------- MODULE ByteStream -----------------------------
(***************************************************************************)
(* The byte stream of Annex B: start codes in front of NAL units           *)
(* (AnnexBwrite), and a reader that looks ahead for them (AnnexBread).     *)
(* The reader's position has two parts: the position of the file (tellg)   *)
(* and the bytes that were taken from the file to look at and are not      *)
(* consumed yet (m_NumFutureBytes, at most 4).                             *)
(***************************************************************************)
EXTENDS Naturals, SequencesExt

StartOfFile == [pos |-> 0, future |-> 0]

\* writeAnnexBNalUnit
StartCode(useLongStartCode) ==
    IF useLongStartCode THEN <<0, 0, 0, 1>> ELSE <<0, 0, 1>>

\* eofBeforeNBytes and peekBytes: the next bytes are those of a code.
StandsAt(file, i, code) ==
    /\ i + Len(code) - 1 <= Len(file)
    /\ \A k \in DOMAIN code : file[i + k - 1] = code[k]

ShortAt(file, i) == StandsAt(file, i, <<0, 0, 1>>)
LongAt(file, i) == StandsAt(file, i, <<0, 0, 0, 1>>)
EndsUnit(file, i) == \E last \in 0..2 : StandsAt(file, i, <<0, 0, last>>)

\* The first position from i on that satisfies P, or 0.
FirstFrom(file, i, P(_, _)) ==
    LET found == {k \in i..Len(file) : P(file, k)}
    IN  IF found = {} THEN 0 ELSE Min(found)

CodeAt(file, i) == ShortAt(file, i) \/ LongAt(file, i)
NonZeroAt(file, i) == file[i] # 0

\* The reader in front of byte k, which is the start code it looked for.
Before(file, k) ==
    LET future == IF ShortAt(file, k) THEN 3 ELSE 4
    IN  [pos |-> k - 1 + future, future |-> future]

EndOfFile(file) == [pos |-> Len(file), future |-> 0]

\* byteStreamNALUnit: the unit, the reader after it, and whether the file has
\* ended.  What is not zero in front of the start code is an error, of which
\* the caller sees an empty unit.
byteStreamNALUnit(file, reader) ==
    LET from  == reader.pos - reader.future + 1
        code  == FirstFrom(file, from, CodeAt)
        other == FirstFrom(file, from, NonZeroAt)
        body  == IF LongAt(file, code) THEN code + 4 ELSE code + 3
        end   == FirstFrom(file, body, EndsUnit)
        next  == FirstFrom(file, end, CodeAt)
    IN  CASE other # 0 /\ (code = 0 \/ other < code) ->
                [unit |-> <<>>, eof |-> FALSE,
                 reader |-> [pos |-> other, future |-> 0]]
          [] other = 0 ->
                [unit |-> <<>>, eof |-> TRUE, reader |-> EndOfFile(file)]
          [] OTHER ->
                [unit   |-> SubSeq(file, body,
                                   IF end = 0 THEN Len(file) ELSE end - 1),
                 eof    |-> end = 0 \/ next = 0,
                 reader |-> IF end = 0 \/ next = 0 THEN EndOfFile(file)
                            ELSE Before(file, next)]
=============================================================================
