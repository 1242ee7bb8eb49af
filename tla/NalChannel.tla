----------------------------- MODULE NalChannel -----------------------------
(***************************************************************************)
(* From the units of the encoder to those of the decoder: the encoder      *)
(* writes NAL units to a file; the decoder reads them, and before a unit   *)
(* it looks ahead in the file whether a new picture and a new access unit  *)
(* begin there, and then goes back (isNewPicture, isNewAccessUnit).        *)
(* The streams have one layer, where every picture is an access unit.      *)
(***************************************************************************)
EXTENDS NalUnits, ByteStream

CONSTANTS
    Units,      \* units: [type, syntax, subs, zeroWords]
    MaxUnits    \* bound: units of a file

\* The encoder writes no end of bitstream (the tools that merge files do).
ASSUME NalAssumption ==
    /\ MaxUnits \in Nat
    /\ \A u \in Units :
          /\ u.type \in 0..31 \ {EOB} /\ u.zeroWords \in Nat
          /\ u.syntax \in Seq(0..255)
          /\ u.subs \in Seq(Seq(0..255))

\* Syntax and substreams end in a stop bit (xWriteRbspTrailingBits, writeByteAlignment);
\* slices, and no other units, have a header, substreams and cabac_zero_words.
ASSUME StopBitsAssumption ==
    \A u \in Units :
       /\ u.syntax # <<>> => Last(u.syntax) # 0
       /\ \A i \in DOMAIN u.subs : u.subs[i] # <<>> => Last(u.subs[i]) # 0
       /\ IF u.type \in VclTypes THEN u.syntax # <<>> /\ u.subs # <<>>
          ELSE u.subs = <<>> /\ u.zeroWords = 0

VARIABLES
    file,               \* bytes
    starts,             \* where each unit's start code is
    sent, received,     \* contents of the units written and read
    offsets,            \* entry points in the syntax of each unit
    picture,            \* number of the picture being written
    written,            \* what has been written of it last
    pictures,           \* picture of each unit
    mode,               \* "write", or what the decoder does next
    reader, eof,        \* InputByteStream and the state of the file
    firstSliceInPicture, decodedSliceInAU,
    finished            \* pictures finished

vars == <<file, starts, sent, received, offsets, picture, written, pictures, mode,
          reader, eof, firstSliceInPicture, decodedSliceInAU, finished>>
writer == <<file, starts, sent, offsets, picture, written, pictures>>
decoder == <<received, reader, eof, firstSliceInPicture, decodedSliceInAU,
             finished>>

Init ==
    /\ file = <<>> /\ starts = <<>> /\ sent = <<>> /\ received = <<>>
    /\ picture = 0 /\ written = "end" /\ pictures = <<>> /\ offsets = <<>>
    /\ mode = "write"
    /\ reader = StartOfFile /\ eof = FALSE
    /\ firstSliceInPicture = TRUE /\ decodedSliceInAU = FALSE
    /\ finished = 0

-----------------------------------------------------------------------------
\* The first bit of a slice: sh_picture_header_in_slice_header_flag.
PictureHeaderInSliceHeader(u) == u.syntax[1] >= 128

\* The part of a picture that a unit belongs to.
Part(u) ==
    CASE u.type \in VclTypes ->
            IF PictureHeaderInSliceHeader(u) THEN "picture" ELSE "slice"
      [] u.type = PH -> "header"
      [] u.type \in {18, 24, 25} -> "suffix"
      [] u.type = EOS -> "end"
      [] OTHER -> "prefix"

\* What may follow what: a picture is its prefix units, a slice that holds the
\* picture header or a header and slices, suffix units, and perhaps an EOS.
MayFollow(part) ==
    CASE part = "slice"  -> {"header", "slice"}
      [] part = "suffix" -> {"slice", "picture", "suffix"}
      [] part = "end"    -> {"slice", "picture", "suffix"}
      [] OTHER           -> {"prefix", "slice", "picture", "suffix", "end"}

StartsPicture(u) ==
    Part(u) \in {"prefix", "header", "picture"} /\ written # "prefix"

\* writeAnnexBAccessUnit, one unit.
Write(u) ==
    /\ mode = "write"
    /\ Len(sent) < MaxUnits
    /\ written \in MayFollow(Part(u))
    /\ LET starting == StartsPicture(u)
           long == starting \/ u.type \in ParameterSetTypes
       IN  /\ file' = file \o StartCode(long) \o Written(u)
           /\ starts' = Append(starts, Len(file) + (IF long THEN 2 ELSE 1))
           /\ picture' = IF starting THEN picture + 1 ELSE picture
    /\ pictures' = Append(pictures, picture')
    /\ written' = Part(u)
    /\ sent' = Append(sent, Content(u))
    /\ offsets' = Append(offsets, EntryPoints(u))
    /\ UNCHANGED <<mode, decoder>>

\* The file ends after any unit.
CloseFile ==
    /\ mode = "write" /\ sent # <<>>
    /\ mode' = "look"
    /\ UNCHANGED <<writer, decoder>>

-----------------------------------------------------------------------------
\* The unit that tells whether a picture starts, found by reading on.
Tells(type) == type \notin {17, 23, 26, 27, 28, 29, 30, 31}

\* Mutant: a picture header does not start a picture.
StartsNewPictureNoHeader(nalu) ==
    \/ nalu.type \in {20, 12, 13, 14, 15, 16}
    \/ nalu.type \in VclTypes /\ nalu.rbsp[3] >= 128

StartsNewPicture(nalu) ==
    \/ nalu.type \in {20, 12, 13, 14, 15, 16, PH}
    \/ nalu.type \in VclTypes /\ nalu.rbsp[3] >= 128

\* The answer of a look-ahead from a reader, for units that are Decisive.
LookAhead(from, Decisive(_), Answer(_)) ==
    LET ahead[n \in 0..MaxUnits] ==
            IF n = 0 THEN [reader |-> from, eof |-> FALSE, answer |-> FALSE,
                           done |-> FALSE]
            ELSE LET last == ahead[n - 1]
                     got  == byteStreamNALUnit(file, last.reader)
                     nalu == read(got.unit)
                 IN  IF last.done \/ last.eof THEN last
                     ELSE [reader |-> got.reader, eof |-> got.eof,
                           done   |-> got.unit # <<>> /\ Decisive(nalu.type),
                           answer |-> /\ got.unit # <<>>
                                      /\ Decisive(nalu.type)
                                      /\ Answer(nalu)]
    IN  ahead[MaxUnits].answer

\* Mutant: the bytes that the reader had taken are lost.
RestoredPlain(r) == [pos |-> r.pos, future |-> 0]

\* Back to where the look-ahead started: the three bytes that the reader had
\* taken to see the start code are read again.
Restored(r) == [pos |-> r.pos - 3, future |-> 0]

IsNewPicture ==
    /\ mode = "look" /\ ~eof
    /\ IF firstSliceInPicture
       THEN mode' = "read" /\ UNCHANGED reader
       ELSE /\ mode' = IF LookAhead(reader, Tells, StartsNewPicture)
                       THEN IF decodedSliceInAU THEN "access unit" ELSE "finish"
                       ELSE "read"
            /\ reader' = Restored(reader)
    /\ UNCHANGED <<writer, received, eof, firstSliceInPicture,
                   decodedSliceInAU, finished>>

\* isNewAccessUnit: a slice of a layer that is not above the last one.
TellsAccessUnit(type) == type \in SliceTypes \cup {20, EOS, EOB, 18, 24, 25}
StartsNewAccessUnit(nalu) == nalu.type \in SliceTypes \cup {20}
RestoredExactly(r) == [r EXCEPT !.future = 0]

IsNewAccessUnit ==
    /\ mode = "access unit"
    /\ decodedSliceInAU' =
            ~LookAhead(reader, TellsAccessUnit, StartsNewAccessUnit)
    /\ reader' = RestoredExactly(reader)
    /\ mode' = "finish"
    /\ UNCHANGED <<writer, received, eof, firstSliceInPicture, finished>>

\* The block of DecApp::decode for a new picture; after an EOS the picture is
\* finished already.
FinishPicture ==
    /\ mode = "finish"
    /\ firstSliceInPicture' = TRUE
    /\ finished' = IF received[Len(received)].type = EOS THEN finished
                   ELSE finished + 1
    /\ mode' = "look"
    /\ UNCHANGED <<writer, received, reader, eof, decodedSliceInAU>>

\* The decoder reads a unit and decodes it.  An EOS finishes the picture; the
\* output after it clears the flag.  A CHECK that fails ends the program.
ReadUnit ==
    /\ mode = "read"
    /\ LET got  == byteStreamNALUnit(file, reader)
           nalu == read(got.unit)
           k    == Len(received) + 1
       IN  /\ reader' = got.reader /\ eof' = got.eof
           /\ CASE got.unit = <<>> ->
                    /\ mode' = "look"
                    /\ UNCHANGED <<received, firstSliceInPicture,
                                   decodedSliceInAU, finished>>
                [] got.unit # <<>> /\ ~(nalu.sound /\ k <= Len(sent)) ->
                    /\ mode' = "failed"
                    /\ UNCHANGED <<received, firstSliceInPicture,
                                   decodedSliceInAU, finished>>
                [] OTHER ->
                    /\ mode' = "look"
                    /\ received' = Append(received,
                            Parsed(nalu, Len(sent[k].syntax), offsets[k]))
                    /\ firstSliceInPicture' =
                            (/\ firstSliceInPicture
                             /\ nalu.type \notin VclTypes \cup {EOS})
                    /\ decodedSliceInAU' =
                            (decodedSliceInAU \/ nalu.type \in VclTypes)
                    /\ finished' = IF nalu.type = EOS THEN finished + 1
                                   ELSE finished
    /\ UNCHANGED writer

Encoder == (\E u \in Units : Write(u)) \/ CloseFile
Decoder == IsNewPicture \/ IsNewAccessUnit \/ FinishPicture \/ ReadUnit
Next == Encoder \/ Decoder

\* The encoder's input is finite, and the decoder is a loop that only the end
\* of the file or a failed CHECK ends: every turn of it sets mode.
Modes == {"write", "look", "access unit", "finish", "read", "failed"}
Running ==
    \/ mode = "look" /\ ~eof
    \/ mode \in {"access unit", "finish", "read"}
DecoderTurn == Running /\ mode' \in Modes
Fairness == WF_vars(CloseFile) /\ WF_mode(DecoderTurn)

Spec == Init /\ [][Next]_vars /\ Fairness

-----------------------------------------------------------------------------
\* Start codes are where units start, and nowhere else (writeNaluContent).
StartCodesMarkUnits ==
    {i \in DOMAIN file : ShortAt(file, i)} = {starts[k] : k \in DOMAIN starts}

\* Whenever the decoder is about to read or to look ahead, it stands in front
\* of the next unit: looking ahead loses no byte and repeats none
\* (isNewPicture, isNewAccessUnit).
ReaderAtNextUnit ==
    mode \in {"look", "access unit", "finish", "read"} /\ ~eof =>
        LET next == reader.pos - reader.future + 1
        IN  starts[Len(received) + 1] - next \in 0..1

\* A slice is taken for the first of its picture exactly when it is, and all
\* pictures before it are finished then (DecApp::decode, isNewPicture).
PictureBoundaries ==
    LET k == Len(received) + 1
        earlier == {j \in 1..(k - 1) : pictures[j] = pictures[k]
                                       /\ sent[j].type \in VclTypes}
    IN  mode = "read" /\ k <= Len(sent) /\ sent[k].type \in VclTypes =>
            /\ firstSliceInPicture <=> earlier = {}
            /\ finished = pictures[k] - 1

\* The decoder gets the units of the encoder, in order and unchanged, with
\* their substreams cut where they were joined; and it gets all of them.
Channel == INSTANCE LosslessChannel
Delivered == Channel!Spec
=============================================================================
