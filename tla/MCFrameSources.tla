--------------------------- MODULE MCFrameSources ---------------------------
(***************************************************************************)
(* Streams for FrameSources.                                               *)
(*                                                                         *)
(* JPEG: what encoders write, cut at every byte, and any bytes behind an   *)
(* SOI.                                                                    *)
(***************************************************************************)
EXTENDS FrameSources

DHT == 196

\* Segments: empty, and with what looks like the end of the image inside.
Segments == {<<FF, DHT, 0, 2>>, <<FF, DHT, 0, 4, FF, EOI>>}
Headers  == {<<>>} \union {<<g>> : g \in Segments}
ScanHeader == <<FF, SOS, 0, 3, FF>>

\* Image data: a plain byte, a stuffed 0xFF, a restart marker.
DataUnits == {<<1>>, <<FF, 0>>, <<FF, 208>>}
Data   == {<<>>} \union DataUnits \union {x \o y : x \in DataUnits, y \in DataUnits}

\* An image is made of pieces, each of which begins with a marker.
Scans == {h \o <<ScanHeader \o x>> : h \in Headers, x \in Data}
Pieces(scans) == <<<<FF, SOI>>>> \o scans \o <<<<FF, EOI>>>>
OneScan == {Pieces(s) : s \in Scans}
\* A progressive image has more than one scan.
TwoScans == {Pieces(s \o h \o <<ScanHeader \o <<FF, 0>>>>) : s \in Scans, h \in Headers}
Images == OneScan \union TwoScans
FewImages == {Pieces(<<>>), Pieces(<<ScanHeader \o <<FF, 0, 1>>>>)}

Bytes(image) == FlattenSeq(image)
Marks(image, start) ==
  {start + Len(Bytes(SubSeq(image, 1, i))) : i \in 1..Len(image) - 1}

\* Whole images, and the first n bytes of one more, which may be none.
CutAfter(before, image, n) ==
  LET Start(k) == Len(Bytes(FlattenSeq(SubSeq(before, 1, k))))
      all == Append(before, image)
  IN  [input |-> Bytes(FlattenSeq(before)) \o SubSeq(Bytes(image), 1, n),
       images |-> [k \in 1..Len(before) |-> Bytes(before[k])],
       cut |-> n > 0,
       jpeg |-> TRUE,
       starts |-> [k \in 1..Len(all) |-> Start(k - 1)],
       marks |-> [k \in 1..Len(all) |-> Marks(all[k], Start(k - 1))]]

\* One image or two, the last one cut after n bytes or whole.
Befores == {<<>>} \union {<<f>> : f \in FewImages}
EncodedStreams ==
  UNION {{CutAfter(b, im, n) : n \in 0..Len(Bytes(im)) - 1} : b \in Befores, im \in Images}
  \union {CutAfter(Append(b, im), Pieces(<<>>), 0) : b \in Befores, im \in Images}
  \union {CutAfter(<<im>>, Pieces(<<>>), n) : im \in Images, n \in {1, 3}}

Alphabet == {0, 2, FF, SOI, EOI, SOS}
MaxGarbage == 4

GarbageStreams ==
  {[input |-> p \o s, images |-> <<>>, cut |-> FALSE, jpeg |-> FALSE,
    starts |-> <<0>>, marks |-> <<{}>>] :
     p \in {<<>>, <<FF, SOI>>, <<FF, SOI, FF, SOS, 0, 2>>},
     s \in UNION {[1..n -> Alphabet] : n \in 0..MaxGarbage}}

AllStreams == EncodedStreams \union GarbageStreams

-----------------------------------------------------------------------------
(* Multipart: images with line ends, empty lines and the boundary inside,  *)
(* cut after every token, and parts with a length that is too short, too   *)
(* long, missing or no number, or with white space on the line that ends   *)
(* the header.                                                             *)

Digits == <<"length 1", "length 2", "length 3", "length 4", "length 5", "length 6",
            "length 7", "length 8", "length 9">>
MCLengthOf == [d \in {Digits[n] : n \in 1..9} |-> CHOOSE n \in 1..9 : Digits[n] = d]

Bodies ==
  {<<NoText>>, <<Newline, Newline, NoText>>, <<"text", Newline, Boundary, "text">>}

Part(header, body) == [header |-> header, last |-> <<>>, body |-> body]
Spaced(part) == [part EXCEPT !.last = <<Space>>]
Correct(body) == Part(<<Digits[Len(body)]>>, body)

HeaderLines(header) == FlattenSeq([k \in 1..Len(header) |-> <<header[k], Newline>>])

\* The response with these parts, sep between a body and the next boundary.
Respond(parts, before, sep, end, types) ==
  LET Add(r, p) ==
        LET start == r.tokens \o <<Boundary, Newline>> \o HeaderLines(p.header)
                       \o p.last \o <<Newline>>
        IN  [tokens |-> start \o p.body \o sep,
             bodies |-> Append(r.bodies, Len(start)),
             lengths |-> Append(r.lengths, Len(p.body))]
      all == FoldLeft(Add, [tokens |-> before, bodies |-> <<>>, lengths |-> <<>>], parts)
  IN  [success |-> TRUE, content_type |-> types,
       tokens |-> all.tokens \o end, bodies |-> all.bodies, lengths |-> all.lengths,
       honest |-> \A k \in 1..Len(parts) :
                    Contains(parts[k].header, Digits[Len(parts[k].body)]),
       cut |-> end = <<>>]

TheEnd == <<Boundary, Dashes, Newline>>
\* The first n tokens arrive; the end of the last line may be missing.
CutAt(r, n) == [r EXCEPT !.tokens = SubSeq(@, 1, n), !.cut = @ \/ n < Len(r.tokens) - 1]

Whole1 ==
  {Respond(<<Correct(b)>>, before, sep, end, <<"", Boundary>>) :
     b \in Bodies, before \in {<<>>, <<"text", Newline>>},
     sep \in {<<>>, <<Newline>>}, end \in {<<>>, TheEnd}}
Whole2 ==
  {Respond(<<Spaced(Correct(b)), Part(<<"text", Digits[Len(c)], "text">>, c)>>, <<>>, sep,
           TheEnd, <<Boundary>>) : b \in Bodies, c \in Bodies, sep \in {<<>>, <<Newline>>}}
\* An image may even look like the next part, or like the end.
Deceptive ==
  {Respond(<<Correct(b), Correct(b)>>, <<>>, sep, TheEnd, <<Boundary>>) :
     b \in {<<Newline, Boundary, Newline, Digits[1], Newline, Newline, NoText>>,
           <<Boundary, Dashes, Newline>>},
     sep \in {<<>>, <<Newline>>}}
Honest ==
  UNION {{CutAt(r, n) : n \in 0..Len(r.tokens)} : r \in Whole1 \union Whole2 \union Deceptive}

WrongHeaders == {<<Digits[n]>> : n \in 1..9} \union {<<>>, <<"text">>}
Wrong ==
  {Respond(<<Correct(<<NoText>>), p, Correct(c), Correct(<<NoText>>)>>, <<>>,
           sep, TheEnd, <<Boundary>>) :
     p \in UNION {{Part(h, b), Spaced(Part(h, b))} : h \in WrongHeaders, b \in Bodies},
     c \in Bodies, sep \in {<<>>, <<Newline>>}}

Refused ==
  {[r EXCEPT !.success = FALSE] : r \in Whole1} \union
  {[r EXCEPT !.content_type = <<"">>] : r \in Whole1}

MCResponses == Honest \union Wrong \union Refused

-----------------------------------------------------------------------------
(* Raw frames: cut at every byte, by either exit of the process; files     *)
(* with sound between the frames, with two videos, or with a frame before  *)
(* the start of the file.                                                  *)

\* Frames a second apart, the stamps of sound between them.
Video(n) == [k \in 1..n |-> 10 * k]
Sounds(n) == {<<>>, <<15>>, <<5>> \o Video(n)}
Stamps(n, sound) == SortSeq(Video(n) \o sound, LAMBDA s, u : s < u)

Record(file, videos, described, n, stamps, written, r, ok) ==
  [file |-> file, videos |-> videos, described |-> described, video |-> Video(n),
   stamps |-> stamps, whole |-> written, rest |-> r, success |-> ok]

MCRecordings ==
  {Record(FALSE, 0, FALSE, 0, <<>>, n, r, ok) :
     n \in 0..3, r \in 0..FrameBytes - 1, ok \in BOOLEAN}
  \union
  UNION {{Record(TRUE, 1, TRUE, n, Stamps(n, sound), m, r, ok) :
            sound \in Sounds(n), m \in 0..n, r \in 0..FrameBytes - 1, ok \in BOOLEAN} :
           n \in 0..3}
  \union {[Record(TRUE, 1, TRUE, 2, <<-1, 10>>, 2, 0, TRUE) EXCEPT !.video = <<-1, 10>>]}
  \union {Record(TRUE, v, d, 1, <<10>>, 1, 0, TRUE) : v \in 0..2, d \in BOOLEAN}

MCInputs ==
  [input : {"url", "picam3", "file", "missing"}, format : {"MJPG", "YU12", "YUYV"}]
=============================================================================
