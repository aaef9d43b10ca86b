------------------------------ MODULE JpegScan ------------------------------
(***************************************************************************)
(* The scanner that cuts the byte stream of rpicam-vid into JPEG images    *)
(* (JpegScanner, jpeg_scan.rs).  A read_n of the code is one action, as is *)
(* a turn of the loop over image data; bytes are numbers.                  *)
(***************************************************************************)
EXTENDS Integers, Sequences, SequencesExt

CONSTANTS
  Streams  \* streams: records of the fields below

Byte == 0..255

ASSUME StreamsAssumption ==
  Streams \subseteq
    [input : Seq(Byte),          \* the bytes
     jpeg : BOOLEAN,             \* an encoder wrote it, so that the rest means something
     images : Seq(Seq(Byte)),    \* the whole images in it
     cut : BOOLEAN,              \* it ends inside of an image
     starts : Seq(Nat),          \* the bytes before each image, and before the cut one
     marks : Seq(SUBSET Nat)]    \* for each of those, the bytes before its markers

FF   == 255
RST  == 208..215
SOI  == 216
EOI  == 217
SOS  == 218

-----------------------------------------------------------------------------
(* What encoders write.  s is a stream of which the first bytes arrive.    *)

ByteIs(s, i, b) == i <= Len(s) => s[i] = b
IsMarker(b) == b # 0 /\ b \notin RST

\* Image data from place d to place n: no marker but restart markers.
DataBetween(s, d, n) ==
  /\ d <= n
  /\ \A i \in d + 1..n :
       i <= Len(s) /\ s[i] = FF => i < n /\ (i + 1 <= Len(s) => ~IsMarker(s[i + 1]))

SegmentEnd(s, m) == m + 2 + s[m + 3] * 256 + s[m + 4]

\* The marker at place m, one of marks, of an image that ends at place last:
\* the end marker, or a segment of its length, with image data if it is SOS.
MarkerAt(s, m, marks, last) ==
  /\ ByteIs(s, m + 1, FF)
  /\ m + 2 <= Len(s) => IsMarker(s[m + 2]) /\ (s[m + 2] = EOI => m + 2 = last)
  /\ m + 4 <= Len(s) /\ s[m + 2] # EOI =>
       /\ m + 4 <= SegmentEnd(s, m)
       /\ IF s[m + 2] = SOS THEN \E n \in marks : DataBetween(s, SegmentEnd(s, m), n)
          ELSE SegmentEnd(s, m) \in marks
  /\ last <= Len(s) => m + 2 <= last /\ (s[m + 2] # EOI => m + 4 <= last)

ImageAt(s, start, marks, last) ==
  /\ ByteIs(s, start + 1, FF) /\ ByteIs(s, start + 2, SOI)
  /\ start + 2 \in marks
  /\ \A m \in marks : MarkerAt(s, m, marks, last)

\* Where image k ends, behind the stream if it is cut.
LastOf(r, k) == IF k < Len(r.starts) THEN r.starts[k + 1] ELSE Len(r.input) + 1

Encoded(r) ==
  /\ Len(r.starts) = Len(r.images) + 1 /\ Len(r.marks) = Len(r.starts)
  /\ r.starts[1] = 0
  /\ \A k \in 1..Len(r.images) :
       /\ r.starts[k] < r.starts[k + 1] /\ r.starts[k + 1] <= Len(r.input)
       /\ r.images[k] = SubSeq(r.input, r.starts[k] + 1, r.starts[k + 1])
  /\ \A k \in 1..Len(r.starts) :
       ImageAt(r.input, r.starts[k], r.marks[k], LastOf(r, k))
  /\ r.cut <=> r.starts[Len(r.starts)] < Len(r.input)

ASSUME EncodersAssumption == \A r \in Streams : r.jpeg => Encoded(r)

-----------------------------------------------------------------------------
VARIABLES
  stream,  \* what the process writes
  pos,     \* how much of it was read
  unget,   \* unget, in the order in which it is read again
  buf,     \* buf
  phase,   \* what scan does next; "none" and "error" are its last results
  need,    \* data_len
  out,     \* the images returned
  given    \* history: the bytes of earlier calls, returned or discarded

jpegVars == <<stream, pos, unget, buf, phase, need, out, given>>

-----------------------------------------------------------------------------
(* Reading.                                                                *)

Rest == unget \o SubSeq(stream.input, pos + 1, Len(stream.input))
Next1 == Rest[1]
Next2 == Rest[2]

\* The first n bytes of Rest are taken: ungot ones, then new ones.
Consume(n) ==
  /\ unget' = SubSeq(unget, n + 1, Len(unget))
  /\ pos' = pos + (IF n > Len(unget) THEN n - Len(unget) ELSE 0)

Read(n) ==
  /\ Len(Rest) >= n
  /\ buf' = buf \o SubSeq(Rest, 1, n)
  /\ Consume(n)

\* The stream ends within the n bytes: every caller but the first read of
\* an image fails.
ReadShort(n) ==
  /\ Len(Rest) < n
  /\ buf' = buf \o Rest
  /\ Consume(Len(Rest))
  /\ phase' = "error"
  /\ UNCHANGED <<need, out, given>>

-----------------------------------------------------------------------------
(* scan.                                                                   *)

IsSoi(b1, b2) == b1 = FF /\ b2 = SOI

CleanEnd ==
  /\ phase = "soi" /\ Rest = <<>>
  /\ phase' = "none"
  /\ UNCHANGED <<pos, unget, buf, need, out, given>>

ReadSoi ==
  /\ phase = "soi" /\ Rest # <<>>
  /\ \/ ReadShort(2)
     \/ /\ Read(2)
        /\ phase' = IF IsSoi(Next1, Next2) THEN "marker" ELSE "error"
        /\ UNCHANGED <<need, out, given>>

\* EOI is the end of the image.
ReadEoi ==
  /\ phase = "marker"
  /\ Read(2) /\ Next1 = FF /\ Next2 = EOI
  /\ out' = Append(out, buf')
  /\ phase' = "returned"
  /\ UNCHANGED <<need, given>>

ReadMarker ==
  /\ phase = "marker"
  /\ \/ ReadShort(2)
     \/ /\ Read(2) /\ ~(Next1 = FF /\ Next2 = EOI)
        /\ phase' = IF Next1 # FF \/ Next2 \in RST THEN "error"
                    ELSE IF Next2 = SOS THEN "sos_length" ELSE "length"
        /\ UNCHANGED <<need, out, given>>

ValidLength(n) == n >= 2

ReadLength ==
  /\ phase \in {"length", "sos_length"}
  /\ \/ ReadShort(2)
     \/ /\ Read(2)
        /\ LET seg_len == Next1 * 256 + Next2
           IN  IF ValidLength(seg_len)
               THEN /\ need' = seg_len - 2
                    /\ phase' = IF phase = "length" THEN "data" ELSE "sos_data"
               ELSE phase' = "error" /\ UNCHANGED need
        /\ UNCHANGED <<out, given>>

ReadData ==
  /\ phase \in {"data", "sos_data"}
  /\ \/ ReadShort(need)
     \/ /\ Read(need)
        /\ phase' = IF phase = "data" THEN "marker" ELSE "image"
        /\ need' = 0
        /\ UNCHANGED <<out, given>>

\* The next call of scan, also after an error: what was read is dropped.
ScanAgain ==
  /\ phase \in {"returned", "error"}
  /\ given' = given \o buf
  /\ buf' = <<>>
  /\ phase' = "soi"
  /\ UNCHANGED <<pos, unget, need, out>>

-----------------------------------------------------------------------------
(* scan_image_data.                                                        *)

InImageData_ZeroOnly(b) == b = 0
\* What may follow 0xFF within image data.
InImageData(b) == b = 0 \/ b \in RST

Unread_Swapped(b1, b2) == <<b2, b1>>
\* unread2
Unread(b1, b2) == <<b1, b2>>

ImageByte ==
  /\ phase = "image"
  /\ Rest # <<>> /\ Next1 # FF
  /\ Read(1)
  /\ UNCHANGED <<phase, need, out, given>>

ImagePair ==
  /\ phase = "image"
  /\ Len(Rest) >= 2 /\ Next1 = FF /\ InImageData(Next2)
  /\ Read(2)
  /\ UNCHANGED <<phase, need, out, given>>

\* Both bytes were read, and go back.
ImageMarker ==
  /\ phase = "image"
  /\ Len(Rest) >= 2 /\ Next1 = FF /\ ~InImageData(Next2)
  /\ pos' = pos + (2 - Len(unget))
  /\ unget' = Unread(Next1, Next2)
  /\ phase' = "marker"
  /\ UNCHANGED <<buf, need, out, given>>

\* At the end of the stream the loop over segments finds the error.
ImageEnd ==
  /\ phase = "image"
  /\ Rest \in {<<>>, <<FF>>}
  /\ Read(Len(Rest))
  /\ phase' = "marker"
  /\ UNCHANGED <<need, out, given>>

-----------------------------------------------------------------------------
JpegInit(streams) ==
  /\ stream \in streams
  /\ pos = 0 /\ unget = <<>> /\ buf = <<>>
  /\ phase = "soi" /\ need = 0 /\ out = <<>> /\ given = <<>>

Scan ==
  \/ CleanEnd \/ ReadSoi \/ ReadEoi \/ ReadMarker \/ ReadLength \/ ReadData
  \/ ScanAgain
  \/ ImageByte \/ ImagePair \/ ImageMarker \/ ImageEnd

JpegNext == Scan /\ UNCHANGED stream

-----------------------------------------------------------------------------
(* Properties.                                                             *)

\* Whatever the stream: the bytes of earlier calls, those of the image in
\* progress and those put back are the bytes read, each once and in order;
\* and when an image is returned nothing was read behind it, so that a live
\* image is not held up until the camera sends the next.
BytesAccounted ==
  /\ given \o buf \o unget = SubSeq(stream.input, 1, pos)
  /\ phase = "returned" => unget = <<>>

\* A stream that an encoder wrote, cut at any byte, is taken apart into its
\* images, whatever their data contains; the scanner fails only on an image
\* that is cut, never returns one, and passes none over without failing.
ImagesExact ==
  stream.jpeg =>
    /\ IsPrefix(out, stream.images)
    /\ phase \in {"none", "error"} => out = stream.images
    /\ phase = "error" => stream.cut
    /\ phase = "none" => given = stream.input
=============================================================================
