------------------------------ MODULE MjpegHttp ------------------------------
(***************************************************************************)
(* MJPEG over http (MjpegHttpSrc, mjpeg_http.rs): a multipart response is  *)
(* read by lines up to the body of a part, and from there by length.       *)
(*                                                                         *)
(* The response is a sequence of tokens, each of which stands for the      *)
(* bytes that the code does not look into: the boundary, the two dashes    *)
(* that follow the last one, the end of a line, a Content-Length header    *)
(* with its value, white space, other text, and bytes of an image that are *)
(* no text.                                                                *)
(***************************************************************************)
EXTENDS Integers, Sequences, FiniteSets, SequencesExt

CONSTANTS
  Responses,  \* what servers answer: records of the fields below
  LengthOf    \* the value of each Content-Length token

Boundary == "boundary"
Dashes   == "--"
Newline  == "\n"
Space    == " "       \* white space, not the end of a line
NoText   == "image"   \* not UTF-8

ASSUME ResponsesAssumption ==
  /\ Responses \subseteq
       [success : BOOLEAN,             \* the status
        content_type : Seq(STRING),    \* the boundary parameters of the type
        tokens : Seq(STRING),          \* the body of the response
        bodies : Seq(Nat),             \* for each part, the tokens before its image
        lengths : Seq(Nat \ {0}),      \* ... the length of its image
        honest : BOOLEAN,              \* ... which is also what its header says
        cut : BOOLEAN]                 \* the connection breaks off
  /\ \A d \in DOMAIN LengthOf : d # Space /\ LengthOf[d] \in Nat

-----------------------------------------------------------------------------
(* What servers send.  t is a body of which the first tokens arrive.       *)

Has(t, i, c) == i <= Len(t) => t[i] = c
Lacks(t, i, c) == i <= Len(t) => t[i] # c
\* A line of nothing but white space ends at place i.
Blank(t, i) ==
  /\ i <= Len(t) /\ t[i] = Newline
  /\ \E j \in 1..i - 1 : t[j] = Newline /\ \A k \in j + 1..i - 1 : t[k] = Space

\* Lines of text, none of which begins with the boundary, up to place b.
TextBefore(t, from, b) ==
  /\ from < b
  /\ \A i \in from + 1..b - 1 : Lacks(t, i, Boundary) /\ Lacks(t, i, NoText)
  /\ from + 1 < b => Has(t, b - 1, Newline)

\* The header of a part at place b: the boundary, and lines of text with the
\* length among them; a blank line ends at place e.
HeaderAt(t, b, e, length) ==
  /\ b + 4 <= e
  /\ Has(t, b, Boundary) /\ Has(t, b + 1, Newline)
  /\ \A i \in b + 2..e :
       /\ Lacks(t, i, NoText)
       /\ i <= Len(t) => (Blank(t, i) <=> i = e)
       /\ i <= Len(t) /\ t[i - 1] = Newline /\ t[i] \in DOMAIN LengthOf =>
            LengthOf[t[i]] = length
  /\ e <= Len(t) =>
       \E i \in b + 2..e - 1 : t[i - 1] = Newline /\ t[i] \in DOMAIN LengthOf

EndOf(r, k) == IF k = 0 THEN 0 ELSE r.bodies[k] + r.lengths[k]

\* Part after part, whatever the images contain, and the end marker unless
\* the connection breaks off before it.
PartStart(r, k, b) ==
  TextBefore(r.tokens, EndOf(r, k - 1), b)
    /\ HeaderAt(r.tokens, b, r.bodies[k], r.lengths[k])
MarkerStart(r, z) ==
  /\ TextBefore(r.tokens, EndOf(r, Len(r.bodies)), z)
  /\ z < Len(r.tokens)
  /\ r.tokens[z] = Boundary /\ r.tokens[z + 1] = Dashes
  /\ Has(r.tokens, z + 2, Newline)
LaidOut(r) ==
  /\ Len(r.lengths) = Len(r.bodies)
  /\ \A j, k \in 1..Len(r.bodies) : j < k => EndOf(r, j) <= r.bodies[k]
  /\ \A k \in 1..Len(r.bodies) : \E b \in 1..r.bodies[k] : PartStart(r, k, b)
  /\ ~r.cut => \E z \in 1..Len(r.tokens) : MarkerStart(r, z)
  /\ r.cut => \A i \in EndOf(r, Len(r.bodies)) + 1..Len(r.tokens) :
       r.tokens[i] # NoText /\ (r.tokens[i] = Boundary => i = Len(r.tokens))

\* The least that a server with wrong lengths keeps: a line that ends with
\* the boundary is one before a part, also within images.
BoundariesLead(r) ==
  \A b, e \in 1..Len(r.tokens) :
    /\ b + 2 <= e /\ r.tokens[b] = Boundary /\ r.tokens[b + 1] = Newline
    /\ Blank(r.tokens, e) /\ \A d \in b + 2..e - 1 : ~Blank(r.tokens, d)
    => \E k \in 1..Len(r.bodies) : r.bodies[k] = e

ASSUME ServersAssumption ==
  \A r \in Responses : IF r.honest THEN LaidOut(r) ELSE BoundariesLead(r)

-----------------------------------------------------------------------------
NoLength == -1

VARIABLES
  response,        \* the response of the server
  line_start,      \* how much of it was read
  reading,         \* what next_frame does next, or its result
  content_length,  \* content_length
  received,        \* pos of read_exact
  images           \* history: <<begin, length>> of the images delivered

httpVars == <<response, line_start, reading, content_length, received, images>>

tokens == response.tokens

-----------------------------------------------------------------------------
(* Opening.                                                                *)

\* parse_boundary: the first parameter that is not empty.
HasBoundary(content_type) == \E k \in 1..Len(content_type) : content_type[k] # ""

OpenHttp ==
  /\ reading = "closed"
  /\ reading' = IF response.success /\ HasBoundary(response.content_type)
                THEN "skip" ELSE "unopened"
  /\ UNCHANGED <<response, line_start, content_length, received, images>>

-----------------------------------------------------------------------------
(* Lines.                                                                  *)

NewlinesAhead == {k \in line_start + 1..Len(tokens) : tokens[k] = Newline}
\* read_line: up to the end of the line or of the stream.
LineEnd ==
  IF NewlinesAhead = {} THEN Len(tokens)
  ELSE CHOOSE k \in NewlinesAhead : \A m \in NewlinesAhead : k <= m
\* ... and without it.
Line ==
  SubSeq(tokens, line_start + 1, IF NewlinesAhead = {} THEN LineEnd ELSE LineEnd - 1)

AtEnd == line_start = Len(tokens)
\* A line must be text.
BadLine == AtEnd \/ Contains(Line, NoText)

\* A line of white space.
EndsHeaders == \A k \in DOMAIN Line : Line[k] = Space

Fails(during) ==
  /\ reading = during
  /\ reading' = "error"
  /\ UNCHANGED <<response, content_length, received, images>>

\* A line that is no text is consumed all the same.
LineFails ==
  /\ BadLine
  /\ Fails("skip") \/ Fails("headers")
  /\ line_start' = LineEnd

\* One line of read_until_boundary.
SkipLine ==
  /\ reading = "skip" /\ ~BadLine
  /\ line_start' = LineEnd
  /\ reading' = CASE Line = <<Boundary>>         -> "headers"
                  [] Line = <<Boundary, Dashes>> -> "none"
                  [] OTHER                       -> "skip"
  /\ content_length' = NoLength
  /\ UNCHANGED <<response, received, images>>

\* One line of read_part_headers.
ReadHeader ==
  /\ reading = "headers" /\ ~BadLine
  /\ line_start' = LineEnd
  /\ content_length' = IF ~EndsHeaders /\ Line[1] \in DOMAIN LengthOf
                       THEN LengthOf[Line[1]] ELSE content_length
  /\ reading' = IF ~EndsHeaders THEN "headers"
                ELSE IF content_length' = NoLength THEN "error" ELSE "body"
  /\ received' = 0
  /\ UNCHANGED <<response, images>>

-----------------------------------------------------------------------------
(* The body.                                                               *)

Whole_FirstRead == received > 0
Whole == received = content_length

\* read_exact: a read returns what is there, or a part of it.
ReadBody ==
  /\ reading = "body" /\ ~Whole
  /\ \E n \in 1..content_length - received :
       /\ line_start + n <= Len(tokens)
       /\ received' = received + n
       /\ line_start' = line_start + n
  /\ UNCHANGED <<response, reading, content_length, images>>

BodyFails == ~Whole /\ AtEnd /\ Fails("body") /\ UNCHANGED line_start

Begin == line_start - received
IsImage == \E k \in 1..Len(response.bodies) :
  Begin = response.bodies[k] /\ received = response.lengths[k]

\* An image is decoded; whether the decoder takes something else for one is
\* up to it, unless there is nothing.
Deliver ==
  /\ reading = "body" /\ Whole /\ received > 0
  /\ images' = Append(images, <<Begin, received>>)
  /\ reading' = "returned"
  /\ UNCHANGED <<response, line_start, content_length, received>>

DecodeFails == Whole /\ ~IsImage /\ Fails("body") /\ UNCHANGED line_start

\* The next call, also after an error.
NextCall ==
  /\ reading \in {"returned", "error"}
  /\ reading' = "skip"
  /\ UNCHANGED <<response, line_start, content_length, received, images>>

-----------------------------------------------------------------------------
HttpInit(responses) ==
  /\ response \in responses
  /\ line_start = 0 /\ reading = "closed"
  /\ content_length = NoLength /\ received = 0 /\ images = <<>>

HttpNext ==
  \/ OpenHttp
  \/ SkipLine \/ ReadHeader \/ LineFails
  \/ ReadBody \/ BodyFails \/ Deliver \/ DecodeFails
  \/ NextCall

-----------------------------------------------------------------------------
(* Properties.                                                             *)

\* From a server that tells the right lengths the images are delivered whole
\* and in order, whatever they contain and however they arrive; the stream
\* ends only at its marker, with all of them, and fails only when it was cut.
HonestPartsExact ==
  response.honest =>
    LET Part(k) == <<response.bodies[k], response.lengths[k]>>
        whole == {k \in 1..Len(response.bodies) : Part(k)[1] + Part(k)[2] <= Len(tokens)}
    IN  /\ Len(images) <= Cardinality(whole)
        /\ \A k \in 1..Len(images) : images[k] = Part(k)
        /\ reading \in {"none", "error"} => Len(images) = Cardinality(whole)
        /\ reading \in {"none", "error"} => (reading = "error" <=> response.cut)

\* With wrong lengths the source loses images and never its place: what it
\* delivers begins where the body of a part begins, and no part is
\* delivered twice.
PlaceKept ==
  \A j \in 1..Len(images) :
    /\ \E k \in 1..Len(response.bodies) : images[j][1] = response.bodies[k]
    /\ j > 1 => images[j - 1][1] < images[j][1]

\* Both, from any server.
PartsExact == HonestPartsExact /\ PlaceKept
=============================================================================
