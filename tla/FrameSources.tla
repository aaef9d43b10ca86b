---------------------------- MODULE FrameSources ----------------------------
(***************************************************************************)
(* The sources of frames that take a stream of bytes apart, as open_source *)
(* of the detect command chooses them: MJPEG over http, rpicam-vid in both *)
(* of its formats, and video files.  Only the one chosen ever runs.        *)
(* (CamSrc gets whole frames from the kernel: module FramePipeline.)       *)
(***************************************************************************)
EXTENDS JpegScan, MjpegHttp, RawFrames

CONSTANTS
  Inputs  \* [input |-> what --input names, format |-> the fourcc]

ASSUME InputsAssumption ==
  /\ Inputs \subseteq
       [input : {"url", "picam3", "file", "missing"}, format : {"MJPG", "YU12", "YUYV"}]
  /\ Streams # {} /\ Responses # {} /\ Recordings # {}

VARIABLES
  args,  \* the arguments of the command
  src    \* the source opened, "closed" before, "failed" if there is none

vars == <<args, src, jpegVars, httpVars, rawVars>>

-----------------------------------------------------------------------------
\* The scheme of the input, the name picam3, anything else is a path.  The
\* camera process writes one of two formats.
Chosen ==
  CASE args.input = "url"                               -> "http"
    [] args.input = "picam3" /\ args.format = "MJPG"    -> "mjpeg"
    [] args.input = "picam3" /\ args.format = "YU12"    -> "yuv"
    [] args.input = "file"                              -> "file"
    [] OTHER                                            -> "failed"

OpenSource ==
  /\ src = "closed"
  /\ src' = Chosen
  /\ UNCHANGED <<args, jpegVars, httpVars, rawVars>>

\* The end of the stream of rpicam-vid is an error: a camera has no end.
ScanNone == "error"

\* What next_frame has returned to the detect loop.
Result ==
  CASE src = "mjpeg" -> (IF phase = "none" THEN ScanNone ELSE phase)
    [] src = "http"  -> reading
    [] OTHER         -> reader

\* For the sources that do not run there is nothing to choose.
One(S) == {CHOOSE x \in S : TRUE}

Init ==
  /\ args \in Inputs
  /\ src = "closed"
  /\ JpegInit(IF Chosen = "mjpeg" THEN Streams ELSE One(Streams))
  /\ HttpInit(IF Chosen = "http" THEN Responses ELSE One(Responses))
  /\ RawInit(CASE Chosen = "yuv"  -> {r \in Recordings : ~r.file}
               [] Chosen = "file" -> {r \in Recordings : r.file}
               [] OTHER           -> One(Recordings))

Next ==
  \/ OpenSource
  \/ src = "mjpeg" /\ JpegNext /\ UNCHANGED <<args, src, httpVars, rawVars>>
  \/ src = "http" /\ HttpNext /\ UNCHANGED <<args, src, jpegVars, rawVars>>
  \/ src \in {"yuv", "file"} /\ RawNext /\ UNCHANGED <<args, src, jpegVars, httpVars>>

Spec == Init /\ [][Next]_vars

-----------------------------------------------------------------------------
\* The detect loop ends in good order, and takes the last train for a whole
\* one, when a source says that it has no more frames: then it has delivered
\* all of them, those of a file with their own times.  A camera never says so.
EndIsComplete ==
  Result = "none" =>
    CASE src = "http"  -> response.honest => Len(images) = Len(response.bodies)
      [] src = "file"  -> StampsExact
      [] OTHER         -> FALSE
=============================================================================
