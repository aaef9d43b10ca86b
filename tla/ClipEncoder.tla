----------------------------- MODULE ClipEncoder -----------------------------
(***************************************************************************)
(* Encoding the clip of a sequence (create_video, video.rs): the detector  *)
(* writes a stream of raw frames to a pipe that an ffmpeg process reads,   *)
(* waits for it to exit, and reads back the file it has written.           *)
(*                                                                         *)
(* What is written to the pipe is counted in units: the head of the stream *)
(* and one cluster for each frame.                                         *)
(***************************************************************************)
EXTENDS Integers

CONSTANT PipeCapacity  \* units that fit into the pipe

ASSUME ClipEncoderAssumption == PipeCapacity \in Nat \ {0}

VARIABLES
  clip,         \* the next step of create_video, "off", or its result
  clip_frames,  \* frames of the sequence
  sent,         \* units written
  writer_open,  \* the detector has its end of the pipe open
  encoder,      \* ffmpeg: "off", "running", "finished" or "failed"
  consumed      \* units it has read

clipVars == <<clip, clip_frames, sent, writer_open, encoder, consumed>>

Units  == clip_frames + 1
InPipe == sent - consumed

-----------------------------------------------------------------------------
(* create_video.                                                           *)

\* Pipe, temporary file in /dev/shm and process, each of which may fail.
ClipStart ==
  /\ clip = "start" /\ clip_frames > 0
  /\ clip' = "write" /\ encoder' = "running" /\ writer_open' = TRUE
  /\ UNCHANGED <<clip_frames, sent, consumed>>

ClipStartFails ==
  /\ clip = "start"
  /\ clip' = "error"
  /\ UNCHANGED <<clip_frames, sent, writer_open, encoder, consumed>>

WriteUnit ==
  /\ clip = "write" /\ encoder = "running"
  /\ sent < Units /\ InPipe < PipeCapacity
  /\ sent' = sent + 1
  /\ UNCHANGED <<clip, clip_frames, writer_open, encoder, consumed>>

\* Nobody reads any more (EPIPE): the error leaves create_video, which drops
\* its end of the pipe.
WriteFails ==
  /\ clip = "write" /\ sent < Units /\ encoder # "running"
  /\ clip' = "error" /\ writer_open' = FALSE
  /\ UNCHANGED <<clip_frames, sent, encoder, consumed>>

WriterDropped_Late == writer_open
WriterDropped == FALSE

CloseWriter ==
  /\ clip = "write" /\ sent = Units
  /\ clip' = "wait" /\ writer_open' = WriterDropped
  /\ UNCHANGED <<clip_frames, sent, encoder, consumed>>

ExitIsGood_Unchecked == TRUE
\* wait fails when the status is not zero.
ExitIsGood == encoder = "finished"

WaitEncoder ==
  /\ clip = "wait" /\ encoder \in {"finished", "failed"}
  /\ clip' = IF ExitIsGood THEN "read" ELSE "error"
  /\ UNCHANGED <<clip_frames, sent, writer_open, encoder, consumed>>

ReadBack ==
  /\ clip = "read"
  /\ clip' \in {"clip", "error"}
  /\ UNCHANGED <<clip_frames, sent, writer_open, encoder, consumed>>

CreateVideo ==
  \/ ClipStart \/ ClipStartFails
  \/ WriteUnit \/ WriteFails \/ CloseWriter
  \/ WaitEncoder \/ ReadBack

-----------------------------------------------------------------------------
(* ffmpeg.                                                                 *)

EncoderReads ==
  /\ encoder = "running" /\ InPipe > 0
  /\ consumed' = consumed + 1
  /\ UNCHANGED <<clip, clip_frames, sent, writer_open, encoder>>

\* At the end of its input it writes what is missing, and exits.
EncoderFinishes ==
  /\ encoder = "running" /\ InPipe = 0 /\ ~writer_open
  /\ encoder' = "finished"
  /\ UNCHANGED <<clip, clip_frames, sent, writer_open, consumed>>

\* It may give up at any time: no such codec, no room in /dev/shm.
EncoderFails ==
  /\ encoder = "running"
  /\ encoder' = "failed"
  /\ UNCHANGED <<clip, clip_frames, sent, writer_open, consumed>>

-----------------------------------------------------------------------------
(* Properties.                                                             *)

\* A clip is only returned when the encoder has taken every frame and has
\* ended well, whenever it may have died.
ClipWhole ==
  clip = "clip" => encoder = "finished" /\ consumed = Units /\ clip_frames > 0
=============================================================================
