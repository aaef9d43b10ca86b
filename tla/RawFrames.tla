------------------------------ MODULE RawFrames ------------------------------
(***************************************************************************)
(* Sources of raw frames: a process (rpicam-vid, ffmpeg) writes the pixels *)
(* of one frame after another to a pipe, and the source cuts what it reads *)
(* into buffers (PiCam3Src in its format YU12, FileSrc).  The file source  *)
(* gives each frame a time stamp of a list that ffprobe made beforehand.   *)
(***************************************************************************)
EXTENDS Integers, Sequences, SequencesExt

CONSTANTS
  FrameBytes,  \* length of buf
  Recordings   \* what is recorded: records of the fields below

ASSUME RawFramesAssumption ==
  /\ FrameBytes \in Nat \ {0}
  /\ Recordings \subseteq
       [file : BOOLEAN,        \* a file, not a camera
        videos : Nat,          \* video streams in it
        described : BOOLEAN,   \* ffprobe tells their size and frame rate
        video : Seq(Int),      \* the times of the frames of the video
        stamps : Seq(Int),     \* ... of the frames that ffprobe finds
        whole : Nat,           \* the frames that the process writes whole,
        rest : Nat,            \* ... the bytes it writes of the next one
        success : BOOLEAN]     \* the exit status of the process
  \* ffprobe finds the frames of the one video, and those of other streams;
  \* ffmpeg writes no frame of it twice.
  /\ \A r \in Recordings :
       /\ r.rest < FrameBytes
       /\ r.file /\ r.videos = 1 /\ r.described =>
            /\ r.whole <= Len(r.video) /\ Len(r.video) <= Len(r.stamps)
            /\ Len(r.stamps) = Len(r.video) => r.stamps = r.video

VARIABLES
  recording,         \* what the processes work on
  reader,            \* what next_frame does next, or its result
  taken,             \* bytes read from the pipe
  frame_buf,         \* buf: the number of the byte in each place, or 0
  total,             \* total of read_exact_or_eof, pos of read_exact
  frame_pts,         \* frame_pts
  frames             \* history: content and stamp of the frames delivered

rawVars == <<recording, reader, taken, frame_buf, total, frame_pts, frames>>

Available == recording.whole * FrameBytes + recording.rest

Stops(result) ==
  /\ reader' = result
  /\ UNCHANGED <<recording, taken, frame_buf, total, frame_pts, frames>>

-----------------------------------------------------------------------------
(* Opening, with ffprobe for a file.                                       *)

\* The times of the frames of every stream, in the order of the file.
OpenRaw ==
  /\ reader = "closed"
  /\ \/ ~recording.file /\ UNCHANGED frame_pts
     \/ /\ recording.file /\ recording.described /\ recording.videos = 1
        /\ frame_pts' = recording.stamps
  /\ reader' = "read"
  /\ UNCHANGED <<recording, taken, frame_buf, total, frames>>

OpenRawFails ==
  /\ reader = "closed"
  /\ recording.file /\ (~recording.described \/ recording.videos # 1)
  /\ Stops("unopened")

-----------------------------------------------------------------------------
(* next_frame.                                                             *)

Place_FromStart(k, n) == k \in 1..n
\* &mut buf[total..]: the bytes of one read follow those of the one before.
Place(k, n) == k \in total + 1..total + n

ReadBytes ==
  /\ reader = "read" /\ total < FrameBytes
  /\ \E n \in 1..FrameBytes - total :
       /\ taken + n <= Available
       /\ frame_buf' = [k \in 1..FrameBytes |->
            IF Place(k, n) THEN taken + k - total ELSE frame_buf[k]]
       /\ taken' = taken + n
       /\ total' = total + n
  /\ UNCHANGED <<recording, reader, frame_pts, frames>>

\* At the end of the pipe the reader also reports the exit status.
EndOfPipe == reader = "read" /\ total < FrameBytes /\ taken = Available

\* read_exact, and read_exact_or_eof within a frame.
PipeFails ==
  /\ EndOfPipe
  /\ ~recording.file \/ ~recording.success \/ total > 0
  /\ Stops("error")

AllStamped_Unchecked == TRUE
AllStamped == Len(frame_pts) = Len(frames)

\* The assertion of FileSrc.
PipeEnds ==
  /\ EndOfPipe
  /\ recording.file /\ recording.success /\ total = 0
  /\ Stops(IF AllStamped THEN "none" ELSE "panicked")

FullFrame == reader = "read" /\ total = FrameBytes

\* Duration::from_secs_f64 takes no negative time.
HasStamp == Len(frames) < Len(frame_pts) /\ frame_pts[Len(frames) + 1] >= 0

NoStamp == FullFrame /\ recording.file /\ ~HasStamp /\ Stops("panicked")

DeliverRaw ==
  /\ FullFrame /\ recording.file => HasStamp
  /\ FullFrame
  /\ frames' = Append(frames,
       [content |-> frame_buf,
        stamp |-> IF recording.file THEN frame_pts[Len(frames) + 1] ELSE 0])
  /\ reader' = "returned"
  /\ UNCHANGED <<recording, taken, frame_buf, total, frame_pts>>

\* The next call fills the same buffer again.
NextRaw ==
  /\ reader = "returned"
  /\ reader' = "read"
  /\ total' = 0
  /\ UNCHANGED <<recording, taken, frame_buf, frame_pts, frames>>

-----------------------------------------------------------------------------
RawInit(recordings) ==
  /\ recording \in recordings
  /\ reader = "closed"
  /\ taken = 0 /\ total = 0
  /\ frame_buf = [k \in 1..FrameBytes |-> 0]
  /\ frame_pts = <<>> /\ frames = <<>>

RawNext ==
  \/ OpenRaw \/ OpenRawFails
  \/ ReadBytes \/ PipeFails \/ PipeEnds
  \/ DeliverRaw \/ NoStamp \/ NextRaw

-----------------------------------------------------------------------------
(* Properties.                                                             *)

\* However the pipe cuts what a process writes, each frame delivered has its
\* own bytes and none left in the buffer from the frame before; a frame that
\* is not complete is never delivered.
FramesAligned ==
  \A k \in 1..Len(frames) :
    frames[k].content = [b \in 1..FrameBytes |-> (k - 1) * FrameBytes + b]

\* A file that is said to be at its end was delivered with all of its
\* frames, each with its own time, also if it has sound, whose times
\* ffprobe lists as well, or if ffmpeg stops early.
StampsExact ==
  recording.file /\ reader = "none" =>
    [k \in 1..Len(frames) |-> frames[k].stamp] = recording.video
=============================================================================
