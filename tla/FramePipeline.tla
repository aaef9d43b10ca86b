--------------------------- MODULE FramePipeline ---------------------------
(***************************************************************************)
(* The threads between the source of the frames and the train detector:    *)
(*   - CamSrc's capture thread with its bounded channel (cam.rs), for the  *)
(*     source "cam"; the other live sources (http, picam3) are read        *)
(*     directly by the thread of BufSrc;                                   *)
(*   - ConstantFrameTime (constant_frame_time.rs), which stamps frames;    *)
(*   - BufSrc's thread and its bounded queue (buf.rs), for live sources;   *)
(*   - FileSrc (file.rs), which the detect loop reads itself;              *)
(*   - the loop of the detect command (detect.rs), which counts failures.  *)
(* An image is the number of the frame.                                    *)
(***************************************************************************)
EXTENDS Integers, Sequences

CONSTANTS
  Sources,        \* the kinds of sources: "cam", "picam3", "http", "file"
  CamCap,         \* capacity of CamSrc's channel
  BufCap,         \* --src-buf-cap
  SkipInitial,    \* SKIP_INITIAL_FRAMES
  MaxFailed,      \* MAX_FAILED_FRAMES
  MaxShots        \* bound on the number of frames of the device

ASSUME SourceAssumption == Sources \subseteq {"cam", "picam3", "http", "file"}
ASSUME CapacityAssumption ==
  /\ CamCap \in Nat \ {0}
  /\ BufCap \in Nat \ {0}
  /\ SkipInitial \in Nat
  /\ MaxFailed \in Nat \ {0}
  /\ MaxShots \in Nat

VARIABLES
  source,    \* the source that was opened
  probed,    \* FileSrc: frame_pts.len(), the frames ffprobe has counted
  shot,      \* the last frame of the device that is not discarded
  capture,   \* CamSrc's thread: "skip", "grab", "send" or "gone"
  skipped,   \* initial frames it has discarded
  grabbed,   \* the result it is sending
  camQueue,  \* CamSrc's channel
  stamps,    \* ConstantFrameTime: (next_frame_ts - start) / constant_frame_time
  buffer,    \* BufSrc's thread: "next", "send" or "gone"
  item,      \* the result it is sending
  queue,     \* BufSrc's channel
  detector,  \* the detect loop: "reading", "done" or "panicked"
  failed,    \* failed_frames
  last       \* the last frame the stitcher was given

cam  == <<capture, skipped, grabbed, camQueue>>
buf  == <<stamps, buffer, item, queue>>
loop == <<detector, failed, last>>
input == <<source, probed>>
vars == <<input, shot, cam, buf, loop>>

IsLive == source # "file"

Item(kind, n, t) == [kind |-> kind, shot |-> n, ts |-> t]
Error == Item("err", 0, 0)
End   == Item("end", 0, 0)     \* Ok(None)
Frame(n, t) == Item("frame", n, t)

Items == [kind : {"frame", "err", "end"}, shot : Nat, ts : Nat]

-----------------------------------------------------------------------------
(* CamSrc: the capture thread.  Any call to the device may fail, decoding  *)
(* a frame as well.                                                        *)

SkipFrame ==
  /\ capture = "skip"
  /\ skipped' = skipped + 1
  /\ capture' = IF skipped + 1 >= SkipInitial THEN "grab" ELSE "skip"
  /\ UNCHANGED <<input, shot, grabbed, camQueue, buf, loop>>

\* The thread returns without sending the error.
SkipFails ==
  /\ capture = "skip"
  /\ capture' = "gone"
  /\ UNCHANGED <<input, shot, skipped, grabbed, camQueue, buf, loop>>

Grab ==
  /\ capture = "grab"
  /\ shot < MaxShots
  /\ shot' = shot + 1
  /\ grabbed' = Frame(shot + 1, 0)
  /\ capture' = "send"
  /\ UNCHANGED <<input, skipped, camQueue, buf, loop>>

GrabFails ==
  /\ capture = "grab"
  /\ grabbed' = Error
  /\ capture' = "send"
  /\ UNCHANGED <<input, shot, skipped, camQueue, buf, loop>>

\* send() blocks while the channel is full, and fails once BufSrc's thread,
\* which owns the receiver, is gone.
CaptureSend ==
  /\ capture = "send"
  /\ buffer # "gone"
  /\ Len(camQueue) < CamCap
  /\ camQueue' = Append(camQueue, grabbed)
  /\ capture' = IF grabbed.kind = "err" THEN "gone" ELSE "grab"
  /\ UNCHANGED <<input, shot, skipped, grabbed, buf, loop>>

CaptureDisconnected ==
  /\ capture = "send"
  /\ buffer = "gone"
  /\ capture' = "gone"
  /\ UNCHANGED <<input, shot, skipped, grabbed, camQueue, buf, loop>>

-----------------------------------------------------------------------------
(* BufSrc: the thread that reads the source and fills the queue.           *)

\* The stamp is taken when a frame enters the queue.
Stamp_Buffered(it) ==
  IF it.kind = "frame" /\ Len(queue) < BufCap
  THEN /\ item' = [it EXCEPT !.ts = stamps]
       /\ stamps' = stamps + 1
  ELSE /\ item' = [it EXCEPT !.ts = stamps]
       /\ UNCHANGED stamps

\* ConstantFrameTime: frames get the next stamp, the rest passes through.
Stamp(it) ==
  IF it.kind = "frame"
  THEN /\ item' = [it EXCEPT !.ts = stamps]
       /\ stamps' = stamps + 1
  ELSE /\ item' = it
       /\ UNCHANGED stamps

ToSend == buffer = "next" /\ buffer' = "send"

\* next_frame() of CamSrc: a frame or an error of the channel, and an error
\* for ever once the capture thread is gone and the channel empty.
ReadCam ==
  /\ source = "cam"
  /\ ToSend
  /\ camQueue # <<>>
  /\ Stamp(Head(camQueue))
  /\ camQueue' = Tail(camQueue)
  /\ UNCHANGED <<input, shot, capture, skipped, grabbed, queue, loop>>

CamClosed_Ignored == FALSE
CamClosed == camQueue = <<>> /\ capture = "gone"

ReadCamGone ==
  /\ source = "cam"
  /\ ToSend
  /\ CamClosed
  /\ Stamp(Error)
  /\ UNCHANGED <<input, shot, cam, queue, loop>>

\* next_frame() of PiCam3Src and MjpegHttpSrc: reads and decodes in place.
\* Only the http stream has an end marker.
ReadFrame ==
  /\ source # "cam"
  /\ ToSend
  /\ shot < MaxShots
  /\ shot' = shot + 1
  /\ Stamp(Frame(shot + 1, 0))
  /\ UNCHANGED <<input, cam, queue, loop>>

ReadFails ==
  /\ source # "cam"
  /\ ToSend
  /\ Stamp(Error)
  /\ UNCHANGED <<input, shot, cam, queue, loop>>

ReadEnd ==
  /\ source = "http"
  /\ ToSend
  /\ Stamp(End)
  /\ UNCHANGED <<input, shot, cam, queue, loop>>

Done_Never(it) == FALSE
\* done: the thread ends after the end of the stream and after any error.
Done(it) == it.kind \in {"end", "err"}

AfterSend == buffer' = IF Done(item) THEN "gone" ELSE "next"

Connected == detector = "reading"

Full == Len(queue) >= BufCap

Enqueue_Front(it) == queue' = <<it>> \o queue
Enqueue(it) == queue' = Append(queue, it)

TrySend ==
  /\ buffer = "send" /\ Connected
  /\ ~Full
  /\ Enqueue(item)
  /\ AfterSend
  /\ UNCHANGED <<input, shot, cam, stamps, item, loop>>

\* The queue is full: the new item is dropped, the buffered ones are kept.
TrySendFull ==
  /\ buffer = "send" /\ Connected
  /\ Full
  /\ AfterSend
  /\ UNCHANGED <<input, shot, cam, stamps, item, queue, loop>>

TrySendDisconnected ==
  /\ buffer = "send" /\ ~Connected
  /\ buffer' = "gone"
  /\ UNCHANGED <<input, shot, cam, stamps, item, queue, loop>>

-----------------------------------------------------------------------------
(* The loop of detect: recv() on the queue, then the arms of the match.    *)

\* Errors of a file end the loop at once.
GivesUp(n) == ~IsLive \/ n >= MaxFailed

Received(kind) ==
  /\ detector = "reading"
  /\ queue # <<>>
  /\ Head(queue).kind = kind
  /\ queue' = Tail(queue)
  /\ UNCHANGED <<input, shot, cam, stamps, buffer, item>>

DetectFrame ==
  /\ Received("frame")
  /\ failed' = 0
  /\ last' = Head(queue)
  /\ UNCHANGED detector

\* The detector panics over a frame (RansacAssertion of AutoStitcher); while
\* the process ends, the threads see their receivers gone.
DetectPanics ==
  /\ Received("frame")
  /\ failed' = 0
  /\ detector' = "panicked"
  /\ UNCHANGED last

DetectError ==
  /\ Received("err")
  /\ failed' = failed + 1
  /\ detector' = IF GivesUp(failed + 1) THEN "done" ELSE "reading"
  /\ UNCHANGED last

DetectEnd ==
  /\ Received("end")
  /\ detector' = "done"
  /\ UNCHANGED <<failed, last>>

Hangup_Ignored == FALSE
\* recv() fails only when the queue is empty and the sender is gone; BufSrc
\* turns that into Ok(None).
Hangup == queue = <<>> /\ buffer = "gone"

DetectHangup ==
  /\ detector = "reading"
  /\ Hangup
  /\ detector' = "done"
  /\ UNCHANGED <<input, shot, cam, buf, failed, last>>

-----------------------------------------------------------------------------
(* FileSrc: the frames ffmpeg decodes, with the time stamps of ffprobe,    *)
(* read by the detect loop itself.  The two programs need not agree on the *)
(* number of frames.                                                       *)

ReadFile == ~IsLive /\ detector = "reading"

OnlyLoop == UNCHANGED <<input, cam, buffer, item, queue>>

FileFrame ==
  /\ ReadFile
  /\ shot < MaxShots /\ shot < probed
  /\ shot' = shot + 1
  /\ stamps' = stamps + 1
  /\ failed' = 0
  /\ last' = Frame(shot + 1, stamps)
  /\ OnlyLoop /\ UNCHANGED detector

\* frame_pts[frames_processed] is out of bounds.
FileUnprobed ==
  /\ ReadFile
  /\ shot >= probed
  /\ detector' = "panicked"
  /\ OnlyLoop /\ UNCHANGED <<shot, stamps, failed, last>>

\* The end of the file, where the numbers of frames are asserted to agree.
FileEnd ==
  /\ ReadFile
  /\ detector' = IF shot = probed THEN "done" ELSE "panicked"
  /\ OnlyLoop /\ UNCHANGED <<shot, stamps, failed, last>>

\* ffmpeg fails, or leaves a partial frame.
FileError ==
  /\ ReadFile
  /\ failed' = failed + 1
  /\ detector' = IF GivesUp(failed + 1) THEN "done" ELSE "reading"
  /\ OnlyLoop /\ UNCHANGED <<shot, stamps, last>>

-----------------------------------------------------------------------------
Init ==
  /\ source \in Sources
  /\ probed \in IF source = "file" THEN 0..MaxShots ELSE {0}
  /\ shot = 0
  /\ capture = IF source # "cam" THEN "gone"
               ELSE IF SkipInitial = 0 THEN "grab" ELSE "skip"
  /\ skipped = 0
  /\ grabbed = Error
  /\ camQueue = <<>>
  /\ stamps = 0
  /\ buffer = IF IsLive THEN "next" ELSE "none"
  /\ item = Error
  /\ queue = <<>>
  /\ detector = "reading"
  /\ failed = 0
  /\ last = Frame(0, 0)

Capture ==
  \/ SkipFrame \/ SkipFails \/ Grab \/ GrabFails
  \/ CaptureSend \/ CaptureDisconnected

Buffer ==
  \/ ReadCam \/ ReadCamGone \/ ReadFrame \/ ReadFails \/ ReadEnd
  \/ TrySend \/ TrySendFull \/ TrySendDisconnected

Detect == DetectFrame \/ DetectPanics \/ DetectError \/ DetectEnd \/ DetectHangup

File == FileFrame \/ FileUnprobed \/ FileEnd \/ FileError

Next == Capture \/ Buffer \/ Detect \/ File

Spec == Init /\ [][Next]_vars

\* The threads run whenever they can; nothing is assumed about the device or
\* the file: SkipFrame, Grab, ReadFrame, ReadEnd, File and the failures may
\* never come.
Fairness ==
  /\ WF_vars(CaptureSend \/ CaptureDisconnected)
  /\ WF_vars(ReadCam \/ ReadCamGone)
  /\ WF_vars(TrySend \/ TrySendFull \/ TrySendDisconnected)
  /\ WF_vars(Detect)

FairSpec == Spec /\ Fairness

-----------------------------------------------------------------------------
(* Properties.                                                             *)

\* Every variable keeps its type and no channel exceeds its capacity (the
\* fields of the threads and channels).
TypeOK ==
  /\ source \in Sources /\ probed \in Nat
  /\ shot \in Nat /\ skipped \in Nat /\ stamps \in Nat /\ failed \in Nat
  /\ capture \in {"skip", "grab", "send", "gone"}
  /\ buffer \in {"none", "next", "send", "gone"}
  /\ detector \in {"reading", "done", "panicked"}
  /\ grabbed \in Items /\ item \in Items /\ last \in Items
  /\ camQueue \in Seq(Items) /\ Len(camQueue) <= CamCap
  /\ queue \in Seq(Items) /\ Len(queue) <= BufCap

\* With a constant frame time, dropped frames keep their slot in time: a
\* delivered frame has as many stamps before it as the device took frames
\* before it, so the speeds computed from them stay right under load.
StampsCountDrops == last.shot > 0 => last.ts = last.shot - 1

\* A source that has ended or failed ends the detection, so that the open
\* sequence is still stitched, even if the error itself was dropped; only a
\* panic over a frame before it comes first.
FailureEndsDetection ==
  (buffer = "send" /\ item.kind \in {"end", "err"}) ~> detector # "reading"

\* A camera whose capture thread is gone ends the detection.
CameraLossEndsDetection ==
  (source = "cam" /\ capture = "gone") ~> detector # "reading"

\* The chain is a lossy stream in order (module FrameStream): what is dropped
\* on the way is lost, nothing is repeated, reordered or made up.
Stream == INSTANCE FrameStream WITH
            read <- shot, delivered <- last.shot, open <- (detector = "reading")
LossyStreamInOrder == Stream!Spec

\* After the error that ended the source, nothing else is ever delivered: the
\* loop never gets to use up its MAX_FAILED_FRAMES on a live source.
ErrorIsLast == [][DetectFrame => failed = 0]_vars
=============================================================================
