------------------------ MODULE FramePipelineProofs ------------------------
(***************************************************************************)
(* Proofs about FramePipeline: the types, the time stamps of delivered     *)
(* frames, the end of the delivery after an error, and that the pipeline   *)
(* implements the lossy stream of FrameStream, for every kind of source    *)
(* and all capacities and limits.                                          *)
(***************************************************************************)
EXTENDS FramePipeline, TLAPS

-----------------------------------------------------------------------------
(* The inductive invariant.                                                *)

\* Frames on their way from the camera carry the numbers that follow the
\* stamps already given, in order and without a gap; an error comes last.
CamOrder ==
  \A i \in 1..Len(camQueue) :
    /\ camQueue[i].kind = "frame" => /\ camQueue[i].shot = stamps + i
                                     /\ camQueue[i].shot <= shot
    /\ camQueue[i].kind # "frame" => i = Len(camQueue) /\ capture = "gone"

\* How far the capture thread is ahead of the stamps.
CamAhead ==
  /\ capture \in {"skip", "grab"} => shot = stamps + Len(camQueue)
  /\ capture = "send" /\ grabbed.kind = "frame" =>
       /\ shot = stamps + Len(camQueue) + 1
       /\ grabbed.shot = shot
  /\ capture = "send" /\ grabbed.kind # "frame" =>
       /\ grabbed.kind = "err"
       /\ shot = stamps + Len(camQueue)

\* Any other source has a stamp for every frame.
Direct == source # "cam" => capture = "gone" /\ stamps = shot /\ camQueue = <<>>

\* A file is not buffered.
Unbuffered == (source = "file" <=> buffer = "none") /\ (source = "file" => queue = <<>>)

\* The item being sent has the newest stamp.
ItemStamped ==
  buffer = "send" /\ item.kind = "frame" => item.shot = stamps /\ item.ts = stamps - 1

\* The newest frame that is not being sent.
Settled == IF buffer = "send" /\ item.kind = "frame" THEN stamps - 1 ELSE stamps

\* The queue holds stamped frames in order, newer than the last delivered.
QueueOrder ==
  /\ last.shot <= Settled
  /\ \A i \in 1..Len(queue) :
       queue[i].kind = "frame" =>
         /\ queue[i].ts = queue[i].shot - 1
         /\ last.shot < queue[i].shot /\ queue[i].shot <= Settled
  /\ \A i, j \in 1..Len(queue) :
       i < j /\ queue[i].kind = "frame" /\ queue[j].kind = "frame" =>
         queue[i].shot < queue[j].shot

\* An error or the end is the last item of the queue.
EndIsLast ==
  /\ \A i \in 1..Len(queue) :
       queue[i].kind # "frame" => i = Len(queue) /\ buffer = "gone"
  /\ failed > 0 /\ IsLive => queue = <<>> /\ buffer = "gone"

IInv ==
  /\ TypeOK
  /\ CamOrder /\ CamAhead /\ Direct
  /\ Unbuffered /\ ItemStamped /\ QueueOrder /\ EndIsLast
  /\ stamps <= shot
  /\ StampsCountDrops

-----------------------------------------------------------------------------
(* Sequences.                                                              *)

LEMMA TailFacts ==
  ASSUME NEW S, NEW s \in Seq(S), s # <<>>
  PROVE  /\ Len(s) \in Nat \ {0}
         /\ Head(s) = s[1] /\ s[1] \in S
         /\ Tail(s) \in Seq(S)
         /\ Len(Tail(s)) = Len(s) - 1
         /\ \A i \in 1..Len(Tail(s)) : i + 1 \in 1..Len(s) /\ Tail(s)[i] = s[i + 1]
  OBVIOUS

LEMMA AppendFacts ==
  ASSUME NEW S, NEW s \in Seq(S), NEW e \in S
  PROVE  /\ Append(s, e) \in Seq(S)
         /\ Len(s) \in Nat
         /\ Len(Append(s, e)) = Len(s) + 1
         /\ \A i \in 1..Len(s) : Append(s, e)[i] = s[i]
         /\ Append(s, e)[Len(s) + 1] = e
  OBVIOUS

LEMMA ItemTypes ==
  /\ Error \in Items /\ Error.kind = "err"
  /\ End \in Items /\ End.kind = "end"
  /\ \A n, t \in Nat : Frame(n, t) \in Items /\ Frame(n, t).kind = "frame"
                       /\ Frame(n, t).shot = n /\ Frame(n, t).ts = t
  /\ \A it \in Items : /\ it.kind \in {"frame", "err", "end"}
                       /\ it.shot \in Nat /\ it.ts \in Nat
  BY DEF Error, End, Frame, Item, Items

\* What Stamp makes of an item.
LEMMA StampFacts ==
  ASSUME stamps \in Nat, NEW it \in Items, Stamp(it)
  PROVE  /\ item' \in Items /\ item'.kind = it.kind /\ item'.shot = it.shot
         /\ it.kind = "frame" => item'.ts = stamps /\ stamps' = stamps + 1
         /\ it.kind # "frame" => stamps' = stamps
  BY DEF Stamp, Items

-----------------------------------------------------------------------------
(* Types.                                                                  *)

LEMMA TypesInit == Init => TypeOK
  BY CapacityAssumption, ItemTypes
  DEF Init, TypeOK, IsLive

LEMMA TypesNext == TypeOK /\ [Next]_vars => TypeOK'
<1> SUFFICES ASSUME TypeOK, [Next]_vars PROVE TypeOK'
  OBVIOUS
<1> USE CapacityAssumption DEF TypeOK
<1>1. CASE Capture
  <2>1. CASE SkipFrame
    BY <2>1 DEF SkipFrame, buf, loop, input
  <2>2. CASE SkipFails
    BY <2>2 DEF SkipFails, buf, loop, input
  <2>3. CASE Grab
    BY <2>3, ItemTypes DEF Grab, buf, loop, input
  <2>4. CASE GrabFails
    BY <2>4, ItemTypes DEF GrabFails, buf, loop, input
  <2>5. CASE CaptureSend
    <3>1. camQueue' \in Seq(Items) /\ Len(camQueue') <= CamCap
      BY <2>5, AppendFacts DEF CaptureSend
    <3> QED
      BY <2>5, <3>1 DEF CaptureSend, buf, loop, input
  <2>6. CASE CaptureDisconnected
    BY <2>6 DEF CaptureDisconnected, buf, loop, input
  <2> QED
    BY <1>1, <2>1, <2>2, <2>3, <2>4, <2>5, <2>6 DEF Capture
<1>2. CASE Buffer
  <2>1. CASE ReadCam
    <3>1. /\ Head(camQueue) \in Items
          /\ camQueue' \in Seq(Items) /\ Len(camQueue') <= CamCap
      BY <2>1, TailFacts DEF ReadCam
    <3>2. item' \in Items /\ stamps' \in Nat
      BY <2>1, <3>1, StampFacts DEF ReadCam
    <3> QED
      BY <2>1, <3>1, <3>2 DEF ReadCam, ToSend, loop, input
  <2>2. CASE ReadCamGone
    <3>1. item' \in Items /\ stamps' \in Nat
      BY <2>2, ItemTypes, StampFacts DEF ReadCamGone
    <3> QED
      BY <2>2, <3>1 DEF ReadCamGone, ToSend, cam, loop, input
  <2>3. CASE ReadFrame
    <3>1. Frame(shot + 1, 0) \in Items
      BY ItemTypes
    <3>2. item' \in Items /\ stamps' \in Nat
      BY <2>3, <3>1, StampFacts DEF ReadFrame
    <3> QED
      BY <2>3, <3>2 DEF ReadFrame, ToSend, cam, loop, input
  <2>4. CASE ReadFails
    <3>1. item' \in Items /\ stamps' \in Nat
      BY <2>4, ItemTypes, StampFacts DEF ReadFails
    <3> QED
      BY <2>4, <3>1 DEF ReadFails, ToSend, cam, loop, input
  <2>5. CASE ReadEnd
    <3>1. item' \in Items /\ stamps' \in Nat
      BY <2>5, ItemTypes, StampFacts DEF ReadEnd
    <3> QED
      BY <2>5, <3>1 DEF ReadEnd, ToSend, cam, loop, input
  <2>6. CASE TrySend
    <3>1. queue' \in Seq(Items) /\ Len(queue') <= BufCap
      BY <2>6, AppendFacts DEF TrySend, Enqueue, Full
    <3> QED
      BY <2>6, <3>1 DEF TrySend, AfterSend, cam, loop, input
  <2>7. CASE TrySendFull
    BY <2>7 DEF TrySendFull, AfterSend, cam, loop, input
  <2>8. CASE TrySendDisconnected
    BY <2>8 DEF TrySendDisconnected, cam, loop, input
  <2> QED
    BY <1>2, <2>1, <2>2, <2>3, <2>4, <2>5, <2>6, <2>7, <2>8 DEF Buffer
<1>3. CASE Detect
  <2>1. ASSUME NEW kind, Received(kind)
        PROVE  /\ queue' \in Seq(Items) /\ Len(queue') <= BufCap
               /\ Head(queue) \in Items
    BY <2>1, TailFacts DEF Received
  <2>2. CASE DetectFrame \/ DetectPanics
    BY <2>1, <2>2 DEF DetectFrame, DetectPanics, Received, cam, input
  <2>3. CASE DetectError
    BY <2>1, <2>3 DEF DetectError, Received, cam, input
  <2>4. CASE DetectEnd
    BY <2>1, <2>4 DEF DetectEnd, Received, cam, input
  <2>5. CASE DetectHangup
    BY <2>5 DEF DetectHangup, cam, buf, input
  <2> QED
    BY <1>3, <2>2, <2>3, <2>4, <2>5 DEF Detect
<1>4. CASE File
  <2>1. CASE FileFrame
    BY <2>1, ItemTypes DEF FileFrame, OnlyLoop, cam, input
  <2>2. CASE FileUnprobed
    BY <2>2 DEF FileUnprobed, OnlyLoop, cam, input
  <2>3. CASE FileEnd
    BY <2>3 DEF FileEnd, OnlyLoop, cam, input
  <2>4. CASE FileError
    BY <2>4 DEF FileError, OnlyLoop, cam, input
  <2> QED
    BY <1>4, <2>1, <2>2, <2>3, <2>4 DEF File
<1>5. CASE UNCHANGED vars
  BY <1>5 DEF vars, cam, buf, loop, input
<1> QED
  BY <1>1, <1>2, <1>3, <1>4, <1>5 DEF Next

\* Every variable of the pipeline keeps its type and the bounded channels of
\* cam.rs and buf.rs never exceed their capacities, whatever those are.
THEOREM PipelineTypes == Spec => []TypeOK
<1> QED
  BY TypesInit, TypesNext, PTL DEF Spec

-----------------------------------------------------------------------------
(* The invariant.                                                          *)

LEMMA InvariantInit == Init => IInv
<1> SUFFICES ASSUME Init PROVE IInv
  OBVIOUS
<1>1. TypeOK
  BY TypesInit
<1>2. /\ Len(camQueue) = 0 /\ Len(queue) = 0
      /\ last.shot = 0 /\ buffer # "send"
  BY ItemTypes DEF Init, IsLive
<1>3. source \in {"cam", "picam3", "http", "file"}
  BY SourceAssumption DEF Init
<1> QED
  BY <1>1, <1>2, <1>3
  DEF Init, IInv, CamOrder, CamAhead, Direct, Unbuffered, ItemStamped, Settled,
      QueueOrder, EndIsLast, IsLive, StampsCountDrops

\* The capture thread only touches its channel.
LEMMA CaptureKeepsOrder ==
  ASSUME IInv, Capture, TypeOK'
  PROVE  CamOrder' /\ CamAhead' /\ stamps' <= shot'
<1> USE DEF IInv, TypeOK, CamOrder, CamAhead
<1>1. CASE SkipFrame
  BY <1>1 DEF SkipFrame, buf
<1>2. CASE SkipFails
  BY <1>2 DEF SkipFails, buf
<1>3. CASE Grab
  BY <1>3, ItemTypes DEF Grab, buf
<1>4. CASE GrabFails
  BY <1>4, ItemTypes DEF GrabFails, buf
<1>5. CASE CaptureSend
  <2>1. /\ Len(camQueue') = Len(camQueue) + 1 /\ Len(camQueue) \in Nat
        /\ \A i \in 1..Len(camQueue) : camQueue'[i] = camQueue[i]
        /\ camQueue'[Len(camQueue) + 1] = grabbed
    BY <1>5, AppendFacts DEF CaptureSend
  <2>2. /\ stamps' = stamps /\ shot' = shot
        /\ capture' = IF grabbed.kind = "err" THEN "gone" ELSE "grab"
    BY <1>5 DEF CaptureSend, buf
  <2>3. \A i \in 1..Len(camQueue) : camQueue[i].kind = "frame"
    BY <1>5 DEF CaptureSend
  <2>4. CamOrder'
    <3> SUFFICES ASSUME NEW i \in 1..Len(camQueue')
                 PROVE  /\ camQueue'[i].kind = "frame" =>
                             /\ camQueue'[i].shot = stamps + i
                             /\ camQueue'[i].shot <= shot
                        /\ camQueue'[i].kind # "frame" =>
                             i = Len(camQueue') /\ capture' = "gone"
      BY <2>2
    <3>1. CASE i \in 1..Len(camQueue)
      BY <2>1, <2>3, <3>1
    <3>2. CASE i = Len(camQueue) + 1
      BY <1>5, <2>1, <2>2, <3>2 DEF CaptureSend
    <3> QED
      BY <2>1, <3>1, <3>2
  <2>5. CamAhead' /\ stamps' <= shot'
    BY <1>5, <2>1, <2>2, ItemTypes DEF CaptureSend
  <2> QED
    BY <2>4, <2>5
<1>6. CASE CaptureDisconnected
  BY <1>6 DEF CaptureDisconnected, buf
<1> QED
  BY <1>1, <1>2, <1>3, <1>4, <1>5, <1>6 DEF Capture

\* What the capture thread leaves alone, which is all that concerns BufSrc.
LEMMA CaptureKeepsBuffer ==
  ASSUME IInv, Capture
  PROVE  /\ source = "cam" /\ UNCHANGED <<input, buf, loop>>
         /\ Direct' /\ Unbuffered' /\ ItemStamped' /\ QueueOrder' /\ EndIsLast'
         /\ StampsCountDrops'
<1>1. source = "cam"
  BY DEF IInv, Direct, Capture, SkipFrame, SkipFails, Grab, GrabFails, CaptureSend,
         CaptureDisconnected
<1>2. UNCHANGED <<input, buf, loop>>
  BY DEF Capture, SkipFrame, SkipFails, Grab, GrabFails, CaptureSend,
         CaptureDisconnected
<1> QED
  BY <1>1, <1>2
  DEF IInv, input, buf, loop, Direct, Unbuffered, ItemStamped, Settled, QueueOrder,
      EndIsLast, IsLive, StampsCountDrops

\* BufSrc's thread has read the result it of a live source.
LEMMA ReadKeeps ==
  ASSUME IInv, TypeOK', NEW it \in Items, ToSend, Stamp(it),
         IsLive, UNCHANGED <<input, queue, loop>>,
         it.kind = "frame" => it.shot = stamps + 1
  PROVE  /\ Unbuffered' /\ ItemStamped' /\ QueueOrder' /\ EndIsLast'
         /\ StampsCountDrops'
<1>1. /\ item'.kind = it.kind /\ item'.shot = it.shot
      /\ it.kind = "frame" => item'.ts = stamps /\ stamps' = stamps + 1
      /\ it.kind # "frame" => stamps' = stamps
  BY StampFacts DEF IInv, TypeOK
<1>2. buffer = "next" /\ buffer' = "send"
  BY DEF ToSend
<1>3. Settled = stamps /\ Settled' = stamps
  <2>1. stamps \in Nat
    BY DEF IInv, TypeOK
  <2>2. Settled = stamps
    BY <1>2 DEF Settled
  <2>3. CASE it.kind = "frame"
    BY <1>1, <1>2, <2>1, <2>2, <2>3 DEF Settled
  <2>4. CASE it.kind # "frame"
    BY <1>1, <1>2, <2>2, <2>4 DEF Settled
  <2> QED
    BY <2>3, <2>4
<1>4. ItemStamped'
  BY <1>1, <1>2 DEF ItemStamped, IInv, TypeOK
<1>5. QueueOrder'
  BY <1>3 DEF QueueOrder, IInv, loop
<1>6. Unbuffered' /\ EndIsLast' /\ StampsCountDrops'
  BY <1>2 DEF Unbuffered, EndIsLast, StampsCountDrops, IInv, IsLive, input, loop
<1> QED
  BY <1>4, <1>5, <1>6

LEMMA BufferKeeps ==
  ASSUME IInv, Buffer, TypeOK'
  PROVE  IInv'
<1>0. /\ TypeOK
      /\ IsLive \/ ~(ReadCam \/ ReadCamGone \/ ReadFrame \/ ReadFails \/ ReadEnd)
  BY DEF IInv, Unbuffered, IsLive, ReadCam, ReadCamGone, ReadFrame, ReadFails,
         ReadEnd, ToSend
<1>1. CASE ReadCam
  <2>1. /\ Len(camQueue) \in Nat \ {0} /\ Head(camQueue) = camQueue[1]
        /\ Head(camQueue) \in Items
        /\ Len(camQueue') = Len(camQueue) - 1
        /\ \A i \in 1..Len(camQueue') :
             i + 1 \in 1..Len(camQueue) /\ camQueue'[i] = camQueue[i + 1]
    BY <1>0, <1>1, TailFacts DEF ReadCam, TypeOK
  <2>2. /\ Head(camQueue).kind = "frame" =>
             /\ Head(camQueue).shot = stamps + 1 /\ stamps + 1 <= shot
             /\ stamps' = stamps + 1
        /\ Head(camQueue).kind # "frame" =>
             /\ Len(camQueue) = 1 /\ capture = "gone"
             /\ stamps' = stamps
    <3>1. 1 \in 1..Len(camQueue) /\ stamps \in Nat
      BY <1>0, <2>1 DEF TypeOK
    <3>2. /\ camQueue[1].kind = "frame" =>
               camQueue[1].shot = stamps + 1 /\ camQueue[1].shot <= shot
          /\ camQueue[1].kind # "frame" => 1 = Len(camQueue) /\ capture = "gone"
      BY <3>1 DEF IInv, CamOrder
    <3>3. Stamp(Head(camQueue))
      BY <1>1 DEF ReadCam
    <3>4. /\ Head(camQueue).kind = "frame" => stamps' = stamps + 1
          /\ Head(camQueue).kind # "frame" => stamps' = stamps
      BY <2>1, <3>1, <3>3, StampFacts
    <3> QED
      BY <2>1, <3>2, <3>4
  <2>3. Unbuffered' /\ ItemStamped' /\ QueueOrder' /\ EndIsLast' /\ StampsCountDrops'
    BY <1>0, <1>1, <2>1, <2>2, ReadKeeps DEF ReadCam, input
  <2>4. source = "cam" /\ UNCHANGED <<source, shot, capture, grabbed>>
    BY <1>1 DEF ReadCam, input
  <2>5. CamOrder'
    <3>1. stamps \in Nat
      BY <1>0 DEF TypeOK
    <3> SUFFICES ASSUME NEW i \in 1..Len(camQueue')
                 PROVE  /\ camQueue'[i].kind = "frame" =>
                             /\ camQueue'[i].shot = stamps' + i
                             /\ camQueue'[i].shot <= shot
                        /\ camQueue'[i].kind # "frame" =>
                             i = Len(camQueue') /\ capture = "gone"
      BY <2>4 DEF CamOrder
    <3>2. /\ i + 1 \in 1..Len(camQueue) /\ camQueue'[i] = camQueue[i + 1]
          /\ Len(camQueue) # 1
      BY <2>1
    <3>3. stamps' + i = stamps + (i + 1)
      BY <2>2, <3>1, <3>2
    <3> QED
      BY <2>1, <3>2, <3>3 DEF IInv, CamOrder
  <2>6. CamAhead' /\ stamps' <= shot'
    <3>1. stamps \in Nat /\ shot \in Nat /\ stamps <= shot /\ CamAhead
      BY <1>0 DEF IInv, TypeOK
    <3>2. CASE Head(camQueue).kind = "frame"
      <4>1. stamps' + Len(camQueue') = stamps + Len(camQueue)
        BY <2>1, <2>2, <3>1, <3>2
      <4>2. stamps' <= shot'
        BY <2>2, <2>4, <3>2
      <4> QED
        BY <2>1, <2>2, <2>4, <3>1, <3>2, <4>1, <4>2 DEF CamAhead
    <3>3. CASE Head(camQueue).kind # "frame"
      BY <2>2, <2>4, <3>1, <3>3 DEF CamAhead
    <3> QED
      BY <3>2, <3>3
  <2> QED
    BY <2>3, <2>4, <2>5, <2>6 DEF IInv, Direct
<1>2. CASE ReadCamGone
  <2>1. stamps' = stamps
    BY <1>0, <1>2, ItemTypes, StampFacts DEF ReadCamGone, TypeOK
  <2>2. Unbuffered' /\ ItemStamped' /\ QueueOrder' /\ EndIsLast' /\ StampsCountDrops'
    BY <1>0, <1>2, ItemTypes, ReadKeeps DEF ReadCamGone
  <2> QED
    BY <1>2, <2>1, <2>2
    DEF ReadCamGone, IInv, cam, input, CamOrder, CamAhead, Direct
<1>3. CASE ReadFrame
  <2>1. /\ Frame(shot + 1, 0) \in Items
        /\ Frame(shot + 1, 0).kind = "frame" /\ Frame(shot + 1, 0).shot = shot + 1
    BY <1>0, ItemTypes DEF TypeOK
  <2>2. stamps = shot /\ capture = "gone" /\ camQueue = <<>> /\ source # "cam"
    BY <1>3 DEF ReadFrame, IInv, Direct
  <2>3. stamps' = shot' /\ shot' \in Nat
    BY <1>0, <1>3, <2>1, <2>2, StampFacts DEF ReadFrame, TypeOK
  <2>4. Unbuffered' /\ ItemStamped' /\ QueueOrder' /\ EndIsLast' /\ StampsCountDrops'
    BY <1>0, <1>3, <2>1, <2>2, ReadKeeps DEF ReadFrame
  <2> QED
    BY <1>3, <2>2, <2>3, <2>4
    DEF ReadFrame, IInv, cam, input, CamOrder, CamAhead, Direct
<1>4. CASE ReadFails \/ ReadEnd
  <2>1. PICK it \in {Error, End} : ToSend /\ Stamp(it)
    BY <1>4 DEF ReadFails, ReadEnd
  <2>2. it \in Items /\ it.kind # "frame"
    BY <2>1, ItemTypes
  <2>3. UNCHANGED <<input, shot, cam, queue, loop>>
    BY <1>4 DEF ReadFails, ReadEnd
  <2>4. stamps' = stamps
    BY <1>0, <2>1, <2>2, StampFacts DEF TypeOK
  <2>5. Unbuffered' /\ ItemStamped' /\ QueueOrder' /\ EndIsLast' /\ StampsCountDrops'
    BY <1>0, <1>4, <2>1, <2>2, <2>3, ReadKeeps
  <2> QED
    BY <2>3, <2>4, <2>5 DEF IInv, cam, input, CamOrder, CamAhead, Direct
<1>5. CASE TrySend
  <2>1. /\ Len(queue') = Len(queue) + 1 /\ Len(queue) \in Nat
        /\ \A i \in 1..Len(queue) : queue'[i] = queue[i]
        /\ queue'[Len(queue) + 1] = item
    BY <1>0, <1>5, AppendFacts DEF TrySend, Enqueue, TypeOK
  <2>2. /\ UNCHANGED <<input, shot, cam, stamps, item, loop>>
        /\ buffer = "send" /\ detector = "reading"
        /\ buffer' = IF item.kind = "frame" THEN "next" ELSE "gone"
    BY <1>0, <1>5, ItemTypes DEF TrySend, AfterSend, Done, Connected, TypeOK
  <2>3. Unbuffered' /\ ItemStamped' /\ StampsCountDrops'
    BY <2>2 DEF IInv, Unbuffered, ItemStamped, StampsCountDrops, input, loop
  <2>4. \A i \in 1..Len(queue) : queue[i].kind = "frame"
    BY <2>2 DEF IInv, EndIsLast
  <2>5. EndIsLast'
    <3>1. ~(failed > 0 /\ IsLive) /\ UNCHANGED <<failed, IsLive>>
      BY <2>2 DEF IInv, EndIsLast, IsLive, input, loop
    <3> QED
      BY <2>1, <2>2, <2>4, <3>1 DEF EndIsLast
  <2>6. QueueOrder'
    <3>1. stamps \in Nat /\ last.shot \in Nat /\ \A i \in 1..Len(queue) : queue[i].shot \in Nat
      BY <1>0, ItemTypes DEF TypeOK
    <3>2. Settled' = stamps
      BY <2>2 DEF Settled
    <3>3. Settled <= stamps /\ Settled \in Int
      BY <3>1 DEF Settled
    <3>4. last' = last
      BY <2>2 DEF loop
    <3>5. item.kind = "frame" =>
            /\ item.shot = stamps /\ item.ts = stamps - 1 /\ Settled = stamps - 1
      BY <2>2 DEF IInv, ItemStamped, Settled
    <3>6. last.shot <= Settled
      BY DEF IInv, QueueOrder
    <3>7. \A i \in 1..Len(queue') :
            queue'[i].kind = "frame" =>
              /\ queue'[i].ts = queue'[i].shot - 1
              /\ last.shot < queue'[i].shot /\ queue'[i].shot <= stamps
      <4> SUFFICES ASSUME NEW i \in 1..Len(queue'), queue'[i].kind = "frame"
                   PROVE  /\ queue'[i].ts = queue'[i].shot - 1
                          /\ last.shot < queue'[i].shot /\ queue'[i].shot <= stamps
        OBVIOUS
      <4>1. CASE i \in 1..Len(queue)
        <5>1. /\ queue[i].ts = queue[i].shot - 1
              /\ last.shot < queue[i].shot /\ queue[i].shot <= Settled
          BY <2>4, <4>1 DEF IInv, QueueOrder
        <5> QED
          BY <2>1, <3>1, <3>3, <4>1, <5>1
      <4>2. CASE i = Len(queue) + 1
        BY <2>1, <3>1, <3>5, <3>6, <4>2
      <4> QED
        BY <2>1, <4>1, <4>2
    <3>8. \A i, j \in 1..Len(queue') :
            i < j /\ queue'[i].kind = "frame" /\ queue'[j].kind = "frame" =>
              queue'[i].shot < queue'[j].shot
      <4> SUFFICES ASSUME NEW i \in 1..Len(queue'), NEW j \in 1..Len(queue'), i < j,
                          queue'[j].kind = "frame"
                   PROVE  queue'[i].shot < queue'[j].shot
        OBVIOUS
      <4>1. i \in 1..Len(queue) /\ queue'[i] = queue[i] /\ queue[i].kind = "frame"
        BY <2>1, <2>4
      <4>2. CASE j \in 1..Len(queue)
        BY <2>1, <2>4, <4>1, <4>2 DEF IInv, QueueOrder
      <4>3. CASE j = Len(queue) + 1
        <5>1. queue[i].shot <= Settled
          BY <4>1 DEF IInv, QueueOrder
        <5> QED
          BY <2>1, <3>1, <3>5, <4>1, <4>3, <5>1
      <4> QED
        BY <2>1, <4>2, <4>3
    <3>9. last.shot <= stamps
      BY <3>1, <3>3, <3>6
    <3> QED
      BY <3>2, <3>4, <3>7, <3>8, <3>9 DEF QueueOrder
  <2> QED
    BY <2>2, <2>3, <2>5, <2>6 DEF IInv, cam, input, CamOrder, CamAhead, Direct
<1>6. CASE TrySendFull \/ TrySendDisconnected
  <2>1. /\ UNCHANGED <<input, shot, cam, stamps, item, queue, loop>>
        /\ buffer = "send" /\ buffer' \in {"next", "gone"}
    BY <1>6 DEF TrySendFull, TrySendDisconnected, AfterSend
  <2>2. Settled <= Settled' /\ Settled \in Int /\ Settled' \in Int
    BY <1>0, <2>1 DEF Settled, TypeOK
  <2>3. /\ last.shot \in Nat
        /\ \A i \in 1..Len(queue) : queue[i].shot \in Nat
    BY <1>0, ItemTypes DEF TypeOK
  <2>4. QueueOrder'
    <3>1. last' = last /\ queue' = queue
      BY <2>1 DEF loop
    <3> QED
      BY <2>2, <2>3, <3>1 DEF IInv, QueueOrder
  <2>5. Unbuffered' /\ ItemStamped' /\ EndIsLast' /\ StampsCountDrops'
    BY <2>1
    DEF IInv, Unbuffered, ItemStamped, EndIsLast, StampsCountDrops, IsLive, input, loop
  <2> QED
    BY <2>1, <2>4, <2>5 DEF IInv, cam, input, CamOrder, CamAhead, Direct
<1> QED
  BY <1>1, <1>2, <1>3, <1>4, <1>5, <1>6 DEF Buffer

\* The oldest item of the queue and what remains after it.
LEMMA ReceivedFacts ==
  ASSUME IInv, NEW kind, Received(kind)
  PROVE  /\ Len(queue) \in Nat \ {0} /\ Head(queue) = queue[1]
         /\ queue[1] \in Items /\ queue[1].kind = kind
         /\ Len(queue') = Len(queue) - 1
         /\ \A i \in 1..Len(queue') : i + 1 \in 1..Len(queue) /\ queue'[i] = queue[i + 1]
         /\ kind # "frame" => queue' = <<>> /\ buffer = "gone"
         /\ IsLive /\ detector = "reading" /\ ~(failed > 0)
<1>1. TypeOK /\ queue \in Seq(Items) /\ queue # <<>>
  BY DEF IInv, TypeOK, Received
<1>2. /\ Len(queue) \in Nat \ {0} /\ Head(queue) = queue[1] /\ queue[1] \in Items
      /\ queue' \in Seq(Items) /\ Len(queue') = Len(queue) - 1
      /\ \A i \in 1..Len(queue') : i + 1 \in 1..Len(queue) /\ queue'[i] = queue[i + 1]
  BY <1>1, TailFacts DEF Received
<1>3. queue[1].kind = kind
  BY <1>2 DEF Received
<1>4. ASSUME kind # "frame" PROVE queue' = <<>> /\ buffer = "gone"
  <2>1. Len(queue) = 1 /\ buffer = "gone"
    BY <1>2, <1>3, <1>4 DEF IInv, EndIsLast
  <2> QED
    BY <1>2, <2>1
<1>5. IsLive /\ detector = "reading" /\ ~(failed > 0)
  BY <1>1 DEF IInv, Unbuffered, EndIsLast, IsLive, Received
<1> QED
  BY <1>2, <1>3, <1>4, <1>5

LEMMA DetectKeeps ==
  ASSUME IInv, Detect, TypeOK'
  PROVE  IInv'
<1>0. TypeOK
  BY DEF IInv
<1>1. CASE DetectFrame \/ DetectPanics
  <2>1. /\ Len(queue) \in Nat \ {0} /\ Head(queue) = queue[1]
        /\ queue[1] \in Items /\ queue[1].kind = "frame"
        /\ Len(queue') = Len(queue) - 1
        /\ \A i \in 1..Len(queue') : i + 1 \in 1..Len(queue) /\ queue'[i] = queue[i + 1]
        /\ IsLive
    BY <1>1, ReceivedFacts DEF DetectFrame, DetectPanics
  <2>2. /\ last' \in {queue[1], last} /\ failed' = 0
        /\ UNCHANGED <<input, shot, cam, stamps, buffer, item>>
    BY <1>1, <2>1 DEF DetectFrame, DetectPanics, Received
  <2>3. Settled' = Settled /\ Settled \in Int
    BY <1>0, <2>2 DEF Settled, TypeOK
  <2>4. 1 \in 1..Len(queue)
    BY <2>1
  <2>5. /\ queue[1].ts = queue[1].shot - 1
        /\ last.shot < queue[1].shot /\ queue[1].shot <= Settled
        /\ last.shot \in Nat /\ queue[1].shot \in Nat
    BY <1>0, <2>1, <2>4, ItemTypes DEF IInv, QueueOrder, TypeOK
  <2>6. QueueOrder'
    <3>1. ASSUME NEW i \in 1..Len(queue'), queue'[i].kind = "frame"
          PROVE  /\ queue'[i].ts = queue'[i].shot - 1
                 /\ queue[1].shot < queue'[i].shot /\ queue'[i].shot <= Settled
      <4>1. i + 1 \in 1..Len(queue) /\ queue'[i] = queue[i + 1] /\ 1 < i + 1
        BY <2>1
      <4> QED
        BY <2>1, <2>4, <3>1, <4>1 DEF IInv, QueueOrder
    <3>2. ASSUME NEW i \in 1..Len(queue'), NEW j \in 1..Len(queue'), i < j,
                 queue'[i].kind = "frame", queue'[j].kind = "frame"
          PROVE  queue'[i].shot < queue'[j].shot
      <4>1. /\ i + 1 \in 1..Len(queue) /\ queue'[i] = queue[i + 1]
            /\ j + 1 \in 1..Len(queue) /\ queue'[j] = queue[j + 1]
            /\ i + 1 < j + 1
        BY <2>1, <3>2
      <4> QED
        BY <3>2, <4>1 DEF IInv, QueueOrder
    <3>3. last'.shot <= queue[1].shot /\ last'.shot \in Nat
      BY <2>2, <2>5
    <3>4. \A i \in 1..Len(queue') : queue'[i] \in Items /\ queue'[i].shot \in Nat
      BY ItemTypes DEF TypeOK
    <3> QED
      BY <2>2, <2>3, <2>5, <3>1, <3>2, <3>3, <3>4 DEF QueueOrder
  <2>7. EndIsLast'
    <3>1. ASSUME NEW i \in 1..Len(queue'), queue'[i].kind # "frame"
          PROVE  i = Len(queue') /\ buffer = "gone"
      <4>1. i + 1 \in 1..Len(queue) /\ queue'[i] = queue[i + 1]
        BY <2>1
      <4>2. i + 1 = Len(queue) /\ buffer = "gone"
        BY <3>1, <4>1 DEF IInv, EndIsLast
      <4> QED
        BY <2>1, <4>2
    <3> QED
      BY <2>2, <3>1 DEF EndIsLast
  <2>8. Unbuffered' /\ ItemStamped' /\ StampsCountDrops'
    BY <2>1, <2>2, <2>5
    DEF IInv, Unbuffered, ItemStamped, StampsCountDrops, IsLive, input
  <2> QED
    BY <2>2, <2>6, <2>7, <2>8 DEF IInv, cam, input, CamOrder, CamAhead, Direct
<1>2. CASE DetectError \/ DetectEnd
  <2>1. queue' = <<>> /\ buffer = "gone" /\ IsLive
    BY <1>2, ReceivedFacts DEF DetectError, DetectEnd
  <2>2. UNCHANGED <<input, shot, cam, stamps, buffer, item, last>>
    BY <1>2 DEF DetectError, DetectEnd, Received
  <2>3. Settled' = Settled /\ Len(queue') = 0
    BY <2>1, <2>2 DEF Settled
  <2>4. QueueOrder' /\ EndIsLast'
    BY <2>1, <2>2, <2>3 DEF IInv, QueueOrder, EndIsLast
  <2> QED
    BY <2>1, <2>2, <2>4
    DEF IInv, cam, input, CamOrder, CamAhead, Direct, Unbuffered, ItemStamped,
        StampsCountDrops, IsLive
<1>3. CASE DetectHangup
  BY <1>3
  DEF DetectHangup, IInv, cam, buf, input, CamOrder, CamAhead, Direct, Unbuffered,
      ItemStamped, Settled, QueueOrder, EndIsLast, IsLive, StampsCountDrops
<1> QED
  BY <1>1, <1>2, <1>3 DEF Detect

LEMMA FileKeeps ==
  ASSUME IInv, File, TypeOK'
  PROVE  IInv'
<1>1. /\ source = "file" /\ buffer = "none" /\ queue = <<>> /\ camQueue = <<>>
      /\ stamps = shot /\ capture = "gone" /\ shot \in Nat /\ last.shot <= shot
  BY DEF File, FileFrame, FileUnprobed, FileEnd, FileError, ReadFile, IsLive, IInv,
         TypeOK, Unbuffered, Direct, QueueOrder, Settled
<1>2. UNCHANGED <<input, cam, buffer, item, queue>>
  BY DEF File, FileFrame, FileUnprobed, FileEnd, FileError, OnlyLoop
<1>3. CASE FileFrame
  <2>1. /\ shot' = shot + 1 /\ stamps' = shot + 1
        /\ last'.shot = shot + 1 /\ last'.ts = shot
    BY <1>1, <1>3, ItemTypes DEF FileFrame
  <2> QED
    BY <1>1, <1>2, <2>1
    DEF IInv, cam, input, CamOrder, CamAhead, Direct, Unbuffered, ItemStamped,
        Settled, QueueOrder, EndIsLast, IsLive, StampsCountDrops
<1>4. CASE FileUnprobed \/ FileEnd \/ FileError
  <2>1. UNCHANGED <<shot, stamps, last>>
    BY <1>4 DEF FileUnprobed, FileEnd, FileError
  <2> QED
    BY <1>1, <1>2, <2>1
    DEF IInv, cam, input, CamOrder, CamAhead, Direct, Unbuffered, ItemStamped,
        Settled, QueueOrder, EndIsLast, IsLive, StampsCountDrops
<1> QED
  BY <1>3, <1>4 DEF File

LEMMA InvariantNext == IInv /\ [Next]_vars => IInv'
<1> SUFFICES ASSUME IInv, [Next]_vars PROVE IInv'
  OBVIOUS
<1>1. TypeOK'
  BY TypesNext DEF IInv
<1>2. CASE Capture
  BY <1>1, <1>2, CaptureKeepsOrder, CaptureKeepsBuffer DEF IInv
<1>3. CASE Buffer
  BY <1>1, <1>3, BufferKeeps
<1>4. CASE Detect
  BY <1>1, <1>4, DetectKeeps
<1>5. CASE File
  BY <1>1, <1>5, FileKeeps
<1>6. CASE UNCHANGED vars
  BY <1>1, <1>6
  DEF IInv, vars, input, cam, buf, loop, CamOrder, CamAhead, Direct, Unbuffered,
      ItemStamped, Settled, QueueOrder, EndIsLast, IsLive, StampsCountDrops
<1> QED
  BY <1>2, <1>3, <1>4, <1>5, <1>6 DEF Next

LEMMA Invariant == Spec => []IInv
<1> QED
  BY InvariantInit, InvariantNext, PTL DEF Spec

-----------------------------------------------------------------------------
(* What follows from it.                                                   *)

\* Under any load, a delivered frame has as many stamps before it as the
\* source took frames before it: what BufSrc drops keeps its slot in time.
THEOREM StampsCorrect == Spec => []StampsCountDrops
<1>1. IInv => StampsCountDrops
  BY DEF IInv
<1> QED
  BY <1>1, Invariant, PTL

\* After an error of a live source no frame is delivered any more, so the
\* detect loop counts at most one failure.
THEOREM DeliveryEndsWithError == Spec => ErrorIsLast
<1>1. ASSUME IInv, DetectFrame PROVE failed = 0
  <2>1. ~(failed > 0) /\ failed \in Nat
    BY <1>1, ReceivedFacts DEF DetectFrame, IInv, TypeOK
  <2> QED
    BY <2>1
<1>2. IInv /\ [Next]_vars => [DetectFrame => failed = 0]_vars
  BY <1>1
<1> QED
  BY <1>2, Invariant, PTL DEF Spec, ErrorIsLast

LEMMA StreamStep == IInv /\ [Next]_vars => [Stream!Next]_(Stream!svars)
<1> SUFFICES ASSUME IInv, [Next]_vars
             PROVE  Stream!Next \/ UNCHANGED Stream!svars
  OBVIOUS
<1> USE DEF Stream!Next, Stream!svars
<1>0. shot \in Nat /\ last \in Items /\ last.shot \in Nat
  BY ItemTypes DEF IInv, TypeOK
<1>1. CASE Capture
  BY <1>1
  DEF Capture, SkipFrame, SkipFails, Grab, GrabFails, CaptureSend,
      CaptureDisconnected, loop, Stream!Read
<1>2. CASE Buffer
  BY <1>2
  DEF Buffer, ReadCam, ReadCamGone, ReadFrame, ReadFails, ReadEnd, TrySend,
      TrySendFull, TrySendDisconnected, loop, Stream!Read
<1>3. CASE DetectFrame
  <2>1. /\ 1 \in 1..Len(queue) /\ queue[1] \in Items /\ queue[1].kind = "frame"
        /\ last' = queue[1] /\ detector = "reading"
    BY <1>3, ReceivedFacts DEF DetectFrame
  <2>2. last.shot < queue[1].shot /\ queue[1].shot <= Settled
    BY <2>1 DEF IInv, QueueOrder
  <2>3. Settled <= shot /\ Settled \in Int
    BY DEF IInv, TypeOK, Settled
  <2>4. queue[1].shot \in Nat
    BY <2>1, ItemTypes
  <2>5. last'.shot \in last.shot + 1 .. shot
    BY <1>0, <2>1, <2>2, <2>3, <2>4
  <2>6. UNCHANGED <<shot, detector>>
    BY <1>3 DEF DetectFrame, Received
  <2> QED
    BY <2>1, <2>5, <2>6 DEF Stream!Deliver
<1>4. CASE DetectPanics \/ DetectError \/ DetectEnd \/ DetectHangup
  BY <1>4
  DEF DetectPanics, DetectError, DetectEnd, DetectHangup, Received, Stream!Close
<1>5. CASE FileFrame
  <2>1. /\ shot' = shot + 1 /\ last'.shot = shot + 1
        /\ detector = "reading" /\ detector' = detector
    BY <1>0, <1>5, ItemTypes DEF FileFrame, ReadFile, IInv, TypeOK
  <2> QED
    BY <2>1 DEF Stream!Pass
<1>6. CASE FileUnprobed \/ FileEnd \/ FileError
  BY <1>6
  DEF FileUnprobed, FileEnd, FileError, ReadFile, Stream!Close
<1>7. CASE UNCHANGED vars
  BY <1>7 DEF vars, loop
<1> QED
  BY <1>1, <1>2, <1>3, <1>4, <1>5, <1>6, <1>7 DEF Next, Detect, File

\* The threads and queues between a source and the detector implement the
\* lossy stream in order of FrameStream, for all capacities and loads.
THEOREM StreamRefinement == Spec => LossyStreamInOrder
<1>1. Init => Stream!Init
  BY ItemTypes DEF Init, Stream!Init
<1> QED
  BY <1>1, StreamStep, Invariant, PTL DEF Spec, LossyStreamInOrder, Stream!Spec
=============================================================================
