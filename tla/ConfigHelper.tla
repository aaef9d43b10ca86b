---------------------------- MODULE ConfigHelper ----------------------------
(***************************************************************************)
(* The preview server of trainbot confighelper (confighelper.rs): the main *)
(* thread reads frames and puts every EveryNth of them, as a JPEG, into a  *)
(* FrameState behind a mutex; one thread per connection waits on the       *)
(* condition variable and writes pictures to its client.                   *)
(*                                                                         *)
(* A critical section in which nothing else can happen is one action; the  *)
(* section of the main thread is three, because it updates and notifies in *)
(* steps.  A picture is the number of its frame.                           *)
(***************************************************************************)
EXTENDS Integers, Sequences

CONSTANTS
  Clients,    \* connections that are made
  Readers,    \* the clients that read what they are sent
  EveryNth,   \* every_nth
  MaxFrames   \* bound on the number of frames read

ASSUME ConfigHelperAssumption ==
  /\ Readers \subseteq Clients
  /\ EveryNth \in Nat \ {0}
  /\ MaxFrames \in Nat

Nothing == 0

VARIABLES
  server,     \* the thread of the listener
  capture,    \* where the main thread is
  frameIdx,   \* frame_idx
  lock,       \* the mutex: "free" or "capture"
  jpeg,       \* FrameState.jpeg
  seq,        \* FrameState.seq
  conn,       \* conn[c]: where the thread of the connection is
  kind,       \* kind[c]: the path requested
  lastSeq,    \* last_seq of a stream
  held,       \* the copy of the picture being written
  published,  \* history: the pictures that were put into FrameState
  shown       \* history: shown[c]: [seq, jpeg] of the pictures c received

main    == <<capture, frameIdx, lock>>
state   == <<jpeg, seq, published>>
clients == <<conn, kind, lastSeq, held, shown>>
vars    == <<server, main, state, clients>>

-----------------------------------------------------------------------------
(* The main thread.                                                        *)

\* A frame that is not due, or cannot be encoded, is skipped.
ReadFrame ==
  /\ capture = "read"
  /\ frameIdx < MaxFrames
  /\ \/ frameIdx % EveryNth = 0 /\ capture' = "encoded" /\ UNCHANGED frameIdx
     \/ frameIdx' = frameIdx + 1 /\ UNCHANGED capture
  /\ UNCHANGED <<lock, server, state, clients>>

Lock ==
  /\ capture = "encoded"
  /\ lock = "free"
  /\ lock' = "capture"
  /\ capture' = "locked"
  /\ UNCHANGED <<frameIdx, server, state, clients>>

NextSeq == seq + 1

Update ==
  /\ capture = "locked"
  /\ jpeg' = frameIdx + 1
  /\ seq' = NextSeq
  /\ published' = Append(published, frameIdx + 1)
  /\ capture' = "updated"
  /\ UNCHANGED <<frameIdx, lock, server, clients>>

Waiting == {c \in Clients : conn[c] = "waiting"}

Woken_One == IF Waiting = {} THEN {} ELSE {CHOOSE c \in Waiting : TRUE}
\* notify_all.
Woken == Waiting

\* notify_all and the end of the critical section.
Notify ==
  /\ capture = "updated"
  /\ conn' = [c \in Clients |-> IF c \in Woken THEN "look" ELSE conn[c]]
  /\ lock' = "free"
  /\ capture' = "read"
  /\ frameIdx' = frameIdx + 1
  /\ UNCHANGED <<kind, lastSeq, held, shown, server, state>>

\* The main thread sleeps for 100 ms and tries again.
SourceFails ==
  /\ capture = "read"
  /\ capture' = "asleep"
  /\ UNCHANGED <<frameIdx, lock, server, state, clients>>

WakeUp ==
  /\ capture = "asleep"
  /\ capture' = "read"
  /\ UNCHANGED <<frameIdx, lock, server, state, clients>>

\* The end of the stream ends run, and with it the process.
SourceEnds ==
  /\ capture = "read"
  /\ capture' = "ended"
  /\ server' = "dead"
  /\ conn' = [c \in Clients |-> "closed"]
  /\ UNCHANGED <<frameIdx, lock, kind, lastSeq, held, shown, state>>

-----------------------------------------------------------------------------
(* The server and the threads of the connections.                          *)

Bind ==
  /\ server = "starting"
  /\ server' \in {"listening", "dead"}
  /\ UNCHANGED <<main, state, clients>>

Connect(c) ==
  /\ server = "listening"
  /\ conn[c] = "new"
  /\ \/ /\ kind' \in {[kind EXCEPT ![c] = k] : k \in {"stream", "snapshot"}}
        /\ conn' = [conn EXCEPT ![c] = "look"]
     \/ \* any other path, or no request at all
        /\ conn' = [conn EXCEPT ![c] = "closed"]
        /\ UNCHANGED kind
  /\ UNCHANGED <<lastSeq, held, shown, server, main, state>>

NothingNew_Ignored(c) == FALSE
NothingNew_Stale(c) == seq <= lastSeq[c] + 1
NothingNew(c) == seq = lastSeq[c]

\* The condition of wait_while.
MustWait(c) == IF kind[c] = "stream" THEN NothingNew(c) ELSE jpeg = Nothing

Wait(c) ==
  /\ conn[c] = "look"
  /\ lock = "free"
  /\ MustWait(c)
  /\ conn' = [conn EXCEPT ![c] = "waiting"]
  /\ UNCHANGED <<kind, lastSeq, held, shown, server, main, state>>

\* Condition variables may wake a thread for no reason.
SpuriousWakeUp(c) ==
  /\ conn[c] = "waiting"
  /\ conn' = [conn EXCEPT ![c] = "look"]
  /\ UNCHANGED <<kind, lastSeq, held, shown, server, main, state>>

AfterCopy == IF jpeg = Nothing THEN "look" ELSE "write"

Copy(c) ==
  /\ conn[c] = "look"
  /\ lock = "free"
  /\ ~MustWait(c)
  /\ lastSeq' = IF kind[c] = "stream" THEN [lastSeq EXCEPT ![c] = seq] ELSE lastSeq
  /\ held' = [held EXCEPT ![c] = jpeg]
  /\ conn' = [conn EXCEPT ![c] = AfterCopy]
  /\ UNCHANGED <<kind, shown, server, main, state>>

Sent(c) == held[c]

Write(c) ==
  /\ conn[c] = "write"
  /\ shown' = [shown EXCEPT ![c] = Append(@, [seq |-> lastSeq[c], jpeg |-> Sent(c)])]
  /\ conn' = [conn EXCEPT ![c] = IF kind[c] = "stream" THEN "look" ELSE "closed"]
  /\ UNCHANGED <<kind, lastSeq, held, server, main, state>>

\* A client that has gone is only noticed when something is written to it.
WriteFails(c) ==
  /\ conn[c] = "write"
  /\ conn' = [conn EXCEPT ![c] = "closed"]
  /\ UNCHANGED <<kind, lastSeq, held, shown, server, main, state>>

-----------------------------------------------------------------------------
Init ==
  /\ server = "starting"
  /\ capture = "read" /\ frameIdx = 0 /\ lock = "free"
  /\ jpeg = Nothing /\ seq = 0 /\ published = <<>>
  /\ conn = [c \in Clients |-> "new"]
  /\ kind = [c \in Clients |-> "none"]
  /\ lastSeq = [c \in Clients |-> 0]
  /\ held = [c \in Clients |-> Nothing]
  /\ shown = [c \in Clients |-> <<>>]

CriticalSection == Lock \/ Update \/ Notify

Next ==
  \/ ReadFrame \/ CriticalSection \/ SourceFails \/ WakeUp \/ SourceEnds
  \/ Bind
  \/ \E c \in Clients :
       \/ Connect(c) \/ Wait(c) \/ SpuriousWakeUp(c) \/ Copy(c)
       \/ Write(c) \/ WriteFails(c)

Spec == Init /\ [][Next]_vars

\* Threads run.  Nothing is assumed of the source, nor of clients that are
\* not Readers: their threads may be stuck in write forever.
Fairness ==
  /\ WF_vars(CriticalSection)
  /\ \A c \in Clients : WF_vars(Wait(c)) /\ WF_vars(Copy(c))
  /\ \A c \in Readers : WF_vars(Write(c))

LiveSpec == Spec /\ Fairness

-----------------------------------------------------------------------------
(* Properties.                                                             *)

\* Every variable keeps its type.
TypeOK ==
  /\ server \in {"starting", "listening", "dead"}
  /\ capture \in {"read", "encoded", "locked", "updated", "asleep", "ended"}
  /\ frameIdx \in 0..MaxFrames
  /\ lock \in {"free", "capture"}
  /\ jpeg \in 0..MaxFrames /\ seq = Len(published)
  /\ conn \in [Clients -> {"new", "look", "waiting", "write", "closed"}]
  /\ kind \in [Clients -> {"none", "stream", "snapshot"}]
  /\ lastSeq \in [Clients -> 0..MaxFrames]
  /\ held \in [Clients -> 0..MaxFrames]

\* No wake-up is lost: once the main thread has left its critical section,
\* no thread sleeps although there is something for it to fetch.
NoLostWakeUp ==
  lock = "free" => \A c \in Waiting : MustWait(c)

\* A stream never shows a picture twice and never goes back, however late
\* its thread gets the mutex, and the number a client remembers belongs to
\* the picture it is sent: an old number never goes with a new picture.
StreamMovesOn ==
  \A c \in Clients :
    /\ \A k \in 1..Len(shown[c]) - 1 : shown[c][k].seq < shown[c][k + 1].seq
    /\ kind[c] = "stream" => \A k \in 1..Len(shown[c]) :
                               shown[c][k].jpeg = published[shown[c][k].seq]

Served(c, n) ==
  \/ conn[c] = "closed"
  \/ kind[c] = "stream" /\ lastSeq[c] >= n /\ shown[c] # <<>>
                        /\ shown[c][Len(shown[c])].seq >= n

\* A client that reads gets every picture published or a later one, and a
\* snapshot is answered once there is a picture, even when other clients
\* never read and block their threads forever.
ReadersAreServed ==
  \A c \in Readers : \A n \in 1..MaxFrames :
    (kind[c] # "none" /\ seq = n) ~> Served(c, n)
=============================================================================
