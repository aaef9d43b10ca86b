------------------------- MODULE ConfigHelperProofs -------------------------
(***************************************************************************)
(* Proofs about ConfigHelper, for any number of clients: no wake-up of the *)
(* condition variable is lost, and every stream moves forward through the  *)
(* pictures that were published, each with its own number.                 *)
(***************************************************************************)
EXTENDS ConfigHelper, TLAPS

-----------------------------------------------------------------------------
(* The inductive invariant.                                                *)

\* The main thread holds the mutex between Lock and Notify.
LockHeld == lock = "capture" <=> capture \in {"locked", "updated"}

\* The counters of the main thread: a frame is counted after it is published.
Counters ==
  /\ capture \in {"encoded", "locked", "updated"} => frameIdx < MaxFrames
  /\ seq <= IF capture = "updated" THEN frameIdx + 1 ELSE frameIdx

\* Only between Update and Notify may a thread sleep without a reason.
SleepersMustWait == capture # "updated" => \A c \in Waiting : MustWait(c)

\* FrameState holds the newest picture published.
Newest ==
  /\ published \in Seq(1..MaxFrames)
  /\ seq = Len(published)
  /\ jpeg = IF seq = 0 THEN Nothing ELSE published[seq]

\* What a connection has shown and is about to show.
Shown(c) ==
  /\ shown[c] \in Seq([seq : 0..MaxFrames, jpeg : 0..MaxFrames])
  /\ lastSeq[c] <= seq
  /\ \A k \in 1..Len(shown[c]) - 1 : shown[c][k].seq < shown[c][k + 1].seq
  /\ \A k \in 1..Len(shown[c]) :
       kind[c] = "stream" =>
         /\ shown[c][k].seq \in 1..lastSeq[c]
         /\ shown[c][k].jpeg = published[shown[c][k].seq]
         /\ conn[c] = "write" => shown[c][k].seq < lastSeq[c]
  /\ kind[c] # "stream" /\ conn[c] # "closed" => shown[c] = <<>>
  /\ conn[c] = "new" => kind[c] = "none" /\ lastSeq[c] = 0
  /\ conn[c] = "write" /\ kind[c] = "stream" =>
       lastSeq[c] \in 1..seq /\ held[c] = published[lastSeq[c]]

IInv ==
  /\ TypeOK
  /\ LockHeld /\ Counters /\ SleepersMustWait /\ Newest
  /\ DOMAIN shown = Clients
  /\ \A c \in Clients : Shown(c)

-----------------------------------------------------------------------------
(* What keeps the history of a connection in order.                        *)

\* A connection that shows nothing new stays in order while pictures are
\* added.
LEMMA ShownKept ==
  ASSUME TypeOK, Newest, NEW c \in Clients, Shown(c),
         kind'[c] = kind[c], lastSeq'[c] = lastSeq[c],
         held'[c] = held[c], shown'[c] = shown[c],
         conn'[c] = "new" => conn[c] = "new",
         conn'[c] = "write" => conn[c] = "write",
         conn'[c] # "closed" => conn[c] # "closed",
         seq' \in Nat, seq <= seq',
         \A i \in 1..seq : published'[i] = published[i]
  PROVE  Shown(c)'
<1>1. /\ lastSeq[c] \in Nat /\ seq \in Nat /\ lastSeq[c] <= seq
      /\ \A k \in 1..lastSeq[c] : published'[k] = published[k]
  BY DEF TypeOK, Newest, Shown
<1>2. lastSeq[c] <= seq' /\ 1..seq \subseteq 1..seq'
  BY <1>1
<1>3. ASSUME NEW k \in 1..Len(shown[c]), kind[c] = "stream"
      PROVE  /\ shown[c][k].seq \in 1..lastSeq[c]
             /\ shown[c][k].jpeg = published'[shown[c][k].seq]
             /\ conn'[c] = "write" => shown[c][k].seq < lastSeq[c]
  BY <1>1, <1>3 DEF Shown
<1>4. conn'[c] = "write" /\ kind[c] = "stream" =>
        lastSeq[c] \in 1..seq' /\ held[c] = published'[lastSeq[c]]
  BY <1>1, <1>2 DEF Shown
<1> QED
  BY <1>2, <1>3, <1>4 DEF Shown

LEMMA InvariantInit == Init => IInv
<1> SUFFICES ASSUME Init PROVE IInv
  OBVIOUS
<1>1. Len(published) = 0 /\ \A c \in Clients : shown[c] = <<>> /\ Len(shown[c]) = 0
  BY DEF Init
<1>2. TypeOK
  BY <1>1, ConfigHelperAssumption DEF Init, TypeOK, Nothing
<1>3. LockHeld /\ Counters /\ SleepersMustWait /\ Newest
  BY <1>1, ConfigHelperAssumption
  DEF Init, LockHeld, Counters, SleepersMustWait, Waiting, Newest
<1>4. ASSUME NEW c \in Clients PROVE Shown(c)
  <2>1. /\ conn[c] = "new" /\ kind[c] = "none" /\ lastSeq[c] = 0 /\ seq = 0
        /\ shown[c] = <<>> /\ Len(shown[c]) = 0
    BY <1>1 DEF Init
  <2> QED
    BY <2>1 DEF Shown
<1>5. DOMAIN shown = Clients
  BY DEF Init
<1> QED
  BY <1>2, <1>3, <1>4, <1>5 DEF IInv

-----------------------------------------------------------------------------
(* The main thread.                                                        *)

\* A step of the main thread that publishes nothing and wakes nobody.
LEMMA QuietKeeps ==
  ASSUME IInv, UNCHANGED <<state, clients>>,
         \/ ReadFrame \/ Lock \/ SourceFails \/ WakeUp \/ Bind
  PROVE  IInv'
<1>1. TypeOK'
  BY ConfigHelperAssumption
  DEF IInv, TypeOK, ReadFrame, Lock, SourceFails, WakeUp, Bind, state, clients, main
<1>2. LockHeld' /\ Counters'
  BY ConfigHelperAssumption
  DEF IInv, TypeOK, LockHeld, Counters, ReadFrame, Lock, SourceFails, WakeUp, Bind,
      state, main
<1>3. \/ capture # "updated" /\ capture' # "updated"
      \/ capture' = capture
  BY DEF ReadFrame, Lock, SourceFails, WakeUp, Bind, main
<1>4. SleepersMustWait' /\ Newest' /\ \A c \in Clients : Shown(c)'
  BY <1>3
  DEF IInv, SleepersMustWait, Waiting, MustWait, NothingNew, Newest, Shown, state, clients
<1> QED
  BY <1>1, <1>2, <1>4 DEF IInv, clients

LEMMA UpdateKeeps ==
  ASSUME IInv, Update
  PROVE  IInv'
<1>1. /\ capture = "locked" /\ capture' = "updated"
      /\ jpeg' = frameIdx + 1 /\ seq' = seq + 1
      /\ published' = Append(published, frameIdx + 1)
      /\ UNCHANGED <<frameIdx, lock, server>> /\ UNCHANGED clients
  BY DEF Update, NextSeq
<1>2. /\ TypeOK /\ Newest /\ frameIdx \in Nat /\ MaxFrames \in Nat
      /\ frameIdx < MaxFrames /\ seq <= frameIdx
  BY <1>1, ConfigHelperAssumption DEF IInv, TypeOK, Counters
<1>3. published \in Seq(1..MaxFrames) /\ seq = Len(published) /\ seq \in Nat
      /\ frameIdx + 1 \in 1..MaxFrames
  BY <1>2 DEF Newest
<1>4. /\ published' \in Seq(1..MaxFrames) /\ Len(published') = seq + 1
      /\ published'[seq + 1] = frameIdx + 1
      /\ \A i \in 1..seq : published'[i] = published[i]
  BY <1>1, <1>3
<1>5. Newest'
  BY <1>1, <1>3, <1>4 DEF Newest
<1>6. TypeOK'
  BY <1>1, <1>2, <1>4 DEF TypeOK, clients
<1>7. LockHeld' /\ Counters' /\ SleepersMustWait'
  BY <1>1, <1>2, <1>3 DEF IInv, LockHeld, Counters, SleepersMustWait
<1>8. ASSUME NEW c \in Clients PROVE Shown(c)'
  <2>1. Shown(c)
    BY DEF IInv
  <2>2. /\ kind' = kind /\ lastSeq' = lastSeq /\ held' = held
        /\ shown' = shown /\ conn' = conn
    BY <1>1 DEF clients
  <2>3. seq' \in Nat /\ seq <= seq'
    BY <1>1, <1>3
  <2> QED
    BY <1>2, <1>4, <2>1, <2>2, <2>3, ShownKept
<1> QED
  BY <1>1, <1>5, <1>6, <1>7, <1>8 DEF IInv, clients

\* The end of the critical section, where everybody is woken, and the end of
\* the process.
LEMMA WakersKeep ==
  ASSUME IInv, Notify \/ SourceEnds
  PROVE  IInv'
<1>1. /\ UNCHANGED <<kind, lastSeq, held, shown>> /\ UNCHANGED state
      /\ conn' \in [Clients -> {"new", "look", "waiting", "write", "closed"}]
      /\ \A c \in Clients : \/ conn[c] # "waiting" /\ conn'[c] = conn[c]
                            \/ conn[c] = "waiting" /\ conn'[c] = "look"
                            \/ conn'[c] = "closed"
  BY DEF IInv, TypeOK, Notify, SourceEnds, Woken, Waiting
<1>2. TypeOK'
  BY <1>1, ConfigHelperAssumption
  DEF IInv, TypeOK, Counters, Notify, SourceEnds, state
<1>3. LockHeld' /\ Counters'
  BY <1>1, ConfigHelperAssumption
  DEF IInv, TypeOK, LockHeld, Counters, Notify, SourceEnds, state
<1>4. SleepersMustWait'
  BY <1>1 DEF SleepersMustWait, Waiting
<1>5. Newest'
  BY <1>1 DEF IInv, Newest, state
<1>6. ASSUME NEW c \in Clients PROVE Shown(c)'
  <2>1. TypeOK /\ Newest /\ Shown(c)
    BY DEF IInv
  <2>2. seq' = seq /\ published' = published /\ seq \in Nat /\ seq <= seq
    BY <1>1, <2>1 DEF Newest, state
  <2>3. /\ conn'[c] = "new" => conn[c] = "new"
        /\ conn'[c] = "write" => conn[c] = "write"
        /\ conn'[c] # "closed" => conn[c] # "closed"
    BY <1>1
  <2> QED
    BY <1>1, <2>1, <2>2, <2>3, ShownKept
<1> QED
  BY <1>1, <1>2, <1>3, <1>4, <1>5, <1>6 DEF IInv

-----------------------------------------------------------------------------
(* The connections.                                                        *)

\* A step of the thread of connection c leaves the main thread and the other
\* connections alone.
LEMMA OthersKept ==
  ASSUME IInv, NEW c \in Clients, UNCHANGED <<server, main>>, UNCHANGED state,
         TypeOK', Shown(c)', DOMAIN shown' = DOMAIN shown,
         \A d \in Clients \ {c} : /\ conn'[d] = conn[d] /\ kind'[d] = kind[d]
                                  /\ lastSeq'[d] = lastSeq[d]
                                  /\ held'[d] = held[d] /\ shown'[d] = shown[d],
         capture # "updated" /\ conn'[c] = "waiting" => MustWait(c)'
  PROVE  IInv'
<1>1. LockHeld' /\ Counters' /\ Newest'
  BY DEF IInv, LockHeld, Counters, Newest, main, state
<1>2. SleepersMustWait'
  <2> SUFFICES ASSUME capture # "updated", NEW d \in Clients, conn'[d] = "waiting"
               PROVE  MustWait(d)'
    BY DEF SleepersMustWait, Waiting, main
  <2>1. CASE d = c
    BY <2>1
  <2>2. CASE d # c
    BY <2>2 DEF IInv, SleepersMustWait, Waiting, MustWait, NothingNew, state
  <2> QED
    BY <2>1, <2>2
<1>3. ASSUME NEW d \in Clients PROVE Shown(d)'
  <2>1. CASE d = c
    BY <2>1
  <2>2. CASE d # c
    <3>1. /\ conn'[d] = conn[d] /\ kind'[d] = kind[d] /\ lastSeq'[d] = lastSeq[d]
          /\ held'[d] = held[d] /\ shown'[d] = shown[d]
      BY <2>2
    <3>2. TypeOK /\ Newest /\ Shown(d)
      BY DEF IInv
    <3>3. seq' = seq /\ published' = published /\ seq \in Nat /\ seq <= seq
      BY <3>2 DEF Newest, state
    <3> QED
      BY <3>1, <3>2, <3>3, ShownKept
  <2> QED
    BY <2>1, <2>2
<1> QED
  BY <1>1, <1>2, <1>3 DEF IInv

\* The thread of a connection moves without showing anything.
LEMMA MovesKeep ==
  ASSUME IInv, NEW c \in Clients,
         Connect(c) \/ Wait(c) \/ SpuriousWakeUp(c) \/ WriteFails(c)
  PROVE  IInv'
<1>1. /\ UNCHANGED <<server, main>> /\ UNCHANGED state
      /\ UNCHANGED <<lastSeq, held, shown>>
  BY DEF Connect, Wait, SpuriousWakeUp, WriteFails
<1>2. /\ conn \in [Clients -> {"new", "look", "waiting", "write", "closed"}]
      /\ kind \in [Clients -> {"none", "stream", "snapshot"}]
      /\ seq \in Nat
  BY DEF IInv, TypeOK, Newest
<1>3. /\ conn' \in [Clients -> {"new", "look", "waiting", "write", "closed"}]
      /\ kind' \in [Clients -> {"none", "stream", "snapshot"}]
      /\ \A d \in Clients \ {c} : conn'[d] = conn[d] /\ kind'[d] = kind[d]
      /\ conn[c] # "closed" /\ conn'[c] \in {"look", "waiting", "closed"}
      /\ kind'[c] = kind[c] \/ conn[c] = "new"
      /\ conn'[c] = "waiting" => MustWait(c) /\ kind' = kind
  BY <1>2 DEF Connect, Wait, SpuriousWakeUp, WriteFails
<1>4. TypeOK'
  BY <1>1, <1>3 DEF IInv, TypeOK, main, state
<1>5. Shown(c)'
  <2>1. Shown(c)
    BY DEF IInv
  <2>2. /\ seq' = seq /\ published' = published
    BY <1>1 DEF state
  <2>3. CASE conn[c] = "new"
    <3>1. shown[c] = <<>> /\ Len(shown[c]) = 0
      BY <2>1, <2>3 DEF Shown
    <3> QED
      BY <1>1, <1>3, <2>1, <2>2, <3>1 DEF Shown
  <2>4. CASE kind'[c] = kind[c]
    BY <1>1, <1>2, <1>3, <2>1, <2>2, <2>4 DEF Shown
  <2> QED
    BY <1>3, <2>3, <2>4
<1>6. conn'[c] = "waiting" => MustWait(c)'
  BY <1>1, <1>3 DEF MustWait, NothingNew, state
<1> QED
  BY <1>1, <1>3, <1>4, <1>5, <1>6, OthersKept

LEMMA CopyKeeps ==
  ASSUME IInv, NEW c \in Clients, Copy(c)
  PROVE  IInv'
<1>1. /\ UNCHANGED <<server, main>> /\ UNCHANGED state /\ UNCHANGED <<kind, shown>>
      /\ conn[c] = "look" /\ ~MustWait(c)
      /\ lastSeq' = IF kind[c] = "stream" THEN [lastSeq EXCEPT ![c] = seq] ELSE lastSeq
      /\ held' = [held EXCEPT ![c] = jpeg]
      /\ conn' = [conn EXCEPT ![c] = AfterCopy]
  BY DEF Copy
<1>2. /\ TypeOK /\ Newest /\ Shown(c)
      /\ conn \in [Clients -> {"new", "look", "waiting", "write", "closed"}]
      /\ lastSeq \in [Clients -> 0..MaxFrames] /\ held \in [Clients -> 0..MaxFrames]
      /\ jpeg \in 0..MaxFrames /\ seq \in Nat /\ MaxFrames \in Nat
  BY ConfigHelperAssumption DEF IInv, TypeOK, Newest
<1>3. seq \in 0..MaxFrames
  BY <1>2, ConfigHelperAssumption DEF IInv, TypeOK, Counters
<1>4. AfterCopy \in {"look", "write"} /\ conn'[c] = AfterCopy
      /\ \A d \in Clients \ {c} : /\ conn'[d] = conn[d] /\ lastSeq'[d] = lastSeq[d]
                                   /\ held'[d] = held[d]
  BY <1>1, <1>2 DEF AfterCopy
<1>5. TypeOK'
  <2>1. /\ lastSeq' \in [Clients -> 0..MaxFrames] /\ held' \in [Clients -> 0..MaxFrames]
        /\ conn' \in [Clients -> {"new", "look", "waiting", "write", "closed"}]
    BY <1>1, <1>2, <1>3, <1>4
  <2> QED
    BY <1>1, <2>1 DEF IInv, TypeOK, main, state
<1>6. Shown(c)'
  <2>1. seq' = seq /\ published' = published /\ kind' = kind /\ shown' = shown
    BY <1>1 DEF state
  <2>2. lastSeq[c] \in Nat /\ lastSeq[c] <= seq
    BY <1>2 DEF Shown
  <2>3. CASE kind[c] = "stream"
    <3>1. lastSeq'[c] = seq /\ held'[c] = jpeg /\ lastSeq[c] < seq
      BY <1>1, <1>2, <2>2, <2>3 DEF MustWait, NothingNew
    <3>2. seq \in 1..seq /\ jpeg = published[seq]
      BY <1>2, <2>2, <3>1 DEF Newest
    <3>3. ASSUME NEW k \in 1..Len(shown[c])
          PROVE  /\ shown[c][k].seq \in 1..seq /\ shown[c][k].seq < seq
                 /\ shown[c][k].jpeg = published[shown[c][k].seq]
      BY <1>2, <2>2, <2>3, <3>1 DEF Shown
    <3> QED
      BY <1>2, <1>4, <2>1, <2>3, <3>1, <3>2, <3>3 DEF Shown
  <2>4. CASE kind[c] # "stream"
    <3>1. lastSeq'[c] = lastSeq[c] /\ shown[c] = <<>> /\ Len(shown[c]) = 0
      BY <1>1, <1>2, <2>4 DEF Shown
    <3> QED
      BY <1>2, <1>4, <2>1, <2>2, <2>4, <3>1 DEF Shown
  <2> QED
    BY <2>3, <2>4
<1> QED
  BY <1>1, <1>4, <1>5, <1>6, OthersKept

LEMMA WriteKeeps ==
  ASSUME IInv, NEW c \in Clients, Write(c)
  PROVE  IInv'
<1> DEFINE e == [seq |-> lastSeq[c], jpeg |-> held[c]]
<1>1. /\ UNCHANGED <<server, main>> /\ UNCHANGED state
      /\ UNCHANGED <<kind, lastSeq, held>>
      /\ conn[c] = "write"
      /\ shown' = [shown EXCEPT ![c] = Append(shown[c], e)]
      /\ conn' = [conn EXCEPT ![c] = IF kind[c] = "stream" THEN "look" ELSE "closed"]
  BY DEF Write, Sent
<1>2. /\ TypeOK /\ Newest /\ Shown(c)
      /\ conn \in [Clients -> {"new", "look", "waiting", "write", "closed"}]
      /\ lastSeq[c] \in 0..MaxFrames /\ held[c] \in 0..MaxFrames
      /\ seq \in Nat
  BY DEF IInv, TypeOK, Newest
<1>3. conn'[c] = (IF kind[c] = "stream" THEN "look" ELSE "closed")
      /\ \A d \in Clients \ {c} : conn'[d] = conn[d]
  BY <1>1, <1>2
<1>4. TypeOK'
  <2>1. conn' \in [Clients -> {"new", "look", "waiting", "write", "closed"}]
    BY <1>1, <1>2
  <2> QED
    BY <1>1, <2>1 DEF IInv, TypeOK, main, state
<1>5. Shown(c)'
  <2>1. /\ seq' = seq /\ published' = published
        /\ kind' = kind /\ lastSeq' = lastSeq /\ held' = held
    BY <1>1 DEF state
  <2>2. e \in [seq : 0..MaxFrames, jpeg : 0..MaxFrames]
    BY <1>2
  <2>3. shown[c] \in Seq([seq : 0..MaxFrames, jpeg : 0..MaxFrames])
    BY <1>2 DEF Shown
  <2>4. shown'[c] = Append(shown[c], e)
    BY <1>1 DEF IInv
  <2> DEFINE h == shown[c]
             g == Append(h, e)
  <2>5. /\ g \in Seq([seq : 0..MaxFrames, jpeg : 0..MaxFrames])
        /\ Len(h) \in Nat /\ Len(g) = Len(h) + 1 /\ g[Len(h) + 1] = e
        /\ \A k \in 1..Len(h) : g[k] = h[k]
    BY <2>2, <2>3
  <2>6. CASE kind[c] = "stream"
    <3>1. /\ lastSeq[c] \in 1..seq /\ held[c] = published[lastSeq[c]]
          /\ \A k \in 1..Len(h) : /\ h[k].seq \in 1..lastSeq[c]
                                  /\ h[k].jpeg = published[h[k].seq]
                                  /\ h[k].seq < lastSeq[c]
          /\ \A k \in 1..Len(h) - 1 : h[k].seq < h[k + 1].seq
      BY <1>1, <1>2, <2>6 DEF Shown
    <3> HIDE DEF h, g
    <3>2. ASSUME NEW k \in 1..Len(g)
          PROVE  g[k].seq \in 1..lastSeq[c] /\ g[k].jpeg = published[g[k].seq]
      <4>1. CASE k \in 1..Len(h)
        BY <2>5, <3>1, <4>1
      <4>2. CASE k = Len(h) + 1
        BY <1>2, <2>5, <3>1, <4>2
      <4> QED
        BY <2>5, <4>1, <4>2
    <3>3. ASSUME NEW k \in 1..Len(g) - 1
          PROVE  g[k].seq < g[k + 1].seq
      <4>1. k \in 1..Len(h) /\ g[k] = h[k] /\ k \in Nat
        BY <2>5
      <4>2. CASE k = Len(h)
        BY <2>5, <3>1, <4>1, <4>2
      <4>3. CASE k # Len(h)
        <5>1. k \in 1..Len(h) - 1 /\ k + 1 \in 1..Len(h)
          BY <2>5, <4>1, <4>3
        <5> QED
          BY <2>5, <3>1, <4>1, <5>1
      <4> QED
        BY <4>2, <4>3
    <3>4. conn'[c] = "look" /\ lastSeq[c] <= seq /\ shown'[c] = g
      BY <1>2, <1>3, <2>4, <2>6 DEF Shown, g, h
    <3> QED
      BY <2>1, <2>5, <2>6, <3>2, <3>3, <3>4 DEF Shown
  <2>7. CASE kind[c] # "stream"
    <3>1. /\ h = <<>> /\ Len(h) = 0 /\ conn'[c] = "closed" /\ lastSeq[c] <= seq
          /\ shown'[c] = g
      BY <1>1, <1>2, <1>3, <2>4, <2>7 DEF Shown
    <3> HIDE DEF h, g
    <3>2. 1..Len(g) - 1 = {}
      BY <2>5, <3>1
    <3> QED
      BY <2>1, <2>5, <2>7, <3>1, <3>2 DEF Shown
  <2> QED
    BY <2>6, <2>7
<1>6. DOMAIN shown' = DOMAIN shown /\ conn'[c] # "waiting"
      /\ \A d \in Clients \ {c} : shown'[d] = shown[d]
  BY <1>1, <1>3
<1> QED
  BY <1>1, <1>3, <1>4, <1>5, <1>6, OthersKept

-----------------------------------------------------------------------------
(* The theorems.                                                           *)

LEMMA InvariantNext == IInv /\ [Next]_vars => IInv'
<1> SUFFICES ASSUME IInv, [Next]_vars PROVE IInv'
  OBVIOUS
<1>1. CASE ReadFrame \/ Lock \/ SourceFails \/ WakeUp
  <2>1. UNCHANGED <<state, clients>>
    BY <1>1 DEF ReadFrame, Lock, SourceFails, WakeUp
  <2> QED
    BY <1>1, <2>1, QuietKeeps
<1>2. CASE Bind
  <2>1. UNCHANGED <<state, clients>>
    BY <1>2 DEF Bind
  <2> QED
    BY <1>2, <2>1, QuietKeeps
<1>3. CASE Update
  BY <1>3, UpdateKeeps
<1>4. CASE Notify \/ SourceEnds
  BY <1>4, WakersKeep
<1>5. ASSUME NEW c \in Clients,
             Connect(c) \/ Wait(c) \/ SpuriousWakeUp(c) \/ WriteFails(c)
      PROVE  IInv'
  BY <1>5, MovesKeep
<1>6. ASSUME NEW c \in Clients, Copy(c) PROVE IInv'
  BY <1>6, CopyKeeps
<1>7. ASSUME NEW c \in Clients, Write(c) PROVE IInv'
  BY <1>7, WriteKeeps
<1>8. CASE UNCHANGED vars
  BY <1>8
  DEF vars, main, state, clients, IInv, TypeOK, LockHeld, Counters, SleepersMustWait,
      Waiting, MustWait, NothingNew, Newest, Shown
<1> QED
  BY <1>1, <1>2, <1>3, <1>4, <1>5, <1>6, <1>7, <1>8 DEF Next, CriticalSection

LEMMA Invariant == Spec => []IInv
<1> QED
  BY InvariantInit, InvariantNext, PTL DEF Spec

\* Every variable of confighelper keeps its type.
THEOREM ConfigHelperTypes == Spec => []TypeOK
<1>1. IInv => TypeOK
  BY DEF IInv
<1> QED
  BY <1>1, Invariant, PTL

\* The condition variable of confighelper loses no wake-up: outside the
\* critical section of the main thread nobody sleeps who has a picture to
\* fetch.
THEOREM NoWakeUpIsLost == Spec => []NoLostWakeUp
<1>1. IInv => NoLostWakeUp
  BY DEF IInv, LockHeld, SleepersMustWait, NoLostWakeUp
<1> QED
  BY <1>1, Invariant, PTL

\* The pictures of a stream have increasing numbers, and each is the picture
\* published under its number.
THEOREM StreamsMoveForward == Spec => []StreamMovesOn
<1>1. IInv => StreamMovesOn
  BY DEF IInv, Shown, StreamMovesOn
<1> QED
  BY <1>1, Invariant, PTL
=============================================================================
