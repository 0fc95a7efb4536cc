---------------------------- MODULE FrameProofs ----------------------------
(***************************************************************************)
(* Theorems of the two models that account for the buffers of frames: the  *)
(* stream of mm-camera-interface and the capture requests of the HAL 3.    *)
(*                                                                         *)
(* StreamBuffers: for every number of buffers, sessions and failures and   *)
(* every set-up, the reference count of each buffer is exact while the     *)
(* stream runs, no consumer has a buffer of the kernel's, and the fd of a  *)
(* stream that has frames to come is polled.  StreamIInv is inductive.     *)
(* Its first half holds at any time: the count of queued buffers covers    *)
(* those that are the kernel's or on their way (Covered), the poll thread  *)
(* has or will read the entry it needs (Polled, OneCommit), and the        *)
(* threads are where their data says (Control, Returns).  Its second half  *)
(* is about the buffers, from their registration to the stop of the        *)
(* stream, after which consumers may still return some and nobody counts:  *)
(* the count and the exclusive owner of each (Exclusive), and that whoever *)
(* is given a buffer does not have it yet (Fresh, CmdqDistinct), without   *)
(* which a set of buffers would hide a reference.                          *)
(*                                                                         *)
(* CaptureRequests: every buffer of a capture request returns to the       *)
(* framework once, every request ends once, the count of live requests is  *)
(* right, and one device error answers them all.  CaptureInv is inductive: *)
(* the types; who holds mRecoveryLock and who handles an error (LockInv);  *)
(* and, as long as a flush has kept to the list of waiting requests, what  *)
(* the two lists, the channels and the answers have to do with each other  *)
(* (DataInv).                                                              *)
(***************************************************************************)
EXTENDS StreamBuffers, CaptureRequests, Integers, FiniteSetTheorems, TLAPS

(***************************************************************************)
(* StreamBuffers.                                                          *)
(***************************************************************************)

(* The consumers that have counted a buffer and not queued it yet. *)
Counting(h) == ret[h].at \in {"qbuf", "failed"}

Pending ==
  Ref(Counting("chan")) + Ref(Counting("link")) + Ref(Counting("app")) + Ref(Counting("cmd"))

(* The count is never below the buffers it stands for. *)
Covered == Cardinality(kernel) + Ref(poller.at = "count") + Pending <= queued

(* The stream from its buffers' registration to its stop. *)
Started == ctl \in {"registered", "starting"} \/ (ctl = "idle" /\ sstate = "ACTIVE")

(* A command that makes the poll thread copy the entry. *)
Copies == \E i \in 1..Len(pipe) : pipe[i] # "commit"

(* The poll thread has the entry, or is told of it. *)
Polled ==
  /\ entry => fds \/ Copies
  /\ Started /\ queued # 0 => entry

(* Where the starting and stopping thread is tells the stream's state. *)
Control ==
  /\ ctl = "registered" => sstate = "REG" /\ poller.at \in {"idle", "ready"}
  /\ ctl \notin {"idle", "registered"} => sstate = "ACTIVE"
  /\ sstate = "ACTIVE" => cmdActive = mode.hasCb
  /\ linked => mode.linkable

(* The stopping thread writes one commit and waits for it. *)
OneCommit ==
  \A i \in 1..Len(pipe) : pipe[i] = "commit" =>
    ctl = "committing" /\ \A j \in 1..Len(pipe) : pipe[j] = "commit" => j = i

(* A consumer in mm_stream_buf_done has the buffer until it drops it. *)
Returns ==
  /\ \A h \in Holder : ret[h].at \in {"call", "drop"} => ret[h].buf \in held[h]
  /\ held["cmd"] = IF ret["cmd"].at \in {"call", "drop"} THEN {ret["cmd"].buf} ELSE {}

(* From the registration of the buffers to the stop, their counts are kept. *)
Registered == sstate = "ACTIVE" \/ ctl = "registered"

HasPoller(b) == "buf" \in DOMAIN poller /\ poller.buf = b

(* The poll thread has counted no reference of the buffer it dequeued, or   *)
(* may still count the one of a linked channel.                             *)
Owned(b) ==
  /\ HasPoller(b)
  /\ poller.at \in {"count", "refs"} \/ (mode.linkable /\ poller.at \in {"bundle", "link"})

(* The consumer has dropped the last reference and queues the buffer. *)
Returning(h, b) == ret[h].at \in {"count", "qbuf", "failed"} /\ ret[h].buf = b

InCmdq(b) == \E i \in 1..Len(cmdq) : cmdq[i] = b

(* The count of a buffer is exact, and a buffer that is the kernel's or on  *)
(* its way there is nobody else's.                                         *)
Settled(b) ==
  /\ refcnt[b] = Refs(b)
  /\ b \in kernel => Refs(b) = 0 /\ ~Owned(b) /\ \A h \in Holder : ~Returning(h, b)
  /\ \A h \in Holder : Returning(h, b) =>
       Refs(b) = 0 /\ ~Owned(b) /\ \A g \in Holder : Returning(g, b) => g = h

Exclusive == \A b \in Buffers : Settled(b)

(* The consumers the poll thread still has to serve have no older reference. *)
Fresh ==
  \A b \in Buffers : HasPoller(b) =>
    /\ Owned(b) \/ poller.at = "bundle" => ~InCmdq(b) /\ \A h \in Holder : b \notin held[h]
    /\ mode.hasCb => ~InCmdq(b) /\ b \notin held["cmd"] /\ b \notin held["app"]

(* A buffer waits for the command thread once, and the application does not *)
(* have it yet.                                                             *)
CmdqDistinct ==
  /\ \A i, j \in 1..Len(cmdq) : cmdq[i] = cmdq[j] => i = j
  /\ \A b \in Buffers : InCmdq(b) => b \notin held["app"]

StreamIInv ==
  /\ StreamTypeOK /\ Covered /\ Polled /\ OneCommit /\ Control /\ Returns
  /\ Registered => Exclusive /\ Fresh /\ CmdqDistinct

-----------------------------------------------------------------------------
(* The values of the threads' places, and what a step makes of them.       *)

LEMMA PollerFacts ==
  ASSUME StreamTypeOK
  PROVE  /\ poller.at \in {"idle", "ready", "dequeue", "count", "refs", "bundle", "link", "cmd"}
         /\ poller = Idle <=> poller.at = "idle"
         /\ poller.at \in {"count", "refs", "bundle", "link", "cmd"} <=> "buf" \in DOMAIN poller
         /\ poller.at \in {"count", "refs", "bundle", "link", "cmd"} =>
              /\ poller.buf \in Buffers
              /\ \A l \in {"refs", "bundle", "link", "cmd"} :
                   /\ [poller EXCEPT !.at = l] = [at |-> l, buf |-> poller.buf]
                   /\ [at |-> l, buf |-> poller.buf] \in PollerState
         /\ Idle \in PollerState /\ [at |-> "ready"] \in PollerState
         /\ [at |-> "dequeue"] \in PollerState
         /\ \A b \in Buffers : [at |-> "count", buf |-> b] \in PollerState
BY DEF StreamTypeOK, PollerState, Idle

LEMMA RetFacts ==
  ASSUME StreamTypeOK, NEW h \in Holder
  PROVE  /\ ret[h].at \in {"idle", "call", "drop", "count", "qbuf", "failed"}
         /\ ret[h] = Idle <=> ret[h].at = "idle"
         /\ ret[h].at # "idle" =>
              /\ ret[h].buf \in Buffers
              /\ \A l \in {"drop", "count", "qbuf", "failed"} :
                   [ret[h] EXCEPT !.at = l] = [at |-> l, buf |-> ret[h].buf]
<1> DEFINE r == ret[h]
<1>1. r = Idle \/ r \in [at : {"call", "drop", "count", "qbuf", "failed"}, buf : Buffers]
  BY DEF StreamTypeOK, ReturnState
<1> HIDE DEF r
<1>2. /\ r.at \in {"idle", "call", "drop", "count", "qbuf", "failed"}
      /\ r = Idle <=> r.at = "idle"
      /\ r.at # "idle" =>
           /\ r.buf \in Buffers
           /\ \A l \in {"drop", "count", "qbuf", "failed"} :
                [r EXCEPT !.at = l] = [at |-> l, buf |-> r.buf]
  BY <1>1 DEF Idle
<1> QED
  BY <1>2 DEF r

LEMMA GotoFacts ==
  ASSUME StreamTypeOK, NEW h \in Holder, NEW l \in {"drop", "count", "qbuf", "failed"},
         ret[h].at # "idle", Goto(h, l)
  PROVE  /\ ret' \in [Holder -> ReturnState]
         /\ ret'[h].at = l /\ ret'[h].buf = ret[h].buf
         /\ \A g \in Holder \ {h} : ret'[g] = ret[g]
<1>1. ret' = [ret EXCEPT ![h] = [ret[h] EXCEPT !.at = l]]
  BY DEF Goto
<1>2. [ret[h] EXCEPT !.at = l] = [at |-> l, buf |-> ret[h].buf] /\ ret[h].buf \in Buffers
  BY RetFacts
<1>3. [at |-> l, buf |-> ret[h].buf] \in ReturnState
  BY <1>2 DEF ReturnState
<1> QED
  BY <1>1, <1>2, <1>3 DEF StreamTypeOK

LEMMA DoneFacts ==
  ASSUME StreamTypeOK, NEW h \in Holder, Done(h)
  PROVE  /\ ret' \in [Holder -> ReturnState]
         /\ ret'[h] = Idle /\ ret'[h].at = "idle"
         /\ \A g \in Holder \ {h} : ret'[g] = ret[g]
BY DEF StreamTypeOK, Done, ReturnState, Idle

LEMMA CountedFacts ==
  ASSUME StreamTypeOK, Covered
  PROVE  /\ Cardinality(kernel) \in Nat /\ queued \in Nat
         /\ poller.at = "count" => queued # 0
         /\ \A h \in Holder : ret[h].at = "failed" => queued # 0
         /\ kernel # {} => queued # 0
<1>1. IsFiniteSet(kernel)
  BY StreamAssumption, FS_Subset DEF StreamTypeOK
<1>2. Cardinality(kernel) \in Nat /\ (kernel # {} => Cardinality(kernel) # 0)
  BY <1>1, FS_CardinalityType, FS_EmptySet
<1> QED
  BY <1>2 DEF Covered, Pending, Counting, Ref, Holder, StreamTypeOK

LEMMA PollFdFacts ==
  ASSUME StreamTypeOK
  PROVE  /\ AddPollFd => pipe' \in Seq(PipeCmd) /\ entry' \in BOOLEAN
         /\ \A c \in {"async", "sync"} : DelPollFd(c) =>
              pipe' \in Seq(PipeCmd) /\ entry' \in BOOLEAN
         /\ Count(1) => /\ pipe' \in Seq(PipeCmd) /\ entry' \in BOOLEAN
                        /\ queued' \in Nat
         /\ queued # 0 /\ Uncount => /\ pipe' \in Seq(PipeCmd)
                                     /\ entry' \in BOOLEAN /\ queued' \in Nat
<1>1. pipe \in Seq(PipeCmd) /\ entry \in BOOLEAN /\ queued \in Nat
      /\ "async" \in PipeCmd /\ "sync" \in PipeCmd
  BY DEF StreamTypeOK, PipeCmd
<1>2. AddPollFd => pipe' \in Seq(PipeCmd) /\ entry' \in BOOLEAN
  BY <1>1 DEF AddPollFd
<1>3. \A c \in {"async", "sync"} : DelPollFd(c) => pipe' \in Seq(PipeCmd) /\ entry' \in BOOLEAN
  <2> SUFFICES ASSUME NEW c \in PipeCmd, DelPollFd(c)
               PROVE  pipe' \in Seq(PipeCmd) /\ entry' \in BOOLEAN
    BY <1>1
  <2>1. pipe' = pipe \/ pipe' = Append(pipe, c)
    BY DEF DelPollFd
  <2>2. entry' \in BOOLEAN
    BY DEF DelPollFd
  <2>3. Append(pipe, c) \in Seq(PipeCmd)
    BY <1>1
  <2> QED
    BY <1>1, <2>1, <2>2, <2>3
<1>4. Count(1) => pipe' \in Seq(PipeCmd) /\ entry' \in BOOLEAN /\ queued' \in Nat
  BY <1>1, <1>2 DEF Count
<1>5. queued # 0 /\ Uncount =>
        pipe' \in Seq(PipeCmd) /\ entry' \in BOOLEAN /\ queued' \in Nat
  BY <1>1, <1>3 DEF Uncount
<1> QED
  BY <1>2, <1>3, <1>4, <1>5

(* The arithmetic of an 8-bit count. *)
LEMMA RefArith ==
  /\ \A n \in Nat : n % 256 \in 0..255 /\ (n < 256 => n % 256 = n)
  /\ \A n \in 1..255 : (n + 255) % 256 = n - 1
<1>1. \A n \in Nat : n % 256 \in 0..255 /\ (n < 256 => n % 256 = n)
  OBVIOUS
<1>2. \A n \in 1..255 : (n + 255) % 256 = n - 1
  OBVIOUS
<1> QED
  BY <1>1, <1>2

-----------------------------------------------------------------------------
(* Types, queued_buffer_count, the poll thread's pipe and the threads'     *)
(* places: one lemma per conjunct of the invariant.                        *)

LEMMA RefTyped ==
  ASSUME StreamTypeOK, NEW b \in Buffers
  PROVE  /\ refcnt[b] \in 0..255
         /\ \A k \in Nat : refcnt[b] + k \in Nat
<1>1. refcnt[b] \in 0..255
  BY DEF StreamTypeOK
<1> QED
  BY <1>1

LEMMA TypeKept ==
  ASSUME StreamIInv, StreamNext
  PROVE  StreamTypeOK'
<1> USE DEF kernelVars, pollVars, cmdVars
<1>0. StreamTypeOK /\ Covered
  BY DEF StreamIInv
<1>1. CASE PollPipe
  BY <1>0, <1>1 DEF PollPipe, StreamTypeOK
<1>2. CASE PollReturns \/ Notify
  <2>1. /\ poller' \in PollerState
        /\ UNCHANGED <<mode, sstate, kernelVars, refcnt, queued, linked, pollVars,
                       cmdVars, held, ret, ctl, budget>>
    BY <1>0, <1>2, PollerFacts DEF PollReturns, Notify
  <2> QED
    BY <1>0, <2>1 DEF StreamTypeOK
<1>3. CASE Dequeue
  <2>1. poller' \in PollerState /\ kernel' \subseteq Buffers
    BY ZenonT(60), <1>0, <1>3, PollerFacts DEF Dequeue, StreamTypeOK
  <2> QED
    BY <1>0, <1>3, <2>1 DEF Dequeue, StreamTypeOK
<1>4. CASE CountDequeued
  <2>1. poller' \in PollerState /\ queued # 0
    BY <1>0, <1>4, PollerFacts, CountedFacts DEF CountDequeued
  <2>2. pipe' \in Seq(PipeCmd) /\ entry' \in BOOLEAN /\ queued' \in Nat
    BY <1>0, <1>4, <2>1, PollFdFacts DEF CountDequeued
  <2> QED
    BY <1>0, <1>4, <2>1, <2>2 DEF CountDequeued, StreamTypeOK
<1>5. CASE TakeRefs
  <2>1. poller' \in PollerState /\ poller.buf \in Buffers
    BY <1>0, <1>5, PollerFacts DEF TakeRefs
  <2>2. refcnt' \in [Buffers -> 0..255]
    <3>1. refcnt[poller.buf] + Ref(mode.bundled) + Ref(mode.hasCb) \in Nat
      BY <1>0, <2>1, RefTyped DEF Ref
    <3> DEFINE n == (refcnt[poller.buf] + Ref(mode.bundled) + Ref(mode.hasCb)) % 256
    <3>2. n \in 0..255
      BY <3>1, RefArith
    <3>3. refcnt' = [refcnt EXCEPT ![poller.buf] = n]
      BY <1>5 DEF TakeRefs
    <3> HIDE DEF n
    <3> QED
      BY <1>0, <2>1, <3>1, <3>2, <3>3 DEF StreamTypeOK
  <2> QED
    BY ZenonT(60), <1>0, <1>5, <2>1, <2>2 DEF TakeRefs, StreamTypeOK
<1>6. CASE NotifyChannel
  <2>1. poller' \in PollerState /\ poller.buf \in Buffers
    BY <1>0, <1>6, PollerFacts DEF NotifyChannel
  <2>2. held' \in [Holder -> SUBSET Buffers]
    BY <1>0, <1>6, <2>1 DEF NotifyChannel, Give, StreamTypeOK, Holder
  <2> QED
    BY <1>0, <1>6, <2>1, <2>2 DEF NotifyChannel, StreamTypeOK
<1>7. CASE NotifyLinked
  <2>1. poller' \in PollerState /\ poller.buf \in Buffers
    BY <1>0, <1>7, PollerFacts DEF NotifyLinked
  <2>2. refcnt' \in [Buffers -> 0..255]
    <3>1. refcnt[poller.buf] + 1 \in Nat
      BY <1>0, <2>1, RefTyped
    <3> DEFINE n == (refcnt[poller.buf] + 1) % 256
    <3>2. n \in 0..255
      BY <3>1, RefArith
    <3>3. refcnt' = [refcnt EXCEPT ![poller.buf] = n] \/ refcnt' = refcnt
      BY <1>7 DEF NotifyLinked
    <3> HIDE DEF n
    <3> QED
      BY ZenonT(60), <1>0, <2>1, <3>1, <3>2, <3>3 DEF StreamTypeOK
  <2>3. held' \in [Holder -> SUBSET Buffers]
    BY <1>0, <1>7, <2>1 DEF NotifyLinked, Give, StreamTypeOK, Holder
  <2> QED
    BY <1>0, <1>7, <2>1, <2>2, <2>3 DEF NotifyLinked, StreamTypeOK
<1>8. CASE NotifyCmd
  <2>1. poller' \in PollerState /\ poller.buf \in Buffers
    BY <1>0, <1>8, PollerFacts DEF NotifyCmd
  <2> QED
    BY <1>0, <1>8, <2>1 DEF NotifyCmd, StreamTypeOK
<1>9. CASE DispatchAppData
  <2>1. Head(cmdq) \in Buffers /\ cmdq' \in Seq(Buffers)
    BY <1>0, <1>9 DEF DispatchAppData, StreamTypeOK
  <2>2. refcnt' \in [Buffers -> 0..255]
    <3>1. refcnt[Head(cmdq)] + 1 \in Nat
      BY <1>0, <2>1, RefTyped
    <3> DEFINE n == (refcnt[Head(cmdq)] + 1) % 256
    <3>2. n \in 0..255
      BY <3>1, RefArith
    <3>3. refcnt' = [refcnt EXCEPT ![Head(cmdq)] = n]
      BY <1>9 DEF DispatchAppData
    <3> HIDE DEF n
    <3> QED
      BY <1>0, <2>1, <3>1, <3>2, <3>3 DEF StreamTypeOK
  <2>4. held' \in [Holder -> SUBSET Buffers]
    BY <1>0, <1>9, <2>1 DEF DispatchAppData, StreamTypeOK, Holder
  <2>3. ret' \in [Holder -> ReturnState]
    BY <1>0, <1>9, <2>1 DEF DispatchAppData, StreamTypeOK, ReturnState
  <2> QED
    BY ZenonT(60), <1>0, <1>9, <2>1, <2>2, <2>3, <2>4 DEF DispatchAppData, StreamTypeOK
<1>10. ASSUME NEW h \in Holder, QbufEvent(h) PROVE StreamTypeOK'
  <2>1. held' \in [Holder -> SUBSET Buffers]
    BY <1>0, <1>10 DEF QbufEvent, StreamTypeOK
  <2>2. ret' \in [Holder -> ReturnState]
    BY <1>0, <1>10 DEF QbufEvent, StreamTypeOK, ReturnState
  <2> QED
    BY <1>0, <1>10, <2>1, <2>2 DEF QbufEvent, StreamTypeOK
<1>11. ASSUME NEW h \in Holder, TestRefs(h) PROVE StreamTypeOK'
  <2>1. held' \in [Holder -> SUBSET Buffers]
    BY <1>0, <1>11 DEF TestRefs, StreamTypeOK
  <2>2. ret' \in [Holder -> ReturnState]
    BY <1>0, <1>11, GotoFacts, DoneFacts DEF TestRefs
  <2> QED
    BY <1>0, <1>11, <2>1, <2>2 DEF TestRefs, StreamTypeOK
<1>12. ASSUME NEW h \in Holder, DropRef(h) PROVE StreamTypeOK'
  <2>1. refcnt' \in [Buffers -> 0..255]
    <3>0. ret[h].buf \in Buffers
      BY <1>0, <1>12, RetFacts DEF DropRef
    <3>1. refcnt[ret[h].buf] + 255 \in Nat
      BY <1>0, <3>0, RefTyped
    <3> DEFINE n == (refcnt[ret[h].buf] + 255) % 256
    <3>2. n \in 0..255
      BY ZenonT(60), <3>1, RefArith
    <3>3. refcnt' = [refcnt EXCEPT ![ret[h].buf] = n]
      BY <1>12 DEF DropRef
    <3> HIDE DEF n
    <3> QED
      BY <1>0, <3>0, <3>1, <3>2, <3>3 DEF StreamTypeOK
  <2>3. held' \in [Holder -> SUBSET Buffers]
    BY <1>0, <1>12 DEF DropRef, StreamTypeOK
  <2>2. ret' \in [Holder -> ReturnState]
    BY <1>0, <1>12, GotoFacts, DoneFacts DEF DropRef
  <2>4. UNCHANGED <<mode, sstate, kernelVars, queued, linked, pollVars, poller,
                    cmdVars, ctl, budget>>
    BY <1>12 DEF DropRef
  <2> QED
    BY <1>0, <2>1, <2>2, <2>3, <2>4 DEF StreamTypeOK, kernelVars, pollVars, cmdVars
<1>13. ASSUME NEW h \in Holder, CountQueued(h) PROVE StreamTypeOK'
  <2>1. pipe' \in Seq(PipeCmd) /\ entry' \in BOOLEAN /\ queued' \in Nat
    BY <1>0, <1>13, PollFdFacts DEF CountQueued
  <2>2. ret' \in [Holder -> ReturnState]
    BY <1>0, <1>13, GotoFacts DEF CountQueued
  <2> QED
    BY <1>0, <1>13, <2>1, <2>2 DEF CountQueued, StreamTypeOK
<1>14. ASSUME NEW h \in Holder, QbufIoctl(h) PROVE StreamTypeOK'
  <2>1. kernel' \subseteq Buffers
    BY ZenonT(60), <1>0, <1>14, RetFacts DEF QbufIoctl, StreamTypeOK
  <2>2. ret' \in [Holder -> ReturnState]
    BY <1>0, <1>14, GotoFacts, DoneFacts DEF QbufIoctl
  <2>3. budget' \in [sessions : Nat, fails : Nat]
    BY <1>0, <1>14 DEF QbufIoctl, StreamTypeOK
  <2> QED
    BY <1>0, <1>14, <2>1, <2>2, <2>3 DEF QbufIoctl, StreamTypeOK
<1>15. ASSUME NEW h \in Holder, UncountFailed(h) PROVE StreamTypeOK'
  <2>1. ret' \in [Holder -> ReturnState] /\ queued # 0
    BY <1>0, <1>15, DoneFacts, CountedFacts DEF UncountFailed
  <2>2. pipe' \in Seq(PipeCmd) /\ entry' \in BOOLEAN /\ queued' \in Nat
    BY <1>0, <1>15, <2>1, PollFdFacts DEF UncountFailed
  <2> QED
    BY <1>0, <1>15, <2>1, <2>2 DEF UncountFailed, StreamTypeOK
<1>16. CASE RegBuf
  <2>1. pipe' \in Seq(PipeCmd) /\ entry' \in BOOLEAN
    BY <1>0, <1>16, PollFdFacts DEF RegBuf, StreamTypeOK
  <2>2. kernel' \subseteq Buffers /\ refcnt' \in [Buffers -> 0..255]
    BY <1>0, <1>16 DEF RegBuf, StreamTypeOK
  <2>4. held' \in [Holder -> SUBSET Buffers]
    <3>1. PICK initial \in SUBSET Buffers : held' = [held EXCEPT !["app"] = Buffers \ initial]
      BY <1>16 DEF RegBuf
    <3> QED
      BY <1>0, <3>1 DEF StreamTypeOK
  <2>5. budget' \in [sessions : Nat, fails : Nat]
    BY <1>0, <1>16 DEF RegBuf, StreamTypeOK
  <2>3. queued' \in Nat
    BY <1>16, StreamAssumption, FS_Subset, FS_CardinalityType DEF RegBuf
  <2> QED
    BY <1>0, <1>16, <2>1, <2>2, <2>3, <2>4, <2>5 DEF RegBuf, StreamTypeOK
<1>17. CASE Link \/ Start \/ StreamOn
  <2>1. CASE Link
    BY <1>0, <2>1 DEF Link, StreamTypeOK
  <2>2. CASE Start
    <3>1. cmdActive' \in BOOLEAN
      BY <1>0, <2>2, StreamAssumption DEF Start, StreamTypeOK
    <3> QED
      BY <1>0, <2>2, <3>1 DEF Start, StreamTypeOK
  <2>3. CASE StreamOn
    BY <1>0, <2>3 DEF StreamOn, StreamTypeOK
  <2> QED
    BY <1>17, <2>1, <2>2, <2>3
<1>18. CASE StreamOff \/ ReleaseCmdThread \/ UnregBuf
  <2>1. CASE StreamOff
    BY <1>0, <2>1 DEF StreamOff, StreamTypeOK
  <2>2. CASE ReleaseCmdThread
    BY <1>0, <2>2 DEF ReleaseCmdThread, StreamTypeOK
  <2>3. CASE UnregBuf
    BY <1>0, <2>3 DEF UnregBuf, StreamTypeOK
  <2> QED
    BY <1>18, <2>1, <2>2, <2>3
<1>19. CASE CommitUpdates
  BY <1>0, <1>19 DEF CommitUpdates, StreamTypeOK, PipeCmd
<1>20. CASE StreamOnFails
  <2>1. pipe' \in Seq(PipeCmd) /\ entry' \in BOOLEAN
    BY <1>0, <1>20, PollFdFacts DEF StreamOnFails
  <2>2. budget' \in [sessions : Nat, fails : Nat]
    BY <1>0, <1>20 DEF StreamOnFails, StreamTypeOK
  <2> QED
    BY <1>0, <1>20, <2>1, <2>2 DEF StreamOnFails, StreamTypeOK
<1>21. CASE RemoveFd
  <2>1. pipe' \in Seq(PipeCmd) /\ entry' \in BOOLEAN
    BY <1>0, <1>21, PollFdFacts DEF RemoveFd
  <2> QED
    BY <1>0, <1>21, <2>1 DEF RemoveFd, StreamTypeOK
<1> QED
  BY <1>1, <1>2, <1>3, <1>4, <1>5, <1>6, <1>7, <1>8, <1>9, <1>10, <1>11, <1>12, <1>13,
     <1>14, <1>15, <1>16, <1>17, <1>18, <1>19, <1>20, <1>21 DEF StreamNext, Consumer

-----------------------------------------------------------------------------
LEMMA KernelFacts ==
  ASSUME StreamTypeOK
  PROVE  /\ Cardinality(kernel) \in Nat
         /\ Cardinality({}) = 0
         /\ \A b \in kernel : Cardinality(kernel \ {b}) = Cardinality(kernel) - 1
         /\ \A b : Cardinality(kernel \cup {b}) <= Cardinality(kernel) + 1
<1>1. IsFiniteSet(kernel)
  BY StreamAssumption, FS_Subset DEF StreamTypeOK
<1>2. Cardinality(kernel) \in Nat
  BY <1>1, FS_CardinalityType
<1>3. \A b \in kernel : Cardinality(kernel \ {b}) = Cardinality(kernel) - 1
  BY <1>1, FS_RemoveElement
<1>4. \A b : Cardinality(kernel \cup {b}) <= Cardinality(kernel) + 1
  BY <1>1, <1>2, FS_AddElement
<1> QED
  BY <1>2, <1>3, <1>4, FS_EmptySet

LEMMA PendingMoves ==
  ASSUME NEW h \in Holder, \A g \in Holder \ {h} : ret'[g] = ret[g]
  PROVE  /\ Pending \in Nat /\ Pending' \in Nat
         /\ Pending' + Ref(Counting(h)) = Pending + Ref(Counting(h)')
BY DEF Holder, Pending, Counting, Ref

LEMMA CountedKept ==
  ASSUME StreamIInv, StreamNext
  PROVE  Covered'
<1> USE DEF kernelVars, pollVars, cmdVars
<1>0. StreamTypeOK /\ Covered /\ queued \in Nat
  BY DEF StreamIInv, StreamTypeOK
<1>1. Cardinality(kernel) \in Nat /\ Pending \in Nat
  BY <1>0, KernelFacts DEF Pending, Ref
<1>2. ASSUME UNCHANGED <<kernel, queued, ret>>, poller'.at = "count" => poller.at = "count"
      PROVE  Covered'
  BY <1>0, <1>1, <1>2 DEF Covered, Pending, Counting, Ref
<1>3. CASE PollReturns \/ Notify \/ TakeRefs \/ NotifyChannel \/ NotifyLinked \/ NotifyCmd
  <2>1. UNCHANGED <<kernel, queued, ret>> /\ poller'.at # "count"
    BY <1>0, <1>3, PollerFacts
       DEF PollReturns, Notify, TakeRefs, NotifyChannel, NotifyLinked, NotifyCmd, Idle
  <2> QED
    BY <1>2, <2>1
<1>4. CASE PollPipe \/ Link \/ Start \/ StreamOn \/ StreamOnFails \/ RemoveFd
             \/ CommitUpdates \/ ReleaseCmdThread
  <2>1. UNCHANGED <<kernel, queued, ret, poller>>
    BY <1>4 DEF PollPipe, Link, Start, StreamOn, StreamOnFails, RemoveFd, CommitUpdates,
                ReleaseCmdThread
  <2> QED
    BY <1>2, <2>1
<1>5. CASE StreamOff \/ UnregBuf
  <2>1. kernel' = {} /\ UNCHANGED <<queued, ret, poller>>
    BY <1>5 DEF StreamOff, UnregBuf
  <2> QED
    BY <1>0, <1>1, <2>1, KernelFacts DEF Covered, Pending, Counting, Ref
<1>6. CASE Dequeue
  <2>1. CASE kernel = {} \/ ~on
    <3>1. UNCHANGED <<kernel, queued, ret>> /\ poller'.at # "count"
      BY <1>6, <2>1 DEF Dequeue, Idle
    <3> QED
      BY <1>2, <3>1
  <2>2. CASE ~(kernel = {} \/ ~on)
    <3>1. PICK b \in kernel : kernel' = kernel \ {b} /\ poller' = [at |-> "count", buf |-> b]
      BY <1>6, <2>2 DEF Dequeue
    <3>2. poller.at = "dequeue" /\ UNCHANGED <<queued, ret>>
      BY <1>6 DEF Dequeue
    <3> QED
      BY <1>0, <1>1, <3>1, <3>2, KernelFacts DEF Covered, Pending, Counting, Ref
  <2> QED
    BY <2>1, <2>2
<1>7. CASE CountDequeued
  <2>1. queued' = queued - 1 /\ UNCHANGED <<kernel, ret>>
        /\ poller.at = "count" /\ poller'.at = "refs"
    BY <1>0, <1>7, PollerFacts DEF CountDequeued, Uncount
  <2> QED
    BY <1>0, <1>1, <2>1 DEF Covered, Pending, Counting, Ref
<1>8. ASSUME NEW h \in Holder, \A g \in Holder \ {h} : ret'[g] = ret[g],
             UNCHANGED <<kernel, queued, poller>>, ~Counting(h)'
      PROVE  Covered'
  <2>1. Pending' <= Pending /\ Pending' \in Nat
    BY <1>8, PendingMoves DEF Ref
  <2> QED
    BY <1>0, <1>1, <1>8, <2>1 DEF Covered, Ref
<1>9. CASE DispatchAppData
  <2>1. /\ \A g \in Holder \ {"cmd"} : ret'[g] = ret[g]
        /\ ret'["cmd"].at = "call" /\ UNCHANGED <<kernel, queued, poller>>
    BY <1>0, <1>9 DEF DispatchAppData, Holder, StreamTypeOK
  <2> QED
    BY <1>8, <2>1 DEF Counting, Holder
<1>10. ASSUME NEW h \in Holder, QbufEvent(h) PROVE Covered'
  <2>1. /\ \A g \in Holder \ {h} : ret'[g] = ret[g]
        /\ ret'[h].at \in {"call", "idle"} /\ UNCHANGED <<kernel, queued, poller>>
    BY <1>0, <1>10 DEF QbufEvent, Idle, StreamTypeOK
  <2> QED
    BY <1>8, <2>1 DEF Counting
<1>11. ASSUME NEW h \in Holder, TestRefs(h) PROVE Covered'
  <2>1. /\ \A g \in Holder \ {h} : ret'[g] = ret[g]
        /\ ret'[h].at \in {"drop", "idle"} /\ UNCHANGED <<kernel, queued, poller>>
    <3>1. CASE Done(h)
      BY <1>0, <1>11, <3>1, DoneFacts DEF TestRefs
    <3>2. CASE Goto(h, "drop")
      BY <1>0, <1>11, <3>2, GotoFacts DEF TestRefs
    <3> QED
      BY <1>11, <3>1, <3>2 DEF TestRefs
  <2> QED
    BY <1>8, <2>1 DEF Counting
<1>12. ASSUME NEW h \in Holder, DropRef(h) PROVE Covered'
  <2>1. /\ \A g \in Holder \ {h} : ret'[g] = ret[g]
        /\ ret'[h].at \in {"count", "idle"} /\ UNCHANGED <<kernel, queued, poller>>
    <3>1. CASE Done(h)
      BY <1>0, <1>12, <3>1, DoneFacts DEF DropRef
    <3>2. CASE Goto(h, "count")
      BY <1>0, <1>12, <3>2, GotoFacts DEF DropRef
    <3> QED
      BY <1>12, <3>1, <3>2 DEF DropRef
  <2> QED
    BY <1>8, <2>1 DEF Counting
<1>13. ASSUME NEW h \in Holder, CountQueued(h) PROVE Covered'
  <2>1. /\ \A g \in Holder \ {h} : ret'[g] = ret[g]
        /\ ret[h].at = "count" /\ ret'[h].at = "qbuf"
        /\ queued' = queued + 1 /\ UNCHANGED <<kernel, poller>>
    <3>1. ret[h].at = "count" /\ Goto(h, "qbuf") /\ Count(1) /\ UNCHANGED <<kernel, poller>>
      BY <1>13 DEF CountQueued
    <3> QED
      BY <1>0, <3>1, GotoFacts DEF Count
  <2>2. Pending' = Pending + 1
    BY <2>1, PendingMoves DEF Counting, Ref
  <2> QED
    BY <1>0, <1>1, <2>1, <2>2 DEF Covered, Ref
<1>14. ASSUME NEW h \in Holder, QbufIoctl(h) PROVE Covered'
  <2>0. ret[h].at = "qbuf" /\ UNCHANGED <<queued, poller>>
    BY <1>14 DEF QbufIoctl
  <2>1. CASE Done(h) /\ kernel' = kernel \cup {ret[h].buf}
    <3>1. (\A g \in Holder \ {h} : ret'[g] = ret[g]) /\ ret'[h].at = "idle"
      BY <1>0, <2>1, DoneFacts DEF Idle
    <3>2. Pending' = Pending - 1
      BY <2>0, <3>1, PendingMoves DEF Counting, Ref
    <3>3. Cardinality(kernel') \in Nat /\ Cardinality(kernel') <= Cardinality(kernel) + 1
      <4>1. StreamTypeOK'
        BY TypeKept
      <4> QED
        BY <1>0, <2>1, <4>1, KernelFacts, StreamAssumption, FS_Subset, FS_CardinalityType
           DEF StreamTypeOK
    <3> QED
      BY <1>0, <1>1, <2>0, <3>2, <3>3 DEF Covered, Ref
  <2>2. CASE Goto(h, "failed") /\ UNCHANGED kernel
    <3>1. (\A g \in Holder \ {h} : ret'[g] = ret[g]) /\ ret'[h].at = "failed"
      BY <1>0, <2>0, <2>2, GotoFacts
    <3>2. Pending' = Pending
      BY <2>0, <3>1, PendingMoves DEF Counting, Ref
    <3> QED
      BY <1>0, <1>1, <2>0, <2>2, <3>2 DEF Covered, Ref
  <2> QED
    BY <1>14, <2>1, <2>2 DEF QbufIoctl
<1>15. ASSUME NEW h \in Holder, UncountFailed(h) PROVE Covered'
  <2>1. /\ \A g \in Holder \ {h} : ret'[g] = ret[g]
        /\ ret[h].at = "failed" /\ ret'[h].at = "idle"
        /\ queued' = queued - 1 /\ UNCHANGED <<kernel, poller>>
    BY <1>0, <1>15, DoneFacts DEF UncountFailed, Uncount, Idle
  <2>2. Pending' = Pending - 1
    BY <2>1, PendingMoves DEF Counting, Ref
  <2> QED
    BY <1>0, <1>1, <2>1, <2>2 DEF Covered, Ref
<1>16. CASE RegBuf
  <2>1. queued' = Cardinality(kernel') /\ poller' = Idle /\ \A h \in Holder : ret'[h] = Idle
    BY <1>16 DEF RegBuf, Quiet
  <2>2. Cardinality(kernel') \in Nat
    BY <2>1, TypeKept DEF StreamTypeOK
  <2> QED
    BY <2>1, <2>2 DEF Covered, Pending, Counting, Ref, Idle, Holder
<1> QED
  BY <1>3, <1>4, <1>5, <1>6, <1>7, <1>9, <1>10, <1>11, <1>12, <1>13, <1>14, <1>15, <1>16
     DEF StreamNext, Consumer

LEMMA PipeFacts ==
  ASSUME NEW q \in Seq(PipeCmd)
  PROVE  /\ \A c \in PipeCmd : (\E i \in 1..Len(q) : q[i] # "commit")
                                 => \E i \in 1..Len(Append(q, c)) : Append(q, c)[i] # "commit"
         /\ \A c \in PipeCmd \ {"commit"} : \E i \in 1..Len(Append(q, c)) : Append(q, c)[i] # "commit"
         /\ q # << >> /\ Head(q) = "commit" /\ (\E i \in 1..Len(q) : q[i] # "commit")
              => \E i \in 1..Len(Tail(q)) : Tail(q)[i] # "commit"
         /\ (\E i \in 1..Len(q) : q[i] # "commit") => q # << >>
<1>1. \A c \in PipeCmd : /\ Len(Append(q, c)) = Len(q) + 1 /\ Append(q, c)[Len(q) + 1] = c
                         /\ \A i \in 1..Len(q) : Append(q, c)[i] = q[i]
  OBVIOUS
<1>2. Len(q) \in Nat
  OBVIOUS
<1>3. \A c \in PipeCmd : (\E i \in 1..Len(q) : q[i] # "commit")
                           => \E i \in 1..Len(Append(q, c)) : Append(q, c)[i] # "commit"
  BY <1>1, <1>2
<1>4. \A c \in PipeCmd \ {"commit"} : \E i \in 1..Len(Append(q, c)) : Append(q, c)[i] # "commit"
  BY <1>1, <1>2
<1>5. ASSUME q # << >>, Head(q) = "commit", NEW i \in 1..Len(q), q[i] # "commit"
      PROVE  \E j \in 1..Len(Tail(q)) : Tail(q)[j] # "commit"
  <2>1. i # 1
    BY <1>5
  <2>2. i - 1 \in 1..Len(Tail(q)) /\ Tail(q)[i - 1] = q[i]
    BY <1>5, <2>1
  <2> QED
    BY <1>5, <2>2
<1> QED
  BY <1>2, <1>3, <1>4, <1>5

LEMMA PolledKept ==
  ASSUME StreamIInv, StreamNext
  PROVE  Polled'
<1> USE DEF kernelVars, pollVars, cmdVars
<1>0. StreamTypeOK /\ Covered /\ Polled /\ queued \in Nat /\ pipe \in Seq(PipeCmd)
  BY DEF StreamIInv, StreamTypeOK
<1>1. ASSUME UNCHANGED <<pollVars, queued>>, Started' => Started PROVE Polled'
  BY <1>0, <1>1 DEF Polled, Copies
<1>2. CASE PollReturns \/ Notify \/ Dequeue \/ TakeRefs \/ NotifyChannel \/ NotifyLinked
             \/ NotifyCmd \/ DispatchAppData \/ Link
  <2>1. UNCHANGED <<pollVars, queued, ctl, sstate>>
    BY <1>2 DEF PollReturns, Notify, Dequeue, TakeRefs, NotifyChannel, NotifyLinked,
                NotifyCmd, DispatchAppData, Link
  <2> QED
    BY <1>1, <2>1 DEF Started
<1>3. ASSUME NEW h \in Holder, QbufEvent(h) \/ TestRefs(h) \/ DropRef(h) \/ QbufIoctl(h)
      PROVE  Polled'
  <2>1. UNCHANGED <<pollVars, queued, ctl, sstate>>
    BY <1>3 DEF QbufEvent, TestRefs, DropRef, QbufIoctl
  <2> QED
    BY <1>1, <2>1 DEF Started
<1>4. CASE Start \/ StreamOn \/ StreamOff \/ ReleaseCmdThread \/ UnregBuf
  <2>1. UNCHANGED <<pollVars, queued>>
    BY <1>4 DEF Start, StreamOn, StreamOff, ReleaseCmdThread, UnregBuf
  <2>2. Started' => Started
    BY <1>4 DEF Start, StreamOn, StreamOff, ReleaseCmdThread, UnregBuf, Started
  <2> QED
    BY <1>1, <2>1, <2>2
<1>5. CASE PollPipe
  <2>1. /\ pipe # << >> /\ pipe' = Tail(pipe) /\ UNCHANGED <<entry, queued, sstate>>
        /\ fds' = IF Head(pipe) = "commit" THEN fds ELSE entry
        /\ ctl' \in {ctl, "commit", "release", "off"}
    BY <1>5 DEF PollPipe
  <2>2. entry' => fds' \/ Copies'
    BY <1>0, <2>1, PipeFacts DEF Polled, Copies
  <2> QED
    BY <1>0, <2>1, <2>2 DEF Polled, Started
<1>6. CASE AddPollFd
  <2>1. entry' = TRUE /\ Copies'
    BY <1>0, <1>6, PipeFacts DEF AddPollFd, Copies, PipeCmd
  <2> QED
    BY <2>1 DEF Polled
<1>7. ASSUME NEW c \in {"async", "sync"}, DelPollFd(c), queued' = 0 \/ ~Started'
      PROVE  Polled'
  BY <1>7 DEF DelPollFd, Polled
<1>8. CASE Count(1) /\ UNCHANGED <<fds, ctl, sstate>>
  <2>1. CASE queued = 0
    BY <1>0, <1>6, <1>8, <2>1 DEF Count
  <2>2. CASE queued # 0
    <3>1. UNCHANGED <<entry, fds, pipe, ctl, sstate>>
      BY <1>0, <1>8, <2>2 DEF Count
    <3> QED
      BY <1>0, <2>2, <3>1 DEF Polled, Copies, Started
  <2> QED
    BY <2>1, <2>2
<1>9. CASE queued # 0 /\ Uncount /\ UNCHANGED <<fds, ctl, sstate>>
  <2>1. CASE queued - 1 = 0
    BY <1>7, <1>9, <2>1 DEF Uncount
  <2>2. CASE queued - 1 # 0
    <3>1. UNCHANGED <<entry, fds, pipe, ctl, sstate>>
      BY <1>0, <1>9, <2>2 DEF Uncount
    <3> QED
      BY <1>0, <1>9, <3>1 DEF Polled, Copies, Started
  <2> QED
    BY <2>1, <2>2
<1>10. CASE CountDequeued
  BY <1>0, <1>9, <1>10, CountedFacts DEF CountDequeued
<1>11. ASSUME NEW h \in Holder, CountQueued(h) PROVE Polled'
  BY <1>8, <1>11 DEF CountQueued
<1>12. ASSUME NEW h \in Holder, UncountFailed(h) PROVE Polled'
  BY <1>0, <1>9, <1>12, CountedFacts DEF UncountFailed
<1>13. CASE RegBuf
  <2>1. PICK initial \in SUBSET Buffers :
          /\ queued' = Cardinality(initial)
          /\ IF initial # {} THEN AddPollFd ELSE UNCHANGED <<entry, pipe>>
    BY <1>13 DEF RegBuf
  <2>2. CASE initial # {}
    BY <1>6, <2>1, <2>2
  <2>3. CASE initial = {}
    <3>1. UNCHANGED <<entry, pipe, fds>> /\ queued' = 0
      BY <1>13, <2>1, <2>3, FS_EmptySet DEF RegBuf
    <3> QED
      BY <1>0, <3>1 DEF Polled, Copies
  <2> QED
    BY <2>2, <2>3
<1>14. CASE StreamOnFails \/ RemoveFd
  <2>1. DelPollFd("sync") /\ ctl' \in {"failing", "release", "removing", "commit"}
    BY <1>14 DEF StreamOnFails, RemoveFd
  <2> QED
    BY <1>7, <2>1 DEF Started
<1>15. CASE CommitUpdates
  <2>1. pipe' = Append(pipe, "commit") /\ ctl' = "committing" /\ UNCHANGED <<entry, fds>>
    BY <1>15 DEF CommitUpdates
  <2> QED
    BY <1>0, <2>1, PipeFacts DEF Polled, Copies, Started, PipeCmd
<1> QED
  BY <1>2, <1>3, <1>4, <1>5, <1>10, <1>11, <1>12, <1>13, <1>14, <1>15
     DEF StreamNext, Consumer

LEMMA OneCommitKept ==
  ASSUME StreamIInv, StreamNext
  PROVE  OneCommit'
<1> USE DEF kernelVars, pollVars, cmdVars
<1>0. pipe \in Seq(PipeCmd) /\ OneCommit /\ queued \in Nat
  BY DEF StreamIInv, StreamTypeOK
<1>1. ASSUME UNCHANGED pipe, ctl = "committing" => ctl' = "committing" PROVE OneCommit'
  BY <1>0, <1>1 DEF OneCommit
<1>2. ASSUME NEW c \in {"async", "sync"}, pipe' = Append(pipe, c),
             ctl = "committing" => ctl' = "committing"
      PROVE  OneCommit'
  <2>1. /\ Len(pipe') = Len(pipe) + 1 /\ pipe'[Len(pipe) + 1] = c /\ Len(pipe) \in Nat
        /\ \A i \in 1..Len(pipe) : pipe'[i] = pipe[i]
    BY <1>0, <1>2
  <2>2. \A i \in 1..Len(pipe') : pipe'[i] = "commit" => i \in 1..Len(pipe) /\ pipe[i] = "commit"
    BY <1>2, <2>1
  <2> QED
    BY <1>0, <1>2, <2>1, <2>2 DEF OneCommit
<1>3. CASE PollReturns \/ Notify \/ Dequeue \/ TakeRefs \/ NotifyChannel \/ NotifyLinked
             \/ NotifyCmd \/ DispatchAppData \/ Link
  <2>1. UNCHANGED <<pipe, ctl>>
    BY <1>3 DEF PollReturns, Notify, Dequeue, TakeRefs, NotifyChannel, NotifyLinked,
                NotifyCmd, DispatchAppData, Link
  <2> QED
    BY <1>1, <2>1
<1>4. ASSUME NEW h \in Holder, QbufEvent(h) \/ TestRefs(h) \/ DropRef(h) \/ QbufIoctl(h)
      PROVE  OneCommit'
  <2>1. UNCHANGED <<pipe, ctl>>
    BY <1>4 DEF QbufEvent, TestRefs, DropRef, QbufIoctl
  <2> QED
    BY <1>1, <2>1
<1>5. CASE Start \/ StreamOn \/ StreamOff \/ ReleaseCmdThread \/ UnregBuf
  <2>1. UNCHANGED pipe /\ ctl # "committing"
    BY <1>5 DEF Start, StreamOn, StreamOff, ReleaseCmdThread, UnregBuf
  <2> QED
    BY <1>1, <2>1
<1>6. CASE PollPipe
  <2>1. /\ pipe # << >> /\ pipe' = Tail(pipe)
        /\ Head(pipe) # "commit" /\ ctl = "committing" => ctl' = "committing"
    BY <1>6 DEF PollPipe
  <2>2. /\ Len(pipe') = Len(pipe) - 1 /\ Head(pipe) = pipe[1] /\ 1 \in 1..Len(pipe)
        /\ \A i \in 1..Len(pipe') : i + 1 \in 1..Len(pipe) /\ pipe'[i] = pipe[i + 1]
    BY <1>0, <2>1
  <2>3. ASSUME NEW i \in 1..Len(pipe'), pipe'[i] = "commit"
        PROVE  /\ ctl' = "committing"
               /\ \A j \in 1..Len(pipe') : pipe'[j] = "commit" => j = i
    <3>1. i + 1 \in 1..Len(pipe) /\ pipe[i + 1] = "commit" /\ i \in Int /\ i + 1 # 1
      BY <2>2, <2>3
    <3>2. ctl = "committing" /\ \A j \in 1..Len(pipe) : pipe[j] = "commit" => j = i + 1
      BY <1>0, <3>1 DEF OneCommit
    <3>3. Head(pipe) # "commit"
      BY <2>2, <3>1, <3>2
    <3>4. \A j \in 1..Len(pipe') : pipe'[j] = "commit" => j = i
      BY <2>2, <3>1, <3>2
    <3> QED
      BY <2>1, <3>2, <3>3, <3>4
  <2> QED
    BY <2>3 DEF OneCommit
<1>7. ASSUME NEW h \in Holder, CountQueued(h) PROVE OneCommit'
  <2>1. UNCHANGED ctl /\ (UNCHANGED pipe \/ pipe' = Append(pipe, "async"))
    BY <1>7 DEF CountQueued, Count, AddPollFd
  <2> QED
    BY <1>1, <1>2, <2>1
<1>8. ASSUME NEW h \in Holder, CountDequeued \/ UncountFailed(h) PROVE OneCommit'
  <2>1. UNCHANGED ctl /\ (UNCHANGED pipe \/ pipe' = Append(pipe, "async"))
    BY <1>8 DEF CountDequeued, UncountFailed, Uncount, DelPollFd
  <2> QED
    BY <1>1, <1>2, <2>1
<1>9. CASE RegBuf
  <2>1. ctl # "committing" /\ (UNCHANGED pipe \/ pipe' = Append(pipe, "async"))
    BY <1>9 DEF RegBuf, AddPollFd
  <2> QED
    BY <1>1, <1>2, <2>1
<1>10. CASE StreamOnFails \/ RemoveFd
  <2>1. ctl # "committing" /\ (UNCHANGED pipe \/ pipe' = Append(pipe, "sync"))
    BY <1>10 DEF StreamOnFails, RemoveFd, DelPollFd
  <2> QED
    BY <1>1, <1>2, <2>1
<1>11. CASE CommitUpdates
  <2>1. ctl = "commit" /\ pipe' = Append(pipe, "commit") /\ ctl' = "committing"
    BY <1>11 DEF CommitUpdates
  <2>2. /\ Len(pipe') = Len(pipe) + 1 /\ Len(pipe) \in Nat
        /\ \A i \in 1..Len(pipe) : pipe'[i] = pipe[i]
    BY <1>0, <2>1
  <2>3. \A i \in 1..Len(pipe') : pipe'[i] = "commit" => i = Len(pipe) + 1
    BY <1>0, <2>1, <2>2 DEF OneCommit
  <2> QED
    BY <2>1, <2>3 DEF OneCommit
<1> QED
  BY <1>3, <1>4, <1>5, <1>6, <1>7, <1>8, <1>9, <1>10, <1>11
     DEF StreamNext, Consumer, Holder

LEMMA ControlKept ==
  ASSUME StreamIInv, StreamNext
  PROVE  Control'
<1> USE DEF kernelVars, pollVars, cmdVars
<1>0. StreamTypeOK /\ Control
  BY DEF StreamIInv
<1>1. ASSUME UNCHANGED <<mode, sstate, linked, ctl, cmdActive>>,
             ctl = "registered" => poller'.at \in {"idle", "ready"}
      PROVE  Control'
  BY <1>0, <1>1 DEF Control
<1>2. CASE PollReturns \/ Notify \/ Dequeue \/ CountDequeued \/ TakeRefs \/ NotifyChannel
             \/ NotifyLinked \/ NotifyCmd \/ DispatchAppData
  <2>1. UNCHANGED <<mode, sstate, linked, ctl, cmdActive>>
    BY <1>2 DEF PollReturns, Notify, Dequeue, CountDequeued, TakeRefs, NotifyChannel,
                NotifyLinked, NotifyCmd, DispatchAppData
  <2>2. poller.at \in {"idle", "ready"} => poller'.at \in {"idle", "ready"} \/ sstate = "ACTIVE"
    BY <1>0, <1>2, PollerFacts
       DEF PollReturns, Notify, Dequeue, CountDequeued, TakeRefs, NotifyChannel,
           NotifyLinked, NotifyCmd, DispatchAppData, Idle
  <2> QED
    BY <1>0, <1>1, <2>1, <2>2 DEF Control
<1>3. ASSUME NEW h \in Holder, Consumer(h) PROVE Control'
  <2>1. UNCHANGED <<mode, sstate, linked, ctl, cmdActive, poller>>
    BY <1>3 DEF Consumer, QbufEvent, TestRefs, DropRef, CountQueued, QbufIoctl, UncountFailed
  <2> QED
    BY <1>0, <1>1, <2>1 DEF Control
<1>4. CASE PollPipe
  <2>1. pipe # << >> => Head(pipe) = pipe[1] /\ 1 \in 1..Len(pipe)
    BY <1>0 DEF StreamTypeOK
  <2>2. Head(pipe) = "commit" => ctl = "committing"
    BY <1>4, <2>1 DEF PollPipe, StreamIInv, OneCommit
  <2>3. /\ ctl' = ctl \/ (ctl \notin {"idle", "registered"} /\ ctl' \notin {"idle", "registered"})
        /\ UNCHANGED <<mode, sstate, linked, cmdActive, poller>>
    BY <1>4, <2>2 DEF PollPipe
  <2> QED
    BY <1>0, <2>3 DEF Control
<1>5. CASE Link
  BY <1>0, <1>5 DEF Link, Control
<1>6. CASE RegBuf
  BY <1>0, <1>6 DEF RegBuf, Quiet, Idle, Control
<1>7. CASE Start
  BY <1>0, <1>7 DEF Start, Control
<1>8. CASE StreamOn \/ CommitUpdates \/ StreamOff
  <2>1. /\ ctl \notin {"idle", "registered"} /\ ctl' # "registered"
        /\ UNCHANGED <<mode, sstate, linked, cmdActive>>
    BY <1>8 DEF StreamOn, CommitUpdates, StreamOff
  <2> QED
    BY <1>0, <2>1 DEF Control
<1>9. CASE StreamOnFails \/ RemoveFd
  <2>1. /\ sstate = "ACTIVE" /\ ctl' # "registered"
        /\ UNCHANGED <<mode, sstate, linked, cmdActive>>
    BY <1>0, <1>9 DEF StreamOnFails, RemoveFd, Control
  <2> QED
    BY <1>0, <2>1 DEF Control
<1>10. CASE ReleaseCmdThread \/ UnregBuf
  <2>1. ctl' = "idle" /\ sstate' # "ACTIVE" /\ UNCHANGED <<mode, linked>>
    BY <1>10 DEF ReleaseCmdThread, UnregBuf
  <2> QED
    BY <1>0, <2>1 DEF Control
<1> QED
  BY <1>2, <1>3, <1>4, <1>5, <1>6, <1>7, <1>8, <1>9, <1>10 DEF StreamNext

LEMMA ReturnsKept ==
  ASSUME StreamIInv, StreamNext
  PROVE  Returns'
<1> USE DEF kernelVars, pollVars, cmdVars
<1>0. StreamTypeOK /\ Returns
  BY DEF StreamIInv
<1>1. ASSUME UNCHANGED ret, \A h \in Holder : held[h] \subseteq held'[h],
             held'["cmd"] = held["cmd"]
      PROVE  Returns'
  BY <1>0, <1>1 DEF Returns, Holder
<1>2. CASE NotifyChannel \/ NotifyLinked
  <2>1. PICK h \in {"chan", "link"}, b \in Buffers :
          held' = held \/ held' = [held EXCEPT ![h] = @ \cup {b}]
    BY <1>0, <1>2, PollerFacts DEF NotifyChannel, NotifyLinked, Give
  <2>2. UNCHANGED ret
    BY <1>2 DEF NotifyChannel, NotifyLinked
  <2>3. \A g \in Holder : held[g] \subseteq held'[g] /\ (g = "cmd" => held'[g] = held[g])
    BY <1>0, <2>1 DEF StreamTypeOK, Holder
  <2> QED
    BY <1>1, <2>2, <2>3 DEF Holder
<1>3. CASE PollPipe \/ PollReturns \/ Notify \/ Dequeue \/ CountDequeued \/ TakeRefs
             \/ NotifyCmd \/ Link \/ Start \/ StreamOn \/ StreamOnFails \/ RemoveFd
             \/ CommitUpdates \/ StreamOff \/ ReleaseCmdThread \/ UnregBuf
  <2>1. UNCHANGED <<held, ret>>
    BY <1>3 DEF PollPipe, PollReturns, Notify, Dequeue, CountDequeued, TakeRefs, NotifyCmd,
                Link, Start, StreamOn, StreamOnFails, RemoveFd, CommitUpdates, StreamOff,
                ReleaseCmdThread, UnregBuf
  <2> QED
    BY <1>1, <2>1
<1>4. CASE RegBuf
  <2>1. PICK S \in SUBSET Buffers : held' = [held EXCEPT !["app"] = S]
    BY <1>4 DEF RegBuf
  <2>2. /\ UNCHANGED ret /\ \A h \in Holder : ret[h].at = "idle"
        /\ held["cmd"] = {}
    BY <1>4 DEF RegBuf, Quiet, Idle, Holder
  <2>3. held'["cmd"] = {}
    BY <1>0, <2>1, <2>2 DEF StreamTypeOK, Holder
  <2> QED
    BY <2>2, <2>3 DEF Returns, Holder
<1>5. CASE DispatchAppData
  <2> DEFINE b == Head(cmdq)
  <2>1. /\ held' = [held EXCEPT !["app"] = @ \cup {b}, !["cmd"] = {b}]
        /\ ret' = [ret EXCEPT !["cmd"] = [at |-> "call", buf |-> b]]
    BY <1>5 DEF DispatchAppData
  <2>2. /\ held'["cmd"] = {b} /\ ret'["cmd"].at = "call" /\ ret'["cmd"].buf = b
        /\ \A h \in Holder \ {"cmd"} : held[h] \subseteq held'[h] /\ ret'[h] = ret[h]
    BY <1>0, <2>1 DEF StreamTypeOK, Holder
  <2> HIDE DEF b
  <2> QED
    BY <1>0, <2>2 DEF Returns
<1>6. ASSUME NEW h \in Holder, \A g \in Holder \ {h} : ret'[g] = ret[g] /\ held'[g] = held[g],
             ret'[h].at \in {"call", "drop"} => ret'[h].buf \in held'[h],
             h = "cmd" => held'[h] = IF ret'[h].at \in {"call", "drop"} THEN {ret'[h].buf} ELSE {}
      PROVE  Returns'
  BY <1>0, <1>6 DEF Returns, Holder
<1>7. ASSUME NEW h \in Holder, QbufEvent(h) PROVE Returns'
  <2>1. PICK b \in held[h] :
          \/ ret' = [ret EXCEPT ![h] = [at |-> "call", buf |-> b]] /\ UNCHANGED held
          \/ held' = [held EXCEPT ![h] = @ \ {b}] /\ UNCHANGED ret
    BY <1>7 DEF QbufEvent
  <2>2. h # "cmd" /\ ret[h] = Idle
    BY <1>7 DEF QbufEvent
  <2>3. CASE ret' = [ret EXCEPT ![h] = [at |-> "call", buf |-> b]] /\ UNCHANGED held
    <3>1. /\ ret'[h].buf = b /\ held'[h] = held[h]
          /\ \A g \in Holder \ {h} : ret'[g] = ret[g] /\ held'[g] = held[g]
      BY <1>0, <2>3 DEF StreamTypeOK
    <3> QED
      BY <1>6, <2>2, <3>1
  <2>4. CASE held' = [held EXCEPT ![h] = @ \ {b}] /\ UNCHANGED ret
    <3>1. ret'[h].at = "idle" /\ \A g \in Holder \ {h} : ret'[g] = ret[g] /\ held'[g] = held[g]
      BY <1>0, <2>2, <2>4 DEF StreamTypeOK, Idle
    <3> QED
      BY <1>6, <2>2, <3>1
  <2> QED
    BY <2>1, <2>3, <2>4
<1>8. ASSUME NEW h \in Holder, TestRefs(h) PROVE Returns'
  <2>1. CASE Done(h) /\ held' = [held EXCEPT ![h] = @ \ {ret[h].buf}]
    <3>1. /\ ret'[h].at = "idle" /\ held'[h] = held[h] \ {ret[h].buf}
          /\ \A g \in Holder \ {h} : ret'[g] = ret[g] /\ held'[g] = held[g]
      BY <1>0, <2>1, DoneFacts DEF StreamTypeOK
    <3>2. ret[h].at = "call"
      BY <1>8 DEF TestRefs
    <3> QED
      BY <1>0, <1>6, <3>1, <3>2 DEF Returns
  <2>2. CASE Goto(h, "drop") /\ UNCHANGED held
    <3>1. /\ ret'[h].at = "drop" /\ ret'[h].buf = ret[h].buf
          /\ \A g \in Holder \ {h} : ret'[g] = ret[g]
      BY <1>0, <1>8, <2>2, GotoFacts DEF TestRefs
    <3> QED
      BY <1>0, <1>6, <1>8, <2>2, <3>1 DEF Returns, TestRefs
  <2> QED
    BY <1>8, <2>1, <2>2 DEF TestRefs
<1>9. ASSUME NEW h \in Holder, DropRef(h) PROVE Returns'
  <2>1. /\ ret'[h].at \in {"idle", "count"}
        /\ \A g \in Holder \ {h} : ret'[g] = ret[g]
    <3>1. CASE Done(h)
      BY <1>0, <3>1, DoneFacts
    <3>2. CASE Goto(h, "count")
      BY <1>0, <1>9, <3>2, GotoFacts DEF DropRef
    <3> QED
      BY <1>9, <3>1, <3>2 DEF DropRef
  <2>2. held'[h] = held[h] \ {ret[h].buf} /\ \A g \in Holder \ {h} : held'[g] = held[g]
    BY <1>0, <1>9 DEF DropRef, StreamTypeOK
  <2>3. ret[h].at = "drop"
    BY <1>9 DEF DropRef
  <2> QED
    BY <1>0, <1>6, <2>1, <2>2, <2>3 DEF Returns
<1>10. ASSUME NEW h \in Holder, CountQueued(h) \/ QbufIoctl(h) \/ UncountFailed(h)
       PROVE  Returns'
  <2>1. UNCHANGED held /\ ret[h].at \in {"count", "qbuf", "failed"}
        /\ (Done(h) \/ Goto(h, "qbuf") \/ Goto(h, "failed"))
    BY <1>10 DEF CountQueued, QbufIoctl, UncountFailed
  <2>2. /\ ret'[h].at \in {"idle", "qbuf", "failed"}
        /\ \A g \in Holder \ {h} : ret'[g] = ret[g]
    <3>1. CASE Done(h)
      BY <1>0, <3>1, DoneFacts
    <3>2. CASE Goto(h, "qbuf") \/ Goto(h, "failed")
      BY <1>0, <2>1, <3>2, GotoFacts
    <3> QED
      BY <2>1, <3>1, <3>2
  <2> QED
    BY <1>0, <1>6, <2>1, <2>2 DEF Returns
<1> QED
  BY <1>2, <1>3, <1>4, <1>5, <1>7, <1>8, <1>9, <1>10 DEF StreamNext, Consumer

-----------------------------------------------------------------------------
(* References.                                                             *)

LEMMA InPollerNow ==
  ASSUME StreamTypeOK, NEW b \in Buffers
  PROVE  /\ HasPoller(b) <=> /\ poller.at \in {"count", "refs", "bundle", "link", "cmd"}
                             /\ poller.buf = b
         /\ ~HasPoller(b) \/ poller.at \in {"count", "refs"} => InPoller(b) = 0
         /\ HasPoller(b) /\ poller.at = "bundle" => InPoller(b) = Ref(mode.hasCb) + Ref(mode.bundled)
         /\ HasPoller(b) /\ poller.at \in {"link", "cmd"} => InPoller(b) = Ref(mode.hasCb)
BY PollerFacts DEF HasPoller, InPoller, Ref

LEMMA InPollerNext ==
  ASSUME StreamTypeOK', NEW b \in Buffers
  PROVE  /\ HasPoller(b)' <=> /\ poller'.at \in {"count", "refs", "bundle", "link", "cmd"}
                              /\ poller'.buf = b
         /\ ~HasPoller(b)' \/ poller'.at \in {"count", "refs"} => InPoller(b)' = 0
         /\ HasPoller(b)' /\ poller'.at = "bundle"
              => InPoller(b)' = Ref(mode'.hasCb) + Ref(mode'.bundled)
         /\ HasPoller(b)' /\ poller'.at \in {"link", "cmd"} => InPoller(b)' = Ref(mode'.hasCb)
<1>1. poller'.at \in {"count", "refs", "bundle", "link", "cmd"} <=> "buf" \in DOMAIN poller'
  BY DEF StreamTypeOK, PollerState, Idle
<1> QED
  BY <1>1 DEF HasPoller, InPoller, Ref

LEMMA RefsFacts ==
  ASSUME NEW b
  PROVE  /\ Refs(b) \in Nat /\ Refs(b) <= 7
         /\ Refs(b) = 0 <=> /\ \A h \in Holder : b \notin held[h]
                            /\ ~InCmdq(b) /\ InPoller(b) = 0
BY DEF Refs, InCmdq, InPoller, Ref, Holder

(* One holder's reference changes, or none. *)
LEMMA RefsMove ==
  ASSUME NEW b, NEW h \in Holder,
         \A g \in Holder \ {h} : b \in held'[g] <=> b \in held[g],
         InCmdq(b)' <=> InCmdq(b)
  PROVE  Refs(b)' = Refs(b) + (Ref(b \in held'[h]) - Ref(b \in held[h]))
                            + (InPoller(b)' - InPoller(b))
<1> DEFINE of(g) == Ref(b \in held[g])
<1>1. InPoller(b) \in Nat /\ InPoller(b)' \in Nat /\ \A g \in Holder : of(g) \in Nat /\ of(g)' \in Nat
  BY DEF InPoller, Ref
<1>2. \A g \in Holder \ {h} : of(g)' = of(g)
  BY DEF Ref
<1>3. Ref(InCmdq(b)') = Ref(InCmdq(b)) /\ Ref(InCmdq(b)) \in Nat
  BY DEF Ref
<1>4. /\ Refs(b) = of("chan") + of("link") + of("app") + of("cmd") + Ref(InCmdq(b)) + InPoller(b)
      /\ Refs(b)' = of("chan")' + of("link")' + of("app")' + of("cmd")' + Ref(InCmdq(b)') + InPoller(b)'
  BY DEF Refs, InCmdq, Ref
<1> HIDE DEF of
<1>5. Refs(b)' = Refs(b) + (of(h)' - of(h)) + (InPoller(b)' - InPoller(b))
  BY <1>1, <1>2, <1>3, <1>4 DEF Holder
<1> QED
  BY <1>5 DEF of

LEMMA SettledFrame ==
  ASSUME NEW b \in Buffers, Settled(b),
         refcnt'[b] = refcnt[b], Refs(b)' = Refs(b), Owned(b)' => Owned(b),
         b \in kernel' => b \in kernel,
         \A h \in Holder : Returning(h, b)' => Returning(h, b)
  PROVE  Settled(b)'
BY DEF Settled

LEMMA SettledInUse ==
  ASSUME NEW b \in Buffers, Settled(b),
         Refs(b) # 0 \/ Owned(b), refcnt'[b] = Refs(b)',
         b \in kernel' => b \in kernel,
         \A h \in Holder : Returning(h, b)' => Returning(h, b)
  PROVE  Settled(b)'
BY DEF Settled

-----------------------------------------------------------------------------
(* Who has a buffer: one lemma per action that moves one.                  *)

LEMMA KeptBefore ==
  ASSUME StreamIInv, StreamNext, Registered'
  PROVE  Registered \/ RegBuf
<1> USE DEF kernelVars, pollVars, cmdVars
<1>1. CASE UNCHANGED <<sstate, ctl>>
  BY <1>1 DEF Registered
<1>2. CASE PollPipe
  <2>1. UNCHANGED sstate /\ ctl' \in {ctl, "commit", "release", "off"}
    BY <1>2 DEF PollPipe
  <2> QED
    BY <2>1 DEF Registered
<1>3. CASE Start \/ StreamOn \/ StreamOnFails \/ RemoveFd \/ CommitUpdates \/ StreamOff
             \/ ReleaseCmdThread \/ UnregBuf
  BY <1>3 DEF Start, StreamOn, StreamOnFails, RemoveFd, CommitUpdates, StreamOff,
              ReleaseCmdThread, UnregBuf, Registered
<1>4. CASE PollReturns \/ Notify \/ Dequeue \/ CountDequeued \/ TakeRefs \/ NotifyChannel
             \/ NotifyLinked \/ NotifyCmd \/ DispatchAppData \/ Link
  <2>1. UNCHANGED <<sstate, ctl>>
    BY <1>4 DEF PollReturns, Notify, Dequeue, CountDequeued, TakeRefs, NotifyChannel,
                NotifyLinked, NotifyCmd, DispatchAppData, Link
  <2> QED
    BY <1>1, <2>1
<1>5. ASSUME NEW h \in Holder, Consumer(h) PROVE Registered \/ RegBuf
  <2>1. UNCHANGED <<sstate, ctl>>
    BY <1>5 DEF Consumer, QbufEvent, TestRefs, DropRef, CountQueued, QbufIoctl, UncountFailed
  <2> QED
    BY <1>1, <2>1
<1> QED
  BY <1>2, <1>3, <1>4, <1>5 DEF StreamNext

(* The registration of the buffers starts the count. *)
LEMMA RegBufSettles ==
  ASSUME StreamIInv, RegBuf, StreamTypeOK'
  PROVE  Exclusive' /\ Fresh' /\ CmdqDistinct'
<1>1. PICK initial \in SUBSET Buffers :
        /\ kernel' = initial
        /\ refcnt' = [b \in Buffers |-> IF b \in initial THEN 0 ELSE 1]
        /\ held' = [held EXCEPT !["app"] = Buffers \ initial]
  BY DEF RegBuf
<1>2. /\ UNCHANGED <<mode, poller, cmdq, ret>> /\ poller = Idle /\ cmdq = << >>
      /\ \A h \in Holder : held[h] = {} /\ ret[h] = Idle
  BY DEF RegBuf, Quiet, cmdVars
<1>3. /\ poller'.at = "idle" /\ Len(cmdq') = 0 /\ \A h \in Holder : ret'[h].at = "idle"
  BY <1>2 DEF Idle
<1>4. \A b \in Buffers : ~HasPoller(b)' /\ InPoller(b)' = 0 /\ ~InCmdq(b)'
  BY <1>3, InPollerNext DEF InCmdq
<1>5. /\ held'["app"] = Buffers \ initial
      /\ held'["chan"] = {} /\ held'["link"] = {} /\ held'["cmd"] = {}
  BY <1>1, <1>2 DEF StreamIInv, StreamTypeOK, Holder
<1>6. \A b \in Buffers : Refs(b)' = IF b \in initial THEN 0 ELSE 1
  BY <1>4, <1>5 DEF Refs, InCmdq, Ref
<1>7. \A b \in Buffers : ~Owned(b)' /\ \A h \in Holder : ~Returning(h, b)'
  BY <1>3, <1>4 DEF Owned, Returning
<1>8. Exclusive'
  BY <1>1, <1>6, <1>7 DEF Exclusive, Settled
<1> QED
  BY <1>3, <1>4, <1>8 DEF Fresh, CmdqDistinct

LEMMA FrameSettles ==
  ASSUME StreamIInv, Registered, StreamTypeOK', kernel' \subseteq kernel,
         UNCHANGED <<mode, refcnt, cmdq, held, ret>>,
         poller' = poller \/ \A b \in Buffers : ~HasPoller(b) /\ ~HasPoller(b)'
  PROVE  Exclusive' /\ Fresh' /\ CmdqDistinct'
<1>1. StreamTypeOK /\ Exclusive /\ Fresh /\ CmdqDistinct
  BY DEF StreamIInv
<1>2. ASSUME NEW b \in Buffers
      PROVE  /\ HasPoller(b)' => HasPoller(b) /\ poller' = poller
             /\ InPoller(b)' = InPoller(b)
             /\ InCmdq(b)' <=> InCmdq(b)
             /\ Owned(b)' => Owned(b)
  <2>1. CASE poller' = poller
    BY <2>1 DEF HasPoller, InPoller, Ref, InCmdq, Owned
  <2>2. CASE ~HasPoller(b) /\ ~HasPoller(b)'
    <3>1. InPoller(b) = 0 /\ InPoller(b)' = 0
      BY <1>1, <2>2, InPollerNow, InPollerNext
    <3> QED
      BY <2>2, <3>1 DEF InCmdq, Owned
  <2> QED
    BY <2>1, <2>2
<1>3. ASSUME NEW b \in Buffers PROVE Settled(b)'
  <2>1. Refs(b)' = Refs(b)
    BY <1>2 DEF Refs, Ref, InCmdq
  <2> QED
    BY <1>1, <1>2, <2>1, SettledFrame DEF Exclusive, Returning
<1>4. Fresh'
  BY <1>1, <1>2 DEF Fresh, Owned, HasPoller
<1>5. CmdqDistinct'
  BY <1>1 DEF CmdqDistinct, InCmdq
<1> QED
  BY <1>3, <1>4, <1>5 DEF Exclusive

(* The kernel gives a buffer up: it is the poll thread's. *)
LEMMA DequeueSettles ==
  ASSUME StreamIInv, Registered, StreamTypeOK', Dequeue
  PROVE  Exclusive' /\ Fresh' /\ CmdqDistinct'
<1>1. /\ StreamTypeOK /\ Exclusive /\ Fresh /\ CmdqDistinct
      /\ poller.at = "dequeue" /\ UNCHANGED <<mode, refcnt, cmdq, held, ret>>
  BY DEF StreamIInv, Dequeue, cmdVars
<1>2. \A b \in Buffers : ~HasPoller(b) /\ InPoller(b) = 0
  BY <1>1, InPollerNow
<1>3. CASE kernel = {} \/ ~on
  <2>1. kernel' = kernel /\ poller'.at = "idle"
    BY <1>3 DEF Dequeue, Idle
  <2>2. \A b \in Buffers : ~HasPoller(b)'
    BY <2>1, InPollerNext
  <2> QED
    BY <1>1, <1>2, <2>1, <2>2, FrameSettles
<1>4. CASE ~(kernel = {} \/ ~on)
  <2>1. PICK c \in kernel : kernel' = kernel \ {c} /\ poller' = [at |-> "count", buf |-> c]
    BY <1>4 DEF Dequeue
  <2>2. c \in Buffers /\ poller'.at = "count" /\ poller'.buf = c
    BY <1>1, <2>1 DEF StreamTypeOK
  <2>3. \A b \in Buffers : /\ InPoller(b)' = 0 /\ (HasPoller(b)' <=> b = c)
                           /\ (InCmdq(b)' <=> InCmdq(b))
                           /\ (Owned(b)' => b = c)
    BY <1>1, <2>2, InPollerNext DEF InCmdq, Owned
  <2>4. \A b \in Buffers : Refs(b)' = Refs(b)
    BY <1>1, <1>2, <2>3 DEF Refs, InCmdq, Ref
  <2>5. Refs(c) = 0 /\ ~InCmdq(c) /\ \A h \in Holder : c \notin held[h] /\ ~Returning(h, c)
    BY <1>1, <2>1, <2>2, RefsFacts DEF Exclusive, Settled
  <2>6. ASSUME NEW b \in Buffers PROVE Settled(b)'
    <3>1. CASE b = c
      BY <1>1, <2>1, <2>4, <2>5, <3>1 DEF Exclusive, Settled, Returning
    <3>2. CASE b # c
      <4>1. ~Owned(b)'
        BY <2>3, <3>2
      <4> QED
        BY <1>1, <2>1, <2>4, <4>1, SettledFrame DEF Exclusive, Returning
    <3> QED
      BY <3>1, <3>2
  <2>7. Fresh'
    BY <1>1, <2>2, <2>3, <2>5 DEF Fresh, Holder
  <2>8. CmdqDistinct'
    BY <1>1 DEF CmdqDistinct, InCmdq
  <2> QED
    BY <2>6, <2>7, <2>8 DEF Exclusive
<1> QED
  BY <1>3, <1>4

LEMMA CountDequeuedSettles ==
  ASSUME StreamIInv, Registered, StreamTypeOK', CountDequeued
  PROVE  Exclusive' /\ Fresh' /\ CmdqDistinct'
<1>1. /\ StreamTypeOK /\ Exclusive /\ Fresh /\ CmdqDistinct
      /\ poller.at = "count" /\ UNCHANGED <<mode, kernel, refcnt, cmdq, held, ret>>
  BY DEF StreamIInv, CountDequeued, cmdVars, kernelVars
<1>2. poller'.at = "refs" /\ poller'.buf = poller.buf
  BY <1>1, PollerFacts DEF CountDequeued
<1>3. \A b \in Buffers : /\ InPoller(b) = 0 /\ InPoller(b)' = 0
                         /\ (HasPoller(b)' <=> HasPoller(b))
                         /\ (InCmdq(b)' <=> InCmdq(b))
                         /\ (Owned(b)' <=> Owned(b))
  BY <1>1, <1>2, InPollerNow, InPollerNext DEF InCmdq, Owned
<1>4. ASSUME NEW b \in Buffers PROVE Settled(b)'
  <2>1. Refs(b)' = Refs(b)
    BY <1>1, <1>3 DEF Refs, InCmdq, Ref
  <2> QED
    BY <1>1, <1>3, <2>1, SettledFrame DEF Exclusive, Returning
<1>5. Fresh'
  <2>1. \A b \in Buffers : HasPoller(b) => Owned(b)
    BY <1>1 DEF Owned
  <2> QED
    BY <1>1, <1>3, <2>1 DEF Fresh
<1>6. CmdqDistinct'
  BY <1>1 DEF CmdqDistinct, InCmdq
<1> QED
  BY <1>4, <1>5, <1>6 DEF Exclusive

LEMMA TakeRefsSettles ==
  ASSUME StreamIInv, Registered, StreamTypeOK', TakeRefs
  PROVE  Exclusive' /\ Fresh' /\ CmdqDistinct'
<1> DEFINE c == poller.buf
           n == Ref(mode.bundled) + Ref(mode.hasCb)
<1>1. /\ StreamTypeOK /\ Exclusive /\ Fresh /\ CmdqDistinct
      /\ poller.at = "refs" /\ UNCHANGED <<mode, kernel, cmdq, held, ret>>
  BY DEF StreamIInv, TakeRefs, cmdVars, kernelVars
<1>2. c \in Buffers /\ poller'.at = "bundle" /\ poller'.buf = c
  BY <1>1, PollerFacts DEF TakeRefs
<1>3. \A b \in Buffers : /\ InPoller(b) = 0
                         /\ (HasPoller(b) <=> b = c) /\ (HasPoller(b)' <=> b = c)
                         /\ InPoller(b)' = IF b = c THEN n ELSE 0
                         /\ (InCmdq(b)' <=> InCmdq(b))
                         /\ (Owned(b) <=> b = c) /\ (Owned(b)' => b = c)
  <2>1. Ref(mode'.hasCb) + Ref(mode'.bundled) = n
    BY <1>1 DEF Ref
  <2> QED
    BY <1>1, <1>2, <2>1, InPollerNow, InPollerNext DEF InCmdq, Owned
<1>4. ~InCmdq(c) /\ (\A h \in Holder : c \notin held[h]) /\ Refs(c) = 0
  BY <1>1, <1>2, <1>3, RefsFacts DEF Fresh
<1>5. n \in 0..2
  BY DEF Ref
<1>6. refcnt' = [refcnt EXCEPT ![c] = n]
  <2>1. refcnt[c] = 0
    BY <1>1, <1>2, <1>4 DEF Exclusive, Settled
  <2>2. (0 + Ref(mode.bundled) + Ref(mode.hasCb)) % 256 = n
    BY <1>5, RefArith DEF Ref
  <2> QED
    BY <2>1, <2>2 DEF TakeRefs
<1> HIDE DEF n
<1>7. \A b \in Buffers : Refs(b)' = IF b = c THEN n ELSE Refs(b)
  BY <1>1, <1>3, <1>4, <1>5 DEF Refs, InCmdq, Ref, Holder
<1>8. ASSUME NEW b \in Buffers PROVE Settled(b)'
  <2>1. CASE b = c
    <3>1. refcnt'[b] = Refs(b)'
      BY <1>1, <1>2, <1>6, <1>7, <2>1 DEF StreamTypeOK
    <3> QED
      BY <1>1, <1>3, <2>1, <3>1, SettledInUse DEF Exclusive, Returning
  <2>2. CASE b # c
    <3>1. refcnt'[b] = refcnt[b] /\ Refs(b)' = Refs(b) /\ ~Owned(b)'
      BY <1>1, <1>2, <1>3, <1>6, <1>7, <2>2 DEF StreamTypeOK
    <3> QED
      BY <1>1, <3>1, SettledFrame DEF Exclusive, Returning
  <2> QED
    BY <2>1, <2>2
<1>9. Fresh'
  BY <1>1, <1>3, <1>4 DEF Fresh, Holder
<1>10. CmdqDistinct'
  BY <1>1 DEF CmdqDistinct, InCmdq
<1> QED
  BY <1>8, <1>9, <1>10 DEF Exclusive

LEMMA ModeFacts ==
  ASSUME StreamTypeOK
  PROVE  ~(mode.bundled /\ mode.linkable)
BY StreamAssumption DEF StreamTypeOK

(* The poll thread hands its reference for the bundle over. *)
LEMMA NotifyChannelSettles ==
  ASSUME StreamIInv, Registered, StreamTypeOK', NotifyChannel
  PROVE  Exclusive' /\ Fresh' /\ CmdqDistinct'
<1> DEFINE c == poller.buf
<1>1. /\ StreamTypeOK /\ Exclusive /\ Fresh /\ CmdqDistinct
      /\ poller.at = "bundle" /\ UNCHANGED <<mode, kernel, refcnt, cmdq, ret>>
      /\ held' = IF mode.bundled THEN [held EXCEPT !["chan"] = @ \cup {c}] ELSE held
  BY DEF StreamIInv, NotifyChannel, cmdVars, kernelVars, Give
<1>2. c \in Buffers /\ poller'.at = "link" /\ poller'.buf = c
  BY <1>1, PollerFacts DEF NotifyChannel
<1>3. \A b \in Buffers :
        /\ (HasPoller(b) <=> b = c) /\ (HasPoller(b)' <=> b = c)
        /\ InPoller(b) = IF b = c THEN Ref(mode.hasCb) + Ref(mode.bundled) ELSE 0
        /\ InPoller(b)' = IF b = c THEN Ref(mode.hasCb) ELSE 0
        /\ (InCmdq(b)' <=> InCmdq(b))
        /\ (Owned(b) <=> b = c /\ mode.linkable) /\ (Owned(b)' <=> b = c /\ mode.linkable)
  <2>1. Ref(mode'.hasCb) = Ref(mode.hasCb)
    BY <1>1 DEF Ref
  <2> QED
    BY <1>1, <1>2, <2>1, InPollerNow, InPollerNext DEF InCmdq, Owned
<1>4. ~InCmdq(c) /\ (\A h \in Holder : c \notin held[h])
  BY <1>1, <1>2, <1>3 DEF Fresh
<1>5. /\ \A h \in Holder \ {"chan"} : held'[h] = held[h]
      /\ \A b \in Buffers \ {c} : b \in held'["chan"] <=> b \in held["chan"]
      /\ c \in held'["chan"] <=> mode.bundled
  BY <1>1, <1>4 DEF StreamTypeOK, Holder
<1>6. \A b \in Buffers : Refs(b)' = Refs(b)
  <2> TAKE b \in Buffers
  <2>1. Refs(b)' = Refs(b) + (Ref(b \in held'["chan"]) - Ref(b \in held["chan"]))
                           + (InPoller(b)' - InPoller(b))
    BY <1>3, <1>5, RefsMove DEF Holder
  <2>2. Refs(b) \in Nat /\ Ref(mode.hasCb) \in Nat
    BY RefsFacts DEF Ref
  <2> QED
    BY <2>1, <2>2, <1>3, <1>4, <1>5 DEF Ref, Holder
<1>7. ASSUME NEW b \in Buffers PROVE Settled(b)'
  BY <1>1, <1>3, <1>6, SettledFrame DEF Exclusive, Returning
<1>8. Fresh'
  <2>1. mode.linkable => \A h \in Holder : c \notin held'[h]
    BY <1>1, <1>4, ModeFacts
  <2>2. c \notin held'["cmd"] /\ c \notin held'["app"]
    BY <1>4, <1>5 DEF Holder
  <2> QED
    BY <1>1, <1>2, <1>3, <1>4, <2>1, <2>2 DEF Fresh
<1>9. CmdqDistinct'
  <2>1. held'["app"] = held["app"]
    BY <1>5 DEF Holder
  <2> QED
    BY <1>1, <2>1 DEF CmdqDistinct, InCmdq
<1> QED
  BY <1>7, <1>8, <1>9 DEF Exclusive

(* A linked channel's reference is counted as it is given. *)
LEMMA NotifyLinkedSettles ==
  ASSUME StreamIInv, Registered, StreamTypeOK', NotifyLinked
  PROVE  Exclusive' /\ Fresh' /\ CmdqDistinct'
<1> DEFINE c == poller.buf
<1>1. /\ StreamTypeOK /\ Exclusive /\ Fresh /\ CmdqDistinct
      /\ poller.at = "link" /\ UNCHANGED <<mode, kernel, cmdq, ret>>
      /\ linked => mode.linkable
  BY DEF StreamIInv, NotifyLinked, cmdVars, kernelVars, Control
<1>2. c \in Buffers /\ poller'.at = "cmd" /\ poller'.buf = c
  BY <1>1, PollerFacts DEF NotifyLinked
<1>3. \A b \in Buffers :
        /\ (HasPoller(b) <=> b = c) /\ (HasPoller(b)' <=> b = c)
        /\ InPoller(b)' = InPoller(b)
        /\ (InCmdq(b)' <=> InCmdq(b))
        /\ (Owned(b) <=> b = c /\ mode.linkable) /\ ~Owned(b)'
  <2>1. Ref(mode'.hasCb) = Ref(mode.hasCb)
    BY <1>1 DEF Ref
  <2> QED
    BY <1>1, <1>2, <2>1, InPollerNow, InPollerNext DEF InCmdq, Owned
<1>4. /\ mode.hasCb => ~InCmdq(c) /\ c \notin held["cmd"] /\ c \notin held["app"]
      /\ mode.linkable => \A h \in Holder : c \notin held[h]
  BY <1>1, <1>2, <1>3 DEF Fresh
<1>5. CASE linked
  <2>1. /\ held' = [held EXCEPT !["link"] = @ \cup {c}]
        /\ refcnt' = [refcnt EXCEPT ![c] = (@ + 1) % 256]
    BY <1>5 DEF NotifyLinked, Give
  <2>2. /\ \A h \in Holder \ {"link"} : held'[h] = held[h]
        /\ \A b \in Buffers \ {c} : b \in held'["link"] <=> b \in held["link"]
        /\ c \in held'["link"] /\ c \notin held["link"]
    BY <1>1, <1>4, <1>5, <2>1 DEF StreamTypeOK, Holder
  <2>3. \A b \in Buffers : Refs(b)' = IF b = c THEN Refs(b) + 1 ELSE Refs(b)
    <3> TAKE b \in Buffers
    <3>1. Refs(b)' = Refs(b) + (Ref(b \in held'["link"]) - Ref(b \in held["link"]))
                             + (InPoller(b)' - InPoller(b))
      BY <1>3, <2>2, RefsMove DEF Holder
    <3>2. Refs(b) \in Nat /\ InPoller(b) \in Nat
      BY RefsFacts DEF InPoller, Ref
    <3> QED
      BY <3>1, <3>2, <1>3, <2>2 DEF Ref
  <2>4. refcnt'[c] = Refs(c) + 1
    <3>1. Refs(c) \in Nat /\ Refs(c) <= 7 /\ refcnt[c] = Refs(c)
      BY <1>1, <1>2, RefsFacts DEF Exclusive, Settled
    <3>2. (refcnt[c] + 1) % 256 = Refs(c) + 1
      BY <3>1, RefArith
    <3> QED
      <4>1. c \in DOMAIN refcnt
        BY <1>1, <1>2 DEF StreamTypeOK
      <4>2. refcnt'[c] = (refcnt[c] + 1) % 256
        BY <2>1, <4>1
      <4> QED
        BY <3>2, <4>2
  <2>5. ASSUME NEW b \in Buffers PROVE Settled(b)'
    <3>1. CASE b = c
      BY <1>1, <1>3, <1>5, <2>3, <2>4, <3>1, SettledInUse DEF Exclusive, Returning
    <3>2. CASE b # c
      <4>1. refcnt'[b] = refcnt[b]
        BY <1>1, <2>1, <3>2 DEF StreamTypeOK
      <4> QED
        BY <1>1, <1>3, <2>3, <3>2, <4>1, SettledFrame DEF Exclusive, Returning
    <3> QED
      BY <3>1, <3>2
  <2>6. held'["app"] = held["app"] /\ held'["cmd"] = held["cmd"]
    BY <2>2 DEF Holder
  <2>7. Fresh'
    BY <1>1, <1>2, <1>3, <1>4, <2>6 DEF Fresh
  <2>8. CmdqDistinct'
    BY <1>1, <2>6 DEF CmdqDistinct, InCmdq
  <2> QED
    BY <2>5, <2>7, <2>8 DEF Exclusive
<1>6. CASE ~linked
  <2>1. UNCHANGED <<held, refcnt>>
    BY <1>6 DEF NotifyLinked
  <2>2. ASSUME NEW b \in Buffers PROVE Settled(b)'
    <3>1. Refs(b)' = Refs(b)
      BY <1>3, <2>1 DEF Refs, InCmdq, Ref
    <3> QED
      BY <1>1, <1>3, <2>1, <3>1, SettledFrame DEF Exclusive, Returning
  <2>3. Fresh'
    BY <1>1, <1>2, <1>3, <1>4, <2>1 DEF Fresh
  <2>4. CmdqDistinct'
    BY <1>1, <2>1 DEF CmdqDistinct, InCmdq
  <2> QED
    BY <2>2, <2>3, <2>4 DEF Exclusive
<1> QED
  BY <1>5, <1>6

LEMMA CmdqFacts ==
  ASSUME NEW q \in Seq(Buffers), NEW c \in Buffers
  PROVE  /\ Len(Append(q, c)) = Len(q) + 1 /\ Append(q, c)[Len(q) + 1] = c /\ Len(q) \in Nat
         /\ \A i \in 1..Len(q) : Append(q, c)[i] = q[i]
         /\ q # << >> => /\ Len(Tail(q)) = Len(q) - 1 /\ Head(q) = q[1] /\ 1 \in 1..Len(q)
                         /\ \A i \in 1..Len(Tail(q)) : i + 1 \in 1..Len(q) /\ Tail(q)[i] = q[i + 1]
                         /\ \A i \in 1..Len(q) : i # 1 => i - 1 \in 1..Len(Tail(q))
                                                          /\ Tail(q)[i - 1] = q[i]
<1>1. /\ Len(Append(q, c)) = Len(q) + 1 /\ Append(q, c)[Len(q) + 1] = c /\ Len(q) \in Nat
      /\ \A i \in 1..Len(q) : Append(q, c)[i] = q[i]
  OBVIOUS
<1>2. ASSUME q # << >>
      PROVE  /\ Len(Tail(q)) = Len(q) - 1 /\ Head(q) = q[1] /\ 1 \in 1..Len(q)
             /\ \A i \in 1..Len(Tail(q)) : i + 1 \in 1..Len(q) /\ Tail(q)[i] = q[i + 1]
  BY <1>2
<1>3. ASSUME q # << >>, NEW i \in 1..Len(q), i # 1
      PROVE  i - 1 \in 1..Len(Tail(q)) /\ Tail(q)[i - 1] = q[i]
  <2>1. i - 1 \in 1..Len(Tail(q)) /\ (i - 1) + 1 = i
    BY <1>2, <1>3
  <2> QED
    BY <1>2, <1>3, <2>1
<1> QED
  BY <1>1, <1>2, <1>3

(* The command thread's reference goes with the buffer into its queue. *)
LEMMA NotifyCmdSettles ==
  ASSUME StreamIInv, Registered, StreamTypeOK', NotifyCmd
  PROVE  Exclusive' /\ Fresh' /\ CmdqDistinct'
<1> DEFINE c == poller.buf
<1>1. /\ StreamTypeOK /\ Exclusive /\ Fresh /\ CmdqDistinct /\ cmdq \in Seq(Buffers)
      /\ poller.at = "cmd" /\ UNCHANGED <<mode, kernel, refcnt, held, ret>>
      /\ poller'.at = "idle"
  BY DEF StreamIInv, NotifyCmd, kernelVars, StreamTypeOK, Idle
<1>2. c \in Buffers
  BY <1>1, PollerFacts
<1>3. cmdq' = IF mode.hasCb THEN Append(cmdq, c) ELSE cmdq
  <2>1. sstate = "ACTIVE"
    BY <1>1 DEF StreamIInv, Control, Registered
  <2>2. cmdActive = mode.hasCb
    BY <2>1 DEF StreamIInv, Control
  <2> QED
    BY <2>2 DEF NotifyCmd
<1>4. \A b \in Buffers :
        /\ (HasPoller(b) <=> b = c) /\ ~HasPoller(b)'
        /\ InPoller(b)' = 0 /\ InPoller(b) = IF b = c THEN Ref(mode.hasCb) ELSE 0
        /\ ~Owned(b)'
  BY <1>1, InPollerNow, InPollerNext DEF Owned
<1>5. mode.hasCb => ~InCmdq(c) /\ c \notin held["cmd"] /\ c \notin held["app"]
  BY <1>1, <1>2, <1>4 DEF Fresh
<1>6. \A b \in Buffers : InCmdq(b)' <=> InCmdq(b) \/ (mode.hasCb /\ b = c)
  <2>1. CASE mode.hasCb
    BY <1>1, <1>2, <1>3, <2>1, CmdqFacts DEF InCmdq
  <2>2. CASE ~mode.hasCb
    BY <1>3, <2>2 DEF InCmdq
  <2> QED
    BY <2>1, <2>2
<1>7. ASSUME NEW b \in Buffers PROVE Settled(b)'
  <2>1. Ref(InCmdq(b)') + InPoller(b)' = Ref(InCmdq(b)) + InPoller(b)
    BY <1>4, <1>5, <1>6 DEF Ref
  <2>2. InPoller(b) \in Nat
    BY DEF InPoller, Ref
  <2>3. Refs(b)' = Refs(b)
    <3> DEFINE s == Ref(b \in held["chan"]) + Ref(b \in held["link"]) + Ref(b \in held["app"])
                      + Ref(b \in held["cmd"])
    <3>1. s \in Nat /\ s' = s /\ Ref(InCmdq(b)) \in Nat /\ Ref(InCmdq(b)') \in Nat
      BY <1>1 DEF Ref
    <3>2. Refs(b) = s + Ref(InCmdq(b)) + InPoller(b)
          /\ Refs(b)' = s' + Ref(InCmdq(b)') + InPoller(b)'
      BY DEF Refs, InCmdq, Ref
    <3> HIDE DEF s
    <3> QED
      BY <1>4, <2>1, <2>2, <3>1, <3>2
  <2> QED
    BY <1>1, <1>4, <2>3, SettledFrame DEF Exclusive, Returning
<1>8. Fresh'
  BY <1>4 DEF Fresh
<1>9. CmdqDistinct'
  <2>1. CASE mode.hasCb
    <3>1. \A i \in 1..Len(cmdq) : cmdq[i] # c
      BY <1>5, <2>1 DEF InCmdq
    <3>2. /\ Len(cmdq') = Len(cmdq) + 1 /\ Len(cmdq) \in Nat /\ cmdq'[Len(cmdq) + 1] = c
          /\ \A i \in 1..Len(cmdq) : cmdq'[i] = cmdq[i]
      BY <1>1, <1>2, <1>3, <2>1, CmdqFacts
    <3>3. \A i, j \in 1..Len(cmdq') : cmdq'[i] = cmdq'[j] => i = j
      BY <1>1, <3>1, <3>2 DEF CmdqDistinct
    <3>4. \A b \in Buffers : InCmdq(b)' => b \notin held'["app"]
      BY <1>1, <1>5, <1>6 DEF CmdqDistinct
    <3> QED
      BY <3>3, <3>4 DEF CmdqDistinct
  <2>2. CASE ~mode.hasCb
    BY <1>1, <1>3, <2>2 DEF CmdqDistinct, InCmdq
  <2> QED
    BY <2>1, <2>2
<1> QED
  BY <1>7, <1>8, <1>9 DEF Exclusive

(* The command thread takes a buffer from its queue, with the reference     *)
(* that came with it, and counts one more for the application.              *)
LEMMA DispatchSettles ==
  ASSUME StreamIInv, Registered, StreamTypeOK', DispatchAppData
  PROVE  Exclusive' /\ Fresh' /\ CmdqDistinct'
<1> DEFINE c == Head(cmdq)
<1>1. /\ StreamTypeOK /\ Exclusive /\ Fresh /\ CmdqDistinct /\ cmdq \in Seq(Buffers)
      /\ cmdq # << >> /\ cmdq' = Tail(cmdq) /\ ret["cmd"] = Idle
      /\ UNCHANGED <<mode, kernel, poller>>
      /\ refcnt' = [refcnt EXCEPT ![c] = (@ + 1) % 256]
      /\ held' = [held EXCEPT !["app"] = @ \cup {c}, !["cmd"] = {c}]
      /\ ret' = [ret EXCEPT !["cmd"] = [at |-> "call", buf |-> c]]
  BY DEF StreamIInv, DispatchAppData, kernelVars, StreamTypeOK
<1>2. /\ c \in Buffers /\ c = cmdq[1] /\ 1 \in 1..Len(cmdq) /\ Len(cmdq) \in Nat
      /\ Len(cmdq') = Len(cmdq) - 1
      /\ \A i \in 1..Len(cmdq') : i + 1 \in 1..Len(cmdq) /\ cmdq'[i] = cmdq[i + 1]
      /\ \A i \in 1..Len(cmdq) : i # 1 => i - 1 \in 1..Len(cmdq') /\ cmdq'[i - 1] = cmdq[i]
  <2>1. c \in Buffers
    BY <1>1
  <2> QED
    BY <1>1, <2>1, CmdqFacts
<1>3. \A b \in Buffers : InCmdq(b)' <=> InCmdq(b) /\ b # c
  <2>1. ASSUME NEW b \in Buffers, InCmdq(b)' PROVE InCmdq(b) /\ b # c
    <3>1. PICK i \in 1..Len(cmdq') : cmdq'[i] = b
      BY <2>1 DEF InCmdq
    <3>2. i + 1 \in 1..Len(cmdq) /\ cmdq[i + 1] = b /\ i + 1 # 1
      BY <1>2, <3>1
    <3> QED
      BY <1>1, <1>2, <3>2 DEF InCmdq, CmdqDistinct
  <2>2. ASSUME NEW b \in Buffers, InCmdq(b), b # c PROVE InCmdq(b)'
    <3>1. PICK i \in 1..Len(cmdq) : cmdq[i] = b
      BY <2>2 DEF InCmdq
    <3>2. i - 1 \in 1..Len(cmdq') /\ cmdq'[i - 1] = b
      BY <1>2, <2>2, <3>1
    <3> QED
      BY <3>2 DEF InCmdq
  <2> QED
    BY <2>1, <2>2
<1>4. InCmdq(c) /\ c \notin held["app"]
  BY <1>1, <1>2 DEF CmdqDistinct, InCmdq
<1>5. held["cmd"] = {}
  BY <1>1 DEF StreamIInv, Returns, Idle
<1> HIDE DEF c
<1>6. /\ held'["chan"] = held["chan"] /\ held'["link"] = held["link"]
      /\ held'["app"] = held["app"] \cup {c} /\ held'["cmd"] = {c}
      /\ ret'["cmd"].at = "call" /\ \A h \in Holder \ {"cmd"} : ret'[h] = ret[h]
  BY <1>1 DEF StreamTypeOK, Holder
<1>7. \A b \in Buffers : /\ InPoller(b)' = InPoller(b) /\ (HasPoller(b)' <=> HasPoller(b))
                         /\ (Owned(b)' <=> Owned(b))
                         /\ \A h \in Holder : Returning(h, b)' => Returning(h, b)
  BY <1>1, <1>6 DEF InPoller, Ref, HasPoller, Owned, Returning
<1>8. \A b \in Buffers : Refs(b)' = IF b = c THEN Refs(b) + 1 ELSE Refs(b)
  <2> TAKE b \in Buffers
  <2> DEFINE s == Ref(b \in held["chan"]) + Ref(b \in held["link"])
             t == Ref(b \in held["app"]) + Ref(b \in held["cmd"]) + Ref(InCmdq(b))
  <2>1. s \in Nat /\ s' = s /\ t \in Nat /\ t' \in Nat /\ InPoller(b) \in Nat
    BY <1>6 DEF Ref, InPoller
  <2>2. t' = IF b = c THEN t + 1 ELSE t
    BY <1>3, <1>4, <1>5, <1>6 DEF Ref
  <2>3. Refs(b) = s + t + InPoller(b) /\ Refs(b)' = s' + t' + InPoller(b)'
    BY DEF Refs, InCmdq, Ref
  <2> HIDE DEF s, t
  <2> QED
    BY <1>7, <2>1, <2>2, <2>3
<1>9. Refs(c) \in Nat /\ Refs(c) <= 7 /\ Refs(c) # 0 /\ refcnt[c] = Refs(c)
  BY <1>1, <1>2, <1>4, RefsFacts DEF Exclusive, Settled
<1>10. refcnt'[c] = Refs(c) + 1
  <2>1. (refcnt[c] + 1) % 256 = Refs(c) + 1
    BY <1>9, RefArith
  <2> QED
    BY <1>1, <1>2, <2>1 DEF StreamTypeOK
<1>11. ASSUME NEW b \in Buffers PROVE Settled(b)'
  <2>1. CASE b = c
    BY <1>1, <1>7, <1>8, <1>9, <1>10, <2>1, SettledInUse DEF Exclusive
  <2>2. CASE b # c
    <3>1. refcnt'[b] = refcnt[b] /\ Refs(b)' = Refs(b)
      BY <1>1, <1>8, <2>2 DEF StreamTypeOK
    <3> QED
      BY <1>1, <1>7, <3>1, SettledFrame DEF Exclusive
  <2> QED
    BY <2>1, <2>2
<1>12. Fresh'
  <2> SUFFICES ASSUME NEW b \in Buffers, HasPoller(b)'
               PROVE  /\ Owned(b)' \/ poller'.at = "bundle" =>
                           ~InCmdq(b)' /\ \A h \in Holder : b \notin held'[h]
                      /\ mode'.hasCb => ~InCmdq(b)' /\ b \notin held'["cmd"]
                                        /\ b \notin held'["app"]
    BY DEF Fresh
  <2>1. HasPoller(b)
    BY <1>7
  <2>2. Owned(b)' \/ poller'.at = "bundle" => b # c /\ ~InCmdq(b) /\ \A h \in Holder : b \notin held[h]
    BY <1>1, <1>4, <1>7, <2>1 DEF Fresh
  <2>3. mode'.hasCb => b # c /\ ~InCmdq(b) /\ b \notin held["app"]
    BY <1>1, <1>4, <2>1 DEF Fresh
  <2> QED
    BY <1>3, <1>6, <2>2, <2>3 DEF Holder
<1>13. CmdqDistinct'
  <2>1. ASSUME NEW i \in 1..Len(cmdq'), NEW j \in 1..Len(cmdq'), cmdq'[i] = cmdq'[j]
        PROVE  i = j
    <3>1. /\ i + 1 \in 1..Len(cmdq) /\ j + 1 \in 1..Len(cmdq)
          /\ cmdq[i + 1] = cmdq[j + 1]
      BY <1>2, <2>1
    <3>2. i + 1 = j + 1
      BY <1>1, <3>1 DEF CmdqDistinct
    <3> QED
      BY <1>2, <3>2
  <2>2. \A b \in Buffers : InCmdq(b)' => b \notin held'["app"]
    BY <1>1, <1>3, <1>6 DEF CmdqDistinct
  <2> QED
    BY <2>1, <2>2 DEF CmdqDistinct
<1> QED
  BY <1>11, <1>12, <1>13 DEF Exclusive

(* A consumer moves on without touching a count or the kernel. *)
LEMMA RetSettles ==
  ASSUME StreamIInv, Registered, UNCHANGED <<mode, kernel, refcnt, cmdq, held, poller>>,
         NEW h \in Holder, \A g \in Holder \ {h} : ret'[g] = ret[g],
         \A b \in Buffers : Returning(h, b)' => Returning(h, b)
  PROVE  Exclusive' /\ Fresh' /\ CmdqDistinct'
<1>1. StreamTypeOK /\ Exclusive /\ Fresh /\ CmdqDistinct
  BY DEF StreamIInv
<1>2. \A b \in Buffers : /\ Refs(b)' = Refs(b) /\ (Owned(b)' <=> Owned(b))
                         /\ (HasPoller(b)' <=> HasPoller(b)) /\ (InCmdq(b)' <=> InCmdq(b))
                         /\ \A g \in Holder : Returning(g, b)' => Returning(g, b)
  BY DEF Refs, InPoller, Ref, HasPoller, Owned, InCmdq, Returning
<1>3. ASSUME NEW b \in Buffers PROVE Settled(b)'
  BY <1>1, <1>2, SettledFrame DEF Exclusive
<1>4. Fresh' /\ CmdqDistinct'
  BY <1>1, <1>2 DEF Fresh, CmdqDistinct
<1> QED
  BY <1>3, <1>4 DEF Exclusive

LEMMA QbufEventSettles ==
  ASSUME StreamIInv, Registered, NEW h \in Holder, QbufEvent(h)
  PROVE  Exclusive' /\ Fresh' /\ CmdqDistinct'
<1>1. sstate = "ACTIVE" /\ StreamTypeOK
  BY DEF QbufEvent, Registered, StreamIInv
<1>2. /\ UNCHANGED <<mode, kernel, refcnt, cmdq, held, poller>>
      /\ \E b \in held[h] : ret' = [ret EXCEPT ![h] = [at |-> "call", buf |-> b]]
  BY <1>1 DEF QbufEvent, kernelVars, cmdVars
<1>3. ret'[h].at = "call" /\ \A g \in Holder \ {h} : ret'[g] = ret[g]
  BY <1>1, <1>2 DEF StreamTypeOK
<1> QED
  BY <1>2, <1>3, RetSettles DEF Returning

LEMMA TestRefsSettles ==
  ASSUME StreamIInv, Registered, NEW h \in Holder, TestRefs(h)
  PROVE  Exclusive' /\ Fresh' /\ CmdqDistinct'
<1> DEFINE c == ret[h].buf
<1>1. StreamTypeOK /\ Exclusive /\ c \in held[h] /\ c \in Buffers /\ ret[h].at # "idle"
  BY RetFacts DEF StreamIInv, Returns, TestRefs
<1>2. refcnt[c] # 0
  BY <1>1, RefsFacts DEF Exclusive, Settled
<1>3. Goto(h, "drop") /\ UNCHANGED <<mode, kernel, refcnt, cmdq, held, poller>>
  BY <1>2 DEF TestRefs, kernelVars, cmdVars
<1>4. ret'[h].at = "drop" /\ \A g \in Holder \ {h} : ret'[g] = ret[g]
  BY <1>1, <1>3, GotoFacts
<1> QED
  BY <1>3, <1>4, RetSettles DEF Returning

(* A consumer drops its reference, the last of which puts the buffer on its *)
(* way back to the kernel.                                                  *)
LEMMA DropRefSettles ==
  ASSUME StreamIInv, Registered, StreamTypeOK', NEW h \in Holder, DropRef(h)
  PROVE  Exclusive' /\ Fresh' /\ CmdqDistinct'
<1>0. PICK c \in Buffers : c = ret[h].buf
  BY RetFacts DEF StreamIInv, DropRef
<1> DEFINE left == (refcnt[c] + 255) % 256
<1>1. /\ StreamTypeOK /\ Exclusive /\ Fresh /\ CmdqDistinct
      /\ ret[h].at = "drop" /\ c \in held[h] /\ c \in Buffers
      /\ UNCHANGED <<mode, kernel, cmdq, poller>>
      /\ refcnt' = [refcnt EXCEPT ![c] = left]
      /\ held' = [held EXCEPT ![h] = @ \ {c}]
      /\ IF left = 0 THEN Goto(h, "count") ELSE Done(h)
  BY <1>0 DEF StreamIInv, Returns, DropRef, kernelVars, cmdVars
<1>2. refcnt[c] = Refs(c) /\ Refs(c) \in Nat /\ Refs(c) <= 7 /\ Refs(c) # 0
  BY <1>1, RefsFacts DEF Exclusive, Settled
<1>3. left = Refs(c) - 1
  BY <1>2, RefArith
<1> HIDE DEF left
<1>4. /\ \A g \in Holder : held'[g] \subseteq held[g]
      /\ \A g \in Holder, b \in Buffers : g # h \/ b # c => (b \in held'[g] <=> b \in held[g])
      /\ c \notin held'[h]
  BY <1>1 DEF StreamTypeOK
<1>5. \A b \in Buffers : /\ InPoller(b)' = InPoller(b) /\ (HasPoller(b)' <=> HasPoller(b))
                         /\ (Owned(b)' <=> Owned(b)) /\ (InCmdq(b)' <=> InCmdq(b))
  BY <1>1 DEF InPoller, Ref, HasPoller, Owned, InCmdq
<1>6. \A b \in Buffers : Refs(b)' = IF b = c THEN Refs(b) - 1 ELSE Refs(b)
  <2> TAKE b \in Buffers
  <2>1. Refs(b)' = Refs(b) + (Ref(b \in held'[h]) - Ref(b \in held[h]))
                           + (InPoller(b)' - InPoller(b))
    BY <1>4, <1>5, RefsMove
  <2>2. Refs(b) \in Nat /\ InPoller(b) \in Nat
    BY RefsFacts DEF InPoller, Ref
  <2> QED
    BY <1>1, <1>4, <1>5, <2>1, <2>2 DEF Ref
<1>7. /\ \A g \in Holder \ {h} : ret'[g] = ret[g]
      /\ ret'[h].at = "idle" \/ (left = 0 /\ ret'[h].buf = c)
  <2>1. CASE left = 0
    BY <1>0, <1>1, <2>1, GotoFacts
  <2>2. CASE left # 0
    BY <1>1, <2>2, DoneFacts
  <2> QED
    BY <2>1, <2>2
<1>8. ASSUME NEW b \in Buffers PROVE Settled(b)'
  <2>1. CASE b = c
    <3>1. refcnt'[c] = Refs(c)'
      BY <1>1, <1>3, <1>6 DEF StreamTypeOK
    <3>2. c \notin kernel' /\ \A g \in Holder : ~Returning(g, c)
      BY <1>1, <1>2 DEF Exclusive, Settled
    <3>3. ~Owned(c)'
      BY <1>1, <1>5 DEF Fresh, Owned
    <3>4. \A g \in Holder : Returning(g, c)' => g = h /\ left = 0
      BY <1>7, <3>2 DEF Returning
    <3>5. left = 0 => Refs(c)' = 0
      BY <1>1, <1>3, <1>6
    <3> QED
      BY <2>1, <3>1, <3>2, <3>3, <3>4, <3>5 DEF Settled
  <2>2. CASE b # c
    <3>1. refcnt'[b] = refcnt[b] /\ Refs(b)' = Refs(b)
      BY <1>1, <1>6, <2>2 DEF StreamTypeOK
    <3>2. \A g \in Holder : Returning(g, b)' => Returning(g, b)
      BY <1>7, <2>2 DEF Returning
    <3> QED
      BY <1>1, <1>5, <3>1, <3>2, SettledFrame DEF Exclusive
  <2> QED
    BY <2>1, <2>2
<1>9. Fresh'
  BY <1>1, <1>4, <1>5 DEF Fresh, Holder
<1>10. CmdqDistinct'
  <2>1. held'["app"] \subseteq held["app"]
    BY <1>4 DEF Holder
  <2> QED
    BY <1>1, <1>5, <2>1 DEF CmdqDistinct
<1> QED
  BY <1>8, <1>9, <1>10 DEF Exclusive

(* The buffer goes to the kernel, or nowhere. *)
LEMMA QbufSettles ==
  ASSUME StreamIInv, Registered, NEW h \in Holder,
         CountQueued(h) \/ QbufIoctl(h) \/ UncountFailed(h)
  PROVE  Exclusive' /\ Fresh' /\ CmdqDistinct'
<1>0. PICK c \in Buffers : c = ret[h].buf
  BY RetFacts DEF StreamIInv, CountQueued, QbufIoctl, UncountFailed
<1>1. /\ StreamTypeOK /\ Exclusive /\ Fresh /\ CmdqDistinct
      /\ ret[h].at \in {"count", "qbuf", "failed"} /\ c \in Buffers
      /\ UNCHANGED <<mode, refcnt, cmdq, held, poller>>
  BY DEF StreamIInv, CountQueued, QbufIoctl, UncountFailed, kernelVars, cmdVars
<1>2. CASE kernel' = kernel
  <2>1. Goto(h, "qbuf") \/ Goto(h, "failed") \/ Done(h)
    BY DEF CountQueued, QbufIoctl, UncountFailed
  <2>2. /\ \A g \in Holder \ {h} : ret'[g] = ret[g]
        /\ ret'[h].at = "idle" \/ ret'[h].buf = c
    <3>1. CASE Done(h)
      BY <1>1, <3>1, DoneFacts
    <3>2. CASE Goto(h, "qbuf") \/ Goto(h, "failed")
      BY <1>0, <1>1, <3>2, GotoFacts
    <3> QED
      BY <2>1, <3>1, <3>2
  <2>3. \A b \in Buffers : Returning(h, b)' => Returning(h, b)
    BY <1>0, <1>1, <2>2 DEF Returning
  <2> QED
    BY <1>1, <1>2, <2>2, <2>3, RetSettles
<1>3. CASE kernel' # kernel
  <2>1. kernel' = kernel \cup {c} /\ Done(h)
    BY <1>0, <1>3 DEF CountQueued, QbufIoctl, UncountFailed, kernelVars
  <2>2. ret'[h].at = "idle" /\ \A g \in Holder \ {h} : ret'[g] = ret[g]
    BY <1>1, <2>1, DoneFacts
  <2>3. \A b \in Buffers : /\ Refs(b)' = Refs(b) /\ (Owned(b)' <=> Owned(b))
                           /\ (HasPoller(b)' <=> HasPoller(b)) /\ (InCmdq(b)' <=> InCmdq(b))
                           /\ \A g \in Holder : Returning(g, b)' => Returning(g, b) /\ g # h
    BY <1>1, <2>2 DEF Refs, InPoller, Ref, HasPoller, Owned, InCmdq, Returning
  <2>4. Settled(c)'
    <3>1. Returning(h, c)
      BY <1>0, <1>1 DEF Returning
    <3>2. Refs(c) = 0 /\ ~Owned(c) /\ \A g \in Holder : Returning(g, c) => g = h
      BY <1>1, <3>1 DEF Exclusive, Settled
    <3> QED
      BY <1>1, <2>3, <3>2 DEF Exclusive, Settled
  <2>5. ASSUME NEW b \in Buffers, b # c PROVE Settled(b)'
    BY <1>1, <2>1, <2>3, <2>5, SettledFrame DEF Exclusive
  <2>6. Fresh' /\ CmdqDistinct'
    BY <1>1, <2>3 DEF Fresh, CmdqDistinct
  <2> QED
    BY <2>4, <2>5, <2>6 DEF Exclusive
<1> QED
  BY <1>2, <1>3

(* What the buffers' users know of each other is kept by every step.       *)
LEMMA BuffersSettle ==
  ASSUME StreamIInv, StreamNext, StreamTypeOK', Registered'
  PROVE  Exclusive' /\ Fresh' /\ CmdqDistinct'
<1> USE DEF kernelVars, pollVars, cmdVars
<1>0. StreamTypeOK
  BY DEF StreamIInv
<1>1. CASE RegBuf
  BY <1>1, RegBufSettles
<1>2. CASE ~RegBuf
  <2>0. Registered
    BY <1>2, KeptBefore
  <2>1. CASE PollReturns \/ Notify
    <3>1. /\ poller.at \in {"idle", "ready"} /\ poller'.at \in {"idle", "ready", "dequeue"}
          /\ UNCHANGED <<mode, kernel, refcnt, cmdq, held, ret>>
      BY <2>1 DEF PollReturns, Notify, Idle
    <3>2. \A b \in Buffers : ~HasPoller(b) /\ ~HasPoller(b)'
      BY <1>0, <3>1, InPollerNow, InPollerNext
    <3> QED
      BY <2>0, <3>1, <3>2, FrameSettles
  <2>2. CASE PollPipe \/ Link \/ Start \/ StreamOn \/ StreamOnFails \/ RemoveFd
               \/ CommitUpdates \/ StreamOff
    <3>1. /\ UNCHANGED <<mode, refcnt, cmdq, held, ret, poller>> /\ kernel' \subseteq kernel
      BY <2>2 DEF PollPipe, Link, Start, StreamOn, StreamOnFails, RemoveFd, CommitUpdates,
                  StreamOff
    <3> QED
      BY <2>0, <3>1, FrameSettles
  <2>3. CASE ReleaseCmdThread \/ UnregBuf
    BY <2>3 DEF ReleaseCmdThread, UnregBuf, Registered
  <2>4. ASSUME NEW h \in Holder, Consumer(h) PROVE Exclusive' /\ Fresh' /\ CmdqDistinct'
    BY <2>0, <2>4, QbufEventSettles, TestRefsSettles, DropRefSettles, QbufSettles DEF Consumer
  <2> QED
    BY <1>2, <2>0, <2>1, <2>2, <2>3, <2>4, DequeueSettles, CountDequeuedSettles,
       TakeRefsSettles, NotifyChannelSettles, NotifyLinkedSettles, NotifyCmdSettles,
       DispatchSettles DEF StreamNext
<1> QED
  BY <1>1, <1>2

-----------------------------------------------------------------------------
(* The theorems.                                                           *)

LEMMA InitStreamIInv ==
  StreamInit => StreamIInv
<1> SUFFICES ASSUME StreamInit PROVE StreamIInv
  OBVIOUS
<1>1. StreamTypeOK
  <2>1. Idle \in PollerState /\ Idle \in ReturnState
    BY DEF PollerState, ReturnState
  <2>2. refcnt \in [Buffers -> 0..255] /\ held \in [Holder -> SUBSET Buffers]
        /\ ret \in [Holder -> ReturnState]
    BY <2>1 DEF StreamInit
  <2>3. budget \in [sessions : Nat, fails : Nat] /\ pipe \in Seq(PipeCmd) /\ cmdq \in Seq(Buffers)
    BY DEF StreamInit
  <2> QED
    BY <2>1, <2>2, <2>3 DEF StreamInit, StreamTypeOK
<1>2. Covered
  <2>1. Cardinality(kernel) = 0
    BY FS_EmptySet DEF StreamInit
  <2>2. \A h \in Holder : ret[h].at = "idle"
    BY DEF StreamInit, Idle
  <2>3. poller.at = "idle" /\ queued = 0
    BY DEF StreamInit, Idle
  <2> QED
    BY <2>1, <2>2, <2>3 DEF Covered, Pending, Counting, Ref, Holder
<1>3. Polled /\ OneCommit /\ Control /\ Returns /\ ~Registered
  BY DEF StreamInit, Polled, OneCommit, Started, Control, Returns, Registered, Holder, Idle
<1> QED
  BY <1>1, <1>2, <1>3 DEF StreamIInv

LEMMA NextStreamIInv ==
  StreamIInv /\ [StreamNext]_streamVars => StreamIInv'
<1>1. ASSUME StreamIInv, StreamNext PROVE StreamIInv'
  <2>1. StreamTypeOK'
    BY <1>1, TypeKept
  <2> QED
    BY <1>1, <2>1, CountedKept, PolledKept, OneCommitKept, ControlKept, ReturnsKept,
       BuffersSettle DEF StreamIInv
<1>2. ASSUME StreamIInv, UNCHANGED streamVars PROVE StreamIInv'
  <2>1. UNCHANGED <<mode, sstate, kernel, on, refcnt, queued, linked, entry, fds, pipe,
                    poller, cmdq, cmdActive, held, ret, ctl, budget>>
    BY <1>2 DEF streamVars, kernelVars, pollVars, cmdVars
  <2>2. StreamTypeOK' /\ Control' /\ Returns' /\ OneCommit'
    <3>1. StreamTypeOK'
      BY <1>2, <2>1 DEF StreamIInv, StreamTypeOK
    <3>2. Control'
      BY <1>2, <2>1 DEF StreamIInv, Control
    <3>3. Returns'
      BY <1>2, <2>1 DEF StreamIInv, Returns
    <3>4. OneCommit'
      BY <1>2, <2>1 DEF StreamIInv, OneCommit
    <3> QED
      BY <3>1, <3>2, <3>3, <3>4
  <2>4. Covered' /\ Polled'
    <3>1. Covered'
      BY <1>2, <2>1 DEF StreamIInv, Covered, Pending, Counting, Ref
    <3>2. Polled'
      BY <1>2, <2>1 DEF StreamIInv, Polled, Started, Copies
    <3> QED
      BY <3>1, <3>2
  <2>3. Registered' => Exclusive' /\ Fresh' /\ CmdqDistinct'
    <3>1. Registered' <=> Registered
      BY <2>1 DEF Registered
    <3> QED
      BY <1>2, <2>1, <2>2, <3>1, FrameSettles
  <2> QED
    BY <2>2, <2>3, <2>4 DEF StreamIInv
<1> QED
  BY <1>1, <1>2

LEMMA StreamInvariant ==
  StreamSpec => []StreamIInv
BY InitStreamIInv, NextStreamIInv, PTL DEF StreamSpec

(* Every variable keeps its type; the references of a buffer fit the eight  *)
(* bits of buf_refcnt, and queued_buffer_count never goes below zero.       *)
THEOREM StreamTypeCorrect ==
  StreamSpec => []StreamTypeOK
<1>1. StreamIInv => StreamTypeOK
  BY DEF StreamIInv
<1> QED
  BY <1>1, StreamInvariant, PTL

(* The reference count of mm_stream_dispatch_sync_data, _app_data and       *)
(* mm_stream_buf_done is exact while the stream runs, however the consumers *)
(* and the poll thread interleave.                                          *)
THEOREM RefcountAlwaysExact ==
  StreamSpec => []RefcountExact
<1>1. StreamIInv => RefcountExact
  BY DEF StreamIInv, RefcountExact, Running, Registered, Exclusive, Settled
<1> QED
  BY <1>1, StreamInvariant, PTL

(* No buffer that the kernel may write to is in a consumer's hands.        *)
THEOREM KernelAlwaysExclusive ==
  StreamSpec => []KernelExclusive
<1>1. StreamIInv => KernelExclusive
  BY DEF StreamIInv, StreamTypeOK, KernelExclusive, Running, Registered, Exclusive, Settled
<1> QED
  BY <1>1, StreamInvariant, PTL

(* While the stream runs and the kernel has buffers of it, the poll thread  *)
(* polls its fd or is about to read the command that makes it.              *)
THEOREM AlwaysPolled ==
  StreamSpec => []NoFrameUnpolled
<1>1. StreamIInv => NoFrameUnpolled
  <2> SUFFICES ASSUME StreamIInv, Running, kernel # {}
               PROVE  entry /\ (fds \/ pipe # << >>)
    BY DEF NoFrameUnpolled
  <2>1. queued # 0
    BY CountedFacts DEF StreamIInv
  <2>2. entry /\ (fds \/ Copies)
    BY <2>1 DEF StreamIInv, Polled, Started, Running
  <2>3. Copies => pipe # << >>
    BY DEF Copies
  <2> QED
    BY <2>2, <2>3
<1> QED
  BY <1>1, StreamInvariant, PTL
-----------------------------------------------------------------------------
(***************************************************************************)
(* CaptureRequests.                                                        *)
(***************************************************************************)

(* A caller of handleCameraDeviceError inside it, and the recovery from the *)
(* moment it has mRecoveryLock.                                             *)
Busy == {"enter", "stopping", "deinit"}

Recovering == {"enter", "stopping", "restart", "configure", "failed"}

(* mRecoveryLock has the owner the threads' positions say, one caller       *)
(* handles the error at a time, and without an error nobody does. A thermal *)
(* shutdown and a recovery need an error each.                              *)
LockInv ==
  /\ \A t \in {"flush", "flushError", "requestError"} : at[t] # "idle" => lock = t
  /\ at["recovery"] \in Recovering => lock = "recovery"
  /\ \A t, u \in DeviceError : at[t] \in Busy /\ at[u] \in Busy => t = u
  /\ \A t \in Thread : at[t] = "check" => t \in DeviceError
  /\ at["recovery"] # "deinit"
  /\ faults.errors = 0 =>
       /\ \A t \in DeviceError \cup {"recovery"} : at[t] = "idle"
       /\ mState \in {"CONFIGURED", "STARTED"}
  /\ at["thermal"] # "idle" /\ at["recovery"] # "idle" => faults.errors >= 2
  /\ at["recovery"] = "failed" => faults.failures >= 1

(* The metadata of m has not been passed over: it ends m when it comes, or  *)
(* any later metadata does.                                                 *)
OnTime(m) == m \in due.meta \/ ~HasInput(m)

(* A request that has ended was told one outcome and got its input buffer;  *)
(* one that waits, or that was never taken, got nothing.                    *)
Told(n) ==
  LET over == n \in DOMAIN requests /\ n \notin Waiting IN
    /\ told[n].final + told[n].failed = IF over THEN 1 ELSE 0
    /\ told[n].input = IF over THEN Input(n) ELSE 0
    /\ told[n].final = 1 => told[n].partial = PARTIAL_RESULT_COUNT

(* The lists and the channels name requests and streams that were taken.    *)
Known ==
  /\ Waiting \subseteq DOMAIN requests
  /\ \A b \in buffers : b[1] \in DOMAIN requests /\ b[2] \in requests[b[1]].out
  /\ due.meta \subseteq DOMAIN requests

(* A buffer the channels hold is on the map of pending buffers, and so is   *)
(* one that came and is kept for the metadata; it does not come again.      *)
Kept ==
  /\ due.bufs \subseteq buffers
  /\ \A m \in Waiting : \A s \in waiting[m].cached :
       <<m, s>> \in buffers /\ <<m, s>> \notin due.bufs

(* A request that waits has a buffer to come or to return. This is why a    *)
(* flush that does not run off the list ends all that wait: it finds an     *)
(* entry of the map for each.                                               *)
Expecting == \A m \in Waiting : \E s \in OutStreams : <<m, s>> \in buffers

(* The partial results of a request are counted by its urgent part, until   *)
(* the metadata has passed it over.                                         *)
Counted ==
  \A m \in Waiting : OnTime(m) =>
    waiting[m].partial = IF waiting[m].urgent THEN 1 ELSE 0

(* The recovery configures the streams, which forgets all requests, only    *)
(* when the flush has answered them and no one was taken since.             *)
Flushed ==
  at["recovery"] \in {"restart", "configure"} =>
    Waiting = {} /\ buffers = {} /\ due = NothingDue

ListInv == Known /\ Kept /\ Expecting /\ Counted /\ Flushed

(* A buffer was returned once if it is not on the map any more.             *)
BackInv ==
  \A n \in FrameNumber, s \in OutStreams :
    back[n][s] = IF /\ n \in DOMAIN requests /\ s \in requests[n].out
                    /\ <<n, s>> \notin buffers THEN 1 ELSE 0

ToldInv == \A n \in FrameNumber : Told(n)

(* The count of live requests, when every flush and every request succeeded *)
(* and no flush is on; a camera that is configured has none.                *)
LiveInv ==
  faults.failures = 0 /\ ~mFlush =>
    /\ live = Cardinality(Waiting)
    /\ mState = "CONFIGURED" => Waiting = {}

(* After one error, and while everything succeeds, whoever handles the      *)
(* error finds the camera in ERROR, and before it shuts it down nothing     *)
(* waits and no buffer is out.                                              *)
ErrorInv ==
  faults.errors <= 1 /\ faults.failures = 0 =>
    /\ \A t \in DeviceError : at[t] \in Busy => mState = "ERROR"
    /\ mState = "DEINIT" \/ (\E t \in DeviceError : at[t] = "deinit") =>
         Waiting = {} /\ buffers = {}

DataInv ==
  ~faults.outOfList => ListInv /\ BackInv /\ ToldInv /\ LiveInv /\ ErrorInv

CaptureInv == CaptureTypeOK /\ LockInv /\ DataInv

-----------------------------------------------------------------------------
(* Counting down stays below the modulus.                                   *)
LEMMA CountDownType ==
  ASSUME CaptureTypeOK, NEW k \in 0..LiveMod
  PROVE  CountDown(k) \in 0..LiveMod - 1
<1> DEFINE a == live + LiveMod - k
<1>1. a \in Nat /\ LiveMod \in Nat /\ LiveMod > 0
  BY CaptureAssumption DEF CaptureTypeOK
<1>2. \A x \in Nat : x % LiveMod \in 0..LiveMod - 1
  BY <1>1
<1> QED BY <1>1, <1>2 DEF CountDown

(* The waiting requests are finite, and no more than the requests taken.    *)
LEMMA WaitingFinite ==
  ASSUME CaptureTypeOK, NEW T \in SUBSET Waiting
  PROVE  /\ IsFiniteSet(Waiting) /\ IsFiniteSet(T)
         /\ Cardinality(T) \in Nat /\ Cardinality(Waiting) \in Nat
         /\ Cardinality(T) <= Cardinality(Waiting)
         /\ Cardinality(Waiting) <= MaxRequests
<1>1. MaxRequests \in Nat BY CaptureAssumption
<1>2. IsFiniteSet(FrameNumber) /\ Cardinality(FrameNumber) = MaxRequests
  BY <1>1, FS_Interval DEF FrameNumber
<1>3. Waiting \in SUBSET FrameNumber BY DEF CaptureTypeOK, Waiting
<1>4. IsFiniteSet(Waiting) /\ Cardinality(Waiting) <= MaxRequests
  BY <1>2, <1>3, FS_Subset
<1> QED BY <1>4, FS_Subset, FS_CardinalityType

(* The order of mRecoveryLock, action by action.                            *)
LEMMA LockStep ==
  ASSUME CaptureTypeOK, LockInv, CaptureNext
  PROVE  LockInv'
<1> USE DEF Thread, DeviceError, Busy, Recovering
<1>1. ASSUME NEW r \in Kinds, ProcessCaptureRequest(r) PROVE LockInv'
  BY <1>1 DEF ProcessCaptureRequest, LockInv, CaptureTypeOK, threadVars
<1>2. CASE RequestInError
  BY <1>2 DEF RequestInError, LockInv, CaptureTypeOK
<1>3. CASE HandleUrgent \/ HandleMetadataWithLock \/ HandleInputBufferWithLock
             \/ HandleBufferWithLock
  BY <1>3 DEF HandleUrgent, HandleMetadataWithLock, HandleInputBufferWithLock,
              HandleBufferWithLock, LockInv, threadVars
<1>4. CASE ClientFlush
  BY <1>4 DEF ClientFlush, LockInv, CaptureTypeOK
<1>5. ASSUME NEW t \in Thread, HandleCameraDeviceError(t) PROVE LockInv'
  BY <1>5 DEF HandleCameraDeviceError, LockInv, CaptureTypeOK, Unlock
<1>6. ASSUME NEW t \in Thread, FlushBegin(t) PROVE LockInv'
  BY <1>6 DEF FlushBegin, LockInv, CaptureTypeOK
<1>7. ASSUME NEW t \in Thread, FlushEnd(t) PROVE LockInv'
  <2>1. faults'.errors = faults.errors /\ faults'.failures = faults.failures
    BY <1>7 DEF FlushEnd, NotifyErrors, CaptureTypeOK
  <2>2. at[t] = "stopping" /\ mState' = mState /\ Return(t, TRUE)
    BY <1>7 DEF FlushEnd
  <2> QED BY <2>1, <2>2 DEF Return, LockInv, CaptureTypeOK, Unlock
<1>8. ASSUME NEW t \in Thread, FlushFails(t) PROVE LockInv'
  BY <1>8 DEF FlushFails, Return, LockInv, CaptureTypeOK, Unlock
<1>9. ASSUME NEW t \in Thread, DeInit(t) PROVE LockInv'
  BY <1>9 DEF DeInit, LockInv, CaptureTypeOK, Unlock
<1>10. CASE ThermalShutdown
  BY <1>10 DEF ThermalShutdown, CountError, LockInv, CaptureTypeOK
<1>11. CASE DaemonDied
  BY <1>11 DEF DaemonDied, CountError, LockInv, CaptureTypeOK
<1>12. CASE StartRecovery
  BY <1>12 DEF StartRecovery, LockInv, CaptureTypeOK
<1>13. CASE RestartInitialized
  BY <1>13 DEF RestartInitialized, LockInv, CaptureTypeOK
<1>14. CASE Reconfigure
  BY <1>14 DEF Reconfigure, LockInv, CaptureTypeOK, Unlock
<1>15. CASE RestartFailed
  BY <1>15 DEF RestartFailed, LockInv, CaptureTypeOK, Unlock
<1> QED BY <1>1, <1>2, <1>3, <1>4, <1>5, <1>6, <1>7, <1>8, <1>9, <1>10, <1>11,
           <1>12, <1>13, <1>14, <1>15 DEF CaptureNext

-----------------------------------------------------------------------------
(* The type invariant, in the parts that actions change together. *)

Request == [partial : Nat, urgent : BOOLEAN, cached : SUBSET OutStreams]

Answers == [shutter : Nat, final : Nat, failed : Nat, input : Nat, partial : Nat]

ListType ==
  /\ Waiting \subseteq FrameNumber
  /\ waiting \in [Waiting -> Request]
  /\ buffers \subseteq FrameNumber \X OutStreams
  /\ live \in 0..LiveMod - 1

AnswerType ==
  /\ told \in [FrameNumber -> Answers]
  /\ back \in [FrameNumber -> [OutStreams -> Nat]]

DueType ==
  due \in [meta : SUBSET FrameNumber, urgent : SUBSET FrameNumber,
           jobs : SUBSET FrameNumber, bufs : SUBSET (FrameNumber \X OutStreams)]

ThreadType ==
  /\ lock \in {"free"} \cup Thread
  /\ at \in [Thread -> {"idle", "check", "wait", "enter", "stopping", "deinit",
                        "restart", "configure", "failed"}]

Faults ==
  [errors : Nat, failures : Nat, recovered : BOOLEAN, outOfList : BOOLEAN]

ControlType ==
  /\ mState \in {"INITIALIZED", "CONFIGURED", "STARTED", "ERROR", "DEINIT"}
  /\ requests \in Seq(Kinds) /\ Len(requests) <= MaxRequests
  /\ mFlush \in BOOLEAN
  /\ channels \in [run : BOOLEAN, restart : BOOLEAN]
  /\ ThreadType
  /\ faults \in Faults

LEMMA TypeParts ==
  /\ CaptureTypeOK <=> ListType /\ AnswerType /\ DueType /\ ControlType
  /\ CaptureTypeOK' <=> ListType' /\ AnswerType' /\ DueType' /\ ControlType'
BY DEF CaptureTypeOK, ListType, AnswerType, DueType, ControlType, ThreadType,
       Faults, Request, Answers, Waiting

(* What is counted of faults keeps its type.                                *)
LEMMA FaultsType ==
  ASSUME faults \in Faults
  PROVE  /\ [faults EXCEPT !.errors = @ + 1] \in Faults
         /\ [faults EXCEPT !.failures = @ + 1] \in Faults
         /\ [faults EXCEPT !.recovered = TRUE] \in Faults
         /\ [faults EXCEPT !.outOfList = TRUE] \in Faults
<1>1. faults.errors + 1 \in Nat /\ faults.failures + 1 \in Nat
  BY DEF Faults
<1>2. [faults EXCEPT !.errors = faults.errors + 1] \in Faults
  BY <1>1 DEF Faults
<1>3. [faults EXCEPT !.failures = faults.failures + 1] \in Faults
  BY <1>1 DEF Faults
<1>4. /\ [faults EXCEPT !.recovered = TRUE] \in Faults
      /\ [faults EXCEPT !.outOfList = TRUE] \in Faults
  BY DEF Faults
<1> QED BY <1>2, <1>3, <1>4

(* Returning buffers keeps the counts of returns numbers.                   *)
LEMMA ReturnBufsType ==
  ASSUME AnswerType, NEW gone, ReturnBufs(gone)
  PROVE  back' \in [FrameNumber -> [OutStreams -> Nat]]
BY DEF AnswerType, ReturnBufs

(* An input buffer is returned once or not at all.                          *)
LEMMA InputType == ASSUME NEW n PROVE Input(n) \in {0, 1}
BY DEF Input

(* The two ways a request is told its end keep the record of its answers.   *)
LEMMA AnswersType ==
  ASSUME NEW a \in Answers, NEW i \in Nat, NEW k \in Nat, NEW p \in Nat
  PROVE  /\ [a EXCEPT !.failed = @ + 1, !.input = @ + i] \in Answers
         /\ [a EXCEPT !.shutter = k, !.final = @ + 1, !.input = @ + i,
                      !.partial = p] \in Answers
<1>1. a.final + 1 \in Nat /\ a.failed + 1 \in Nat /\ a.input + i \in Nat
  BY DEF Answers
<1>2. [a EXCEPT !.failed = a.failed + 1, !.input = a.input + i] \in Answers
  BY <1>1 DEF Answers
<1>3. [a EXCEPT !.shutter = k, !.final = a.final + 1, !.input = a.input + i,
                !.partial = p] \in Answers
  BY <1>1 DEF Answers
<1> QED BY <1>2, <1>3

(* The answer of a reprocess request, the errors of a flush and the         *)
(* metadata of a frame keep the types.                                      *)
LEMMA AnswerReprocType ==
  ASSUME CaptureTypeOK, NEW n \in FrameNumber, AnswerReproc(n)
  PROVE  /\ Waiting' \subseteq FrameNumber /\ waiting' \in [Waiting' -> Request]
         /\ live' \in 0..LiveMod - 1
         /\ told' \in [FrameNumber -> Answers]
<1>1. ListType /\ AnswerType BY TypeParts
<1>2. live' \in 0..LiveMod - 1
  BY CountDownType, CaptureAssumption DEF AnswerReproc
<1>3. told' \in [FrameNumber -> Answers]
  BY <1>1 DEF AnswerReproc, AnswerType, Answers, PARTIAL_RESULT_COUNT
<1>4. Waiting' \subseteq FrameNumber /\ waiting' \in [Waiting' -> Request]
  BY <1>1 DEF AnswerReproc, ListType, Restrict, Waiting
<1> QED BY <1>2, <1>3, <1>4

LEMMA NotifyType ==
  ASSUME CaptureTypeOK, NotifyErrors
  PROVE  /\ Waiting' \subseteq FrameNumber /\ waiting' \in [Waiting' -> Request]
         /\ buffers' \subseteq FrameNumber \X OutStreams
         /\ AnswerType'
         /\ faults' \in Faults
<1>1. ListType /\ AnswerType /\ ControlType BY TypeParts
<1>2. CASE Cardinality(Later) > Cardinality(Waiting)
  <2>1. /\ UNCHANGED <<waiting, buffers, told, back>>
        /\ faults' = [faults EXCEPT !.outOfList = TRUE]
    BY <1>2 DEF NotifyErrors, answerVars
  <2>2. Waiting' = Waiting BY <2>1 DEF Waiting
  <2>3. faults' \in Faults
    BY <1>1, <2>1, FaultsType DEF ControlType
  <2> QED BY <1>1, <2>1, <2>2, <2>3 DEF ListType, AnswerType
<1>3. CASE ~(Cardinality(Later) > Cardinality(Waiting))
  <2>1. faults' = faults /\ buffers' = {} /\ ReturnBufs(buffers)
    BY <1>3 DEF NotifyErrors
  <2>2. told' \in [FrameNumber -> Answers]
    <3>1. ASSUME NEW n \in FrameNumber
          PROVE  [told[n] EXCEPT !.failed = @ + 1, !.input = @ + Input(EndedFor(n))]
                   \in Answers
      <4> DEFINE i == Input(EndedFor(n))
      <4>1. i \in Nat BY InputType
      <4>2. told[n] \in Answers BY <1>1 DEF AnswerType
      <4> HIDE DEF i
      <4>3. [told[n] EXCEPT !.failed = @ + 1, !.input = @ + i] \in Answers
        BY <4>1, <4>2, AnswersType
      <4> QED BY <4>3 DEF i
    <3> QED BY <1>1, <1>3, <3>1 DEF NotifyErrors, AnswerType
  <2>3. Waiting' \subseteq FrameNumber /\ waiting' \in [Waiting' -> Request]
    BY <1>1, <1>3 DEF NotifyErrors, ListType, Restrict, Waiting
  <2> QED BY <1>1, <2>1, <2>2, <2>3, ReturnBufsType DEF AnswerType, ControlType
<1> QED BY <1>2, <1>3

LEMMA MetadataType ==
  ASSUME CaptureTypeOK, NEW n \in FrameNumber, Metadata(n)
  PROVE  ListType' /\ AnswerType'
<1> DEFINE ended == {m \in Waiting : EndsWith(m, n)}
           gone == {b \in ended \X OutStreams : b[2] \in waiting[b[1]].cached}
<1>1. ListType /\ AnswerType BY TypeParts
<1>2. live' \in 0..LiveMod - 1
  <2>1. ended \in SUBSET Waiting OBVIOUS
  <2>2. Cardinality(ended) \in 0..LiveMod
    BY <2>1, WaitingFinite, CaptureAssumption
  <2> QED BY <2>2, CountDownType DEF Metadata
<1>3. Waiting' = Waiting \ ended /\ waiting' \in [Waiting' -> Request]
  <2>1. waiting' = [m \in Waiting \ ended |->
          IF m < n THEN [waiting[m] EXCEPT !.partial = @ + 1] ELSE waiting[m]]
    BY DEF Metadata
  <2>2. ASSUME NEW m \in Waiting
        PROVE  [waiting[m] EXCEPT !.partial = @ + 1] \in Request
    BY <1>1 DEF ListType, Request
  <2> QED BY <1>1, <2>1, <2>2 DEF ListType, Waiting
<1>4. told' \in [FrameNumber -> Answers]
  <2>1. ASSUME NEW m \in Waiting PROVE FinalPartial(waiting[m]) \in Nat
    BY <1>1 DEF ListType, Request, FinalPartial
  <2>2. ASSUME NEW m \in Waiting
        PROVE  [told[m] EXCEPT !.shutter = IF m = n THEN @ + 1 ELSE @,
                               !.final = @ + 1, !.input = @ + Input(m),
                               !.partial = FinalPartial(waiting[m])] \in Answers
    <3> DEFINE k == IF m = n THEN told[m].shutter + 1 ELSE told[m].shutter
    <3>1. told[m] \in Answers BY <1>1 DEF ListType, AnswerType
    <3>2. k \in Nat BY <3>1 DEF Answers
    <3>3. Input(m) \in Nat BY InputType
    <3> HIDE DEF k
    <3>4. [told[m] EXCEPT !.shutter = k, !.final = @ + 1, !.input = @ + Input(m),
                          !.partial = FinalPartial(waiting[m])] \in Answers
      BY <2>1, <3>1, <3>2, <3>3, AnswersType
    <3> QED BY <3>4 DEF k
  <2>3. told' = [m \in FrameNumber |->
          IF m \notin ended THEN told[m]
          ELSE [told[m] EXCEPT !.shutter = IF m = n THEN @ + 1 ELSE @,
                               !.final = @ + 1, !.input = @ + Input(m),
                               !.partial = FinalPartial(waiting[m])]]
    BY DEF Metadata
  <2>4. ASSUME NEW m \in FrameNumber PROVE told'[m] \in Answers
    BY <1>1, <2>2, <2>3 DEF AnswerType
  <2> QED BY <2>3, <2>4
<1>5. buffers' \subseteq buffers
  BY DEF Metadata, RemoveBufs
<1>6. back' \in [FrameNumber -> [OutStreams -> Nat]]
  BY <1>1, ReturnBufsType DEF Metadata
<1> QED BY <1>1, <1>2, <1>3, <1>4, <1>5, <1>6 DEF ListType, AnswerType

(* The type invariant, action by action.                                    *)
LEMMA TypeStep ==
  ASSUME CaptureTypeOK, CaptureNext
  PROVE  CaptureTypeOK'
<1>0. ListType /\ AnswerType /\ DueType /\ ControlType BY TypeParts
<1>m. LiveMod \in Nat /\ LiveMod > 0 /\ MaxRequests \in Nat
  BY CaptureAssumption
<1>1. ASSUME NEW r \in Kinds, ProcessCaptureRequest(r) PROVE CaptureTypeOK'
  <2> DEFINE n == Len(requests) + 1
             base == IF mState = "CONFIGURED" THEN 0 ELSE live
  <2>1. /\ requests \in Seq(Kinds) /\ Len(requests) \in Nat
        /\ Len(requests) < MaxRequests /\ n \in FrameNumber
    BY <1>0, <1>1, <1>m DEF ProcessCaptureRequest, ControlType, FrameNumber
  <2>2. r.out \subseteq OutStreams BY CaptureAssumption
  <2>3. requests' = Append(requests, r) BY <1>1 DEF ProcessCaptureRequest, Record
  <2>4. requests' \in Seq(Kinds) /\ Len(requests') <= MaxRequests
    BY <2>1, <2>3, <1>m
  <2>5. /\ Waiting' \subseteq FrameNumber /\ waiting' \in [Waiting' -> Request]
    BY <1>0, <1>1, <2>1 DEF ProcessCaptureRequest, Record, ListType, Request, Waiting
  <2>6. buffers' \subseteq FrameNumber \X OutStreams
    BY <1>0, <1>1, <2>1, <2>2 DEF ProcessCaptureRequest, Record, ListType
  <2>7. live' \in 0..LiveMod - 1
    <3>1. base \in 0..LiveMod - 1 BY <1>0, <1>m DEF ListType
    <3>2. (base + 1) % LiveMod \in 0..LiveMod - 1
      <4>1. \A x \in Nat : x % LiveMod \in 0..LiveMod - 1 BY <1>m
      <4>2. base + 1 \in Nat BY <3>1, <1>m
      <4> HIDE DEF base
      <4> QED BY <4>1, <4>2
    <3>3. live' = base \/ live' = (base + 1) % LiveMod
      BY <1>1 DEF ProcessCaptureRequest
    <3> QED BY <3>1, <3>2, <3>3
  <2>8. DueType'
    <3>1. CASE due' = due BY <1>0, <3>1 DEF DueType
    <3>2. CASE SendToChannels(r)
      BY <1>0, <2>1, <2>2, <3>2 DEF SendToChannels, DueType
    <3> QED BY <1>1, <3>1, <3>2 DEF ProcessCaptureRequest
  <2>9. AnswerType'
    BY <1>0, <1>1 DEF ProcessCaptureRequest, AnswerType, answerVars
  <2>10. channels' \in [run : BOOLEAN, restart : BOOLEAN]
    BY <1>0, <1>1 DEF ProcessCaptureRequest, StartChannels, ControlType
  <2>11. /\ mState' \in {mState, "STARTED"}
         /\ UNCHANGED <<mFlush, lock, at>>
         /\ faults' = faults \/ faults' = [faults EXCEPT !.failures = @ + 1]
    BY <1>1 DEF ProcessCaptureRequest, threadVars
  <2>12. ControlType'
    BY <1>0, <2>4, <2>10, <2>11, FaultsType DEF ControlType, ThreadType
  <2> QED BY <2>5, <2>6, <2>7, <2>8, <2>9, <2>12, TypeParts DEF ListType
<1>2. CASE RequestInError
  BY <1>0, <1>2, TypeParts DEF RequestInError, requestVars, answerVars, ListType,
     AnswerType, DueType, ControlType, ThreadType, Waiting, Thread,
     DeviceError
<1>3. CASE HandleUrgent
  <2>1. PICK n \in due.urgent :
          /\ due' = [due EXCEPT !.urgent = {m \in @ : m > n}]
          /\ \/ UNCHANGED <<waiting, told>>
             \/ /\ IsPending(n)
                /\ waiting' = [waiting EXCEPT ![n].partial = @ + 1,
                                              ![n].urgent = TRUE]
                /\ told' = [told EXCEPT ![n].partial = waiting[n].partial + 1]
    BY <1>3 DEF HandleUrgent
  <2>2. n \in FrameNumber BY <1>0 DEF DueType
  <2>3. DueType' BY <1>0, <2>1 DEF DueType
  <2>4. UNCHANGED <<mState, requests, buffers, live, mFlush, channels, lock, at,
                    back, faults>>
    BY <1>3 DEF HandleUrgent, threadVars
  <2>5. ControlType' BY <1>0, <2>4 DEF ControlType, ThreadType
  <2>6. ListType' /\ told' \in [FrameNumber -> Answers]
    <3>1. CASE UNCHANGED <<waiting, told>>
      BY <1>0, <2>4, <3>1 DEF ListType, AnswerType, Waiting
    <3>2. CASE /\ IsPending(n)
               /\ waiting' = [waiting EXCEPT ![n].partial = @ + 1,
                                             ![n].urgent = TRUE]
               /\ told' = [told EXCEPT ![n].partial = waiting[n].partial + 1]
      <4>1. waiting[n] \in Request BY <1>0, <3>2 DEF ListType, IsPending
      <4>2. [waiting[n] EXCEPT !.partial = @ + 1, !.urgent = TRUE] \in Request
        <5>1. waiting[n].partial + 1 \in Nat BY <4>1 DEF Request
        <5> QED BY <4>1, <5>1 DEF Request
      <4>3. Waiting' = Waiting /\ waiting' \in [Waiting -> Request]
        BY <1>0, <3>2, <4>2 DEF ListType, Waiting
      <4>4. [told[n] EXCEPT !.partial = waiting[n].partial + 1] \in Answers
        BY <1>0, <2>2, <4>1 DEF AnswerType, Answers, Request
      <4>5. told' \in [FrameNumber -> Answers]
        BY <1>0, <2>2, <3>2, <4>4 DEF AnswerType
      <4> QED BY <1>0, <2>4, <4>3, <4>5 DEF ListType
    <3> QED BY <2>1, <3>1, <3>2
  <2> QED BY <1>0, <2>3, <2>4, <2>5, <2>6, TypeParts DEF AnswerType
<1>4. CASE HandleMetadataWithLock
  <2>1. PICK n \in due.meta :
          /\ due' = [due EXCEPT !.meta = {m \in @ : m > n},
                                !.urgent = {m \in @ : m > n}]
          /\ \/ UNCHANGED <<waiting, live, told, buffers, back>>
             \/ Metadata(n)
    BY <1>4 DEF HandleMetadataWithLock
  <2>2. n \in FrameNumber BY <1>0 DEF DueType
  <2>3. DueType' BY <1>0, <2>1 DEF DueType
  <2>4. UNCHANGED <<mState, requests, mFlush, channels, lock, at, faults>>
    BY <1>4 DEF HandleMetadataWithLock, threadVars
  <2>5. ControlType' BY <1>0, <2>4 DEF ControlType, ThreadType
  <2>6. ListType' /\ AnswerType'
    <3>1. CASE UNCHANGED <<waiting, live, told, buffers, back>>
      BY <1>0, <3>1 DEF ListType, AnswerType, Waiting
    <3> QED BY <2>1, <2>2, <3>1, MetadataType
  <2> QED BY <2>3, <2>5, <2>6, TypeParts
<1>5. CASE HandleInputBufferWithLock
  <2>1. PICK n \in due.jobs :
          /\ due' = [due EXCEPT !.jobs = @ \ {n}]
          /\ AnswerReproc(n) \/ UNCHANGED <<told, waiting, live>>
    BY <1>5 DEF HandleInputBufferWithLock
  <2>2. n \in FrameNumber /\ DueType' BY <1>0, <2>1 DEF DueType
  <2>3. UNCHANGED <<mState, requests, buffers, mFlush, channels, lock, at, back,
                    faults>>
    BY <1>5 DEF HandleInputBufferWithLock, threadVars
  <2>4. ControlType' BY <1>0, <2>3 DEF ControlType, ThreadType
  <2>5. ListType' /\ AnswerType'
    <3>1. CASE UNCHANGED <<told, waiting, live>>
      BY <1>0, <2>3, <3>1 DEF ListType, AnswerType, Waiting
    <3>2. CASE AnswerReproc(n)
      BY <1>0, <2>2, <2>3, <3>2, AnswerReprocType DEF ListType, AnswerType
    <3> QED BY <2>1, <3>1, <3>2
  <2> QED BY <2>2, <2>4, <2>5, TypeParts
<1>6. CASE HandleBufferWithLock
  <2>1. PICK b \in due.bufs :
          /\ due' = [due EXCEPT !.bufs = @ \ {b}, !.jobs = @ \ {b[1]}]
          /\ \/ UNCHANGED <<waiting, buffers, live, answerVars>>
             \/ IsPending(b[1]) /\ KeepBuffer(b[1], b[2])
             \/ ReturnBuffer(b[1], b[2])
    BY <1>6 DEF HandleBufferWithLock
  <2>2. b[1] \in FrameNumber /\ b[2] \in OutStreams
    BY <1>0 DEF DueType
  <2>3. DueType' BY <1>0, <2>1 DEF DueType
  <2>4. UNCHANGED <<mState, requests, mFlush, channels, lock, at, faults>>
    BY <1>6 DEF HandleBufferWithLock, threadVars
  <2>5. ControlType' BY <1>0, <2>4 DEF ControlType, ThreadType
  <2>6. ListType' /\ AnswerType'
    <3>1. CASE UNCHANGED <<waiting, buffers, live, answerVars>>
      BY <1>0, <3>1 DEF ListType, AnswerType, Waiting, answerVars
    <3>2. CASE IsPending(b[1]) /\ KeepBuffer(b[1], b[2])
      <4>1. b[1] \in Waiting /\ waiting[b[1]] \in Request
        BY <1>0, <3>2 DEF IsPending, ListType
      <4>2. [waiting[b[1]] EXCEPT !.cached = @ \cup {b[2]}] \in Request
        BY <2>2, <4>1 DEF Request
      <4>3. Waiting' = Waiting /\ waiting' \in [Waiting -> Request]
        BY <1>0, <3>2, <4>2 DEF KeepBuffer, ListType, Waiting
      <4>4. UNCHANGED <<buffers, live, told, back>>
        BY <3>2 DEF KeepBuffer, answerVars
      <4> QED BY <1>0, <4>3, <4>4 DEF ListType, AnswerType
    <3>3. CASE ReturnBuffer(b[1], b[2])
      <4>1. back' \in [FrameNumber -> [OutStreams -> Nat]]
        BY <1>0, <3>3, ReturnBufsType DEF ReturnBuffer
      <4>2. buffers' \subseteq buffers BY <3>3 DEF ReturnBuffer, RemoveBufs
      <4>3. CASE UNCHANGED <<told, waiting, live>>
        BY <1>0, <4>1, <4>2, <4>3 DEF ListType, AnswerType, Waiting
      <4>4. CASE AnswerReproc(b[1])
        BY <1>0, <2>2, <4>1, <4>2, <4>4, AnswerReprocType DEF ListType, AnswerType
      <4> QED BY <3>3, <4>3, <4>4 DEF ReturnBuffer
    <3> QED BY <2>1, <3>1, <3>2, <3>3
  <2> QED BY <2>3, <2>5, <2>6, TypeParts
<1>7. CASE ClientFlush
  BY <1>0, <1>7, TypeParts DEF ClientFlush, requestVars, answerVars, ListType,
     AnswerType, DueType, ControlType, ThreadType, Waiting, Thread,
     DeviceError
<1>8. ASSUME NEW t \in Thread,
             HandleCameraDeviceError(t) \/ FlushBegin(t) \/ DeInit(t)
      PROVE  CaptureTypeOK'
  <2>1. UNCHANGED <<requests, waiting, buffers, live, channels, due, told, back,
                    faults>>
    BY <1>8 DEF HandleCameraDeviceError, FlushBegin, DeInit, requestVars, answerVars
  <2>2. ThreadType'
    BY <1>0, <1>8 DEF HandleCameraDeviceError, FlushBegin, DeInit, Unlock,
       ControlType, ThreadType
  <2>3. mState' \in {mState, "DEINIT"} /\ mFlush' \in {mFlush, TRUE}
    BY <1>8 DEF HandleCameraDeviceError, FlushBegin, DeInit
  <2>4. ControlType' BY <1>0, <2>1, <2>2, <2>3 DEF ControlType
  <2> QED BY <1>0, <2>1, <2>4, TypeParts DEF ListType, AnswerType, DueType, Waiting
<1>9. ASSUME NEW t \in Thread, FlushEnd(t) PROVE CaptureTypeOK'
  <2>1. /\ UNCHANGED <<mState, requests>> /\ mFlush' = FALSE
        /\ due' = NothingDue /\ live' = 0
        /\ channels' = [run |-> FALSE,
                        restart |-> IF mState = "STARTED" THEN t = "flush"
                                    ELSE channels.restart]
        /\ NotifyErrors /\ Return(t, TRUE)
    BY <1>9 DEF FlushEnd
  <2>2. DueType' BY <2>1 DEF DueType, NothingDue
  <2>3. ListType' /\ AnswerType' BY <2>1, <1>m, NotifyType DEF ListType
  <2>4. ThreadType'
    BY <1>0, <2>1 DEF Return, Unlock, ControlType, ThreadType
  <2>5. channels' \in [run : BOOLEAN, restart : BOOLEAN]
    BY <1>0, <2>1 DEF ControlType
  <2>6. ControlType'
    BY <1>0, <2>1, <2>4, <2>5, NotifyType DEF ControlType
  <2> QED BY <2>2, <2>3, <2>6, TypeParts
<1>10. ASSUME NEW t \in Thread, FlushFails(t) PROVE CaptureTypeOK'
  <2>1. /\ UNCHANGED <<mState, requests, waiting, buffers, live, mFlush, told, back>>
        /\ due' = NothingDue /\ channels' = [channels EXCEPT !.run = FALSE]
        /\ faults' = [faults EXCEPT !.failures = @ + 1]
        /\ Return(t, FALSE)
    BY <1>10 DEF FlushFails, requestVars, answerVars
  <2>2. ThreadType'
    BY <1>0, <2>1 DEF Return, Unlock, ControlType, ThreadType
  <2>3. channels' \in [run : BOOLEAN, restart : BOOLEAN]
    BY <1>0, <2>1 DEF ControlType
  <2>4. ControlType' BY <1>0, <2>1, <2>2, <2>3, FaultsType DEF ControlType
  <2> QED BY <1>0, <2>1, <2>4, TypeParts DEF ListType, AnswerType, DueType, Waiting,
           NothingDue
<1>11. CASE ThermalShutdown \/ DaemonDied \/ StartRecovery \/ RestartInitialized
              \/ RestartFailed
  <2>1. UNCHANGED <<requests, waiting, buffers, live, mFlush, channels, due, told,
                    back>>
    BY <1>11 DEF ThermalShutdown, DaemonDied, StartRecovery, RestartInitialized,
       RestartFailed, requestVars, answerVars
  <2>2. ThreadType'
    BY <1>0, <1>11 DEF ThermalShutdown, DaemonDied, StartRecovery,
       RestartInitialized, RestartFailed, Unlock, ControlType, ThreadType, Thread
  <2>3. mState' \in {mState, "ERROR", "INITIALIZED"}
    BY <1>11 DEF ThermalShutdown, DaemonDied, StartRecovery, RestartInitialized,
       RestartFailed, CountError
  <2>4. faults' \in Faults
    BY <1>0, <1>11, FaultsType DEF ThermalShutdown, DaemonDied, StartRecovery,
       RestartInitialized, RestartFailed, CountError, ControlType
  <2>5. ControlType' BY <1>0, <2>1, <2>2, <2>3, <2>4 DEF ControlType
  <2> QED BY <1>0, <2>1, <2>5, TypeParts DEF ListType, AnswerType, DueType, Waiting
<1>12. CASE Reconfigure
  <2>1. Waiting' = {} /\ waiting' \in [{} -> Request] /\ buffers' = {}
    BY <1>12 DEF Reconfigure, Waiting
  <2>2. UNCHANGED <<requests, live, mFlush, due, told, back, faults>>
    BY <1>12 DEF Reconfigure, answerVars
  <2>3. ControlType'
    BY <1>0, <1>12, <2>2 DEF Reconfigure, Unlock, ControlType, ThreadType
  <2> QED BY <1>0, <2>1, <2>2, <2>3, TypeParts DEF ListType, AnswerType, DueType
<1> QED BY <1>1, <1>2, <1>3, <1>4, <1>5, <1>6, <1>7, <1>8, <1>9, <1>10, <1>11, <1>12
        DEF CaptureNext

-----------------------------------------------------------------------------
(* What holds of lists and answers together; one lemma per action follows.  *)
AllLists == ListInv /\ BackInv /\ ToldInv

(* An action that leaves the lists and the answers alone, and at most takes *)
(* from the channels what they hold.                                        *)
LEMMA QuietStep ==
  ASSUME CaptureTypeOK, AllLists, UNCHANGED <<requests, buffers, told, back>>,
         Waiting' = Waiting, \A m \in Waiting : waiting'[m] = waiting[m],
         due' \in {due, NothingDue},
         at'["recovery"] \in {"restart", "configure"} =>
           at["recovery"] \in {"restart", "configure"}
  PROVE  AllLists'
<1>0. ListType BY TypeParts
<1>1. /\ Known /\ Kept /\ Expecting /\ Counted /\ Flushed
  BY DEF AllLists, ListInv
<1>2. due'.meta \subseteq due.meta /\ due'.bufs \subseteq due.bufs
  BY DEF NothingDue
<1>3. Known' BY <1>1, <1>2 DEF Known
<1>4. Kept' BY <1>1, <1>2 DEF Kept
<1>5. Expecting' BY <1>1 DEF Expecting
<1>6. Counted'
  BY <1>1, <1>2 DEF Counted, OnTime, HasInput
<1>7. Flushed' BY <1>1 DEF Flushed
<1>8. BackInv' BY DEF AllLists, BackInv
<1>9. ToldInv' BY DEF AllLists, ToldInv, Told, Input, HasInput
<1> QED BY <1>3, <1>4, <1>5, <1>6, <1>7, <1>8, <1>9 DEF AllLists, ListInv

(* A new request has a frame number none of the lists knows.                *)
LEMMA RequestStep ==
  ASSUME CaptureTypeOK, LockInv, AllLists, NEW r \in Kinds, ProcessCaptureRequest(r)
  PROVE  AllLists'
<1> DEFINE n == Len(requests) + 1
<1>0. ListType /\ AnswerType /\ DueType /\ ControlType BY TypeParts
<1>1. /\ Known /\ Kept /\ Expecting /\ Counted /\ Flushed /\ BackInv /\ ToldInv
  BY DEF AllLists, ListInv
<1>2. /\ requests \in Seq(Kinds) /\ Len(requests) \in Nat /\ n \in Nat
      /\ n \in FrameNumber /\ DOMAIN requests = 1..Len(requests)
  BY <1>0, CaptureAssumption DEF ProcessCaptureRequest, ControlType, FrameNumber
<1>3. r.out \subseteq OutStreams /\ r.out # {} /\ r.input \in BOOLEAN
  BY CaptureAssumption
<1>4. /\ DOMAIN requests' = (DOMAIN requests) \cup {n} /\ n \notin DOMAIN requests
      /\ \A m \in DOMAIN requests : requests'[m] = requests[m]
      /\ requests'[n] = r
  BY <1>2 DEF ProcessCaptureRequest, Record
<1>5. /\ Waiting' = Waiting \cup {n}
      /\ waiting'[n] = [partial |-> 0, urgent |-> FALSE, cached |-> {}]
      /\ \A m \in Waiting : waiting'[m] = IF m = n THEN waiting'[n] ELSE waiting[m]
      /\ buffers' = buffers \cup ({n} \X r.out)
  BY DEF ProcessCaptureRequest, Record, Waiting
<1> HIDE DEF n
<1>6. n \notin Waiting /\ \A b \in buffers : b[1] # n
  BY <1>1, <1>4 DEF Known
<1>7. /\ due'.meta \subseteq due.meta \cup {n}
      /\ due'.bufs \subseteq due.bufs \cup ({n} \X r.out)
      /\ \A m \in due'.meta : m # n => m \in due.meta
  BY <1>0 DEF ProcessCaptureRequest, SendToChannels, n
<1>8. UNCHANGED <<lock, at, told, back>> /\ lock = "free"
  BY DEF ProcessCaptureRequest, threadVars, answerVars
<1>9. Known'
  <2>1. Waiting' \subseteq DOMAIN requests' /\ due'.meta \subseteq DOMAIN requests'
    BY <1>1, <1>4, <1>5, <1>7 DEF Known
  <2>2. ASSUME NEW b \in buffers'
        PROVE  b[1] \in DOMAIN requests' /\ b[2] \in requests'[b[1]].out
    BY <1>1, <1>4, <1>5 DEF Known
  <2> QED BY <2>1, <2>2 DEF Known
<1>10. Kept'
  BY <1>1, <1>5, <1>6, <1>7 DEF Kept
<1>11. Expecting'
  BY <1>1, <1>3, <1>5 DEF Expecting
<1>12. Counted'
  <2>1. ASSUME NEW m \in Waiting', OnTime(m)'
        PROVE  waiting'[m].partial = IF waiting'[m].urgent THEN 1 ELSE 0
    <3>1. CASE m = n BY <1>5, <3>1
    <3>2. CASE m # n
      <4>1. m \in Waiting /\ m \in DOMAIN requests
        BY <1>1, <1>5, <3>2 DEF Known
      <4>2. OnTime(m)
        BY <1>4, <1>7, <2>1, <3>2, <4>1 DEF OnTime, HasInput
      <4> QED BY <1>1, <1>5, <3>2, <4>1, <4>2 DEF Counted
    <3> QED BY <3>1, <3>2
  <2> QED BY <2>1 DEF Counted
<1>13. Flushed'
  BY <1>8 DEF Flushed, LockInv, Recovering
<1>14. BackInv'
  <2>1. ASSUME NEW m \in FrameNumber, NEW s \in OutStreams
        PROVE  back'[m][s] = IF /\ m \in DOMAIN requests' /\ s \in requests'[m].out
                                /\ <<m, s>> \notin buffers' THEN 1 ELSE 0
    <3>1. CASE m = n
      BY <1>1, <1>4, <1>5, <1>8, <3>1 DEF BackInv
    <3>2. CASE m # n
      BY <1>1, <1>4, <1>5, <1>8, <3>2 DEF BackInv
    <3> QED BY <3>1, <3>2
  <2> QED BY <2>1 DEF BackInv
<1>15. ToldInv'
  <2>1. ASSUME NEW m \in FrameNumber PROVE Told(m)'
    <3>1. (m \in DOMAIN requests' /\ m \notin Waiting') <=>
            (m \in DOMAIN requests /\ m \notin Waiting)
      BY <1>4, <1>5
    <3>2. m \in DOMAIN requests => Input(m)' = Input(m)
      BY <1>4 DEF Input, HasInput
    <3>3. Told(m) BY <1>1 DEF ToldInv
    <3> QED BY <1>8, <3>1, <3>2, <3>3 DEF Told
  <2> QED BY <2>1 DEF ToldInv
<1> QED BY <1>9, <1>10, <1>11, <1>12, <1>13, <1>14, <1>15 DEF AllLists, ListInv

(* The early part of the metadata adds one partial result.                  *)
LEMMA UrgentStep ==
  ASSUME CaptureTypeOK, AllLists, HandleUrgent
  PROVE  AllLists'
<1>0. ListType /\ AnswerType /\ DueType BY TypeParts
<1>1. /\ Known /\ Kept /\ Expecting /\ Counted /\ Flushed /\ BackInv /\ ToldInv
  BY DEF AllLists, ListInv
<1>2. PICK n \in due.urgent :
        /\ due' = [due EXCEPT !.urgent = {m \in @ : m > n}]
        /\ \/ UNCHANGED <<waiting, told>>
           \/ /\ n \in Waiting /\ ~waiting[n].urgent
              /\ waiting' = [waiting EXCEPT ![n].partial = @ + 1,
                                            ![n].urgent = TRUE]
              /\ told' = [told EXCEPT ![n].partial = waiting[n].partial + 1]
  BY DEF HandleUrgent, IsPending
<1>3. UNCHANGED <<requests, buffers, back, at>> BY DEF HandleUrgent, threadVars
<1>4. due'.meta = due.meta /\ due'.bufs = due.bufs
  BY <1>0, <1>2 DEF DueType
<1>5. at["recovery"] \notin {"restart", "configure"}
  BY <1>1, <1>2 DEF Flushed, NothingDue
<1>6. Waiting' = Waiting BY <1>2 DEF Waiting
<1>7. ASSUME NEW m \in Waiting
      PROVE  /\ waiting'[m].cached = waiting[m].cached
             /\ \/ waiting'[m] = waiting[m]
                \/ /\ ~waiting[m].urgent /\ waiting'[m].urgent
                   /\ waiting'[m].partial = waiting[m].partial + 1
  <2>1. waiting \in [Waiting -> Request] BY <1>0 DEF ListType
  <2> QED BY <1>2, <2>1 DEF Request
<1>8. ASSUME NEW m \in FrameNumber
      PROVE  /\ told'[m].final = told[m].final /\ told'[m].failed = told[m].failed
             /\ told'[m].input = told[m].input
             /\ m \notin Waiting => told'[m] = told[m]
  <2>1. told[m] \in Answers /\ told \in [FrameNumber -> Answers] BY <1>0 DEF AnswerType
  <2> QED BY <1>2, <2>1 DEF Answers
<1>9. Known' BY <1>1, <1>3, <1>4, <1>6 DEF Known
<1>10. Kept' BY <1>1, <1>3, <1>4, <1>6, <1>7 DEF Kept
<1>11. Expecting' BY <1>1, <1>3, <1>6 DEF Expecting
<1>12. Counted'
  <2>1. ASSUME NEW m \in Waiting, OnTime(m)'
        PROVE  waiting'[m].partial = IF waiting'[m].urgent THEN 1 ELSE 0
    <3>1. OnTime(m) BY <1>3, <1>4, <2>1 DEF OnTime, HasInput
    <3>2. waiting[m].partial = IF waiting[m].urgent THEN 1 ELSE 0
      BY <1>1, <3>1 DEF Counted
    <3> QED BY <1>7, <3>2
  <2> QED BY <1>6, <2>1 DEF Counted
<1>13. Flushed' BY <1>3, <1>5 DEF Flushed
<1>14. BackInv' BY <1>1, <1>3 DEF BackInv
<1>15. ToldInv'
  <2>1. ASSUME NEW m \in FrameNumber PROVE Told(m)'
    <3>1. Told(m) BY <1>1 DEF ToldInv
    <3>2. Input(m)' = Input(m) BY <1>3 DEF Input, HasInput
    <3>3. told[m].final \in Nat /\ told[m].failed \in Nat
      BY <1>0 DEF AnswerType, Answers
    <3>4. CASE m \in Waiting
      <4>1. told[m].final = 0 BY <3>1, <3>3, <3>4 DEF Told
      <4> QED BY <1>3, <1>6, <1>8, <3>1, <3>2, <3>4, <4>1 DEF Told
    <3>5. CASE m \notin Waiting
      BY <1>3, <1>6, <1>8, <3>1, <3>2, <3>5 DEF Told
    <3> QED BY <3>4, <3>5
  <2> QED BY <2>1 DEF ToldInv
<1> QED BY <1>9, <1>10, <1>11, <1>12, <1>13, <1>14, <1>15 DEF AllLists, ListInv

(* What the answer of a reprocess request changes, and what it does not.    *)
LEMMA AnswerReprocFacts ==
  ASSUME CaptureTypeOK, NEW n \in FrameNumber, AnswerReproc(n)
  PROVE  /\ Waiting' = Waiting \ {n} /\ \A m \in Waiting' : waiting'[m] = waiting[m]
         /\ \A m \in FrameNumber : m # n => told'[m] = told[m]
         /\ told'[n].final = told[n].final + 1 /\ told'[n].failed = told[n].failed
         /\ told'[n].input = told[n].input + 1
         /\ told'[n].partial = PARTIAL_RESULT_COUNT
<1>0. ListType /\ AnswerType BY TypeParts
<1>1. Waiting' = Waiting \ {n} /\ \A m \in Waiting' : waiting'[m] = waiting[m]
  BY DEF AnswerReproc, Restrict, Waiting
<1>2. told \in [FrameNumber -> Answers] /\ told[n] \in Answers BY <1>0 DEF AnswerType
<1>3. /\ \A m \in FrameNumber : m # n => told'[m] = told[m]
      /\ told'[n] = [told[n] EXCEPT !.shutter = @ + 1, !.final = @ + 1,
                                    !.input = @ + 1,
                                    !.partial = PARTIAL_RESULT_COUNT]
  BY <1>2 DEF AnswerReproc
<1> QED BY <1>1, <1>2, <1>3 DEF Answers

(* A request that ends with one final result and its input buffer. *)
LEMMA ToldEnded ==
  ASSUME CaptureTypeOK, ToldInv, NEW n \in Waiting, n \in DOMAIN requests,
         UNCHANGED requests, Waiting' = Waiting \ {n},
         \A m \in FrameNumber : m # n => told'[m] = told[m],
         told'[n].final = told[n].final + 1, told'[n].failed = told[n].failed,
         told'[n].input = told[n].input + Input(n),
         told'[n].partial = PARTIAL_RESULT_COUNT
  PROVE  ToldInv'
<1>0. ListType /\ AnswerType BY TypeParts
<1>1. ASSUME NEW m \in FrameNumber PROVE Told(m)'
  <2>1. Told(m) BY DEF ToldInv
  <2>2. Input(m)' = Input(m) BY DEF Input, HasInput
  <2>3. told[m].final \in Nat /\ told[m].failed \in Nat /\ Input(m) \in {0, 1}
    BY <1>0, InputType DEF AnswerType, Answers
  <2>4. CASE m = n
    <3>1. told[n].final = 0 /\ told[n].failed = 0 /\ told[n].input = 0
      BY <2>1, <2>3, <2>4 DEF Told
    <3>2. /\ told'[n].final = 1 /\ told'[n].failed = 0 /\ told'[n].input = Input(n)
      BY <2>3, <2>4, <3>1
    <3> QED BY <2>2, <2>4, <3>2 DEF Told
  <2>5. CASE m # n BY <2>1, <2>2, <2>5 DEF Told
  <2> QED BY <2>4, <2>5
<1> QED BY <1>1 DEF ToldInv

(* A reprocess job is done: its request may end while its buffer is still   *)
(* to come.                                                                 *)
LEMMA InputBufferStep ==
  ASSUME CaptureTypeOK, AllLists, HandleInputBufferWithLock
  PROVE  AllLists'
<1>0. ListType /\ AnswerType /\ DueType BY TypeParts
<1>1. /\ Known /\ Kept /\ Expecting /\ Counted /\ Flushed /\ BackInv /\ ToldInv
  BY DEF AllLists, ListInv
<1>2. PICK n \in due.jobs :
        /\ due' = [due EXCEPT !.jobs = @ \ {n}]
        /\ \/ n \in Waiting /\ ReprocOnly(n) /\ AnswerReproc(n)
           \/ UNCHANGED <<told, waiting, live>>
  BY DEF HandleInputBufferWithLock, IsPending
<1>3. UNCHANGED <<requests, buffers, back, at>>
  BY DEF HandleInputBufferWithLock, threadVars
<1>4. due'.meta = due.meta /\ due'.bufs = due.bufs /\ n \in FrameNumber
  BY <1>0, <1>2 DEF DueType
<1>5. at["recovery"] \notin {"restart", "configure"}
  BY <1>1, <1>2 DEF Flushed, NothingDue
<1>6. Waiting' \subseteq Waiting /\ \A m \in Waiting' : waiting'[m] = waiting[m]
  BY <1>2, <1>4, AnswerReprocFacts DEF Waiting
<1>7. Known' BY <1>1, <1>3, <1>4, <1>6 DEF Known
<1>8. Kept' BY <1>1, <1>3, <1>4, <1>6 DEF Kept
<1>9. Expecting' BY <1>1, <1>3, <1>6 DEF Expecting
<1>10. Counted' BY <1>1, <1>3, <1>4, <1>6 DEF Counted, OnTime, HasInput
<1>11. Flushed' BY <1>3, <1>5 DEF Flushed
<1>12. BackInv' BY <1>1, <1>3 DEF BackInv
<1>13. ToldInv'
  <2>1. CASE UNCHANGED <<told, waiting, live>>
    BY <1>1, <1>3, <2>1 DEF ToldInv, Told, Waiting, Input, HasInput
  <2>2. CASE n \in Waiting /\ ReprocOnly(n) /\ AnswerReproc(n)
    <3>1. Input(n) = 1 BY <2>2 DEF ReprocOnly, Input
    <3>2. n \in DOMAIN requests BY <1>1, <2>2 DEF Known
    <3> QED BY <1>1, <1>3, <1>4, <2>2, <3>1, <3>2, AnswerReprocFacts, ToldEnded
  <2> QED BY <1>2, <2>1, <2>2
<1> QED BY <1>7, <1>8, <1>9, <1>10, <1>11, <1>12, <1>13 DEF AllLists, ListInv

(* Buffers that are on the map leave it and go back to the framework. *)
LEMMA BackStep ==
  ASSUME CaptureTypeOK, Known, BackInv, NEW gone \in SUBSET buffers,
         buffers' = buffers \ gone, ReturnBufs(gone), UNCHANGED requests
  PROVE  BackInv'
<1>0. ListType /\ AnswerType BY TypeParts
<1>1. ASSUME NEW m \in FrameNumber, NEW s \in OutStreams
      PROVE  back'[m][s] = IF /\ m \in DOMAIN requests' /\ s \in requests'[m].out
                              /\ <<m, s>> \notin buffers' THEN 1 ELSE 0
  <2>1. back'[m][s] = back[m][s] + IF <<m, s>> \in gone THEN 1 ELSE 0
    BY DEF ReturnBufs
  <2>2. back[m][s] = IF /\ m \in DOMAIN requests /\ s \in requests[m].out
                        /\ <<m, s>> \notin buffers THEN 1 ELSE 0
    BY DEF BackInv
  <2>3. CASE <<m, s>> \in gone
    <3>1. <<m, s>> \in buffers BY <2>3
    <3>2. m \in DOMAIN requests /\ s \in requests[m].out BY <3>1 DEF Known
    <3> QED BY <2>1, <2>2, <2>3, <3>1, <3>2
  <2>4. CASE <<m, s>> \notin gone
    BY <2>1, <2>2, <2>4
  <2> QED BY <2>3, <2>4
<1> QED BY <1>1 DEF BackInv

(* A buffer comes: dropped after an error, kept for the metadata of a live  *)
(* request, returned otherwise.                                             *)
LEMMA BufferStep ==
  ASSUME CaptureTypeOK, AllLists, HandleBufferWithLock
  PROVE  AllLists'
<1>0. ListType /\ AnswerType /\ DueType BY TypeParts
<1>1. /\ Known /\ Kept /\ Expecting /\ Counted /\ Flushed /\ BackInv /\ ToldInv
  BY DEF AllLists, ListInv
<1>2. PICK b \in due.bufs :
        /\ due' = [due EXCEPT !.bufs = @ \ {b}, !.jobs = @ \ {b[1]}]
        /\ \/ UNCHANGED <<waiting, buffers, live, answerVars>>
           \/ b[1] \in Waiting /\ ~HasInput(b[1]) /\ KeepBuffer(b[1], b[2])
           \/ (b[1] \in Waiting => HasInput(b[1])) /\ ReturnBuffer(b[1], b[2])
  BY DEF HandleBufferWithLock, IsPending
<1>3. UNCHANGED <<requests, at>>
  BY DEF HandleBufferWithLock, threadVars
<1>4. /\ due'.meta = due.meta /\ due'.bufs = due.bufs \ {b}
      /\ b[1] \in FrameNumber /\ b[2] \in OutStreams /\ b = <<b[1], b[2]>>
  BY <1>0, <1>2 DEF DueType
<1>5. at["recovery"] \notin {"restart", "configure"}
  BY <1>1, <1>2 DEF Flushed, NothingDue
<1>6. Flushed' BY <1>3, <1>5 DEF Flushed
<1>7. CASE UNCHANGED <<waiting, buffers, live, answerVars>>
  <2>1. UNCHANGED <<waiting, buffers, told, back>> /\ Waiting' = Waiting
    BY <1>7 DEF answerVars, Waiting
  <2>2. Known' BY <1>1, <1>3, <1>4, <2>1 DEF Known
  <2>3. Kept' BY <1>1, <1>3, <1>4, <2>1 DEF Kept
  <2>4. Expecting' BY <1>1, <1>3, <2>1 DEF Expecting
  <2>5. Counted' BY <1>1, <1>3, <1>4, <2>1 DEF Counted, OnTime, HasInput
  <2>6. BackInv' BY <1>1, <1>3, <2>1 DEF BackInv
  <2>7. ToldInv' BY <1>1, <1>3, <2>1 DEF ToldInv, Told, Input, HasInput
  <2> QED BY <1>6, <2>2, <2>3, <2>4, <2>5, <2>6, <2>7 DEF AllLists, ListInv
<1>8. CASE b[1] \in Waiting /\ ~HasInput(b[1]) /\ KeepBuffer(b[1], b[2])
  <2>1. UNCHANGED <<buffers, told, back>> /\ Waiting' = Waiting
    BY <1>8 DEF KeepBuffer, answerVars, Waiting
  <2>2. waiting \in [Waiting -> Request] BY <1>0 DEF ListType
  <2>3. ASSUME NEW m \in Waiting
        PROVE  /\ waiting'[m].partial = waiting[m].partial
               /\ waiting'[m].urgent = waiting[m].urgent
               /\ waiting'[m].cached =
                    waiting[m].cached \cup IF m = b[1] THEN {b[2]} ELSE {}
    BY <1>8, <2>2 DEF KeepBuffer, Request
  <2>4. Known' BY <1>1, <1>3, <1>4, <2>1 DEF Known
  <2>5. Kept'
    <3>1. due'.bufs \subseteq buffers' BY <1>1, <1>4, <2>1 DEF Kept
    <3>2. ASSUME NEW m \in Waiting, NEW s \in waiting'[m].cached
          PROVE  <<m, s>> \in buffers' /\ <<m, s>> \notin due'.bufs
      <4>1. CASE m = b[1] /\ s = b[2]
        BY <1>1, <1>2, <1>4, <2>1, <4>1 DEF Kept
      <4>2. CASE s \in waiting[m].cached
        BY <1>1, <1>4, <2>1, <4>2 DEF Kept
      <4> QED BY <2>3, <3>2, <4>1, <4>2
    <3> QED BY <2>1, <3>1, <3>2 DEF Kept
  <2>6. Expecting' BY <1>1, <2>1 DEF Expecting
  <2>7. Counted' BY <1>1, <1>3, <1>4, <2>1, <2>3 DEF Counted, OnTime, HasInput
  <2>8. BackInv' BY <1>1, <1>3, <2>1 DEF BackInv
  <2>9. ToldInv' BY <1>1, <1>3, <2>1 DEF ToldInv, Told, Input, HasInput
  <2> QED BY <1>6, <2>4, <2>5, <2>6, <2>7, <2>8, <2>9 DEF AllLists, ListInv
<1>9. CASE (b[1] \in Waiting => HasInput(b[1])) /\ ReturnBuffer(b[1], b[2])
  <2>1. buffers' = buffers \ {b} /\ ReturnBufs({b})
    BY <1>4, <1>9 DEF ReturnBuffer, RemoveBufs
  <2>2. /\ Waiting' = Waiting \ {b[1]}
        /\ \A m \in Waiting' : waiting'[m] = waiting[m]
    <3>1. CASE b[1] \in Waiting
      BY <1>4, <1>9, <3>1, AnswerReprocFacts DEF ReturnBuffer, IsPending
    <3>2. CASE b[1] \notin Waiting
      <4>1. UNCHANGED waiting BY <1>9, <3>2 DEF ReturnBuffer, IsPending
      <4> QED BY <3>2, <4>1 DEF Waiting
    <3> QED BY <3>1, <3>2
  <2>3. Known' BY <1>1, <1>3, <1>4, <2>1, <2>2 DEF Known
  <2>4. Kept'
    <3>1. due'.bufs \subseteq buffers' BY <1>1, <1>4, <2>1 DEF Kept
    <3>2. ASSUME NEW m \in Waiting', NEW s \in waiting'[m].cached
          PROVE  <<m, s>> \in buffers' /\ <<m, s>> \notin due'.bufs
      BY <1>1, <1>4, <2>1, <2>2, <3>2 DEF Kept
    <3> QED BY <3>1, <3>2 DEF Kept
  <2>5. Expecting'
    <3>1. ASSUME NEW m \in Waiting' PROVE \E s \in OutStreams : <<m, s>> \in buffers'
      BY <1>1, <1>4, <2>1, <2>2 DEF Expecting
    <3> QED BY <3>1 DEF Expecting
  <2>6. Counted' BY <1>1, <1>3, <1>4, <2>2 DEF Counted, OnTime, HasInput
  <2>7. BackInv'
    <3>1. {b} \in SUBSET buffers BY <1>1, <1>2 DEF Kept
    <3> QED BY <1>1, <1>3, <2>1, <3>1, BackStep
  <2>8. ToldInv'
    <3>1. CASE b[1] \notin Waiting
      <4>1. UNCHANGED told /\ Waiting' = Waiting
        BY <1>9, <2>2, <3>1 DEF ReturnBuffer, IsPending
      <4> QED BY <1>1, <1>3, <4>1 DEF ToldInv, Told, Input, HasInput
    <3>2. CASE b[1] \in Waiting
      <4>1. AnswerReproc(b[1]) /\ Input(b[1]) = 1
        BY <1>9, <3>2 DEF ReturnBuffer, IsPending, Input
      <4>2. b[1] \in DOMAIN requests BY <1>1, <3>2 DEF Known
      <4> QED BY <1>1, <1>3, <1>4, <3>2, <4>1, <4>2, AnswerReprocFacts, ToldEnded
    <3> QED BY <3>1, <3>2
  <2> QED BY <1>6, <2>3, <2>4, <2>5, <2>6, <2>7, <2>8 DEF AllLists, ListInv
<1> QED BY <1>2, <1>7, <1>8, <1>9

(* The metadata of a frame ends it and the live ones before it, which are   *)
(* on time, and returns the buffers kept for them.                          *)
LEMMA MetadataStep ==
  ASSUME CaptureTypeOK, AllLists, HandleMetadataWithLock
  PROVE  AllLists'
<1>0. ListType /\ AnswerType /\ DueType BY TypeParts
<1>1. /\ Known /\ Kept /\ Expecting /\ Counted /\ Flushed /\ BackInv /\ ToldInv
  BY DEF AllLists, ListInv
<1>2. PICK n \in due.meta :
        /\ due' = [due EXCEPT !.meta = {m \in @ : m > n},
                              !.urgent = {m \in @ : m > n}]
        /\ \/ UNCHANGED <<waiting, live, told, buffers, back>>
           \/ Metadata(n)
  BY DEF HandleMetadataWithLock
<1>3. UNCHANGED <<requests, at>> BY DEF HandleMetadataWithLock, threadVars
<1>4. due'.meta = {m \in due.meta : m > n} /\ due'.bufs = due.bufs /\ n \in FrameNumber
  BY <1>0, <1>2 DEF DueType
<1>5. at["recovery"] \notin {"restart", "configure"}
  BY <1>1, <1>2 DEF Flushed, NothingDue
<1>6. Flushed' BY <1>3, <1>5 DEF Flushed
<1>7. CASE UNCHANGED <<waiting, live, told, buffers, back>>
  <2>1. Waiting' = Waiting BY <1>7 DEF Waiting
  <2>2. Known' BY <1>1, <1>3, <1>4, <1>7, <2>1 DEF Known
  <2>3. Kept' BY <1>1, <1>3, <1>4, <1>7, <2>1 DEF Kept
  <2>4. Expecting' BY <1>1, <1>3, <1>7, <2>1 DEF Expecting
  <2>5. Counted' BY <1>1, <1>3, <1>4, <1>7, <2>1 DEF Counted, OnTime, HasInput
  <2>6. BackInv' BY <1>1, <1>3, <1>7 DEF BackInv
  <2>7. ToldInv' BY <1>1, <1>3, <1>7, <2>1 DEF ToldInv, Told, Input, HasInput
  <2> QED BY <1>6, <2>2, <2>3, <2>4, <2>5, <2>6, <2>7 DEF AllLists, ListInv
<1>8. CASE Metadata(n)
  <2> DEFINE ended == {m \in Waiting : EndsWith(m, n)}
             gone == {b \in ended \X OutStreams : b[2] \in waiting[b[1]].cached}
  <2>1. /\ Waiting' = Waiting \ ended
        /\ \A m \in Waiting' : waiting'[m] =
             IF m < n THEN [waiting[m] EXCEPT !.partial = @ + 1] ELSE waiting[m]
        /\ buffers' = buffers \ gone /\ ReturnBufs(gone)
        /\ told' = [m \in FrameNumber |->
             IF m \notin ended THEN told[m]
             ELSE [told[m] EXCEPT !.shutter = IF m = n THEN @ + 1 ELSE @,
                                  !.final = @ + 1, !.input = @ + Input(m),
                                  !.partial = FinalPartial(waiting[m])]]
    BY <1>8 DEF Metadata, RemoveBufs, Waiting
  <2>2. waiting \in [Waiting -> Request] /\ Waiting \subseteq FrameNumber
    BY <1>0 DEF ListType
  <2>3. gone \in SUBSET buffers
    BY <1>1 DEF Kept
  <2>4. /\ \A b \in gone : b[1] \in ended
        /\ \A b \in gone : b \notin due.bufs
    BY <1>1 DEF Kept
  <2>5. \A m \in ended : EndsWith(m, n) /\ m \in Waiting
    OBVIOUS
  <2>6. \A m \in Waiting \ ended : ~EndsWith(m, n)
    OBVIOUS
  <2> HIDE DEF ended, gone
  <2>7. \A m \in Waiting' : waiting'[m].cached = waiting[m].cached
    BY <2>1, <2>2 DEF Request
  <2>8. Known' BY <1>1, <1>3, <1>4, <2>1 DEF Known
  <2>9. Kept'
    <3>1. due'.bufs \subseteq buffers' BY <1>1, <1>4, <2>1, <2>4 DEF Kept
    <3>2. ASSUME NEW m \in Waiting', NEW s \in waiting'[m].cached
          PROVE  <<m, s>> \in buffers' /\ <<m, s>> \notin due'.bufs
      <4>1. m \in Waiting /\ m \notin ended /\ s \in waiting[m].cached
        BY <2>1, <2>7, <3>2
      <4>2. <<m, s>> \in buffers /\ <<m, s>> \notin due.bufs
        BY <1>1, <4>1 DEF Kept
      <4> QED BY <1>4, <2>1, <2>4, <4>1, <4>2
    <3> QED BY <3>1, <3>2 DEF Kept
  <2>10. Expecting'
    <3>1. ASSUME NEW m \in Waiting' PROVE \E s \in OutStreams : <<m, s>> \in buffers'
      <4>1. m \in Waiting /\ m \notin ended BY <2>1
      <4>2. PICK s \in OutStreams : <<m, s>> \in buffers
        BY <1>1, <4>1 DEF Expecting
      <4> QED BY <2>1, <2>4, <4>1, <4>2
    <3> QED BY <3>1 DEF Expecting
  <2>11. Counted'
    <3>1. ASSUME NEW m \in Waiting', OnTime(m)'
          PROVE  waiting'[m].partial = IF waiting'[m].urgent THEN 1 ELSE 0
      <4>1. m \in Waiting /\ m \notin ended /\ m \in FrameNumber BY <2>1, <2>2
      <4>2. OnTime(m) BY <1>3, <1>4, <3>1 DEF OnTime, HasInput
      <4>3. ~(m < n)
        <5>1. CASE m \in due'.meta
          BY <1>4, <4>1, <5>1, CaptureAssumption DEF FrameNumber
        <5>2. CASE ~HasInput(m) BY <2>6, <4>1, <5>2 DEF EndsWith
        <5> QED BY <1>3, <3>1, <5>1, <5>2 DEF OnTime, HasInput
      <4>4. waiting'[m] = waiting[m] BY <2>1, <4>3
      <4> QED BY <1>1, <4>1, <4>2, <4>4 DEF Counted
    <3> QED BY <3>1 DEF Counted
  <2>12. BackInv'
    BY <1>1, <1>3, <2>1, <2>3, BackStep
  <2>13. ToldInv'
    <3>1. ASSUME NEW m \in FrameNumber PROVE Told(m)'
      <4>1. Told(m) BY <1>1 DEF ToldInv
      <4>2. Input(m)' = Input(m) BY <1>3 DEF Input, HasInput
      <4>3. /\ told[m].final \in Nat /\ told[m].failed \in Nat /\ Input(m) \in {0, 1}
            /\ told[m] \in Answers
        BY <1>0, InputType DEF AnswerType, Answers
      <4>4. CASE m \notin ended
        <5>1. told'[m] = told[m] /\ (m \in Waiting' <=> m \in Waiting)
          BY <2>1, <4>4
        <5> QED BY <1>3, <4>1, <4>2, <5>1 DEF Told
      <4>5. CASE m \in ended
        <5>1. m \in Waiting /\ m \notin Waiting' /\ m \in DOMAIN requests
          BY <1>1, <2>1, <2>5, <4>5 DEF Known
        <5>2. OnTime(m)
          BY <1>2, <2>5, <4>5 DEF OnTime, EndsWith
        <5>3. waiting[m].partial = IF waiting[m].urgent THEN 1 ELSE 0
          BY <1>1, <5>1, <5>2 DEF Counted
        <5>4. FinalPartial(waiting[m]) = 2
          BY <5>3 DEF FinalPartial
        <5>5. told'[m] = [told[m] EXCEPT !.shutter = IF m = n THEN @ + 1 ELSE @,
                                         !.final = @ + 1, !.input = @ + Input(m),
                                         !.partial = 2]
          BY <2>1, <4>5, <5>4
        <5>6. /\ told'[m].final = told[m].final + 1 /\ told'[m].failed = told[m].failed
              /\ told'[m].input = told[m].input + Input(m) /\ told'[m].partial = 2
          BY <4>3, <5>5 DEF Answers
        <5>7. told[m].final + told[m].failed = 0 /\ told[m].input = 0
          BY <4>1, <5>1 DEF Told
        <5> QED BY <1>3, <4>2, <4>3, <5>1, <5>6, <5>7 DEF Told, PARTIAL_RESULT_COUNT
      <4> QED BY <4>4, <4>5
    <3> QED BY <3>1 DEF ToldInv
  <2> QED BY <1>6, <2>8, <2>9, <2>10, <2>11, <2>12, <2>13 DEF AllLists, ListInv
<1> QED BY <1>2, <1>7, <1>8

-----------------------------------------------------------------------------
(* A frame is known by its rank.                                            *)
LEMMA SameRank ==
  ASSUME NEW S \in SUBSET Nat, IsFiniteSet(S), NEW m \in S, NEW n \in S,
         Rank(m, S) = Rank(n, S)
  PROVE  m = n
<1>1. ASSUME NEW a \in S, NEW b \in S, a < b PROVE Rank(a, S) # Rank(b, S)
  <2> DEFINE A == {x \in S : x <= a}
             B == {x \in S : x <= b}
  <2>1. IsFiniteSet(B) BY FS_Subset
  <2>2. A \in SUBSET B /\ b \in B /\ b \notin A
    <3>1. a \in Nat /\ b \in Nat /\ \A x \in S : x \in Nat OBVIOUS
    <3>2. \A x \in S : x <= a => x <= b BY <1>1, <3>1
    <3>3. b <= b /\ ~(b <= a) BY <1>1, <3>1
    <3> QED BY <3>2, <3>3
  <2> HIDE DEF A, B
  <2>3. Cardinality(B) # Cardinality(A)
    BY <2>1, <2>2, FS_Subset
  <2> QED BY <2>3 DEF A, B, Rank
<1> QED BY <1>1

(* As long as it keeps to the list, the error of the requests reaches all   *)
(* that wait, each with its own input buffer.                               *)
LEMMA NotifiesAll ==
  ASSUME CaptureTypeOK, Known, Expecting, NotifyErrors, ~faults.outOfList,
         ~faults'.outOfList
  PROVE  /\ Waiting' = {} /\ buffers' = {} /\ ReturnBufs(buffers)
         /\ UNCHANGED faults
         /\ told' = [n \in FrameNumber |->
              IF n \notin Waiting THEN told[n]
              ELSE [told[n] EXCEPT !.failed = @ + 1, !.input = @ + Input(n)]]
<1> DEFINE k == Cardinality(Later)
<1>0. ListType /\ ControlType BY TypeParts
<1>1. Waiting \subseteq FrameNumber /\ FrameNumber \subseteq Nat
      /\ Later \subseteq FrameNumber /\ buffers \subseteq FrameNumber \X OutStreams
  BY <1>0 DEF ListType, Later, FrameNumber
<1>2. IsFiniteSet(Waiting) /\ IsFiniteSet(Later)
  <2>1. IsFiniteSet(FrameNumber) BY FS_Interval, CaptureAssumption DEF FrameNumber
  <2> QED BY <1>1, <2>1, FS_Subset
<1>3. Waiting \in SUBSET Later
  <2>1. ASSUME NEW m \in Waiting PROVE m \in Later
    <3>1. PICK s \in OutStreams : <<m, s>> \in buffers BY DEF Expecting
    <3>2. m \in {b[1] : b \in buffers} BY <3>1
    <3>3. m <= m BY <1>1
    <3> QED BY <3>2, <3>3 DEF Later
  <2> QED BY <2>1
<1>4. ~(k > Cardinality(Waiting))
  BY <1>0 DEF NotifyErrors, ControlType, Faults
<1>5. Later = Waiting
  <2>1. Cardinality(Waiting) <= k /\ (k = Cardinality(Waiting) => Later = Waiting)
    BY <1>2, <1>3, FS_Subset
  <2>2. k \in Nat /\ Cardinality(Waiting) \in Nat
    BY <1>2, FS_CardinalityType
  <2> QED BY <1>4, <2>1, <2>2
<1>6. /\ told' = [n \in FrameNumber |->
           IF n \notin Waiting THEN told[n]
           ELSE [told[n] EXCEPT !.failed = @ + 1, !.input = @ + Input(EndedFor(n))]]
      /\ Waiting' = {m \in Waiting : Rank(m, Waiting) > k}
      /\ buffers' = {} /\ ReturnBufs(buffers) /\ UNCHANGED faults
  BY <1>4, <1>5 DEF NotifyErrors, Restrict, Waiting
<1>7. ASSUME NEW n \in Waiting PROVE EndedFor(n) = n
  <2>1. EndedFor(n) \in Waiting /\ Rank(EndedFor(n), Waiting) = Rank(n, Waiting)
    BY <1>5 DEF EndedFor
  <2> QED BY <1>1, <1>2, <2>1, SameRank
<1>8. ASSUME NEW m \in Waiting PROVE ~(Rank(m, Waiting) > k)
  <2> DEFINE T == {x \in Waiting : x <= m}
  <2>1. T \in SUBSET Waiting OBVIOUS
  <2>2. Cardinality(T) <= Cardinality(Waiting) /\ Cardinality(T) \in Nat
        /\ Cardinality(Waiting) \in Nat
    BY <1>2, <2>1, FS_Subset, FS_CardinalityType
  <2>3. Rank(m, Waiting) = Cardinality(T) BY DEF Rank
  <2> HIDE DEF T
  <2> QED BY <1>5, <2>2, <2>3
<1>9. Waiting' = {} BY <1>6, <1>8
<1>10. told' = [n \in FrameNumber |->
         IF n \notin Waiting THEN told[n]
         ELSE [told[n] EXCEPT !.failed = @ + 1, !.input = @ + Input(n)]]
  BY <1>6, <1>7
<1> QED BY <1>6, <1>9, <1>10

(* A flush that keeps to the list leaves both lists empty.                  *)
LEMMA FlushEndStep ==
  ASSUME CaptureTypeOK, AllLists, NEW t \in Thread, FlushEnd(t),
         ~faults.outOfList, ~faults'.outOfList
  PROVE  AllLists' /\ Waiting' = {} /\ buffers' = {} /\ UNCHANGED faults
<1>0. ListType /\ AnswerType /\ DueType BY TypeParts
<1>1. /\ Known /\ Kept /\ Expecting /\ Counted /\ Flushed /\ BackInv /\ ToldInv
  BY DEF AllLists, ListInv
<1>2. UNCHANGED requests /\ due' = NothingDue /\ NotifyErrors BY DEF FlushEnd
<1>3. /\ Waiting' = {} /\ buffers' = {} /\ ReturnBufs(buffers) /\ UNCHANGED faults
      /\ told' = [n \in FrameNumber |->
           IF n \notin Waiting THEN told[n]
           ELSE [told[n] EXCEPT !.failed = @ + 1, !.input = @ + Input(n)]]
  BY <1>1, <1>2, NotifiesAll
<1>4. Known' /\ Kept' /\ Expecting' /\ Counted' /\ Flushed'
  BY <1>2, <1>3 DEF Known, Kept, Expecting, Counted, Flushed, NothingDue
<1>5. BackInv'
  <2>1. buffers \in SUBSET buffers /\ buffers' = buffers \ buffers BY <1>3
  <2> QED BY <1>1, <1>2, <1>3, <2>1, BackStep
<1>6. ToldInv'
  <2>1. ASSUME NEW m \in FrameNumber PROVE Told(m)'
    <3>1. Told(m) BY <1>1 DEF ToldInv
    <3>2. Input(m)' = Input(m) BY <1>2 DEF Input, HasInput
    <3>3. /\ told[m].final \in Nat /\ told[m].failed \in Nat /\ Input(m) \in {0, 1}
          /\ told[m] \in Answers
      BY <1>0, InputType DEF AnswerType, Answers
    <3>4. CASE m \notin Waiting
      <4>1. told'[m] = told[m] BY <1>3, <3>4
      <4> QED BY <1>2, <1>3, <3>1, <3>2, <3>4, <4>1 DEF Told
    <3>5. CASE m \in Waiting
      <4>1. /\ told'[m].final = told[m].final /\ told'[m].failed = told[m].failed + 1
            /\ told'[m].input = told[m].input + Input(m)
        BY <1>3, <3>3, <3>5 DEF Answers
      <4>2. m \in DOMAIN requests BY <1>1, <3>5 DEF Known
      <4>3. told[m].final = 0 /\ told[m].failed = 0 /\ told[m].input = 0
        BY <3>1, <3>3, <3>5 DEF Told
      <4>4. /\ told'[m].final = 0 /\ told'[m].failed = 1
            /\ told'[m].input = Input(m)
        BY <3>3, <4>1, <4>3
      <4>5. m \in DOMAIN requests' /\ m \notin Waiting'
        BY <1>2, <1>3, <4>2
      <4> QED BY <3>2, <4>4, <4>5 DEF Told
    <3> QED BY <3>4, <3>5
  <2> QED BY <2>1 DEF ToldInv
<1> QED BY <1>3, <1>4, <1>5, <1>6 DEF AllLists, ListInv

(* What the actions that touch neither list do. *)
Untouched ==
  /\ UNCHANGED <<requests, buffers, told, back>> /\ Waiting' = Waiting
  /\ \A m \in Waiting : waiting'[m] = waiting[m]
  /\ live' = live /\ due' \in {due, NothingDue}
  /\ at'["recovery"] \in {"restart", "configure"} =>
       at["recovery"] \in {"restart", "configure"}

(* The actions of the threads besides the end of a flush are quiet: the     *)
(* lists a new configuration clears are empty.                              *)
LEMMA QuietActions ==
  ASSUME CaptureTypeOK, ListInv,
         \/ RequestInError \/ ClientFlush
         \/ \E t \in Thread : \/ HandleCameraDeviceError(t) \/ FlushBegin(t)
                              \/ FlushFails(t) \/ DeInit(t)
         \/ ThermalShutdown \/ DaemonDied \/ StartRecovery
         \/ RestartInitialized \/ Reconfigure \/ RestartFailed
  PROVE  Untouched
<1>0. ThreadType BY TypeParts DEF ControlType
<1>1. CASE Reconfigure
  <2>1. Waiting = {} /\ buffers = {} BY <1>1 DEF Reconfigure, ListInv, Flushed
  <2>2. Waiting' = {} /\ buffers' = {} /\ at'["recovery"] = "idle"
    BY <1>0, <1>1 DEF Reconfigure, Waiting, ThreadType, Thread
  <2> QED BY <1>1, <2>1, <2>2 DEF Reconfigure, Untouched, answerVars
<1>2. CASE ~Reconfigure
  <2>1. /\ UNCHANGED <<requests, waiting, buffers, live, told, back>>
        /\ due' \in {due, NothingDue}
    BY <1>2 DEF RequestInError, ClientFlush, HandleCameraDeviceError, FlushBegin,
       FlushFails, DeInit, ThermalShutdown, DaemonDied, StartRecovery,
       RestartInitialized, RestartFailed, requestVars, answerVars
  <2>2. at'["recovery"] \in {"restart", "configure"} =>
          at["recovery"] \in {"restart", "configure"}
    BY <1>0, <1>2 DEF RequestInError, ClientFlush, HandleCameraDeviceError, FlushBegin,
       FlushFails, DeInit, ThermalShutdown, DaemonDied, StartRecovery,
       RestartInitialized, RestartFailed, Return, ThreadType, Thread, DeviceError
  <2> QED BY <2>1, <2>2 DEF Untouched, Waiting
<1> QED BY <1>1, <1>2

(* Lists and answers, for the next-state relation.                          *)
LEMMA ListsStep ==
  ASSUME CaptureTypeOK, LockInv, AllLists, CaptureNext, ~faults.outOfList,
         ~faults'.outOfList
  PROVE  AllLists'
<1>1. CASE Untouched BY <1>1, QuietStep DEF Untouched
<1>2. ListInv BY DEF AllLists
<1> QED
  BY <1>1, <1>2, QuietActions, RequestStep, UrgentStep, MetadataStep,
     InputBufferStep, BufferStep, FlushEndStep DEF CaptureNext

-----------------------------------------------------------------------------
(* The unsigned arithmetic of mPendingLiveRequest, below its modulus.       *)
LEMMA Modulo ==
  ASSUME NEW x \in Nat, NEW m \in Nat, x < m
  PROVE  x % m = x /\ (x + m) % m = x
OBVIOUS

(* Counting down by the requests that end leaves the number that remain.    *)
LEMMA CountsDown ==
  ASSUME CaptureTypeOK, live = Cardinality(Waiting), NEW T \in SUBSET Waiting
  PROVE  CountDown(Cardinality(T)) = Cardinality(Waiting \ T)
<1> DEFINE w == Cardinality(Waiting)
           k == Cardinality(T)
<1>1. w \in Nat /\ k \in Nat /\ k <= w /\ w <= MaxRequests /\ IsFiniteSet(Waiting)
  BY WaitingFinite
<1>2. Cardinality(Waiting \ T) = w - k
  <2>1. Waiting \cap T = T OBVIOUS
  <2> QED BY <1>1, <2>1, FS_Difference
<1>3. LiveMod \in Nat /\ MaxRequests \in Nat /\ LiveMod > MaxRequests
  BY CaptureAssumption
<1> HIDE DEF w, k
<1>4. w - k \in Nat /\ w - k < LiveMod /\ live + LiveMod - k = (w - k) + LiveMod
  BY <1>1, <1>3 DEF w
<1>5. ((w - k) + LiveMod) % LiveMod = w - k BY <1>3, <1>4, Modulo
<1> QED BY <1>2, <1>4, <1>5 DEF CountDown, k

(* A quiet action keeps the count.                                          *)
LEMMA NotCounting ==
  ASSUME CaptureTypeOK, ControlType', Untouched, LiveInv,
         faults'.failures = 0 => faults.failures = 0, ~mFlush' => ~mFlush,
         mState' = "CONFIGURED" => mState = "CONFIGURED" \/ Waiting = {}
  PROVE  LiveInv'
BY DEF LiveInv, Untouched

(* The count of live requests, action by action.                            *)
LEMMA LiveStep ==
  ASSUME CaptureTypeOK, CaptureTypeOK', LockInv, AllLists, LiveInv, CaptureNext,
         ~faults.outOfList, ~faults'.outOfList
  PROVE  LiveInv'
<1>0. ListType /\ DueType /\ ControlType BY TypeParts
<1>1. Known /\ Kept /\ Flushed BY DEF AllLists, ListInv
<1>2. LiveMod \in Nat /\ MaxRequests \in Nat /\ LiveMod > MaxRequests
  BY CaptureAssumption
<1>3. faults'.failures = 0 => faults.failures = 0
  <2>1. faults \in Faults BY <1>0 DEF ControlType
  <2>2. faults.failures \in Nat BY <2>1 DEF Faults
  <2>3. \/ faults' = faults \/ faults' = [faults EXCEPT !.failures = @ + 1]
        \/ faults' = [faults EXCEPT !.errors = @ + 1]
        \/ faults' = [faults EXCEPT !.recovered = TRUE]
        \/ faults' = [faults EXCEPT !.outOfList = TRUE]
    BY DEF CaptureNext, ProcessCaptureRequest, RequestInError, HandleUrgent,
       HandleMetadataWithLock, HandleInputBufferWithLock, HandleBufferWithLock,
       ClientFlush, HandleCameraDeviceError, FlushBegin, FlushEnd, NotifyErrors,
       FlushFails, DeInit, ThermalShutdown, DaemonDied, CountError, StartRecovery,
       RestartInitialized, Reconfigure, RestartFailed
  <2> QED BY <2>1, <2>2, <2>3 DEF Faults
<1>4. ASSUME NEW r \in Kinds, ProcessCaptureRequest(r) PROVE LiveInv'
  <2> DEFINE n == Len(requests) + 1
             base == IF mState = "CONFIGURED" THEN 0 ELSE live
  <2>1. CASE mFlush \/ faults' = [faults EXCEPT !.failures = @ + 1]
    <3>1. faults \in Faults BY <1>0 DEF ControlType
    <3>2. faults.failures \in Nat BY <3>1 DEF Faults
    <3>3. faults' = [faults EXCEPT !.failures = @ + 1] => faults'.failures # 0
      BY <3>1, <3>2 DEF Faults
    <3>4. mFlush' = mFlush BY <1>4 DEF ProcessCaptureRequest
    <3> QED BY <2>1, <3>3, <3>4 DEF LiveInv
  <2>2. CASE /\ ~mFlush /\ live' = (base + 1) % LiveMod /\ mState' = "STARTED"
             /\ UNCHANGED faults
    <3>1. CASE faults.failures # 0 BY <2>2, <3>1 DEF LiveInv
    <3>2. CASE faults.failures = 0
      <4>1. base = Cardinality(Waiting)
        BY <2>2, <3>2, FS_EmptySet DEF LiveInv
      <4>2. Waiting' = Waiting \cup {n} /\ n \notin Waiting
        <5>1. requests \in Seq(Kinds) /\ n \notin DOMAIN requests
          BY <1>0 DEF ControlType
        <5> QED BY <1>1, <1>4, <5>1 DEF Known, ProcessCaptureRequest, Record, Waiting
      <4>3. IsFiniteSet(Waiting) /\ Cardinality(Waiting) \in Nat
        BY WaitingFinite
      <4>4. Cardinality(Waiting') = Cardinality(Waiting) + 1
        BY <4>2, <4>3, FS_AddElement
      <4>5. Cardinality(Waiting') <= MaxRequests
        <5>1. Waiting' \in SUBSET FrameNumber
          BY DEF CaptureTypeOK, Waiting
        <5>2. IsFiniteSet(FrameNumber) /\ Cardinality(FrameNumber) = MaxRequests
          BY <1>2, FS_Interval DEF FrameNumber
        <5> QED BY <5>1, <5>2, FS_Subset
      <4>6. live' = Cardinality(Waiting')
        <5> DEFINE c == Cardinality(Waiting')
        <5>1. c \in Nat /\ c < LiveMod /\ base + 1 = c
          BY <1>2, <4>1, <4>3, <4>4, <4>5
        <5>2. live' = c % LiveMod BY <2>2, <5>1
        <5> HIDE DEF c
        <5>3. live' = c BY <1>2, <5>1, <5>2, Modulo
        <5> QED BY <5>3 DEF c
      <4> QED BY <2>2, <4>6 DEF LiveInv
    <3> QED BY <3>1, <3>2
  <2> QED BY <1>4, <2>1, <2>2 DEF ProcessCaptureRequest
<1>5. CASE HandleUrgent
  <2>1. UNCHANGED <<mState, live, mFlush, faults>> BY <1>5 DEF HandleUrgent
  <2>2. Waiting' = Waiting BY <1>5 DEF HandleUrgent, Waiting
  <2> QED BY <2>1, <2>2 DEF LiveInv
<1>6. ASSUME NEW T \in SUBSET Waiting, Waiting' = Waiting \ T,
             live' = CountDown(Cardinality(T)) \/ (T = {} /\ live' = live),
             UNCHANGED <<mState, mFlush, faults>>
      PROVE  LiveInv'
  <2>1. CASE faults.failures = 0 /\ ~mFlush
    <3>1. live = Cardinality(Waiting) BY <2>1 DEF LiveInv
    <3>2. live' = Cardinality(Waiting')
      BY <1>6, <3>1, CountsDown
    <3> QED BY <1>6, <2>1, <3>2 DEF LiveInv
  <2>2. CASE ~(faults.failures = 0 /\ ~mFlush)
    BY <1>6, <2>2 DEF LiveInv
  <2> QED BY <2>1, <2>2
<1>7. ASSUME NEW n \in FrameNumber, n \in Waiting, AnswerReproc(n),
             UNCHANGED <<mState, mFlush, faults>>
      PROVE  LiveInv'
  <2>1. Waiting' = Waiting \ {n} BY <1>7, AnswerReprocFacts
  <2>2. Cardinality({n}) = 1 BY FS_Singleton
  <2>3. live' = CountDown(Cardinality({n})) BY <1>7, <2>2 DEF AnswerReproc
  <2>4. {n} \in SUBSET Waiting BY <1>7
  <2> QED BY <1>6, <1>7, <2>1, <2>3, <2>4
<1>8. ASSUME UNCHANGED <<mState, mFlush, faults, live>>, Waiting' = Waiting
      PROVE  LiveInv'
  BY <1>8 DEF LiveInv
<1>9. CASE HandleMetadataWithLock
  <2>1. UNCHANGED <<mState, mFlush, faults>> BY <1>9 DEF HandleMetadataWithLock
  <2>2. PICK n \in due.meta : UNCHANGED <<waiting, live>> \/ Metadata(n)
    BY <1>9 DEF HandleMetadataWithLock
  <2>3. CASE UNCHANGED <<waiting, live>> BY <1>8, <2>1, <2>3 DEF Waiting
  <2>4. CASE Metadata(n)
    <3> DEFINE ended == {m \in Waiting : EndsWith(m, n)}
    <3>1. /\ ended \in SUBSET Waiting /\ Waiting' = Waiting \ ended
          /\ live' = CountDown(Cardinality(ended))
      BY <2>4 DEF Metadata, Waiting
    <3> HIDE DEF ended
    <3> QED BY <1>6, <2>1, <3>1
  <2> QED BY <2>2, <2>3, <2>4
<1>10. CASE HandleInputBufferWithLock
  <2>1. UNCHANGED <<mState, mFlush, faults>> BY <1>10 DEF HandleInputBufferWithLock
  <2>2. PICK n \in due.jobs :
          UNCHANGED <<waiting, live>> \/ (n \in Waiting /\ AnswerReproc(n))
    BY <1>10 DEF HandleInputBufferWithLock, IsPending
  <2>3. n \in FrameNumber BY <1>0 DEF DueType
  <2> QED BY <1>7, <1>8, <2>1, <2>2, <2>3 DEF Waiting
<1>11. CASE HandleBufferWithLock
  <2>1. UNCHANGED <<mState, mFlush, faults>> BY <1>11 DEF HandleBufferWithLock
  <2>2. PICK b \in due.bufs :
          \/ UNCHANGED <<waiting, live>>
          \/ b[1] \in Waiting /\ KeepBuffer(b[1], b[2])
          \/ b[1] \in Waiting /\ AnswerReproc(b[1])
    BY <1>11 DEF HandleBufferWithLock, ReturnBuffer, IsPending
  <2>3. b[1] \in FrameNumber BY <1>0 DEF DueType
  <2>4. CASE UNCHANGED <<waiting, live>> BY <1>8, <2>1, <2>4 DEF Waiting
  <2>5. CASE b[1] \in Waiting /\ KeepBuffer(b[1], b[2])
    BY <1>8, <2>1, <2>5 DEF KeepBuffer, Waiting
  <2>6. CASE b[1] \in Waiting /\ AnswerReproc(b[1])
    BY <1>7, <2>1, <2>3, <2>6
  <2> QED BY <2>2, <2>4, <2>5, <2>6
<1>12. ASSUME NEW t \in Thread, FlushEnd(t) PROVE LiveInv'
  <2>1. Waiting' = {} BY <1>12, FlushEndStep
  <2>2. live' = 0 BY <1>12 DEF FlushEnd
  <2> QED BY <2>1, <2>2, FS_EmptySet DEF LiveInv
<1>13. ASSUME Untouched,
              \/ RequestInError \/ ClientFlush
              \/ \E t \in Thread : \/ HandleCameraDeviceError(t) \/ FlushBegin(t)
                                   \/ FlushFails(t) \/ DeInit(t)
              \/ ThermalShutdown \/ DaemonDied \/ StartRecovery
              \/ RestartInitialized \/ Reconfigure \/ RestartFailed
       PROVE  LiveInv'
  <2>1. ~mFlush' => ~mFlush
    BY <1>13 DEF RequestInError, ClientFlush, HandleCameraDeviceError, FlushBegin,
       FlushFails, DeInit, ThermalShutdown, DaemonDied, StartRecovery,
       RestartInitialized, Reconfigure, RestartFailed
  <2>2. mState' = "CONFIGURED" => mState = "CONFIGURED" \/ Waiting = {}
    BY <1>1, <1>13 DEF RequestInError, ClientFlush, HandleCameraDeviceError,
       FlushBegin, FlushFails, DeInit, ThermalShutdown, DaemonDied, CountError,
       StartRecovery, RestartInitialized, Reconfigure, RestartFailed, Flushed
  <2> QED BY <1>3, <1>13, <2>1, <2>2, NotCounting, TypeParts
<1>14. ListInv BY DEF AllLists
<1> QED BY <1>4, <1>5, <1>9, <1>10, <1>11, <1>12, <1>13, <1>14, QuietActions
        DEF CaptureNext

-----------------------------------------------------------------------------
OneError == faults.errors <= 1 /\ faults.failures = 0

(* Faults are only counted up.                                              *)
LEMMA FaultsGrow ==
  ASSUME CaptureTypeOK, CaptureNext
  PROVE  OneError' => OneError
<1>1. faults \in Faults BY TypeParts DEF ControlType
<1>2. faults.failures \in Nat /\ faults.errors \in Nat BY <1>1 DEF Faults
<1>3. \/ faults' = faults \/ faults' = [faults EXCEPT !.failures = @ + 1]
      \/ faults' = [faults EXCEPT !.errors = @ + 1]
      \/ faults' = [faults EXCEPT !.recovered = TRUE]
      \/ faults' = [faults EXCEPT !.outOfList = TRUE]
  BY DEF CaptureNext, ProcessCaptureRequest, RequestInError, HandleUrgent,
     HandleMetadataWithLock, HandleInputBufferWithLock, HandleBufferWithLock,
     ClientFlush, HandleCameraDeviceError, FlushBegin, FlushEnd, NotifyErrors,
     FlushFails, DeInit, ThermalShutdown, DaemonDied, CountError, StartRecovery,
     RestartInitialized, Reconfigure, RestartFailed
<1> QED BY <1>1, <1>2, <1>3 DEF Faults, OneError

(* A callback of the channels takes from the lists and adds nothing.        *)
LEMMA FewerLeft ==
  ASSUME CaptureTypeOK,
         HandleUrgent \/ HandleMetadataWithLock \/ HandleInputBufferWithLock
           \/ HandleBufferWithLock
  PROVE  Waiting' \subseteq Waiting /\ buffers' \subseteq buffers
<1>0. DueType BY TypeParts
<1>1. CASE HandleUrgent BY <1>1 DEF HandleUrgent, Waiting
<1>2. CASE HandleMetadataWithLock
  <2>1. \/ UNCHANGED <<waiting, buffers>> \/ \E n \in due.meta : Metadata(n)
    BY <1>2 DEF HandleMetadataWithLock
  <2>2. ASSUME NEW n, Metadata(n)
        PROVE  Waiting' \subseteq Waiting /\ buffers' \subseteq buffers
    BY <2>2 DEF Metadata, RemoveBufs, Waiting
  <2> QED BY <2>1, <2>2 DEF Waiting
<1>3. CASE HandleInputBufferWithLock
  BY <1>3 DEF HandleInputBufferWithLock, AnswerReproc, Restrict, Waiting
<1>4. CASE HandleBufferWithLock
  <2>1. PICK b \in due.bufs : \/ UNCHANGED <<waiting, buffers>>
                              \/ KeepBuffer(b[1], b[2]) \/ ReturnBuffer(b[1], b[2])
    BY <1>4 DEF HandleBufferWithLock
  <2> QED BY <2>1 DEF KeepBuffer, ReturnBuffer, RemoveBufs, AnswerReproc, Restrict,
                      Waiting
<1> QED BY <1>1, <1>2, <1>3, <1>4

(* What one error leaves behind, action by action.                          *)
LEMMA ErrorStep ==
  ASSUME CaptureTypeOK, LockInv, AllLists, ErrorInv, CaptureNext,
         ~faults.outOfList, ~faults'.outOfList
  PROVE  ErrorInv'
<1> DEFINE Empty == Waiting = {} /\ buffers = {}
           Deinit == \E t \in DeviceError : at[t] = "deinit"
<1>0. ThreadType /\ faults \in Faults BY TypeParts DEF ControlType
<1>1. SUFFICES ASSUME OneError'
               PROVE  /\ \A t \in DeviceError : at'[t] \in Busy => mState' = "ERROR"
                      /\ mState' = "DEINIT" \/ Deinit' => Empty'
  BY DEF ErrorInv, OneError
<1>2. OneError /\ (\A t \in DeviceError : at[t] \in Busy => mState = "ERROR")
      /\ (mState = "DEINIT" \/ Deinit => Empty)
  BY <1>1, FaultsGrow DEF ErrorInv, OneError
<1>3. Deinit => mState = "ERROR" BY <1>2 DEF Busy
<1>4. CASE \E r \in Kinds : ProcessCaptureRequest(r)
  <2>1. /\ mState \in {"CONFIGURED", "STARTED"} /\ at' = at
        /\ mState' \in {mState, "STARTED"}
    BY <1>4 DEF ProcessCaptureRequest, threadVars
  <2> QED BY <1>2, <1>3, <2>1
<1>5. CASE HandleUrgent \/ HandleMetadataWithLock \/ HandleInputBufferWithLock
             \/ HandleBufferWithLock
  <2>1. UNCHANGED <<mState, at>>
    BY <1>5 DEF HandleUrgent, HandleMetadataWithLock, HandleInputBufferWithLock,
       HandleBufferWithLock, threadVars
  <2> QED BY <1>2, <1>5, <2>1, FewerLeft
<1>6. ASSUME NEW t \in Thread, FlushEnd(t)
      PROVE  /\ \A u \in DeviceError : at'[u] \in Busy => mState' = "ERROR"
             /\ mState' = "DEINIT" \/ Deinit' => Empty'
  <2>1. Empty' BY <1>6, FlushEndStep
  <2>2. mState' = mState /\ at[t] = "stopping" /\ Return(t, TRUE)
    BY <1>6 DEF FlushEnd
  <2>3. ASSUME NEW u \in DeviceError, at'[u] \in Busy PROVE at[u] \in Busy
    BY <1>0, <2>2, <2>3 DEF Return, ThreadType, Busy, DeviceError
  <2> QED BY <1>2, <2>1, <2>2, <2>3
<1>7. ASSUME NEW t \in Thread, FlushFails(t) PROVE FALSE
  <2>1. faults' = [faults EXCEPT !.failures = @ + 1] BY <1>7 DEF FlushFails
  <2> QED BY <1>0, <1>1, <2>1 DEF Faults, OneError
<1>8. ASSUME UNCHANGED <<mState, buffers>>, Waiting' = Waiting,
             \A t \in DeviceError : at'[t] \in Busy =>
               at[t] \in Busy \/ mState = "ERROR",
             \A t \in DeviceError : at'[t] = "deinit" => at[t] = "deinit"
      PROVE  /\ \A t \in DeviceError : at'[t] \in Busy => mState' = "ERROR"
             /\ mState' = "DEINIT" \/ Deinit' => Empty'
  BY <1>2, <1>8
<1>9. CASE RequestInError \/ ClientFlush \/ StartRecovery
             \/ \E t \in Thread : HandleCameraDeviceError(t) \/ FlushBegin(t)
  <2>1. UNCHANGED <<mState, waiting, buffers>> /\ Waiting' = Waiting
    BY <1>9 DEF RequestInError, ClientFlush, StartRecovery, HandleCameraDeviceError,
       FlushBegin, requestVars, Waiting
  <2>2. /\ \A t \in DeviceError : at'[t] \in Busy => at[t] \in Busy \/ mState = "ERROR"
        /\ \A t \in DeviceError : at'[t] = "deinit" => at[t] = "deinit"
    BY <1>0, <1>9 DEF RequestInError, ClientFlush, StartRecovery,
       HandleCameraDeviceError, FlushBegin, ThreadType, Busy, Thread, DeviceError
  <2> QED BY <1>8, <2>1, <2>2
<1>10. ASSUME NEW t \in Thread, DeInit(t)
       PROVE  /\ \A u \in DeviceError : at'[u] \in Busy => mState' = "ERROR"
              /\ mState' = "DEINIT" \/ Deinit' => Empty'
  <2>1. /\ t \in DeviceError /\ at[t] = "deinit" /\ at' = [at EXCEPT ![t] = "idle"]
        /\ UNCHANGED <<waiting, buffers>> /\ Waiting' = Waiting
    BY <1>10 DEF DeInit, requestVars, Waiting
  <2>2. ASSUME NEW u \in DeviceError PROVE at'[u] \notin Busy
    BY <1>0, <2>1 DEF LockInv, ThreadType, Busy, Thread
  <2> QED BY <1>2, <2>1, <2>2 DEF Busy
<1>11. CASE ThermalShutdown \/ DaemonDied
  <2>1. faults' = [faults EXCEPT !.errors = @ + 1] /\ mState' = "ERROR"
        /\ UNCHANGED <<waiting, buffers>> /\ Waiting' = Waiting
    BY <1>11 DEF ThermalShutdown, DaemonDied, CountError, requestVars, Waiting
  <2>2. faults.errors = 0 BY <1>0, <1>1, <2>1 DEF Faults, OneError
  <2>3. \A t \in DeviceError : at'[t] \in {"idle", "check"}
    BY <1>0, <1>11, <2>2 DEF LockInv, ThermalShutdown, DaemonDied, ThreadType, Thread,
       DeviceError
  <2> QED BY <2>1, <2>3 DEF Busy
<1>12. CASE RestartInitialized \/ Reconfigure
  <2>1. at["recovery"] \in {"restart", "configure"}
    BY <1>12 DEF RestartInitialized, Reconfigure
  <2>2. lock = "recovery" BY <2>1 DEF LockInv, Recovering
  <2>3. at["flushError"] = "idle" /\ at["requestError"] = "idle"
    BY <2>2 DEF LockInv
  <2>4. ~(faults.errors >= 2)
    BY <1>0, <1>2 DEF Faults, OneError
  <2>5. at["thermal"] = "idle" BY <2>1, <2>4 DEF LockInv
  <2>6. \A t \in DeviceError : at'[t] = "idle"
    BY <1>0, <1>12, <2>3, <2>5 DEF RestartInitialized, Reconfigure, ThreadType, Thread,
       DeviceError
  <2>7. mState' # "DEINIT" BY <1>12 DEF RestartInitialized, Reconfigure
  <2> QED BY <2>6, <2>7 DEF Busy
<1>13. CASE RestartFailed
  <2>1. mState' = "ERROR" /\ UNCHANGED <<waiting, buffers>> /\ Waiting' = Waiting
    BY <1>13 DEF RestartFailed, requestVars, Waiting
  <2>2. \A t \in DeviceError : at'[t] = at[t]
    BY <1>0, <1>13 DEF RestartFailed, ThreadType, Thread, DeviceError
  <2> QED BY <1>2, <2>1, <2>2
<1> QED BY <1>4, <1>5, <1>6, <1>7, <1>9, <1>10, <1>11, <1>12, <1>13 DEF CaptureNext

-----------------------------------------------------------------------------
(* A configured camera without requests.                                    *)
LEMMA CaptureInitially == CaptureInit => CaptureInv
<1> SUFFICES ASSUME CaptureInit PROVE CaptureInv OBVIOUS
<1> USE DEF CaptureInit
<1>1. DOMAIN waiting = {} /\ DOMAIN requests = {} /\ Waiting = {}
  BY DEF Waiting
<1>2. CaptureTypeOK
  <2>1. /\ MaxRequests \in Nat /\ 0 \in 0..LiveMod - 1
    BY CaptureAssumption
  <2>2. requests \in Seq(Kinds) /\ Len(requests) <= MaxRequests
    BY <2>1
  <2>3. Untold \in [shutter : Nat, final : Nat, failed : Nat, input : Nat,
                    partial : Nat]
    BY DEF Untold
  <2>4. /\ told \in [FrameNumber -> [shutter : Nat, final : Nat, failed : Nat,
                                     input : Nat, partial : Nat]]
        /\ back \in [FrameNumber -> [OutStreams -> Nat]]
    BY <2>3
  <2>5. waiting \in [DOMAIN waiting -> [partial : Nat, urgent : BOOLEAN,
                                        cached : SUBSET OutStreams]]
    BY <1>1
  <2> QED BY <1>1, <2>1, <2>2, <2>4, <2>5 DEF CaptureTypeOK, NothingDue, Thread
<1>3. LockInv
  BY DEF LockInv, Thread, DeviceError, Busy, Recovering
<1>4. ListInv
  BY <1>1 DEF ListInv, Known, Kept, Expecting, Counted, Flushed, NothingDue, Thread
<1>5. BackInv /\ ToldInv
  BY <1>1 DEF BackInv, ToldInv, Told, Untold
<1>6. LiveInv BY <1>1, FS_EmptySet DEF LiveInv
<1>7. ErrorInv BY DEF ErrorInv, DeviceError, Busy, Thread
<1> QED BY <1>2, <1>3, <1>4, <1>5, <1>6, <1>7 DEF CaptureInv, DataInv

(* Every step keeps the invariant.                                          *)
LEMMA CaptureStep ==
  CaptureInv /\ [CaptureNext]_captureVars => CaptureInv'
<1> SUFFICES ASSUME CaptureInv, [CaptureNext]_captureVars PROVE CaptureInv'
  OBVIOUS
<1>1. CASE CaptureNext
  <2>1. CaptureTypeOK /\ LockInv /\ DataInv /\ ~faults.outOfList
    BY <1>1 DEF CaptureInv, CaptureNext
  <2>2. CaptureTypeOK' /\ LockInv' BY <1>1, <2>1, TypeStep, LockStep
  <2>3. AllLists /\ LiveInv /\ ErrorInv BY <2>1 DEF DataInv, AllLists
  <2>4. ASSUME ~faults'.outOfList PROVE AllLists' /\ LiveInv' /\ ErrorInv'
    BY <1>1, <2>1, <2>2, <2>3, <2>4, ListsStep, LiveStep, ErrorStep
  <2> QED BY <2>2, <2>4 DEF CaptureInv, DataInv, AllLists
<1>2. CASE UNCHANGED captureVars
  <2>1. /\ UNCHANGED <<mState, requests, waiting, buffers, live, mFlush, channels, due>>
        /\ UNCHANGED <<lock, at, told, back, faults>> /\ Waiting' = Waiting
    BY <1>2 DEF captureVars, requestVars, threadVars, answerVars, Waiting
  <2>2. CaptureTypeOK' BY <2>1 DEF CaptureInv, CaptureTypeOK
  <2>3. LockInv' BY <2>1 DEF CaptureInv, LockInv
  <2>4. ListInv => ListInv'
    BY <2>1 DEF ListInv, Known, Kept, Expecting, Counted, OnTime, HasInput, Flushed
  <2>5. BackInv => BackInv' BY <2>1 DEF BackInv
  <2>6. ToldInv => ToldInv' BY <2>1 DEF ToldInv, Told, Input, HasInput
  <2>7. (LiveInv => LiveInv') /\ (ErrorInv => ErrorInv')
    BY <2>1 DEF LiveInv, ErrorInv
  <2> QED BY <2>1, <2>2, <2>3, <2>4, <2>5, <2>6, <2>7 DEF CaptureInv, DataInv
<1> QED BY <1>1, <1>2

(* CaptureInv is an invariant of processCaptureRequest, captureResultCb,    *)
(* flush, the device errors and the recovery.                               *)
THEOREM CaptureInvariant == CaptureSpec => []CaptureInv
BY CaptureInitially, CaptureStep, PTL DEF CaptureSpec

(* The lists of the capture requests and the threads' positions keep their  *)
(* types.                                                                   *)
THEOREM CaptureTypeCorrect == CaptureSpec => []CaptureTypeOK
<1>1. CaptureInv => CaptureTypeOK BY DEF CaptureInv
<1> QED BY <1>1, CaptureInvariant, PTL

(* handleBufferWithLock, handleMetadataWithLock and flush return every      *)
(* buffer of a request to the framework exactly once, and the map of        *)
(* pending buffers holds it until then.                                     *)
THEOREM CaptureBuffers == CaptureSpec => []BuffersBalanced
<1>1. CaptureInv => BuffersBalanced
  <2> SUFFICES ASSUME CaptureInv, ~faults.outOfList
               PROVE  /\ \A n \in DOMAIN requests, s \in OutStreams :
                           back[n][s] = IF s \in requests[n].out \ Unreturned(n)
                                          THEN 1 ELSE 0
                      /\ \A b \in due.bufs : b[2] \in Unreturned(b[1])
    BY DEF BuffersBalanced
  <2>1. DOMAIN requests \subseteq FrameNumber
    <3>1. requests \in Seq(Kinds) /\ Len(requests) \in Nat /\ Len(requests) <= MaxRequests
      BY DEF CaptureInv, CaptureTypeOK
    <3> QED BY <3>1, CaptureAssumption DEF FrameNumber
  <2>2. Kept /\ BackInv /\ DueType
    BY TypeParts DEF CaptureInv, DataInv, ListInv
  <2>3. \A n \in DOMAIN requests, s \in OutStreams :
          back[n][s] = IF s \in requests[n].out \ Unreturned(n) THEN 1 ELSE 0
    BY <2>1, <2>2 DEF BackInv, Unreturned
  <2>4. ASSUME NEW b \in due.bufs PROVE b[2] \in Unreturned(b[1])
    <3>1. b \in FrameNumber \X OutStreams /\ b \in buffers BY <2>2 DEF DueType, Kept
    <3>2. b[2] \in OutStreams /\ b = <<b[1], b[2]>> BY <3>1
    <3> QED BY <3>1, <3>2 DEF Unreturned
  <2> QED BY <2>3, <2>4
<1> QED BY <1>1, CaptureInvariant, PTL

(* A capture request ends once, by its last partial result or by an error   *)
(* from notifyErrorForPendingRequests, with its input buffer.               *)
THEOREM CaptureOutcome == CaptureSpec => []OneOutcome
<1>1. CaptureInv => OneOutcome
  <2> SUFFICES ASSUME CaptureInv, ~faults.outOfList, NEW n \in DOMAIN requests
               PROVE  LET ended == IF IsPending(n) THEN 0 ELSE 1 IN
                        /\ told[n].final + told[n].failed = ended
                        /\ told[n].input = ended * Input(n)
                        /\ told[n].final = 1 => told[n].partial = PARTIAL_RESULT_COUNT
    BY DEF OneOutcome
  <2>1. n \in FrameNumber
    <3>1. requests \in Seq(Kinds) /\ Len(requests) \in Nat /\ Len(requests) <= MaxRequests
      BY DEF CaptureInv, CaptureTypeOK
    <3> QED BY <3>1, CaptureAssumption DEF FrameNumber
  <2>2. Told(n) BY <2>1 DEF CaptureInv, DataInv, ToldInv
  <2> QED BY <2>2, InputType DEF Told, IsPending
<1> QED BY <1>1, CaptureInvariant, PTL

(* mPendingLiveRequest is the number of requests that wait, and never       *)
(* wraps.                                                                   *)
THEOREM CaptureLive == CaptureSpec => []LiveCount
<1>1. CaptureInv => LiveCount
  BY DEF CaptureInv, DataInv, LiveInv, LiveCount
<1> QED BY <1>1, CaptureInvariant, PTL

(* handleCameraDeviceError shuts the camera down with every request         *)
(* answered and every buffer returned.                                      *)
THEOREM CaptureErrors == CaptureSpec => []ErrorAnswersAll
<1>1. CaptureInv => ErrorAnswersAll
  BY DEF CaptureInv, DataInv, ErrorInv, ErrorAnswersAll
<1> QED BY <1>1, CaptureInvariant, PTL
=============================================================================
