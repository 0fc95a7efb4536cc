--------------------------- MODULE StreamBuffers ---------------------------
(***************************************************************************)
(* The buffers of one camera stream: stack/mm-camera-interface/src/        *)
(* mm_camera_stream.c and the data poll thread of mm_camera_thread.c.       *)
(*                                                                         *)
(* The kernel fills the buffers that are queued to it.  The poll thread    *)
(* dequeues a filled one and gives a reference to each consumer: the       *)
(* bundle of its channel, the stream's own command thread, which calls the *)
(* application back, and a channel of another camera the stream is linked  *)
(* to.  Each consumer drops its reference with mm_stream_buf_done, in its  *)
(* own thread, and whoever drops the last one queues the buffer again.     *)
(* The stream's fd is polled only while the kernel has buffers of it, so   *)
(* that the poll thread takes it off with the last dequeued buffer and the  *)
(* thread that queues the first one puts it back.                          *)
(*                                                                         *)
(* Each critical section of buf_lock is one step, and so is each ioctl.    *)
(* buf_status.in_kernel is left out: only stream-on's wait for a mapping   *)
(* and the batch mode, which is not modelled, read it.                     *)
(***************************************************************************)
EXTENDS Naturals, Sequences, FiniteSets

CONSTANTS
  Buffers,      \* the stream's buffers
  Modes,        \* the set-ups explored, each [bundled, hasCb, linkable]; the
                \* streams that others link are a preview channel's, not bundled
  MaxSessions,  \* how many times the stream is started
  MaxFails      \* how many QBUF and STREAMON ioctls fail

ASSUME StreamAssumption ==
  /\ Buffers # {} /\ IsFiniteSet(Buffers)
  /\ Modes \subseteq [bundled : BOOLEAN, hasCb : BOOLEAN, linkable : BOOLEAN]
  /\ \A m \in Modes : ~(m.bundled /\ m.linkable)
  /\ MaxSessions \in Nat /\ MaxFails \in Nat

VARIABLES
  mode,      \* how the stream was configured
  sstate,    \* mm_stream_t::state
  kernel,    \* the buffers queued to the kernel
  on,        \* is the kernel streaming
  refcnt,    \* buf_status[].buf_refcnt
  queued,    \* queued_buffer_count
  linked,    \* is_linked
  entry,     \* has poll_entries[] the stream's fd and callback
  fds,       \* is the fd in the array the poll thread gives to poll()
  pipe,      \* the commands written to the poll thread's pipe
  poller,    \* where the poll thread is, and the buffer it dequeued
  cmdq,      \* cmd_thread.cmd_queue
  cmdActive, \* cmd_thread.is_active
  held,      \* the buffers each consumer has a reference of
  ret,       \* where each consumer is in mm_stream_buf_done
  ctl,       \* where the thread that starts and stops the stream is
  budget     \* sessions and failures so far

kernelVars == <<kernel, on>>
pollVars == <<entry, fds, pipe>>
cmdVars == <<cmdq, cmdActive>>
streamVars == <<mode, sstate, kernelVars, refcnt, queued, linked, pollVars,
                poller, cmdVars, held, ret, ctl, budget>>

Holder == {"chan", "link", "app", "cmd"}

Idle == [at |-> "idle"]

PollerState ==
  {Idle, [at |-> "ready"], [at |-> "dequeue"]}
    \cup [at : {"count", "refs", "bundle", "link", "cmd"}, buf : Buffers]

ReturnState ==
  {Idle} \cup [at : {"call", "drop", "count", "qbuf", "failed"}, buf : Buffers]

PipeCmd == {"async", "sync", "commit"}

StreamTypeOK ==
  /\ mode \in Modes
  /\ sstate \in {"BUFFED", "REG", "ACTIVE"}
  /\ kernel \subseteq Buffers /\ on \in BOOLEAN
  /\ refcnt \in [Buffers -> 0..255]
  /\ queued \in Nat
  /\ linked \in BOOLEAN /\ entry \in BOOLEAN /\ fds \in BOOLEAN
  /\ pipe \in Seq(PipeCmd)
  /\ poller \in PollerState
  /\ cmdq \in Seq(Buffers) /\ cmdActive \in BOOLEAN
  /\ held \in [Holder -> SUBSET Buffers]
  /\ ret \in [Holder -> ReturnState]
  /\ ctl \in {"idle", "registered", "starting", "failing", "removing", "commit",
              "committing", "off", "release"}
  /\ budget \in [sessions : Nat, fails : Nat]

StreamInit ==
  /\ mode \in Modes
  /\ sstate = "BUFFED"
  /\ kernel = {} /\ on = FALSE
  /\ refcnt = [b \in Buffers |-> 0]
  /\ queued = 0
  /\ linked = FALSE /\ entry = FALSE /\ fds = FALSE
  /\ pipe = << >> /\ poller = Idle
  /\ cmdq = << >> /\ cmdActive = FALSE
  /\ held = [h \in Holder |-> {}]
  /\ ret = [h \in Holder |-> Idle]
  /\ ctl = "idle"
  /\ budget = [sessions |-> 0, fails |-> 0]

-----------------------------------------------------------------------------
(* mm_camera_poll_thread_add_poll_fd and _del_poll_fd change the entry and  *)
(* write a command; the poll thread copies the entry when it reads it.      *)

AddPollFd == entry' = TRUE /\ pipe' = Append(pipe, "async")

(* A second removal finds the handle cleared and writes nothing. *)
DelPollFd(call) ==
  /\ entry' = FALSE
  /\ pipe' = IF entry THEN Append(pipe, call) ELSE pipe

Count(on1) ==
  /\ queued' = queued + 1
  /\ IF queued + 1 = on1 THEN AddPollFd ELSE UNCHANGED <<entry, pipe>>

Uncount ==
  /\ queued' = queued - 1
  /\ IF queued - 1 = 0 THEN DelPollFd("async") ELSE UNCHANGED <<entry, pipe>>

(* The poll thread reads the pipe first.  A synchronous command ends the    *)
(* wait of the only caller that waits: the channel lock admits one.         *)
PollPipe ==
  /\ poller = Idle /\ pipe # << >>
  /\ pipe' = Tail(pipe)
  /\ fds' = IF Head(pipe) = "commit" THEN fds ELSE entry
  /\ ctl' = CASE Head(pipe) = "sync" /\ ctl = "removing" -> "commit"
              [] Head(pipe) = "sync" /\ ctl = "failing" -> "release"
              [] Head(pipe) = "commit" -> "off"
              [] OTHER -> ctl
  /\ UNCHANGED <<mode, sstate, kernelVars, refcnt, queued, linked, entry,
                 poller, cmdVars, held, ret, budget>>

(* poll() returns because of the stream: the pipe was empty then. *)
PollReturns ==
  /\ poller = Idle /\ pipe = << >> /\ fds /\ on /\ kernel # {}
  /\ poller' = [at |-> "ready"]
  /\ UNCHANGED <<mode, sstate, kernelVars, refcnt, queued, linked, pollVars,
                 cmdVars, held, ret, ctl, budget>>

(* The callback is called unless the entry was removed since, and returns   *)
(* at once when the stream is not active.                                   *)
Notify ==
  /\ poller.at = "ready"
  /\ poller' = IF entry /\ sstate = "ACTIVE" THEN [at |-> "dequeue"] ELSE Idle
  /\ UNCHANGED <<mode, sstate, kernelVars, refcnt, queued, linked, pollVars,
                 cmdVars, held, ret, ctl, budget>>

(* VIDIOC_DQBUF, which fails when the kernel has no filled buffer (any more). *)
Dequeue ==
  /\ poller.at = "dequeue"
  /\ IF kernel = {} \/ ~on
       THEN poller' = Idle /\ UNCHANGED kernel
       ELSE \E b \in kernel :
              /\ kernel' = kernel \ {b}
              /\ poller' = [at |-> "count", buf |-> b]
  /\ UNCHANGED <<mode, sstate, on, refcnt, queued, linked, pollVars,
                 cmdVars, held, ret, ctl, budget>>

CountDequeued ==
  /\ poller.at = "count"
  /\ Uncount
  /\ poller' = [poller EXCEPT !.at = "refs"]
  /\ UNCHANGED <<mode, sstate, kernelVars, refcnt, linked, fds, cmdVars, held,
                 ret, ctl, budget>>

(* One reference for the bundle and one for the callbacks. *)
Ref(p) == IF p THEN 1 ELSE 0

TakeRefs ==
  /\ poller.at = "refs"
  /\ refcnt' = [refcnt EXCEPT ![poller.buf] =
                  (@ + Ref(mode.bundled) + Ref(mode.hasCb)) % 256]
  /\ poller' = [poller EXCEPT !.at = "bundle"]
  /\ UNCHANGED <<mode, sstate, kernelVars, queued, linked, pollVars, cmdVars,
                 held, ret, ctl, budget>>

Give(h, b) == held' = [held EXCEPT ![h] = @ \cup {b}]

NotifyChannel ==
  /\ poller.at = "bundle"
  /\ IF mode.bundled THEN Give("chan", poller.buf) ELSE UNCHANGED held
  /\ poller' = [poller EXCEPT !.at = "link"]
  /\ UNCHANGED <<mode, sstate, kernelVars, refcnt, queued, linked, pollVars,
                 cmdVars, ret, ctl, budget>>

NotifyLinked_NoReference ==
  /\ poller.at = "link"
  /\ IF linked
       THEN Give("link", poller.buf)
       ELSE UNCHANGED held
  /\ poller' = [poller EXCEPT !.at = "cmd"]
  /\ UNCHANGED <<mode, sstate, kernelVars, refcnt, queued, linked, pollVars,
                 cmdVars, ret, ctl, budget>>

(* The reference of the linked channel is taken here, under buf_lock. *)
NotifyLinked ==
  /\ poller.at = "link"
  /\ IF linked
       THEN /\ refcnt' = [refcnt EXCEPT ![poller.buf] = (@ + 1) % 256]
            /\ Give("link", poller.buf)
       ELSE UNCHANGED <<refcnt, held>>
  /\ poller' = [poller EXCEPT !.at = "cmd"]
  /\ UNCHANGED <<mode, sstate, kernelVars, queued, linked, pollVars, cmdVars,
                 ret, ctl, budget>>

(* Under cmd_lock, which the stopping thread holds while it joins the       *)
(* command thread.                                                          *)
NotifyCmd ==
  /\ poller.at = "cmd" /\ ctl # "release"
  /\ cmdq' = IF mode.hasCb /\ cmdActive THEN Append(cmdq, poller.buf) ELSE cmdq
  /\ poller' = Idle
  /\ UNCHANGED <<mode, sstate, kernelVars, refcnt, queued, linked, pollVars,
                 cmdActive, held, ret, ctl, budget>>

-----------------------------------------------------------------------------
(* mm_stream_dispatch_app_data in the stream's command thread: the          *)
(* application gets a reference of its own, then the thread's is dropped.   *)

DispatchAppData ==
  /\ ret["cmd"] = Idle /\ cmdq # << >>
  /\ LET b == Head(cmdq) IN
       /\ cmdq' = Tail(cmdq)
       /\ refcnt' = [refcnt EXCEPT ![b] = (@ + 1) % 256]
       /\ held' = [held EXCEPT !["app"] = @ \cup {b}, !["cmd"] = {b}]
       /\ ret' = [ret EXCEPT !["cmd"] = [at |-> "call", buf |-> b]]
  /\ UNCHANGED <<mode, sstate, kernelVars, queued, linked, pollVars, poller,
                 cmdActive, ctl, budget>>

(* A consumer returns a buffer: its MM_STREAM_EVT_QBUF is refused unless    *)
(* the stream is active.  The command thread calls buf_done directly.       *)
(* Consumers return buffers in a data callback (mm_camera.c:567), so not    *)
(* while the stream is being started.                                       *)
QbufEvent(h) ==
  /\ h # "cmd" /\ ret[h] = Idle
  /\ ctl \notin {"registered", "starting"}
  /\ \E b \in held[h] :
       IF sstate = "ACTIVE"
         THEN /\ ret' = [ret EXCEPT ![h] = [at |-> "call", buf |-> b]]
              /\ UNCHANGED held
         ELSE /\ held' = [held EXCEPT ![h] = @ \ {b}]
              /\ UNCHANGED ret
  /\ UNCHANGED <<mode, sstate, kernelVars, refcnt, queued, linked, pollVars,
                 poller, cmdVars, ctl, budget>>

Done(h) == ret' = [ret EXCEPT ![h] = Idle]

Goto(h, l) == ret' = [ret EXCEPT ![h].at = l]

(* mm_stream_buf_done tests the count in one critical section... *)
TestRefs(h) ==
  /\ ret[h].at = "call"
  /\ IF refcnt[ret[h].buf] = 0
       THEN Done(h) /\ held' = [held EXCEPT ![h] = @ \ {ret[h].buf}]
       ELSE Goto(h, "drop") /\ UNCHANGED held
  /\ UNCHANGED <<mode, sstate, kernelVars, refcnt, queued, linked, pollVars,
                 poller, cmdVars, ctl, budget>>

DropRef_LastButOne(h) ==
  /\ ret[h].at = "drop"
  /\ LET b == ret[h].buf
         left == (refcnt[b] + 255) % 256 IN
       /\ refcnt' = [refcnt EXCEPT ![b] = left]
       /\ held' = [held EXCEPT ![h] = @ \ {b}]
       /\ IF left <= 1 THEN Goto(h, "count") ELSE Done(h)
  /\ UNCHANGED <<mode, sstate, kernelVars, queued, linked, pollVars, poller,
                 cmdVars, ctl, budget>>

(* ... and drops the reference in another. *)
DropRef(h) ==
  /\ ret[h].at = "drop"
  /\ LET b == ret[h].buf
         left == (refcnt[b] + 255) % 256 IN
       /\ refcnt' = [refcnt EXCEPT ![b] = left]
       /\ held' = [held EXCEPT ![h] = @ \ {b}]
       /\ IF left = 0 THEN Goto(h, "count") ELSE Done(h)
  /\ UNCHANGED <<mode, sstate, kernelVars, queued, linked, pollVars, poller,
                 cmdVars, ctl, budget>>

CountQueued_Second(h) ==
  /\ ret[h].at = "count"
  /\ Count(2)
  /\ Goto(h, "qbuf")
  /\ UNCHANGED <<mode, sstate, kernelVars, refcnt, linked, fds, poller,
                 cmdVars, held, ctl, budget>>

(* mm_stream_qbuf: the buffer is counted, and the fd polled if it is the    *)
(* first, before it is queued.                                              *)
CountQueued(h) ==
  /\ ret[h].at = "count"
  /\ Count(1)
  /\ Goto(h, "qbuf")
  /\ UNCHANGED <<mode, sstate, kernelVars, refcnt, linked, fds, poller,
                 cmdVars, held, ctl, budget>>

QbufIoctl(h) ==
  /\ ret[h].at = "qbuf"
  /\ \/ /\ kernel' = kernel \cup {ret[h].buf}
        /\ Done(h) /\ UNCHANGED budget
     \/ /\ budget.fails < MaxFails
        /\ budget' = [budget EXCEPT !.fails = @ + 1]
        /\ Goto(h, "failed") /\ UNCHANGED kernel
  /\ UNCHANGED <<mode, sstate, on, refcnt, queued, linked, pollVars, poller,
                 cmdVars, held, ctl>>

UncountFailed(h) ==
  /\ ret[h].at = "failed"
  /\ Uncount
  /\ Done(h)
  /\ UNCHANGED <<mode, sstate, kernelVars, refcnt, linked, fds, poller,
                 cmdVars, held, ctl, budget>>

Consumer(h) ==
  QbufEvent(h) \/ TestRefs(h) \/ DropRef(h) \/ CountQueued(h) \/ QbufIoctl(h)
    \/ UncountFailed(h)

-----------------------------------------------------------------------------
(* Another channel links the stream and lets go of it, under buf_lock. *)

Link ==
  /\ mode.linkable /\ linked' = ~linked
  /\ UNCHANGED <<mode, sstate, kernelVars, refcnt, queued, pollVars, poller,
                 cmdVars, held, ret, ctl, budget>>

(* mm_camera_qbuf assumes that every buffer is back before the stream is    *)
(* fully stopped (mm_camera.c:567), so none is out when it starts again.    *)
Quiet ==
  /\ poller = Idle /\ cmdq = << >>
  /\ \A h \in Holder : held[h] = {} /\ ret[h] = Idle

(* mm_stream_reg_buf queues the buffers the upper layer does not keep. *)
RegBuf ==
  /\ ctl = "idle" /\ sstate = "BUFFED" /\ Quiet
  /\ budget.sessions < MaxSessions
  /\ budget' = [budget EXCEPT !.sessions = @ + 1]
  /\ \E initial \in SUBSET Buffers :
       /\ kernel' = initial
       /\ queued' = Cardinality(initial)
       /\ refcnt' = [b \in Buffers |-> IF b \in initial THEN 0 ELSE 1]
       /\ held' = [held EXCEPT !["app"] = Buffers \ initial]
       /\ IF initial # {} THEN AddPollFd ELSE UNCHANGED <<entry, pipe>>
  /\ sstate' = "REG" /\ ctl' = "registered"
  /\ UNCHANGED <<mode, on, linked, fds, poller, cmdVars, ret>>

(* MM_STREAM_EVT_START launches the command thread and is active before     *)
(* the kernel streams.                                                      *)
Start ==
  /\ ctl = "registered"
  /\ sstate' = "ACTIVE" /\ cmdActive' = mode.hasCb
  /\ ctl' = "starting"
  /\ UNCHANGED <<mode, kernelVars, refcnt, queued, linked, pollVars, poller,
                 cmdq, held, ret, budget>>

StreamOn ==
  /\ ctl = "starting"
  /\ on' = TRUE /\ ctl' = "idle"
  /\ UNCHANGED <<mode, sstate, kernel, refcnt, queued, linked, pollVars,
                 poller, cmdVars, held, ret, budget>>

(* A failed stream-on removes the fd and waits for the poll thread. *)
StreamOnFails ==
  /\ ctl = "starting" /\ budget.fails < MaxFails
  /\ budget' = [budget EXCEPT !.fails = @ + 1]
  /\ DelPollFd("sync")
  /\ ctl' = IF entry THEN "failing" ELSE "release"
  /\ UNCHANGED <<mode, sstate, kernelVars, refcnt, queued, linked, fds, poller,
                 cmdVars, held, ret>>

(* MM_STREAM_EVT_STOP: the fd is removed, and an empty commit makes sure    *)
(* the poll thread has read all that was written before...                  *)
RemoveFd ==
  /\ ctl = "idle" /\ sstate = "ACTIVE"
  /\ DelPollFd("sync")
  /\ ctl' = IF entry THEN "removing" ELSE "commit"
  /\ UNCHANGED <<mode, sstate, kernelVars, refcnt, queued, linked, fds, poller,
                 cmdVars, held, ret, budget>>

CommitUpdates ==
  /\ ctl = "commit"
  /\ pipe' = Append(pipe, "commit") /\ ctl' = "committing"
  /\ UNCHANGED <<mode, sstate, kernelVars, refcnt, queued, linked, entry, fds,
                 poller, cmdVars, held, ret, budget>>

(* ... the kernel gives all buffers up... *)
StreamOff ==
  /\ ctl = "off"
  /\ kernel' = {} /\ on' = FALSE /\ ctl' = "release"
  /\ UNCHANGED <<mode, sstate, refcnt, queued, linked, pollVars, poller,
                 cmdVars, held, ret, budget>>

(* ... and the command thread ends with its queue empty. *)
ReleaseCmdThread ==
  /\ ctl = "release" /\ cmdq = << >> /\ ret["cmd"] = Idle
  /\ cmdActive' = FALSE /\ sstate' = "REG" /\ ctl' = "idle"
  /\ UNCHANGED <<mode, kernelVars, refcnt, queued, linked, pollVars, poller,
                 cmdq, held, ret, budget>>

UnregBuf ==
  /\ ctl = "idle" /\ sstate = "REG"
  /\ kernel' = {} /\ refcnt' = [b \in Buffers |-> 0]
  /\ sstate' = "BUFFED"
  /\ UNCHANGED <<mode, on, queued, linked, pollVars, poller, cmdVars, held,
                 ret, ctl, budget>>

StreamNext ==
  \/ PollPipe \/ PollReturns \/ Notify \/ Dequeue \/ CountDequeued
  \/ TakeRefs \/ NotifyChannel \/ NotifyLinked \/ NotifyCmd
  \/ DispatchAppData
  \/ \E h \in Holder : Consumer(h)
  \/ Link \/ RegBuf \/ Start \/ StreamOn \/ StreamOnFails
  \/ RemoveFd \/ CommitUpdates \/ StreamOff \/ ReleaseCmdThread \/ UnregBuf

StreamSpec == StreamInit /\ [][StreamNext]_streamVars

-----------------------------------------------------------------------------
Running == sstate = "ACTIVE" /\ on /\ ctl = "idle"

Owes(p, b) == IF p THEN b ELSE 0

(* The references the poll thread has counted and not handed over yet. *)
InPoller(b) ==
  IF "buf" \notin DOMAIN poller \/ poller.at \notin {"bundle", "link", "cmd"}
       \/ poller.buf # b
    THEN 0
    ELSE Ref(mode.hasCb) + Ref(mode.bundled /\ poller.at = "bundle")

Refs(b) ==
  Ref(b \in held["chan"]) + Ref(b \in held["link"]) + Ref(b \in held["app"])
    + Ref(b \in held["cmd"]) + Ref(\E i \in 1..Len(cmdq) : cmdq[i] = b) + InPoller(b)

(* While the stream runs, the count of a buffer is the number of consumers  *)
(* that still have it, whatever they do at the same time: nobody's return   *)
(* is refused, and no reference is left that nobody drops.                  *)
RefcountExact == Running => \A b \in Buffers : refcnt[b] = Refs(b)

(* A buffer the kernel may write to is in nobody's hands. *)
KernelExclusive == Running => \A b \in kernel : Refs(b) = 0

(* While the kernel has buffers, their fd is polled or about to be: the     *)
(* stream cannot stall with frames nobody waits for.                        *)
NoFrameUnpolled ==
  Running /\ kernel # {} => entry /\ (fds \/ pipe # << >>)
=============================================================================
