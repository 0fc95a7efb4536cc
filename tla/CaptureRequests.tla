-------------------------- MODULE CaptureRequests --------------------------
(***************************************************************************)
(* The capture requests of the camera HAL 3: QCamera3HardwareInterface in   *)
(* camera/QCamera2/HAL3/QCamera3HWI.cpp.                                    *)
(*                                                                         *)
(* The framework hands in requests, each for a buffer of some streams and  *)
(* possibly with an input buffer to reprocess.  They wait in                *)
(* mPendingRequestsList for their metadata and in mPendingBuffersMap for    *)
(* their buffers; both come by callbacks of the channels, in the order of   *)
(* the frames for metadata and in any order otherwise.  A flush, of the     *)
(* client, of a device error or of the recovery after the camera daemon     *)
(* died, answers all requests with errors.  Handlers run under mMutex and  *)
(* are one step each; a flush gives the mutex up while it stops channels.  *)
(*                                                                         *)
(* One camera, no batch mode, no internally added streams, no frame drops: *)
(* README, "Not modelled".                                                 *)
(***************************************************************************)
EXTENDS Naturals, Sequences, FiniteSets, SequencesExt, FiniteSetsExt, Functions

CONSTANTS
  OutStreams,   \* the configured streams
  Kinds,        \* the requests explored: [input, out], out a set of streams
  MaxRequests,  \* requests of a behaviour
  MaxErrors,    \* daemon deaths and thermal shutdowns of a behaviour
  MaxFailures,  \* requests a channel refuses, flushes and restarts that fail
  LiveMod       \* 2^32, the modulus of mPendingLiveRequest

ASSUME CaptureAssumption ==
  /\ Kinds \subseteq [input : BOOLEAN, out : (SUBSET OutStreams) \ {{}}]
  /\ MaxRequests \in Nat /\ MaxErrors \in Nat /\ MaxFailures \in Nat
  /\ LiveMod \in Nat /\ LiveMod > MaxRequests

VARIABLES
  mState,
  requests,  \* the requests taken: frame number n is the n-th
  waiting,   \* mPendingRequestsList, a function on the frames it holds
  buffers,   \* mPendingBuffersMap: frames with a stream's buffer not returned
  live,      \* mPendingLiveRequest
  mFlush,
  channels,  \* do they run, and are they to be restarted (mStreamOnPending)
  due,       \* what the channels will still call back with
  lock,      \* who holds mRecoveryLock
  at,        \* where each thread is
  told,      \* what the framework has got for each frame
  back,      \* how often each buffer of a frame was returned
  faults     \* errors and failures so far, m_bRecoveryDone, and whether the
             \* code has left the list

requestVars == <<requests, waiting, buffers, live>>
threadVars == <<lock, at>>
answerVars == <<told, back>>
captureVars == <<mState, requestVars, mFlush, channels, due, threadVars,
                 answerVars, faults>>

(* Who flushes: the device operation, the deferred recovery, or one of the  *)
(* callers of handleCameraDeviceError.                                      *)
DeviceError == {"flushError", "requestError", "thermal"}

Thread == {"flush", "recovery"} \cup DeviceError

FrameNumber == 1..MaxRequests

PARTIAL_RESULT_COUNT == 2

Untold == [shutter |-> 0, final |-> 0, failed |-> 0, input |-> 0, partial |-> 0]

CaptureTypeOK ==
  /\ mState \in {"INITIALIZED", "CONFIGURED", "STARTED", "ERROR", "DEINIT"}
  /\ requests \in Seq(Kinds) /\ Len(requests) <= MaxRequests
  /\ DOMAIN waiting \subseteq FrameNumber
  /\ waiting \in [DOMAIN waiting -> [partial : Nat, urgent : BOOLEAN,
                                     cached : SUBSET OutStreams]]
  /\ buffers \subseteq FrameNumber \X OutStreams
  /\ live \in 0..LiveMod - 1
  /\ mFlush \in BOOLEAN
  /\ channels \in [run : BOOLEAN, restart : BOOLEAN]
  /\ due \in [meta : SUBSET FrameNumber, urgent : SUBSET FrameNumber,
              jobs : SUBSET FrameNumber,
              bufs : SUBSET (FrameNumber \X OutStreams)]
  /\ lock \in {"free"} \cup Thread
  /\ at \in [Thread -> {"idle", "check", "wait", "enter", "stopping", "deinit",
                        "restart", "configure", "failed"}]
  /\ told \in [FrameNumber -> [shutter : Nat, final : Nat, failed : Nat,
                               input : Nat, partial : Nat]]
  /\ back \in [FrameNumber -> [OutStreams -> Nat]]
  /\ faults \in [errors : Nat, failures : Nat, recovered : BOOLEAN,
                 outOfList : BOOLEAN]

NothingDue == [meta |-> {}, urgent |-> {}, jobs |-> {}, bufs |-> {}]

CaptureInit ==
  /\ mState = "CONFIGURED"
  /\ requests = << >> /\ waiting = << >> /\ buffers = {}
  /\ live = 0 /\ mFlush = FALSE
  /\ channels = [run |-> FALSE, restart |-> FALSE]
  /\ due = NothingDue
  /\ lock = "free" /\ at = [t \in Thread |-> "idle"]
  /\ told = [n \in FrameNumber |-> Untold]
  /\ back = [n \in FrameNumber |-> [s \in OutStreams |-> 0]]
  /\ faults = [errors |-> 0, failures |-> 0, recovered |-> FALSE,
               outOfList |-> FALSE]

-----------------------------------------------------------------------------
HasInput(n) == requests[n].input

Input(n) == IF HasInput(n) THEN 1 ELSE 0

(* With one output, the sensor has no part in a reprocess request. *)
ReprocOnly(n) == HasInput(n) /\ Cardinality(requests[n].out) = 1

Waiting == DOMAIN waiting

IsPending(n) == n \in Waiting

CountDown(k) == (live + LiveMod - k) % LiveMod

(* PendingBuffersMap::removeBuf *)
RemoveBufs(gone) == buffers' = buffers \ gone

ReturnBufs(gone) ==
  back' = [n \in FrameNumber |-> [s \in OutStreams |->
             back[n][s] + IF <<n, s>> \in gone THEN 1 ELSE 0]]

AnswerReproc_NotCounted(n) ==
  /\ told' = [told EXCEPT ![n].shutter = @ + 1, ![n].final = @ + 1,
                          ![n].input = @ + 1,
                          ![n].partial = PARTIAL_RESULT_COUNT]
  /\ waiting' = Restrict(waiting, Waiting \ {n})
  /\ UNCHANGED live

(* The shutter, the settings as result and the input buffer: all that a     *)
(* reprocess request gets besides its output.                               *)
AnswerReproc(n) ==
  /\ told' = [told EXCEPT ![n].shutter = @ + 1, ![n].final = @ + 1,
                          ![n].input = @ + 1,
                          ![n].partial = PARTIAL_RESULT_COUNT]
  /\ waiting' = Restrict(waiting, Waiting \ {n})
  /\ live' = CountDown(1)

-----------------------------------------------------------------------------
(* processCaptureRequest.  The first request starts the channels, one after *)
(* a flush restarts them.  While a flush is on, the request is recorded for *)
(* the flush to answer; otherwise it goes to the channels, and if one of   *)
(* them refuses it the request fails but stays recorded.                    *)

StartChannels ==
  LET start == mState = "CONFIGURED" \/ channels.restart IN
    channels' = [run |-> channels.run \/ start, restart |-> FALSE]

Record(r) ==
  LET n == Len(requests) + 1 IN
    /\ requests' = Append(requests, r)
    /\ waiting' = [m \in Waiting \cup {n} |->
                     IF m = n THEN [partial |-> 0, urgent |-> FALSE, cached |-> {}]
                     ELSE waiting[m]]
    /\ buffers' = buffers \cup ({n} \X r.out)

SendToChannels(r) ==
  LET n == Len(requests) + 1
      sensor == IF r.input /\ Cardinality(r.out) = 1 THEN {} ELSE {n} IN
    due' = [meta |-> due.meta \cup sensor, urgent |-> due.urgent \cup sensor,
            jobs |-> IF r.input THEN due.jobs \cup {n} ELSE due.jobs,
            bufs |-> due.bufs \cup ({n} \X r.out)]

ProcessCaptureRequest(r) ==
  /\ at["requestError"] = "idle" /\ lock = "free"
  /\ mState \in {"CONFIGURED", "STARTED"} /\ Len(requests) < MaxRequests
  /\ Record(r) /\ StartChannels
  /\ LET base == IF mState = "CONFIGURED" THEN 0 ELSE live IN
       \/ /\ mFlush
          /\ live' = base /\ UNCHANGED <<mState, due, faults>>
       \/ /\ ~mFlush
          /\ SendToChannels(r)
          /\ live' = (base + 1) % LiveMod /\ mState' = "STARTED"
          /\ UNCHANGED faults
       \/ /\ ~mFlush /\ faults.failures < MaxFailures
          /\ faults' = [faults EXCEPT !.failures = @ + 1]
          /\ live' = base /\ UNCHANGED <<mState, due>>
  /\ UNCHANGED <<mFlush, threadVars, answerVars>>

(* In the ERROR state the request is refused after the device error was     *)
(* handled, and mRecoveryLock is never given back.                          *)
RequestInError ==
  /\ at["requestError"] = "idle" /\ lock = "free" /\ mState = "ERROR"
  /\ lock' = "requestError" /\ at' = [at EXCEPT !["requestError"] = "check"]
  /\ UNCHANGED <<mState, requestVars, mFlush, channels, due, answerVars,
                 faults>>

-----------------------------------------------------------------------------
(* captureResultCb *)

(* handleMetadataWithLock with the early part of the metadata of a frame. *)
HandleUrgent ==
  \E n \in due.urgent :
    /\ due' = [due EXCEPT !.urgent = {m \in @ : m > n}]
    /\ IF mState \in {"ERROR", "DEINIT"} \/ ~IsPending(n)
            \/ waiting[n].urgent
         THEN UNCHANGED <<waiting, told>>
         ELSE /\ waiting' = [waiting EXCEPT ![n].partial = @ + 1,
                                            ![n].urgent = TRUE]
              /\ told' = [told EXCEPT ![n].partial = waiting[n].partial + 1]
    /\ UNCHANGED <<mState, requests, buffers, live, mFlush, channels,
                   threadVars, back, faults>>

FinalPartial_UrgentMissed(p) == p.partial + 1

(* A missed urgent part is counted with the last. *)
FinalPartial(p) == p.partial + IF p.urgent THEN 1 ELSE 2

(* ... with that of a whole frame: all live requests up to it end, those    *)
(* before it with an error instead of their metadata, and a reprocess       *)
(* request before it is left to the other handlers.                         *)
EndsWith(m, n) == m = n \/ (m < n /\ ~HasInput(m))

Metadata(n) ==
  LET ended == {m \in Waiting : EndsWith(m, n)}
      gone == {b \in ended \X OutStreams : b[2] \in waiting[b[1]].cached} IN
    /\ waiting' = [m \in Waiting \ ended |->
         IF m < n THEN [waiting[m] EXCEPT !.partial = @ + 1] ELSE waiting[m]]
    /\ live' = CountDown(Cardinality(ended))
    /\ told' = [m \in FrameNumber |->
         IF m \notin ended THEN told[m]
         ELSE [told[m] EXCEPT !.shutter = IF m = n THEN @ + 1 ELSE @,
                              !.final = @ + 1, !.input = @ + Input(m),
                              !.partial = FinalPartial(waiting[m])]]
    /\ RemoveBufs(gone)
    /\ ReturnBufs(gone)

HandleMetadataWithLock ==
  \E n \in due.meta :
    /\ due' = [due EXCEPT !.meta = {m \in @ : m > n},
                          !.urgent = {m \in @ : m > n}]
    /\ IF mState \in {"ERROR", "DEINIT"}
         THEN UNCHANGED <<waiting, live, told, buffers, back>>
         ELSE Metadata(n)
    /\ UNCHANGED <<mState, requests, mFlush, channels, threadVars, faults>>

(* handleInputBufferWithLock: a job is done, its buffer comes next. *)
HandleInputBufferWithLock ==
  \E n \in due.jobs :
    /\ due' = [due EXCEPT !.jobs = @ \ {n}]
    /\ IF IsPending(n) /\ ReprocOnly(n)
         THEN AnswerReproc(n)
         ELSE UNCHANGED <<told, waiting, live>>
    /\ UNCHANGED <<mState, requests, buffers, mFlush, channels, threadVars,
                   back, faults>>

(* handleBufferWithLock keeps the buffer of a live request for its metadata *)
(* and returns any other.  The buffer of a failed job comes on its own.     *)
KeepBuffer(n, s) ==
  /\ waiting' = [waiting EXCEPT ![n].cached = @ \cup {s}]
  /\ UNCHANGED <<buffers, live, answerVars>>

ReturnBuffer_StaysListed(n, s) ==
  /\ IF IsPending(n) THEN AnswerReproc(n) ELSE UNCHANGED <<told, waiting, live>>
  /\ UNCHANGED buffers
  /\ ReturnBufs({<<n, s>>})

ReturnBuffer(n, s) ==
  /\ IF IsPending(n) THEN AnswerReproc(n) ELSE UNCHANGED <<told, waiting, live>>
  /\ RemoveBufs({<<n, s>>})
  /\ ReturnBufs({<<n, s>>})

HandleBufferWithLock ==
  \E b \in due.bufs :
    /\ due' = [due EXCEPT !.bufs = @ \ {b}, !.jobs = @ \ {b[1]}]
    /\ CASE mState \in {"ERROR", "DEINIT"} ->
              UNCHANGED <<waiting, buffers, live, answerVars>>
         [] mState \notin {"ERROR", "DEINIT"} /\ IsPending(b[1])
              /\ ~HasInput(b[1]) -> KeepBuffer(b[1], b[2])
         [] OTHER -> ReturnBuffer(b[1], b[2])
    /\ UNCHANGED <<mState, requests, mFlush, channels, threadVars, faults>>

-----------------------------------------------------------------------------
(* notifyErrorForPendingRequests.  Frames older than the oldest request get *)
(* their buffers back.  Each of the others is told an error of the request, *)
(* and with it the first request of the list is ended, whichever it is: the *)
(* one with the same rank in the list as the frame has among the others.    *)

Later == {n \in {b[1] : b \in buffers} : \E m \in Waiting : m <= n}

Rank(n, frames) == Cardinality({m \in frames : m <= n})

EndedFor(n) == CHOOSE m \in Waiting : Rank(m, Waiting) = Rank(n, Later)

NotifyErrors ==
  LET k == Cardinality(Later) IN
    IF k > Cardinality(Waiting)
      THEN /\ faults' = [faults EXCEPT !.outOfList = TRUE]
           /\ UNCHANGED <<waiting, buffers, answerVars>>
      ELSE /\ told' = [n \in FrameNumber |->
                IF n \notin Later THEN told[n]
                ELSE [told[n] EXCEPT !.failed = @ + 1,
                                     !.input = @ + Input(EndedFor(n))]]
           /\ waiting' = Restrict(waiting, {m \in Waiting : Rank(m, Waiting) > k})
           /\ buffers' = {}
           /\ ReturnBufs(buffers)
           /\ UNCHANGED faults

(* The flush operation of the device takes mRecoveryLock for all it does. *)
Unlock(t) == IF lock = t THEN "free" ELSE lock

ClientFlush ==
  /\ \A t \in {"flush", "flushError"} : at[t] = "idle"
  /\ lock = "free" /\ mState \in {"STARTED", "ERROR"}
  /\ LET t == IF mState = "STARTED" THEN "flush" ELSE "flushError" IN
       /\ lock' = t
       /\ at' = [at EXCEPT ![t] = IF t = "flush" THEN "enter" ELSE "check"]
  /\ UNCHANGED <<mState, requestVars, mFlush, channels, due, answerVars,
                 faults>>

HandleCameraDeviceError_NoFlush(t) ==
  /\ at[t] = "check"
  /\ \A u \in DeviceError : at[u] \notin {"enter", "stopping", "deinit"}
  /\ IF mState = "ERROR"
       THEN at' = [at EXCEPT ![t] = "deinit"] /\ UNCHANGED lock
       ELSE /\ at' = [at EXCEPT ![t] = "idle"]
            /\ lock' = IF t = "flushError" THEN Unlock(t) ELSE lock
  /\ UNCHANGED <<mState, requestVars, mFlush, channels, due, answerVars,
                 faults>>

(* handleCameraDeviceError handles an error once, under mFlushLock. *)
HandleCameraDeviceError(t) ==
  /\ at[t] = "check"
  /\ \A u \in DeviceError : at[u] \notin {"enter", "stopping", "deinit"}
  /\ IF mState = "ERROR"
       THEN at' = [at EXCEPT ![t] = "enter"] /\ UNCHANGED lock
       ELSE /\ at' = [at EXCEPT ![t] = "idle"]
            /\ lock' = IF t = "flushError" THEN Unlock(t) ELSE lock
  /\ UNCHANGED <<mState, requestVars, mFlush, channels, due, answerVars,
                 faults>>

(* flush sets mFlush, under mMultiFrameReqLock, which it keeps... *)
FlushBegin(t) ==
  /\ at[t] = "enter" /\ \A u \in Thread : at[u] # "stopping"
  /\ mFlush' = TRUE /\ at' = [at EXCEPT ![t] = "stopping"]
  /\ UNCHANGED <<mState, requestVars, channels, due, lock, answerVars, faults>>

(* Where a flush returns to, whether it succeeded or not. *)
Return(t, ok) ==
  /\ at' = [at EXCEPT ![t] = CASE t = "flush" -> "idle"
                               [] t = "recovery" -> IF ok THEN "restart"
                                                    ELSE "failed"
                               [] OTHER -> "deinit"]
  /\ lock' = IF t = "flush" THEN Unlock(t) ELSE lock

(* ... and answers everything once the channels are stopped. *)
FlushEnd(t) ==
  /\ at[t] = "stopping"
  /\ due' = NothingDue
  /\ live' = 0
  /\ NotifyErrors
  /\ mFlush' = FALSE
  /\ channels' = [run |-> FALSE,
                  restart |-> IF mState = "STARTED" THEN t = "flush"
                              ELSE channels.restart]
  /\ Return(t, TRUE)
  /\ UNCHANGED <<mState, requests>>

(* When the bundle cannot be reset it returns with mFlush still set. *)
FlushFails(t) ==
  /\ at[t] = "stopping" /\ faults.failures < MaxFailures
  /\ faults' = [faults EXCEPT !.failures = @ + 1]
  /\ due' = NothingDue /\ channels' = [channels EXCEPT !.run = FALSE]
  /\ Return(t, FALSE)
  /\ UNCHANGED <<mState, requestVars, mFlush, answerVars>>

DeInit(t) ==
  /\ t \in DeviceError /\ at[t] = "deinit"
  /\ mState' = "DEINIT" /\ at' = [at EXCEPT ![t] = "idle"]
  /\ lock' = IF t = "flushError" THEN Unlock(t) ELSE lock
  /\ UNCHANGED <<requestVars, mFlush, channels, due, answerVars, faults>>

-----------------------------------------------------------------------------
CountError ==
  /\ faults.errors < MaxErrors
  /\ faults' = [faults EXCEPT !.errors = @ + 1]
  /\ mState' = "ERROR"

ThermalShutdown ==
  /\ at["thermal"] = "idle" /\ CountError
  /\ at' = [at EXCEPT !["thermal"] = "check"]
  /\ UNCHANGED <<requestVars, mFlush, channels, due, lock, answerVars>>

(* camEvtHandle; the recovery is done once, in a thread of its own. *)
DaemonDied ==
  /\ at["recovery"] = "idle" /\ CountError
  /\ at' = [at EXCEPT !["recovery"] = IF faults.recovered THEN @ ELSE "wait"]
  /\ UNCHANGED <<requestVars, mFlush, channels, due, lock, answerVars>>

StartRecovery ==
  /\ at["recovery"] = "wait" /\ lock = "free"
  /\ lock' = "recovery" /\ at' = [at EXCEPT !["recovery"] = "enter"]
  /\ faults' = [faults EXCEPT !.recovered = TRUE]
  /\ UNCHANGED <<mState, requestVars, mFlush, channels, due, answerVars>>

(* doInternalRestart writes mState without mMutex... *)
RestartInitialized ==
  /\ at["recovery"] = "restart"
  /\ mState' = "INITIALIZED" /\ at' = [at EXCEPT !["recovery"] = "configure"]
  /\ UNCHANGED <<requestVars, mFlush, channels, due, lock, answerVars, faults>>

(* ... and configures the streams, which forgets all requests. *)
Reconfigure ==
  /\ at["recovery"] = "configure"
  /\ waiting' = << >> /\ buffers' = {}
  /\ mState' = "CONFIGURED"
  /\ channels' = [run |-> FALSE, restart |-> FALSE]
  /\ at' = [at EXCEPT !["recovery"] = "idle"] /\ lock' = Unlock("recovery")
  /\ UNCHANGED <<requests, live, mFlush, due, answerVars, faults>>

RestartFailed ==
  /\ \/ at["recovery"] = "failed" /\ UNCHANGED faults
     \/ /\ at["recovery"] = "configure" /\ faults.failures < MaxFailures
        /\ faults' = [faults EXCEPT !.failures = @ + 1]
  /\ mState' = "ERROR"
  /\ at' = [at EXCEPT !["recovery"] = "idle"] /\ lock' = Unlock("recovery")
  /\ UNCHANGED <<requestVars, mFlush, channels, due, answerVars>>

CaptureNext ==
  /\ ~faults.outOfList
  /\ \/ \E r \in Kinds : ProcessCaptureRequest(r)
     \/ RequestInError
     \/ HandleUrgent \/ HandleMetadataWithLock
     \/ HandleInputBufferWithLock \/ HandleBufferWithLock
     \/ ClientFlush
     \/ \E t \in Thread : \/ HandleCameraDeviceError(t) \/ FlushBegin(t)
                          \/ FlushEnd(t) \/ FlushFails(t) \/ DeInit(t)
     \/ ThermalShutdown \/ DaemonDied \/ StartRecovery
     \/ RestartInitialized \/ Reconfigure \/ RestartFailed

CaptureSpec == CaptureInit /\ [][CaptureNext]_captureVars

-----------------------------------------------------------------------------
Unreturned(n) == {s \in OutStreams : <<n, s>> \in buffers}

(* Every buffer of a request is returned to the framework exactly once,     *)
(* whether with a result, on its own or by a flush, and is on the map of    *)
(* pending buffers until then; what the channels hold is on the map.        *)
BuffersBalanced ==
  ~faults.outOfList =>
    /\ \A n \in DOMAIN requests, s \in OutStreams :
         back[n][s] = IF s \in requests[n].out \ Unreturned(n) THEN 1 ELSE 0
    /\ \A b \in due.bufs : b[2] \in Unreturned(b[1])

(* A request ends once, by its last partial result or by an error of the    *)
(* request, its input buffer comes back with that, and it waits until then. *)
OneOutcome ==
  ~faults.outOfList =>
    \A n \in DOMAIN requests :
      LET ended == IF IsPending(n) THEN 0 ELSE 1 IN
        /\ told[n].final + told[n].failed = ended
        /\ told[n].input = ended * Input(n)
        /\ told[n].final = 1 => told[n].partial = PARTIAL_RESULT_COUNT

(* What processCaptureRequest blocks on counts the requests that wait: it   *)
(* neither sticks above the limit nor passes below zero.                    *)
LiveCount ==
  faults.failures = 0 /\ ~faults.outOfList /\ ~mFlush
    => live = Cardinality(Waiting)

(* After one device error, however it was noticed, a camera that is shut    *)
(* down has answered every request: none was taken meanwhile.               *)
ErrorAnswersAll ==
  /\ faults.errors <= 1 /\ faults.failures = 0 /\ ~faults.outOfList
  /\ mState = "DEINIT"
  => Waiting = {} /\ buffers = {}

(* notifyErrorForPendingRequests keeps to the list of waiting requests: the *)
(* buffers whose metadata is already sent get an error of the buffer.       *)
FlushKeepsToList == ~faults.outOfList
=============================================================================
