---------------------------- MODULE DeferredWork ----------------------------
(***************************************************************************)
(* The deferred work thread of the camera HAL 1 (mDeferredWorkThread of     *)
(* QCamera2HardwareInterface): slow jobs of opening the camera, starting    *)
(* the preview and taking a ZSL picture, queued by the thread that serves   *)
(* the calls and run one after the other.                                   *)
(*                                                                         *)
(* A job has one of MAX_ONGOING_JOBS slots from the call that queues it to  *)
(* its success; a failed job keeps its slot, with the error, for those who  *)
(* ask for its outcome.  Who needs the result of a job waits for it by the  *)
(* member that holds its id, which the next job of its kind overwrites.     *)
(*                                                                         *)
(* One picture channel, ZSL pictures, one camera; README, "Not modelled".   *)
(***************************************************************************)
EXTENDS Naturals, Sequences, FiniteSets

CONSTANTS
  MaxJobs,        \* MAX_ONGOING_JOBS
  MaxPreviews,    \* previews of a behaviour
  MaxPictures,    \* pictures of a behaviour
  MaxFaults       \* jobs that fail of themselves

ASSUME DeferredAssumption ==
  /\ MaxJobs \in Nat \ {0} /\ MaxPreviews \in Nat /\ MaxPictures \in Nat
  /\ MaxFaults \in Nat

VARIABLES
  ongoing,  \* mDefOngoingJobs: the ids with status 0
  failed,   \* mDefOngoingJobs: the ids with an error
  queue,    \* mCmdQueue
  nextId,   \* mNextJobId
  job,      \* mParamAllocJob and the like, and the task ids of the streams
  worker,   \* deferredWorkRoutine, and job_status
  at,       \* where the thread is that serves the calls
  channel,  \* the ZSL channel that exists, 0 for none
  waiting,  \* the callback threads that wait for a job
  bound,    \* previews, pictures and faults so far
  broken    \* the jobs that did fail

defVars == <<ongoing, failed, queue, nextId, job, worker, at, channel,
             waiting, bound, broken>>

(* The jobs: the cases of DeferredWorkCmd, CMD_DEF_GENERIC being a stream's *)
(* task that allocates or maps its buffers.                                *)
StreamTask == {"alloc", "map"}

PictureJob == {"pprocStart", "jpegSession"}

Kind == {"paramAlloc", "metadataAlloc", "paramInit", "pprocInit"}
          \cup StreamTask \cup PictureJob

(* The job whose failure fails a job before it does anything. *)
Needs == [k \in Kind |-> CASE k \in {"metadataAlloc", "paramInit"} -> {"paramAlloc"}
                           [] k = "pprocStart" -> {"pprocInit"}
                           [] k = "jpegSession" -> {"pprocStart"}
                           [] OTHER -> {}]

Id == 0..(3 + 3 * MaxPreviews + 2 * MaxPictures)

(* A job, and the channel in its arguments or of its stream. *)
Work == [kind : Kind, id : Id, channel : 0..MaxPreviews]

NoWork == [kind |-> "map", id |-> 0, channel |-> 0]

Place ==
  {"closed", "open", "openCamera", "openFailed", "openFailed2", "ended",
   "stopped", "paramWait", "ready", "mapTask", "allocWait", "stopStreams",
   "mapWait", "delete", "preview", "jpegJob", "request", "refused", "refused2",
   "queueFull", "picture", "cancel", "cancel2", "stopPostproc", "exit", "close",
   "close2", "deinit"}

DeferredTypeOK ==
  /\ ongoing \subseteq Id /\ failed \subseteq Id /\ broken \subseteq Id
  /\ queue \in Seq(Work) /\ nextId \in Nat /\ job \in [Kind -> Id]
  /\ worker \in [at : {"idle", "run", "done", "exit"}, work : Work,
                 status : BOOLEAN]
  /\ at \in Place /\ channel \in 0..MaxPreviews
  /\ waiting \subseteq {"frame", "reprocessed"}
  /\ bound \in [previews : 0..MaxPreviews, pictures : 0..MaxPictures,
                faults : 0..MaxFaults]

DeferredInit ==
  /\ ongoing = {} /\ failed = {} /\ broken = {} /\ queue = << >>
  /\ nextId = 1 /\ job = [k \in Kind |-> 0]
  /\ worker = [at |-> "idle", work |-> NoWork, status |-> FALSE]
  /\ at = "closed" /\ channel = 0 /\ waiting = {}
  /\ bound = [previews |-> 0, pictures |-> 0, faults |-> 0]

-----------------------------------------------------------------------------
(* The slots.                                                              *)

SlotFree == Cardinality(ongoing \cup failed) < MaxJobs

(* The caller keeps the id, 0 when no slot is free, and goes on.  No other  *)
(* thread asks for the job before the member is written.                   *)
QueueDeferredWork(k, ch, from, queued, full) ==
  /\ at = from /\ UNCHANGED <<failed, worker, waiting, broken>>
  /\ IF SlotFree
     THEN /\ queue' = Append(queue, [kind |-> k, id |-> nextId, channel |-> ch])
          /\ ongoing' = ongoing \cup {nextId} /\ nextId' = nextId + 1
          /\ job' = [job EXCEPT ![k] = nextId] /\ at' = queued
     ELSE /\ job' = [job EXCEPT ![k] = 0] /\ at' = full
          /\ UNCHANGED <<queue, ongoing, nextId>>

CheckDeferredWork(k) == job[k] # 0 /\ job[k] \in ongoing

GetDefJobStatus(k) == job[k] \in failed

(* One leaves the wait when no slot has the id any more, or its job failed. *)
WaitDeferredWork(k, from, done, error) ==
  /\ at = from /\ ~CheckDeferredWork(k)
  /\ at' = IF GetDefJobStatus(k) THEN error ELSE done
  /\ UNCHANGED <<ongoing, failed, queue, nextId, job, worker, channel, waiting,
                 bound, broken>>

Go(from, to) ==
  /\ at = from /\ at' = to
  /\ UNCHANGED <<ongoing, failed, queue, nextId, job, worker, channel, waiting,
                 bound, broken>>

-----------------------------------------------------------------------------
(* The thread.                                                             *)

(* Mutant: a job whose prerequisite failed is forgotten. *)
NextJob_ForgetsRefused ==
  LET w == Head(queue)
      refused == \E k \in Needs[w.kind] : GetDefJobStatus(k)
  IN  /\ worker.at = "idle" /\ at # "exit" /\ queue # << >>
      /\ queue' = Tail(queue)
      /\ worker' = [at |-> IF refused THEN "idle" ELSE "run", work |-> w,
                    status |-> refused \/ worker.status]
      /\ broken' = IF refused THEN broken \cup {w.id} ELSE broken
      /\ UNCHANGED <<ongoing, failed, nextId, job, at, channel, waiting, bound>>

(* The next job, unless the thread is told to stop; one whose prerequisite  *)
(* failed is over at once.                                                 *)
NextJob ==
  LET w == Head(queue)
      refused == \E k \in Needs[w.kind] : GetDefJobStatus(k)
  IN  /\ worker.at = "idle" /\ at # "exit" /\ queue # << >>
      /\ queue' = Tail(queue)
      /\ worker' = [at |-> IF refused THEN "done" ELSE "run", work |-> w,
                    status |-> refused \/ worker.status]
      /\ broken' = IF refused THEN broken \cup {w.id} ELSE broken
      /\ UNCHANGED <<ongoing, failed, nextId, job, at, channel, waiting, bound>>

(* job_status is written by the tasks and by failures only; a metadata      *)
(* allocation that fails does not even write it.                           *)
JobStatus(k, fails) ==
  IF k \in StreamTask THEN fails
  ELSE worker.status \/ (fails /\ k # "metadataAlloc")

RunJob ==
  \E fails \in BOOLEAN :
    /\ worker.at = "run"
    /\ fails => bound.faults < MaxFaults
    /\ worker' = [worker EXCEPT !.at = "done",
                                !.status = JobStatus(worker.work.kind, fails)]
    /\ broken' = IF fails THEN broken \cup {worker.work.id} ELSE broken
    /\ bound' = [bound EXCEPT !.faults = IF fails THEN @ + 1 ELSE @]
    /\ UNCHANGED <<ongoing, failed, queue, nextId, job, at, channel, waiting>>

DequeueDeferredWork ==
  /\ worker.at = "done"
  /\ ongoing' = ongoing \ {worker.work.id}
  /\ failed' = IF worker.status THEN failed \cup {worker.work.id} ELSE failed
  /\ worker' = [worker EXCEPT !.at = "idle", !.work = NoWork]
  /\ UNCHANGED <<queue, nextId, job, at, channel, waiting, bound, broken>>

-----------------------------------------------------------------------------
(* Opening and closing the camera.                                         *)

Keep == UNCHANGED <<channel, bound>>

OpenCamera ==
  \/ QueueDeferredWork("paramAlloc", 0, "closed", "open", "ended") /\ Keep
  \/ QueueDeferredWork("metadataAlloc", 0, "open", "openCamera", "openFailed2") /\ Keep
  \/ Go("open", "openCamera")    \* the capabilities are not known yet
  \/ QueueDeferredWork("paramInit", 0, "openCamera", "stopped", "openFailed") /\ Keep
  \/ Go("openCamera", "openFailed")
  \/ WaitDeferredWork("metadataAlloc", "openFailed", "openFailed2", "openFailed2")
  \/ WaitDeferredWork("paramAlloc", "openFailed2", "ended", "ended")

(* Every call that needs the parameters waits for them first. *)
ParamInitWait ==
  \/ Go("stopped", "paramWait")
  \/ WaitDeferredWork("paramInit", "paramWait", "ready", "stopped")

(* The destructor: a command that overtakes the jobs ends the thread after  *)
(* the one it is at, and the camera is closed without it.                   *)
CloseCamera ==
  \/ Go("stopped", "exit")
  \/ Go("ready", "exit")
  \/ /\ at = "exit" /\ worker.at = "idle" /\ at' = "close"
     /\ worker' = [worker EXCEPT !.at = "exit"]
     /\ UNCHANGED <<ongoing, failed, queue, nextId, job, channel, waiting, bound, broken>>
  \/ WaitDeferredWork("pprocStart", "close", "close2", "close2")
  \/ WaitDeferredWork("jpegSession", "close2", "deinit", "deinit")
  \/ Go("deinit", "ended")

-----------------------------------------------------------------------------
(* The preview.                                                            *)

(* A new channel, its stream's two tasks, and a start that needs the first; *)
(* then the postprocessor's job, unless one was queued before.             *)
StartPreviewJobs ==
  \/ /\ bound.previews < MaxPreviews
     /\ channel' = bound.previews + 1
     /\ bound' = [bound EXCEPT !.previews = @ + 1]
     /\ QueueDeferredWork("alloc", bound.previews + 1, "ready", "mapTask", "stopStreams")
  \/ QueueDeferredWork("map", channel, "mapTask", "allocWait", "stopStreams") /\ Keep
  \/ /\ job["pprocInit"] # 0 \/ GetDefJobStatus("alloc")
     /\ WaitDeferredWork("alloc", "allocWait", "preview", "stopStreams")
  \/ /\ job["pprocInit"] = 0
     /\ ~GetDefJobStatus("alloc") /\ ~CheckDeferredWork("alloc")
     /\ QueueDeferredWork("pprocInit", 0, "allocWait", "preview", "stopStreams") /\ Keep

(* Also a start that failed: the streams wait for their tasks and the frame *)
(* callback is joined before the channel goes.                             *)
StopPreviewJobs ==
  \/ Go("preview", "stopStreams")
  \/ WaitDeferredWork("alloc", "stopStreams", "mapWait", "mapWait")
  \/ WaitDeferredWork("map", "mapWait", "delete", "delete")
  \/ /\ at = "delete" /\ "frame" \notin waiting /\ at' = "ready" /\ channel' = 0
     /\ UNCHANGED <<ongoing, failed, queue, nextId, job, worker, waiting, bound, broken>>

-----------------------------------------------------------------------------
(* A ZSL picture.                                                          *)

(* The request is taken, or refused, or the advanced capture fails before:  *)
(* then nobody waits for the jobs.                                         *)
TakePictureJobs ==
  \/ /\ bound.pictures < MaxPictures
     /\ bound' = [bound EXCEPT !.pictures = @ + 1] /\ UNCHANGED channel
     /\ QueueDeferredWork("pprocStart", channel, "preview", "jpegJob", "preview")
  \/ QueueDeferredWork("jpegSession", channel, "jpegJob", "request", "queueFull") /\ Keep
  \/ WaitDeferredWork("pprocStart", "queueFull", "stopPostproc", "stopPostproc")
  \/ \E outcome \in {"picture", "refused", "preview"} : Go("request", outcome)
  \/ WaitDeferredWork("pprocStart", "refused", "refused2", "preview")
  \/ WaitDeferredWork("jpegSession", "refused2", "stopPostproc", "preview")

(* Mutant: the jpeg session is not waited for. *)
CancelPictureJobs_StartOnly ==
  \/ Go("picture", "cancel")
  \/ WaitDeferredWork("pprocStart", "cancel", "stopPostproc", "stopPostproc")

CancelPictureJobs ==
  \/ Go("picture", "cancel")
  \/ WaitDeferredWork("pprocStart", "cancel", "cancel2", "cancel2")
  \/ WaitDeferredWork("jpegSession", "cancel2", "stopPostproc", "stopPostproc")

(* m_postprocessor.stop joins the callback of the reprocess channel. *)
PostprocStop ==
  "reprocessed" \notin waiting /\ Go("stopPostproc", "preview")

(* A frame that comes later finds the postprocessor's queues closed. *)
Capturing == {"picture", "cancel", "cancel2", "stopPostproc"}

(* The callbacks of the ZSL channel and of the reprocess channel. *)
ZslCallback ==
  \/ /\ at = "picture" /\ waiting' = waiting \cup {"frame"}
     /\ UNCHANGED <<ongoing, failed, queue, nextId, job, worker, at, channel, bound, broken>>
  \/ /\ "frame" \in waiting /\ ~CheckDeferredWork("pprocStart")
     /\ waiting' = (waiting \ {"frame"}) \cup
          IF GetDefJobStatus("pprocStart") \/ at \notin Capturing
          THEN {} ELSE {"reprocessed"}
     /\ UNCHANGED <<ongoing, failed, queue, nextId, job, worker, at, channel, bound, broken>>

PostprocCallback ==
  /\ "reprocessed" \in waiting /\ ~CheckDeferredWork("jpegSession")
  /\ waiting' = waiting \ {"reprocessed"}
  /\ UNCHANGED <<ongoing, failed, queue, nextId, job, worker, at, channel, bound, broken>>
-----------------------------------------------------------------------------
ServeJobs ==
  \/ OpenCamera \/ ParamInitWait \/ CloseCamera \/ StartPreviewJobs \/ StopPreviewJobs
  \/ TakePictureJobs \/ CancelPictureJobs \/ PostprocStop

DeferredNext ==
  \/ NextJob \/ RunJob \/ DequeueDeferredWork
  \/ ServeJobs \/ ZslCallback \/ PostprocCallback

(* Where a call waits for a job, or for a callback to end. *)
WaitPlace ==
  {"openFailed", "openFailed2", "paramWait", "allocWait", "stopStreams",
   "mapWait", "delete", "refused", "refused2", "queueFull", "cancel",
   "cancel2", "stopPostproc", "exit"}

(* In a picture frames go on coming. *)
JobAwaited == at \in WaitPlace \/ (waiting # {} /\ at # "picture")

(* The threads run and their jobs end; the application need not call. *)
DeferredFairness ==
  /\ WF_defVars(NextJob) /\ WF_defVars(RunJob) /\ WF_defVars(DequeueDeferredWork)
  /\ WF_defVars(at \in WaitPlace /\ ServeJobs)
  /\ WF_defVars("frame" \in waiting /\ ZslCallback) /\ WF_defVars(PostprocCallback)

DeferredSpec == DeferredInit /\ [][DeferredNext]_defVars /\ DeferredFairness

-----------------------------------------------------------------------------
(* Properties.                                                             *)

(* What a job uses is not taken from under it: a stream lives until its two *)
(* tasks are over, whichever of them failed or found no slot, and the       *)
(* postprocessor is never stopped while a job that starts it or opens its   *)
(* jpeg session is queued or running.  The calls wait for the jobs, by ids  *)
(* that later jobs overwrite; a picture that failed waited for none.        *)
JobsDrained ==
  /\ worker.at = "run" /\ worker.work.kind \in StreamTask
       => worker.work.channel = channel
  /\ at = "stopPostproc"
       => /\ worker.at # "run" \/ worker.work.kind \notin PictureJob
          /\ \A i \in 1..Len(queue) : queue[i].kind \notin PictureJob

(* Every wait of a call and of a callback thread for a job ends, whatever   *)
(* jobs fail and however few slots are left.  Only the destructor's waits,  *)
(* for jobs that it may have dropped, are no part of it: README, "Hazards   *)
(* seen and not followed".                                                 *)
WaitsEnd == JobAwaited ~> ~JobAwaited

(* "Error code when job was not sucessful": a job is recorded as failed     *)
(* only if it did fail.                                                    *)
OnlyFailuresFail == failed \subseteq broken
=============================================================================
