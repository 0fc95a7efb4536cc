---------------------------- MODULE PictureJobs ----------------------------
(***************************************************************************)
(* The postprocessor of a picture channel of the camera HAL 3:             *)
(* QCamera3PostProcessor, with the data thread it runs behind a             *)
(* QCameraCmdThread, and the sessions of the jpeg encoder.                  *)
(*                                                                         *)
(* A request leaves its jpeg settings, the output buffer among them, in a   *)
(* queue.  Its image comes from the sensor, paired with the metadata of the *)
(* frame, or is an input buffer of the framework; it is reprocessed and     *)
(* encoded, one image at a time, and the encoder's callback answers the     *)
(* request.  Every thread that leaves work for the data thread sends it a   *)
(* command after.  A flush stops the data thread, by a command that         *)
(* overtakes the others, and answers what is left with errors.              *)
(*                                                                         *)
(* One camera and at most one reprocess channel, no bracketed pictures, no  *)
(* cancelled frames, no ZSL queue: README, "Not modelled".                  *)
(***************************************************************************)
EXTENDS Naturals, Sequences, FiniteSets, SequencesExt, FiniteSetsExt

CONSTANTS
  MaxPictures,  \* requests of a behaviour
  MaxMissing,   \* pictures that fail in reprocessing or in the encoder
  MaxStops,     \* flushes of a behaviour
  Mixed         \* do requests of several kinds overlap

ASSUME PictureAssumption ==
  /\ MaxPictures \in Nat /\ MaxMissing \in Nat /\ MaxStops \in Nat
  /\ Mixed \in BOOLEAN

VARIABLES
  pictures,  \* the kind of each request; frame number n is the n-th
  camera,    \* live requests whose frame, whose metadata is still to come
  reproc,    \* the reprocess channel, if there is one, and its callback thread
  q,         \* the postprocessor's queues
  cmds,      \* the commands of the data thread
  synced,    \* sync_sem
  data,      \* the data thread
  session,   \* mJpegSessionId and mFreeJpegSessions
  encoder,   \* the jpeg session of each frame, and the job its callback holds
  hal,       \* what the thread of the framework does, mPostProcStarted
  answers,   \* how often the framework got the buffer of each request
  image,     \* the frame whose picture is in that buffer, 0 for none
  missing    \* the requests that failed, and those a flush answered

pictureVars == <<pictures, camera, reproc, q, cmds, synced, data, session,
                 encoder, hal, answers, image, missing>>

(* A live picture, an input buffer to reprocess and one that is already.    *)
PictureKind == {"live", "input", "done"}

Picture == 1..MaxPictures

(* The image of frame is for the buffer in the settings of request buf. *)
Job == [frame : Picture, buf : Picture]

NoJob == [frame |-> 0, buf |-> 0]

ClosedQueues ==
  [settings |-> << >>, frames |-> {}, metas |-> {}, pairs |-> << >>,
   input |-> << >>, reprocessing |-> << >>, jpeg |-> << >>,
   encoding |-> << >>, open |-> FALSE]

PictureTypeOK ==
  /\ pictures \in Seq(PictureKind) /\ Len(pictures) <= MaxPictures
  /\ camera \in [frames : SUBSET Picture, metas : SUBSET Picture]
  /\ reproc \in [exists : BOOLEAN, work : Seq(Picture), cb : {0} \cup Picture]
  /\ q \in [settings : Seq(Picture), frames : SUBSET Picture,
            metas : SUBSET Picture, pairs : Seq(Picture), input : Seq(Picture),
            reprocessing : Seq(Job), jpeg : Seq(Job), encoding : Seq(Job),
            open : BOOLEAN]
  /\ cmds \in Seq({"start", "stop", "next"}) /\ synced \in BOOLEAN
  /\ data \in [at : {"idle", "jpeg", "encode", "free", "input", "pair", "abort",
                     "aborting", "destroy", "freeAll", "flush"},
               active : BOOLEAN, sess : {0} \cup Picture]
  /\ session \in [current : {0} \cup Picture, free : Seq(Picture)]
  /\ encoder \in [Picture -> [at : {"none", "encoding", "answer", "release"},
                              job : [frame : {0} \cup Picture,
                                     buf : {0} \cup Picture]]]
  /\ hal \in [at : {"idle", "start", "stop", "stopReproc", "notify"},
              started : BOOLEAN, stops : Nat]
  /\ answers \in [Picture -> Nat]
  /\ image \in [Picture -> {0} \cup Picture]
  /\ missing \subseteq Picture

PictureInit ==
  /\ pictures = << >>
  /\ camera = [frames |-> {}, metas |-> {}]
  /\ reproc \in {[exists |-> e, work |-> << >>, cb |-> 0] : e \in BOOLEAN}
  /\ q = [ClosedQueues EXCEPT !.open = TRUE]
  /\ cmds = << >> /\ synced = FALSE
  /\ data = [at |-> "idle", active |-> FALSE, sess |-> 0]
  /\ session = [current |-> 0, free |-> << >>]
  /\ encoder = [n \in Picture |-> [at |-> "none", job |-> NoJob]]
  /\ hal = [at |-> "idle", started |-> FALSE, stops |-> 0]
  /\ answers = [n \in Picture |-> 0]
  /\ image = [n \in Picture |-> 0]
  /\ missing = {}

-----------------------------------------------------------------------------
(* A queue that a flush has closed takes nothing. *)
Enqueue(s, x) == IF q.open THEN Append(s, x) ELSE s

SendCmd(cmd) == cmds' = Append(cmds, cmd)

HoldsMutex_WhileStopping == hal.at \in {"start", "stop", "stopReproc"}

(* mMutex outlasts a step only in processCaptureRequest, when it waits for  *)
(* START_DATA_PROC; a flush gives it up while it stops the channels.        *)
HoldsMutex == hal.at = "start"

(* The encoder's callback holds the lock of its session. *)
Busy(s) == encoder[s].at \in {"answer", "release"}

CanFail == Cardinality(missing) < MaxMissing

(* The sensor's images go to the reprocess channel if there is one. *)
Allowed(k) ==
  /\ reproc.exists \/ k = "live"
  /\ Mixed \/ \A n \in DOMAIN pictures : pictures[n] = k \/ answers[n] = 1

(* QCamera3PicChannel::request once the postprocessor runs: the settings    *)
(* are queued, and a buffer goes to the sensor or the input buffer to the   *)
(* postprocessor.  One that needs no reprocessing takes settings at once.   *)
Submit(n, k) ==
  LET settings == Append(q.settings, n) IN
    CASE k = "live" ->
           /\ q' = [q EXCEPT !.settings = settings]
           /\ camera' = [frames |-> camera.frames \cup {n},
                         metas |-> camera.metas \cup {n}]
           /\ UNCHANGED cmds
      [] k = "input" ->
           /\ q' = [q EXCEPT !.settings = settings, !.input = Append(@, n)]
           /\ SendCmd("next") /\ UNCHANGED camera
      [] k = "done" ->
           /\ q' = [q EXCEPT !.settings = Tail(settings),
                       !.jpeg = Append(@, [frame |-> n, buf |-> Head(settings)])]
           /\ SendCmd("next") /\ UNCHANGED camera

Request(k) ==
  /\ hal.at = "idle" /\ Len(pictures) < MaxPictures /\ Allowed(k)
  /\ pictures' = Append(pictures, k)
  /\ IF hal.started
       THEN Submit(Len(pictures'), k) /\ UNCHANGED hal
       ELSE /\ SendCmd("start") /\ hal' = [hal EXCEPT !.at = "start"]
            /\ UNCHANGED <<q, camera>>
  /\ UNCHANGED <<reproc, synced, data, session, encoder, answers, image, missing>>

RequestStarted ==
  /\ hal.at = "start" /\ synced
  /\ synced' = FALSE /\ hal' = [hal EXCEPT !.at = "idle", !.started = TRUE]
  /\ Submit(Len(pictures), Last(pictures))
  /\ UNCHANGED <<pictures, reproc, data, session, encoder, answers, image, missing>>

(* A flush stops the postprocessor and waits, stops the reprocess channel   *)
(* and with it its callback, and after the streams answers the rest.        *)
FlushPictures ==
  /\ hal.at = "idle" /\ pictures # << >> /\ hal.stops < MaxStops
  /\ hal' = [hal EXCEPT !.at = "stop", !.stops = @ + 1]
  /\ cmds' = <<"stop">> \o cmds
  /\ UNCHANGED <<pictures, camera, reproc, q, synced, data, session, encoder,
                 answers, image, missing>>

FlushStopped ==
  /\ hal.at = "stop" /\ synced
  /\ synced' = FALSE /\ hal' = [hal EXCEPT !.at = "stopReproc"]
  /\ UNCHANGED <<pictures, camera, reproc, q, cmds, data, session, encoder,
                 answers, image, missing>>

StopReproc ==
  /\ hal.at = "stopReproc" /\ reproc.cb = 0
  /\ reproc' = [reproc EXCEPT !.work = << >>]
  /\ hal' = [hal EXCEPT !.at = "notify"]
  /\ UNCHANGED <<pictures, camera, q, cmds, synced, data, session, encoder,
                 answers, image, missing>>

NotifyPictures ==
  /\ hal.at = "notify"
  /\ LET rest == {n \in DOMAIN pictures : answers[n] = 0} IN
       /\ answers' = [n \in Picture |-> answers[n] + IF n \in rest THEN 1 ELSE 0]
       /\ missing' = missing \cup rest
  /\ camera' = [frames |-> {}, metas |-> {}]
  /\ hal' = [hal EXCEPT !.at = "idle", !.started = FALSE]
  /\ UNCHANGED <<pictures, reproc, q, cmds, synced, data, session, encoder, image>>

-----------------------------------------------------------------------------
(* The callbacks of the picture stream and of the metadata, each in frame   *)
(* order; whichever is second makes the pair.                               *)

Pair(n) ==
  /\ q' = [q EXCEPT !.frames = @ \ {n}, !.metas = @ \ {n},
                    !.pairs = Append(@, n)]
  /\ SendCmd("next")

ProcessData ==
  /\ camera.frames # {}
  /\ LET n == Min(camera.frames) IN
       /\ camera' = [camera EXCEPT !.frames = @ \ {n}]
       /\ IF n \in q.metas THEN Pair(n)
          ELSE /\ q' = [q EXCEPT !.frames = IF q.open THEN @ \cup {n} ELSE @]
               /\ UNCHANGED cmds
  /\ UNCHANGED <<pictures, reproc, synced, data, session, encoder, hal, answers,
                 image, missing>>

ProcessPPMetadata ==
  /\ camera.metas # {} /\ ~HoldsMutex
  /\ LET n == Min(camera.metas) IN
       /\ camera' = [camera EXCEPT !.metas = @ \ {n}]
       /\ IF n \in q.frames THEN Pair(n)
          ELSE /\ q' = [q EXCEPT !.metas = IF q.open THEN @ \cup {n} ELSE @]
               /\ UNCHANGED cmds
  /\ UNCHANGED <<pictures, reproc, synced, data, session, encoder, hal, answers,
                 image, missing>>

(* The callback of the reprocess channel tells the framework that the input *)
(* is used, under mMutex, and hands the oldest job on to the encoder.       *)
ReprocOut ==
  /\ reproc.cb = 0 /\ reproc.work # << >>
  /\ reproc' = [reproc EXCEPT !.cb = Head(reproc.work), !.work = Tail(@)]
  /\ UNCHANGED <<pictures, camera, q, cmds, synced, data, session, encoder, hal,
                 answers, image, missing>>

ProcessPPData ==
  /\ reproc.cb # 0 /\ ~HoldsMutex
  /\ reproc' = [reproc EXCEPT !.cb = 0]
  /\ IF q.reprocessing = << >> THEN UNCHANGED <<q, cmds>>
     ELSE /\ q' = [q EXCEPT !.reprocessing = Tail(@),
                       !.jpeg = Enqueue(@, [frame |-> reproc.cb,
                                            buf |-> Head(q.reprocessing).buf])]
          /\ SendCmd("next")
  /\ UNCHANGED <<pictures, camera, synced, data, session, encoder, hal, answers,
                 image, missing>>

-----------------------------------------------------------------------------
(* dataProcessRoutine *)

At(place) == data.at = place

GoOn(place) == data' = [data EXCEPT !.at = place]

StartDataProc ==
  /\ At("idle") /\ cmds # << >> /\ Head(cmds) = "start" /\ cmds' = Tail(cmds)
  /\ data' = [data EXCEPT !.active = TRUE]
  /\ q' = [q EXCEPT !.open = TRUE] /\ synced' = TRUE
  /\ UNCHANGED <<pictures, camera, reproc, session, encoder, hal, answers, image,
                 missing>>

(* When it is not active, the queues it takes the first images from and     *)
(* drops them are closed or still unused.                                   *)
DoNextJob ==
  /\ At("idle") /\ cmds # << >> /\ Head(cmds) = "next" /\ cmds' = Tail(cmds)
  /\ IF data.active THEN GoOn("jpeg") ELSE UNCHANGED data
  /\ UNCHANGED <<pictures, camera, reproc, q, synced, session, encoder, hal,
                 answers, image, missing>>

(* One image at a time is encoded, in a new session. *)
TakeJpegJob ==
  /\ At("jpeg")
  /\ IF q.encoding = << >> /\ q.jpeg # << >>
       THEN /\ q' = [q EXCEPT !.jpeg = Tail(@), !.encoding = <<Head(q.jpeg)>>]
            /\ GoOn("encode")
       ELSE GoOn("input") /\ UNCHANGED q
  /\ UNCHANGED <<pictures, camera, reproc, cmds, synced, session, encoder, hal,
                 answers, image, missing>>

EncodeData ==
  /\ At("encode")
  /\ LET job == Last(q.encoding) IN
       \/ /\ encoder' = [encoder EXCEPT ![job.frame].at = "encoding"]
          /\ session' = [session EXCEPT !.current = job.frame]
          /\ UNCHANGED <<q, cmds, missing>>
       \/ /\ CanFail
          /\ q' = [q EXCEPT !.encoding = Front(@)]
          /\ missing' = missing \cup {job.buf}
          /\ SendCmd("next")
          /\ UNCHANGED <<encoder, session>>
  /\ GoOn("free")
  /\ UNCHANGED <<pictures, camera, reproc, synced, hal, answers, image>>

Destroyed(s) == encoder' = [encoder EXCEPT ![s].at = "none"]

ReleaseFreeJpegSessions_NoWait ==
  /\ data.at \in {"free", "freeAll"}
  /\ IF session.free = << >>
       THEN /\ GoOn(IF At("free") THEN "input" ELSE "flush")
            /\ UNCHANGED <<session, encoder>>
       ELSE /\ session' = [session EXCEPT !.free = Tail(@)]
            /\ UNCHANGED <<data, encoder>>
  /\ UNCHANGED <<pictures, camera, reproc, q, cmds, synced, hal, answers, image,
                 missing>>

(* To destroy a session is to wait for its callback. *)
ReleaseFreeJpegSessions ==
  /\ data.at \in {"free", "freeAll"}
  /\ IF session.free = << >>
       THEN /\ GoOn(IF At("free") THEN "input" ELSE "flush")
            /\ UNCHANGED <<session, encoder>>
       ELSE /\ ~Busy(Head(session.free))
            /\ session' = [session EXCEPT !.free = Tail(@)]
            /\ Destroyed(Head(session.free)) /\ UNCHANGED data
  /\ UNCHANGED <<pictures, camera, reproc, q, cmds, synced, hal, answers, image,
                 missing>>

(* Input buffers and pairs take the oldest settings, whatever their frame.  *)
(* rest is the queues without the image of n.                               *)
Reprocess(n, rest) ==
  \/ /\ q' = [rest EXCEPT !.settings = Tail(@),
                 !.reprocessing = Append(@, [frame |-> n, buf |-> Head(q.settings)])]
     /\ reproc' = [reproc EXCEPT !.work = Append(@, n)]
     /\ UNCHANGED missing
  \/ /\ CanFail
     /\ q' = [rest EXCEPT !.settings = Tail(@)]
     /\ missing' = missing \cup {Head(q.settings)}
     /\ UNCHANGED reproc

TakeInput ==
  /\ At("input") /\ GoOn("pair")
  /\ IF q.input = << >> THEN UNCHANGED <<q, reproc, missing>>
     ELSE Reprocess(Head(q.input), [q EXCEPT !.input = Tail(@)])
  /\ UNCHANGED <<pictures, camera, cmds, synced, session, encoder, hal, answers,
                 image>>

(* Without a reprocess channel the pair is handed to the encoder at once. *)
TakePair ==
  /\ At("pair") /\ GoOn("idle")
  /\ LET n == Head(q.pairs)
         rest == [q EXCEPT !.pairs = Tail(@)] IN
       CASE q.pairs = << >> -> UNCHANGED <<q, reproc, missing, cmds>>
         [] q.pairs # << >> /\ reproc.exists -> Reprocess(n, rest) /\ UNCHANGED cmds
         [] OTHER ->
              /\ q' = [rest EXCEPT !.settings = Tail(@),
                   !.jpeg = Append(@, [frame |-> n, buf |-> Head(q.settings)])]
              /\ SendCmd("next") /\ UNCHANGED <<reproc, missing>>
  /\ UNCHANGED <<pictures, camera, synced, session, encoder, hal, answers, image>>

(* STOP_DATA_PROC: the image being encoded is aborted, the sessions are     *)
(* destroyed, then the queues are emptied and closed.                       *)
StopDataProc ==
  /\ At("idle") /\ cmds # << >> /\ Head(cmds) = "stop" /\ cmds' = Tail(cmds)
  /\ data' = [data EXCEPT !.at = "abort", !.active = FALSE]
  /\ UNCHANGED <<pictures, camera, reproc, q, synced, session, encoder, hal,
                 answers, image, missing>>

TakeOngoing ==
  /\ At("abort")
  /\ IF q.encoding = << >> THEN GoOn("destroy") /\ UNCHANGED q
     ELSE /\ data' = [data EXCEPT !.at = "aborting", !.sess = Head(q.encoding).frame]
          /\ q' = [q EXCEPT !.encoding = Tail(@)]
  /\ UNCHANGED <<pictures, camera, reproc, cmds, synced, session, encoder, hal,
                 answers, image, missing>>

AbortJob ==
  /\ At("aborting") /\ ~Busy(data.sess)
  /\ Destroyed(data.sess)
  /\ data' = [data EXCEPT !.at = "abort", !.sess = 0]
  /\ SendCmd("next")
  /\ UNCHANGED <<pictures, camera, reproc, q, synced, session, hal, answers,
                 image, missing>>

DestroySession ==
  /\ At("destroy") /\ GoOn("freeAll")
  /\ IF session.current = 0 THEN UNCHANGED <<session, encoder>>
     ELSE /\ ~Busy(session.current) /\ Destroyed(session.current)
          /\ session' = [session EXCEPT !.current = 0]
  /\ UNCHANGED <<pictures, camera, reproc, q, cmds, synced, hal, answers, image,
                 missing>>

FlushQueues ==
  /\ At("flush") /\ GoOn("idle")
  /\ q' = ClosedQueues /\ synced' = TRUE
  /\ UNCHANGED <<pictures, camera, reproc, cmds, session, encoder, hal, answers,
                 image, missing>>

DataThread ==
  \/ StartDataProc \/ StopDataProc \/ DoNextJob
  \/ TakeJpegJob \/ EncodeData \/ ReleaseFreeJpegSessions \/ TakeInput \/ TakePair
  \/ TakeOngoing \/ AbortJob \/ DestroySession \/ FlushQueues

-----------------------------------------------------------------------------
(* jpegEvtHandle, under the lock of the session: the job is looked up, the  *)
(* request answered under mMutex, and the job released with another command *)
(* for the data thread, for an image may have waited for this one.          *)

FindJpegJob(s) ==
  /\ encoder[s].at = "encoding"
  /\ session' = [current |-> 0,
                 free |-> IF session.current = 0 THEN session.free
                          ELSE Append(session.free, session.current)]
  /\ IF q.encoding = << >>
       THEN Destroyed(s) /\ UNCHANGED <<q, missing>>
       ELSE /\ q' = [q EXCEPT !.encoding = Tail(@)]
            /\ \/ /\ encoder' = [encoder EXCEPT ![s] =
                                   [at |-> "answer", job |-> Head(q.encoding)]]
                  /\ UNCHANGED missing
               \/ /\ CanFail
                  /\ encoder' = [encoder EXCEPT ![s] =
                       [at |-> "answer", job |-> [frame |-> 0,
                                                  buf |-> Head(q.encoding).buf]]]
                  /\ missing' = missing \cup {Head(q.encoding).buf}
  /\ UNCHANGED <<pictures, camera, reproc, cmds, synced, data, hal, answers, image>>

AnswerPicture(s) ==
  /\ encoder[s].at = "answer" /\ ~HoldsMutex
  /\ answers' = [answers EXCEPT ![encoder[s].job.buf] = @ + 1]
  /\ image' = [image EXCEPT ![encoder[s].job.buf] = encoder[s].job.frame]
  /\ encoder' = [encoder EXCEPT ![s].at = "release"]
  /\ UNCHANGED <<pictures, camera, reproc, q, cmds, synced, data, session, hal,
                 missing>>

ReleaseJpegJobData_NoTrigger(s) ==
  /\ encoder[s].at = "release"
  /\ encoder' = [encoder EXCEPT ![s] = [at |-> "none", job |-> NoJob]]
  /\ UNCHANGED <<pictures, camera, reproc, q, cmds, synced, data, session, hal,
                 answers, image, missing>>

ReleaseJpegJobData(s) ==
  /\ encoder[s].at = "release"
  /\ encoder' = [encoder EXCEPT ![s] = [at |-> "none", job |-> NoJob]]
  /\ SendCmd("next")
  /\ UNCHANGED <<pictures, camera, reproc, q, synced, data, session, hal,
                 answers, image, missing>>

PictureNext ==
  \/ \E k \in PictureKind : Request(k)
  \/ RequestStarted
  \/ FlushPictures \/ FlushStopped \/ StopReproc \/ NotifyPictures
  \/ ProcessData \/ ProcessPPMetadata \/ ReprocOut \/ ProcessPPData
  \/ DataThread
  \/ \E s \in Picture : FindJpegJob(s) \/ AnswerPicture(s) \/ ReleaseJpegJobData(s)

PictureSpec == PictureInit /\ [][PictureNext]_pictureVars

-----------------------------------------------------------------------------
AllWait ==
  /\ hal.at = "idle" /\ At("idle") /\ cmds = << >>
  /\ camera = [frames |-> {}, metas |-> {}]
  /\ reproc.cb = 0 /\ reproc.work = << >>
  /\ \A s \in Picture : encoder[s].at = "none"

(* When every thread waits, every picture was taken: no frame, pair, input  *)
(* buffer or image is left behind in a queue for want of a command, and     *)
(* each request that did not fail got its own picture.                      *)
NothingStranded ==
  AllWait => \A n \in DOMAIN pictures \ missing : answers[n] = 1 /\ image[n] = n

(* A request is answered once at most, also when a flush meets the          *)
(* encoder's callback: a session is gone before the flush answers.          *)
OneAnswer == \A n \in Picture : answers[n] <= 1

DataWaitsFor(s) ==
  \/ data.at \in {"free", "freeAll"} /\ session.free # << >>
       /\ s = Head(session.free)
  \/ At("aborting") /\ s = data.sess
  \/ At("destroy") /\ s = session.current

(* The framework's thread waits for the data thread and for the reprocess   *)
(* channel's callback, the data thread for the encoder's callback, and both *)
(* callbacks for mMutex: the circle never closes.                           *)
NoCircularWait ==
  HoldsMutex =>
    /\ hal.at \in {"start", "stop"} /\ ~synced =>
         \A s \in Picture : ~(encoder[s].at = "answer" /\ DataWaitsFor(s))
    /\ ~(hal.at = "stopReproc" /\ reproc.cb # 0)

(* The picture of a request is written to the output buffer of that request *)
(* ("@buffer : pointer to the output buffer, @frameNumber : frame number of *)
(* the request").                                                           *)
OwnPicture == \A n \in Picture : image[n] \in {0, n}
=============================================================================
