------------------------- MODULE CameraStateMachine -------------------------
(***************************************************************************)
(* The camera HAL1 state machine: QCameraStateMachine.cpp and the          *)
(* operations of QCamera2HWI.cpp it calls.                                 *)
(*                                                                         *)
(* Callers post an API to the state machine's thread and wait until a      *)
(* result of that API is in a list they share.  The thread serves the API  *)
(* queue before the event queue, one handler at a time; the handler looks  *)
(* at m_state and moves the channels.  Beside it run the thread of a live  *)
(* snapshot, the callback thread that tells that a picture is complete,    *)
(* the video encoder that gives frames back, and the camera hardware.      *)
(***************************************************************************)
EXTENDS Integers, Sequences, FiniteSets, FiniteSetsExt

CONSTANTS
  MayFail,    \* the channels whose start may fail
  ZslBusy,    \* may the application change the ZSL mode during a capture
  MaxStray    \* bound: results nobody waits for, kept per API

Channel == {"PREVIEW", "ZSL", "VIDEO", "SNAPSHOT", "CAPTURE"}

ASSUME CameraAssumption ==
  MayFail \subseteq Channel /\ ZslBusy \in BOOLEAN /\ MaxStray \in Nat

State == {"STOPPED", "READY", "PREVIEWING", "PREPARE_SNAPSHOT", "PIC_TAKING",
          "RECORDING", "VIDEO_PIC_TAKING", "PREVIEW_PIC_TAKING"}

(* The APIs a call of the application posts, in order.                     *)
Script ==
  [set_preview_window |-> <<"SET_PREVIEW_WINDOW">>,
   start_preview      |-> <<"START_PREVIEW">>,
   stop_preview       |-> <<"STOP_PREVIEW">>,
   set_parameters     |-> <<"SET_PARAMS", "SET_PARAMS_STOP", "SET_PARAMS_COMMIT",
                            "SET_PARAMS_RESTART">>,
   start_recording    |-> <<"PRE_START_RECORDING", "START_RECORDING">>,
   stop_recording     |-> <<"STOP_RECORDING">>,
   take_picture       |-> <<"PREPARE_SNAPSHOT", "PRE_TAKE_PICTURE", "TAKE_PICTURE">>,
   cancel_picture     |-> <<"CANCEL_PICTURE">>,
   release            |-> <<"RELEASE">>]

Call == DOMAIN Script
CallApi == UNION {{Script[f][i] : i \in DOMAIN Script[f]} : f \in Call}
Api == CallApi \cup {"RELEASE_RECORDING_FRAME"}

VARIABLES
  m_state,          \* the state of the state machine
  cam,              \* channels, mode, picture and live snapshot thread
  zslNew,           \* m_bZslMode_new, the ZSL mode not committed yet
  needRestart,      \* mParameters' need for a restart, read by set_parameters
  mPreviewWindow,   \* is there a preview window
  prep,             \* is the hardware preparing a snapshot
  api_queue,        \* posted APIs with the caller's payload
  evt_queue,        \* posted events
  m_apiResultList,  \* per API the results not taken yet, oldest first
  app,              \* the application's call and its step, 0 when it has none
  mPrepSnapRun,     \* was the hardware prepared for the next picture
  encoder,          \* the encoder: idle, holding a frame, waiting to return it
  notifier          \* the callback thread: idle or waiting in processSyncEvt

vars == <<m_state, cam, zslNew, needRestart, mPreviewWindow, prep, api_queue, evt_queue,
          m_apiResultList, app, mPrepSnapRun, encoder, notifier>>

callers == <<app, mPrepSnapRun, encoder, notifier>>

(* What a handler may leave alone besides the state and the channels.      *)
settings == <<zslNew, needRestart, mPreviewWindow, prep>>

TypeOK ==
  /\ m_state \in State
  /\ cam \in [chan : [Channel -> {"none", "added", "on"}], zsl : BOOLEAN, hint : BOOLEAN,
              shot : {"none", "asked", "got"}, live : {"none", "start", "stop"}]
  /\ {zslNew, needRestart, mPreviewWindow, prep, mPrepSnapRun} \subseteq BOOLEAN
  /\ api_queue \in Seq([api : Api \cup {"STOP_CAPTURE_CHANNEL"}, arg : Seq(BOOLEAN)])
  /\ evt_queue \in Seq({"SNAPSHOT_DONE", "PREP_SNAPSHOT_DONE"})
  /\ m_apiResultList \in [Api -> Seq(BOOLEAN)]
  /\ app.step # 0 => app.call \in Call /\ app.step \in DOMAIN Script[app.call]
  /\ encoder \in {"idle", "holds", "waits"}
  /\ notifier \in {"idle", "waits"}

NoCall == [call |-> "none", step |-> 0]

Init ==
  /\ m_state = "STOPPED"
  /\ cam = [chan |-> [c \in Channel |-> "none"], zsl |-> FALSE, hint |-> FALSE,
            shot |-> "none", live |-> "none"]
  /\ zslNew = FALSE /\ needRestart = FALSE /\ mPreviewWindow = FALSE /\ prep = FALSE
  /\ api_queue = << >> /\ evt_queue = << >>
  /\ m_apiResultList = [a \in Api |-> << >>]
  /\ app = NoCall /\ mPrepSnapRun = FALSE /\ encoder = "idle" /\ notifier = "idle"

-----------------------------------------------------------------------------
(* The operations on the channels, each from one camera to the next.  A    *)
(* picture that was asked for is lost when the channel it would come from  *)
(* stops.                                                                  *)

Picture == {"ZSL", "SNAPSHOT", "CAPTURE"}

Moved(c, some, to) ==
  LET chan == [ch \in Channel |-> IF ch \in some THEN to ELSE c.chan[ch]]
      lost == c.shot = "asked" /\ \A ch \in Picture : chan[ch] # "on"
  IN  [c EXCEPT !.chan = chan, !.shot = IF lost THEN "none" ELSE @]

StopChannel(c, ch) == IF c.chan[ch] = "on" THEN Moved(c, {ch}, "added") ELSE c

(* startChannel, with the outcomes it may have.                            *)
StartChannel(c, ch) ==
  (IF c.chan[ch] = "none" THEN {} ELSE {[ok |-> TRUE, cam |-> Moved(c, {ch}, "on")]})
  \cup (IF c.chan[ch] = "none" \/ ch \in MayFail THEN {[ok |-> FALSE, cam |-> c]} ELSE {})

(* Every batch of parameters that is sent commits the new ZSL mode.        *)
Committed(c) == [c EXCEPT !.zsl = zslNew]
WithHint(c, value) == [Committed(c) EXCEPT !.hint = value]

ZslPreview(c) == c.zsl /\ ~c.hint

PreparePreview(c) ==
  LET now  == Committed(c)
      some == IF ZslPreview(now) THEN {"ZSL"}
              ELSE IF now.hint THEN {"PREVIEW", "VIDEO", "SNAPSHOT"} ELSE {"PREVIEW"}
  IN  {[ok |-> TRUE, cam |-> Moved(now, some, "added")]}
      \cup (IF "PREVIEW" \in MayFail THEN {[ok |-> FALSE, cam |-> now]} ELSE {})

UnpreparePreview(c) == Moved(c, {"ZSL", "PREVIEW", "VIDEO", "SNAPSHOT"}, "none")

StartPreview(c) == StartChannel(c, IF ZslPreview(c) THEN "ZSL" ELSE "PREVIEW")

(* preparePreview, then startPreview when that succeeded.                  *)
RestartPreview(c) ==
  UNION {IF p.ok THEN StartPreview(p.cam) ELSE {p} : p \in PreparePreview(c)}

(* The same, and unpreparePreview when the preview does not start.         *)
RestartOrUnprepare(c) ==
  {IF p.ok THEN p ELSE [p EXCEPT !.cam = UnpreparePreview(p.cam)] : p \in RestartPreview(c)}

(* stopPreview joins the live snapshot thread first: see Joined.           *)
StopPreview(c) == UnpreparePreview(StopChannel(StopChannel(c, "ZSL"), "PREVIEW"))

StopRecording(c) == StopChannel(c, "VIDEO")

PreStartRecording(c) ==
  IF c.hint THEN {[ok |-> TRUE, cam |-> c]}
            ELSE RestartPreview(WithHint(StopPreview(c), TRUE))

PreTakePicture(c) ==
  IF c.hint THEN RestartOrUnprepare(WithHint(StopPreview(c), FALSE))
            ELSE {[ok |-> TRUE, cam |-> c]}

CancelPicture_OnlyStops(c) ==
  IF c.zsl THEN [c EXCEPT !.shot = "none"]
           ELSE [StopChannel(c, "CAPTURE") EXCEPT !.shot = "none"]

CancelPicture(c) ==
  IF c.zsl THEN [c EXCEPT !.shot = "none"]
           ELSE [Moved(c, {"CAPTURE"}, "none") EXCEPT !.shot = "none"]

(* takePicture: from the ZSL channel, or from a capture channel that takes *)
(* the place of the preview.                                               *)
TakePicture(c) ==
  LET asked(o)  == IF o.ok THEN [o EXCEPT !.cam.shot = "asked"] ELSE o
      capture   == Moved(Committed(StopPreview(c)), {"CAPTURE"}, "added")
      failed(o) == IF o.ok THEN o ELSE [o EXCEPT !.cam = Moved(o.cam, {"CAPTURE"}, "none")]
  IN  IF ~c.zsl THEN {asked(failed(o)) : o \in StartChannel(capture, "CAPTURE")}
      ELSE {asked([ok |-> c.chan["ZSL"] # "none", cam |-> c])}

(* takeLiveSnapshot and cancelLiveSnapshot start the thread that does it.  *)
Live(c, job) == [c EXCEPT !.live = job]

StopSnapshot(c) == [StopChannel(c, "SNAPSHOT") EXCEPT !.live = "none", !.shot = "none"]

Joined_Never == TRUE

(* cancelLiveSnapshot and stopPreview, takeLiveSnapshot and                *)
(* cancelLiveSnapshot wait in pthread_join while the thread runs.          *)
Joined == cam.live = "none"

-----------------------------------------------------------------------------
(* The state machine's thread.                                             *)

Serve(a) ==
  /\ api_queue # << >> /\ Head(api_queue).api = a
  /\ api_queue' = Tail(api_queue)
  /\ UNCHANGED evt_queue

Argument == Head(api_queue).arg

Signal(a, ok) == m_apiResultList' = [m_apiResultList EXCEPT ![a] = Append(@, ok)]

(* The end of a handler: the new state, the channels, the result.          *)
Reply(state, c, ok) ==
  m_state' = state /\ cam' = c /\ Signal(Head(api_queue).api, ok)

Accept == Reply(m_state, cam, TRUE)
Refuse == Reply(m_state, cam, FALSE)

(* A preview that starts, or else is unprepared.                           *)
StartsOrStops(c) ==
  {IF p.ok THEN [state |-> "PREVIEWING", cam |-> p.cam, ok |-> TRUE]
           ELSE [state |-> "STOPPED", cam |-> UnpreparePreview(p.cam), ok |-> FALSE]
     : p \in StartPreview(c)}

OnSetPreviewWindow ==
  /\ Serve("SET_PREVIEW_WINDOW")
  /\ mPreviewWindow' = IF m_state \in {"STOPPED", "READY"} THEN Argument[1]
                                                            ELSE mPreviewWindow
  /\ \/ m_state \in {"STOPPED", "RECORDING"} /\ Accept
     \/ m_state = "READY" /\ ~Argument[1] /\ Accept
     \/ m_state = "READY" /\ Argument[1]
        /\ \E o \in StartsOrStops(cam) : Reply(o.state, o.cam, o.ok)
     \/ m_state \notin {"STOPPED", "READY", "RECORDING"} /\ Refuse
  /\ UNCHANGED <<zslNew, needRestart, prep>>

OnStartPreview ==
  /\ Serve("START_PREVIEW")
  /\ \/ /\ m_state = "STOPPED"
        /\ \E p \in PreparePreview(cam) :
             IF ~p.ok THEN Reply("STOPPED", p.cam, FALSE)
             ELSE IF ~mPreviewWindow THEN Reply("READY", p.cam, TRUE)
             ELSE \E o \in StartsOrStops(p.cam) : Reply(o.state, o.cam, o.ok)
     \/ /\ m_state = "READY"
        /\ IF ~mPreviewWindow THEN Accept
           ELSE \E o \in StartsOrStops(cam) : Reply(o.state, o.cam, TRUE)
     \/ m_state \in {"PREVIEWING", "RECORDING"} /\ Accept
     \/ m_state \notin {"STOPPED", "READY", "PREVIEWING", "RECORDING"} /\ Refuse
  /\ UNCHANGED settings

(* In VIDEO_PIC_TAKING the thread that cancels the live snapshot is        *)
(* started, and joined by stopPreview.                                     *)
OnStopPreview ==
  /\ Serve("STOP_PREVIEW")
  /\ \/ m_state = "STOPPED" /\ Accept
     \/ m_state = "READY" /\ Reply("STOPPED", UnpreparePreview(cam), TRUE)
     \/ m_state = "PREVIEWING" /\ Joined /\ Reply("STOPPED", StopPreview(cam), TRUE)
     \/ m_state = "PREPARE_SNAPSHOT" /\ Refuse
     \/ m_state = "PIC_TAKING" /\ Reply("STOPPED", CancelPicture(cam), TRUE)
     \/ /\ m_state \in {"RECORDING", "VIDEO_PIC_TAKING"} /\ Joined
        /\ LET c == IF m_state = "RECORDING" THEN cam ELSE StopSnapshot(cam)
           IN  Reply("STOPPED", StopPreview(StopRecording(c)), TRUE)
     \/ /\ m_state = "PREVIEW_PIC_TAKING" /\ (cam.zsl \/ Joined)
        /\ LET c == IF cam.zsl THEN CancelPicture(cam) ELSE Live(cam, "stop")
           IN  Reply("STOPPED", UnpreparePreview(c), TRUE)
  /\ UNCHANGED settings

(* A new ZSL mode or another size asks for a restart, which a recording    *)
(* refuses; the new mode stays in m_bZslMode_new.                          *)
OnSetParams ==
  /\ Serve("SET_PARAMS")
  /\ LET restart == Argument[1] # zslNew \/ Argument[2]
         bad     == restart /\ m_state \in {"RECORDING", "VIDEO_PIC_TAKING"}
     IN  \/ m_state = "PREPARE_SNAPSHOT" /\ Refuse /\ UNCHANGED <<zslNew, needRestart>>
         \/ /\ m_state # "PREPARE_SNAPSHOT"
            /\ zslNew' = Argument[1] /\ needRestart' = (restart /\ ~bad)
            /\ Reply(m_state, cam, ~bad)
  /\ UNCHANGED <<mPreviewWindow, prep>>

OnSetParamsStop ==
  /\ Serve("SET_PARAMS_STOP")
  /\ \/ m_state \in {"STOPPED", "PIC_TAKING"} /\ Accept
     \/ m_state = "READY" /\ Reply(m_state, UnpreparePreview(cam), TRUE)
     \/ /\ m_state \in {"PREVIEWING", "PREVIEW_PIC_TAKING"} /\ Joined
        /\ Reply(m_state, StopPreview(cam), TRUE)
     \/ m_state \in {"PREPARE_SNAPSHOT", "RECORDING", "VIDEO_PIC_TAKING"} /\ Refuse
  /\ UNCHANGED settings

OnSetParamsCommit ==
  /\ Serve("SET_PARAMS_COMMIT")
  /\ \/ m_state = "PREPARE_SNAPSHOT" /\ Refuse
     \/ m_state # "PREPARE_SNAPSHOT" /\ Reply(m_state, Committed(cam), TRUE)
  /\ UNCHANGED settings

OnSetParamsRestart ==
  /\ Serve("SET_PARAMS_RESTART")
  /\ \/ m_state \in {"STOPPED", "PIC_TAKING"} /\ Accept
     \/ /\ m_state = "READY"
        /\ \E p \in PreparePreview(cam) :
             Reply(IF p.ok THEN "READY" ELSE "STOPPED", p.cam, p.ok)
     \/ /\ m_state = "PREVIEWING"
        /\ \E p \in PreparePreview(cam) :
             IF ~p.ok THEN Reply(m_state, p.cam, FALSE)
             ELSE \E o \in StartsOrStops(p.cam) : Reply(o.state, o.cam, o.ok)
     \/ /\ m_state = "PREVIEW_PIC_TAKING"
        /\ \E p \in RestartOrUnprepare(cam) :
             Reply(IF p.ok THEN m_state ELSE "PIC_TAKING", p.cam, p.ok)
     \/ m_state \in {"PREPARE_SNAPSHOT", "RECORDING", "VIDEO_PIC_TAKING"} /\ Refuse
  /\ needRestart' = IF m_state \in {"PREPARE_SNAPSHOT", "RECORDING", "VIDEO_PIC_TAKING"}
                    THEN needRestart ELSE FALSE
  /\ UNCHANGED <<zslNew, mPreviewWindow, prep>>

OnPreStartRecording ==
  /\ Serve("PRE_START_RECORDING")
  /\ \/ m_state = "RECORDING" /\ Accept
     \/ /\ m_state = "PREVIEWING" \/ (m_state = "PREVIEW_PIC_TAKING" /\ ~cam.zsl)
        /\ cam.hint \/ Joined
        /\ \E p \in PreStartRecording(cam) : Reply(m_state, p.cam, p.ok)
     \/ m_state = "PREVIEW_PIC_TAKING" /\ cam.zsl /\ Refuse
     \/ m_state \notin {"RECORDING", "PREVIEWING", "PREVIEW_PIC_TAKING"} /\ Refuse
  /\ UNCHANGED settings

OnStartRecording ==
  /\ Serve("START_RECORDING")
  /\ \/ m_state = "RECORDING" /\ Accept
     \/ /\ m_state = "PREVIEWING" \/ (m_state = "PREVIEW_PIC_TAKING" /\ ~cam.zsl)
        /\ LET started == IF m_state = "PREVIEWING" THEN "RECORDING"
                                                    ELSE "VIDEO_PIC_TAKING"
           IN  \E p \in StartChannel(cam, "VIDEO") :
                 Reply(IF p.ok THEN started ELSE m_state, p.cam, p.ok)
     \/ m_state = "PREVIEW_PIC_TAKING" /\ cam.zsl /\ Refuse
     \/ m_state \notin {"RECORDING", "PREVIEWING", "PREVIEW_PIC_TAKING"} /\ Refuse
  /\ UNCHANGED settings

OnStopRecording ==
  /\ Serve("STOP_RECORDING")
  /\ \/ m_state = "PREVIEWING" /\ Accept
     \/ m_state = "RECORDING" /\ Reply("PREVIEWING", StopRecording(cam), TRUE)
     \/ /\ m_state = "VIDEO_PIC_TAKING" /\ Joined
        /\ Reply("PREVIEWING", StopRecording(Live(cam, "stop")), TRUE)
     \/ m_state \notin {"PREVIEWING", "RECORDING", "VIDEO_PIC_TAKING"} /\ Refuse
  /\ UNCHANGED settings

(* In PREVIEWING a result is signalled only when the hardware refuses or,  *)
(* later, when it is prepared.                                             *)
OnPrepareSnapshot ==
  /\ Serve("PREPARE_SNAPSHOT")
  /\ \/ /\ m_state = "PREVIEWING"
        /\ m_state' = "PREPARE_SNAPSHOT" /\ prep' = TRUE
        /\ UNCHANGED <<cam, m_apiResultList>>
     \/ m_state = "PREVIEWING" /\ Refuse /\ UNCHANGED prep
     \/ m_state = "RECORDING" /\ Accept /\ UNCHANGED prep
     \/ m_state \notin {"PREVIEWING", "RECORDING"} /\ Refuse /\ UNCHANGED prep
  /\ UNCHANGED <<zslNew, needRestart, mPreviewWindow>>

OnPreTakePicture ==
  /\ Serve("PRE_TAKE_PICTURE")
  /\ \/ /\ m_state = "PREVIEWING" /\ (cam.hint => Joined)
        /\ \E p \in PreTakePicture(cam) : Reply(m_state, p.cam, p.ok)
     \/ m_state = "RECORDING" /\ Accept
     \/ m_state \notin {"PREVIEWING", "RECORDING"} /\ Refuse
  /\ UNCHANGED settings

(* The picture's channel is chosen after the preview lost its recording    *)
(* hint.  A preview that had to give way to a capture that then fails is   *)
(* started again.                                                          *)
OnTakePicture ==
  /\ Serve("TAKE_PICTURE")
  /\ \/ /\ m_state = "PREVIEWING" /\ (cam.hint \/ ~cam.zsl => Joined)
        /\ \E p \in PreTakePicture(cam) : \E t \in TakePicture(p.cam) :
             IF t.ok
             THEN Reply(IF p.cam.zsl THEN "PREVIEW_PIC_TAKING" ELSE "PIC_TAKING", t.cam, TRUE)
             ELSE IF p.cam.zsl THEN Reply("PREVIEWING", t.cam, FALSE)
             ELSE \E r \in RestartOrUnprepare(StopPreview(t.cam)) :
                    Reply(IF r.ok THEN "PREVIEWING" ELSE "STOPPED", r.cam, FALSE)
     \/ m_state = "RECORDING" /\ Joined /\ Reply("VIDEO_PIC_TAKING", Live(cam, "start"), TRUE)
     \/ m_state \notin {"PREVIEWING", "RECORDING"} /\ Refuse
  /\ UNCHANGED settings

Uncaptured_ToPreviewing ==
  [PIC_TAKING         |-> [state |-> "STOPPED", cam |-> CancelPicture(cam)],
   VIDEO_PIC_TAKING   |-> [state |-> "PREVIEWING", cam |-> Live(cam, "stop")],
   PREVIEW_PIC_TAKING |-> [state |-> "PREVIEWING",
                           cam |-> IF cam.zsl THEN CancelPicture(cam) ELSE Live(cam, "stop")]]

(* What CANCEL_PICTURE and SNAPSHOT_DONE do to a picture being taken.      *)
Uncaptured ==
  [PIC_TAKING         |-> [state |-> "STOPPED", cam |-> CancelPicture(cam)],
   VIDEO_PIC_TAKING   |-> [state |-> "RECORDING", cam |-> Live(cam, "stop")],
   PREVIEW_PIC_TAKING |-> [state |-> "PREVIEWING",
                           cam |-> IF cam.zsl THEN CancelPicture(cam) ELSE Live(cam, "stop")]]

CancelWaits == m_state = "VIDEO_PIC_TAKING" \/ (m_state = "PREVIEW_PIC_TAKING" /\ ~cam.zsl)

OnCancelPicture ==
  /\ Serve("CANCEL_PICTURE")
  /\ \/ m_state \in {"STOPPED", "PREVIEWING"} /\ Accept
     \/ /\ m_state \in DOMAIN Uncaptured /\ (CancelWaits => Joined)
        /\ Reply(Uncaptured[m_state].state, Uncaptured[m_state].cam, TRUE)
     \/ m_state \in {"READY", "PREPARE_SNAPSHOT", "RECORDING"} /\ Refuse
  /\ UNCHANGED settings

OnRelease ==
  /\ Serve("RELEASE")
  /\ IF m_state = "STOPPED" THEN Reply(m_state, Moved(cam, Channel, "none"), TRUE) ELSE Refuse
  /\ UNCHANGED settings

(* Outside of a recording the frame's handle is closed, and no result is   *)
(* signalled.                                                              *)
OnReleaseRecordingFrame ==
  /\ Serve("RELEASE_RECORDING_FRAME")
  /\ \/ /\ m_state \in {"STOPPED", "READY", "PREVIEWING"}
        /\ UNCHANGED <<m_state, cam, m_apiResultList>>
     \/ m_state \in {"PREPARE_SNAPSHOT", "PIC_TAKING"} /\ Refuse
     \/ m_state \in {"RECORDING", "VIDEO_PIC_TAKING", "PREVIEW_PIC_TAKING"} /\ Accept
  /\ UNCHANGED settings

(* The result of STOP_CAPTURE_CHANNEL has no reader: it is left out.       *)
OnStopCaptureChannel ==
  /\ Serve("STOP_CAPTURE_CHANNEL")
  /\ cam' = IF m_state = "PIC_TAKING" THEN StopChannel(cam, "CAPTURE") ELSE cam
  /\ UNCHANGED <<m_state, m_apiResultList>>
  /\ UNCHANGED settings

(* An event is served when no API is posted.                               *)
ServeEvent(e) ==
  /\ api_queue = << >> /\ evt_queue # << >> /\ Head(evt_queue) = e
  /\ evt_queue' = Tail(evt_queue)
  /\ UNCHANGED api_queue

OnSnapshotDone ==
  /\ ServeEvent("SNAPSHOT_DONE") /\ (CancelWaits => Joined)
  /\ IF m_state \in DOMAIN Uncaptured
     THEN m_state' = Uncaptured[m_state].state /\ cam' = Uncaptured[m_state].cam
     ELSE UNCHANGED <<m_state, cam>>
  /\ notifier' = "idle"
  /\ UNCHANGED <<m_apiResultList, settings, app, mPrepSnapRun, encoder>>

OnPrepSnapshotDone ==
  /\ ServeEvent("PREP_SNAPSHOT_DONE")
  /\ IF m_state = "PREPARE_SNAPSHOT"
     THEN m_state' = "PREVIEWING" /\ Signal("PREPARE_SNAPSHOT", TRUE)
     ELSE UNCHANGED <<m_state, m_apiResultList>>
  /\ UNCHANGED <<cam, settings, callers>>

SmEvtProc ==
  \/ OnSetPreviewWindow /\ UNCHANGED callers
  \/ OnStartPreview /\ UNCHANGED callers
  \/ OnStopPreview /\ UNCHANGED callers
  \/ OnSetParams /\ UNCHANGED callers
  \/ OnSetParamsStop /\ UNCHANGED callers
  \/ OnSetParamsCommit /\ UNCHANGED callers
  \/ OnSetParamsRestart /\ UNCHANGED callers
  \/ OnPreStartRecording /\ UNCHANGED callers
  \/ OnStartRecording /\ UNCHANGED callers
  \/ OnStopRecording /\ UNCHANGED callers
  \/ OnPrepareSnapshot /\ UNCHANGED callers
  \/ OnPreTakePicture /\ UNCHANGED callers
  \/ OnTakePicture /\ UNCHANGED callers
  \/ OnCancelPicture /\ UNCHANGED callers
  \/ OnRelease /\ UNCHANGED callers
  \/ OnReleaseRecordingFrame /\ UNCHANGED callers
  \/ OnStopCaptureChannel /\ UNCHANGED callers
  \/ OnSnapshotDone
  \/ OnPrepSnapshotDone

-----------------------------------------------------------------------------
(* The application: one call at a time.                                    *)

Post(a, arg) == api_queue' = Append(api_queue, [api |-> a, arg |-> arg])

Arguments(f) ==
  CASE f = "set_preview_window" -> [1..1 -> BOOLEAN]
    [] f = "set_parameters" ->
         {a \in [1..2 -> BOOLEAN] :
            ZslBusy \/ a[1] = zslNew
            \/ m_state \notin {"PIC_TAKING", "RECORDING", "VIDEO_PIC_TAKING",
                               "PREVIEW_PIC_TAKING"}}
    [] OTHER -> {<< >>}

(* take_picture prepares the hardware unless that was done or no flash is  *)
(* needed.                                                                 *)
AppCall(f, arg, flash) ==
  /\ app.step = 0
  /\ LET first == IF f = "take_picture" /\ (mPrepSnapRun \/ ~flash) THEN 2 ELSE 1
     IN  app' = [call |-> f, step |-> first] /\ Post(Script[f][first], arg)
  /\ UNCHANGED <<m_state, cam, settings, evt_queue, m_apiResultList, mPrepSnapRun, encoder,
                 notifier>>

Waiting == app.step # 0
Awaited == Script[app.call][app.step]

(* The steps of a call after this one; the preview is stopped and started  *)
(* for new parameters only when they need it.                              *)
Later ==
  {i \in DOMAIN Script[app.call] :
     i > app.step /\ (Script[app.call][i] \in {"SET_PARAMS_STOP", "SET_PARAMS_RESTART"}
                      => needRestart)}

(* The call goes on after a good result, or whatever prepare_snapshot gave,*)
(* and otherwise returns.                                                  *)
Proceed(ok) ==
  /\ IF (ok \/ Awaited = "PREPARE_SNAPSHOT") /\ Later # {}
     THEN /\ app' = [app EXCEPT !.step = Min(Later)]
          /\ Post(Script[app.call][Min(Later)], << >>)
     ELSE app' = NoCall /\ UNCHANGED api_queue
  /\ mPrepSnapRun' = CASE Awaited = "PREPARE_SNAPSHOT" -> TRUE
                       [] Awaited = "TAKE_PICTURE" -> FALSE
                       [] OTHER -> mPrepSnapRun
  /\ UNCHANGED <<m_state, cam, settings, evt_queue, encoder, notifier>>

Found_AnyResult(a) == {b \in Api : m_apiResultList[b] # << >>}

(* The waiter finds a result of its API in the list.                       *)
Found(a) == IF m_apiResultList[a] = << >> THEN {} ELSE {a}

TakeResult(a) == m_apiResultList' = [m_apiResultList EXCEPT ![a] = Tail(@)]

AppReturn ==
  /\ Waiting
  /\ \E a \in Found(Awaited) : TakeResult(a) /\ Proceed(Head(m_apiResultList[a]))

(* The answers to an API, given or to come, that nobody will wait for.     *)
Stray(a) ==
  Len(m_apiResultList[a]) + Len(SelectSeq(api_queue, LAMBDA r : r.api = a))
  + (IF a = "PREPARE_SNAPSHOT" /\ m_state = a THEN 1 ELSE 0)
  - (IF Waiting /\ Awaited = a THEN 1 ELSE 0)

PrepareTimeout_Never == FALSE

(* prepare_snapshot stops waiting after PREPARE_SNAP_TIMEOUT seconds,      *)
(* without a look at the list.                                             *)
PrepareTimeout ==
  /\ Waiting /\ Awaited = "PREPARE_SNAPSHOT" /\ Stray("PREPARE_SNAPSHOT") < MaxStray
  /\ Proceed(FALSE)
  /\ UNCHANGED m_apiResultList

-----------------------------------------------------------------------------
(* The encoder, on a thread of its own, gets a frame while the video       *)
(* channel runs and gives it back later.                                   *)

VideoFrame ==
  /\ cam.chan["VIDEO"] = "on" /\ encoder = "idle"
  /\ encoder' = "holds"
  /\ UNCHANGED <<m_state, cam, settings, api_queue, evt_queue, m_apiResultList, app,
                 mPrepSnapRun, notifier>>

ReleaseRecordingFrame ==
  /\ encoder = "holds"
  /\ encoder' = "waits" /\ Post("RELEASE_RECORDING_FRAME", << >>)
  /\ UNCHANGED <<m_state, cam, settings, evt_queue, m_apiResultList, app, mPrepSnapRun,
                 notifier>>

FrameReleased ==
  /\ encoder = "waits"
  /\ \E a \in Found("RELEASE_RECORDING_FRAME") : TakeResult(a)
  /\ encoder' = "idle"
  /\ UNCHANGED <<m_state, cam, settings, api_queue, evt_queue, app, mPrepSnapRun, notifier>>

(* The live snapshot thread takes the snapshot, or posts a CANCEL_PICTURE  *)
(* that nobody waits for; or it cancels a snapshot.                        *)
TakeLiveSnapshot ==
  /\ cam.live = "start"
  /\ \E p \in StartChannel(cam, "SNAPSHOT") :
       /\ cam' = [p.cam EXCEPT !.live = "none", !.shot = IF p.ok THEN "asked" ELSE @]
       /\ IF p.ok THEN UNCHANGED api_queue
          ELSE Post("CANCEL_PICTURE", << >>) /\ Stray("CANCEL_PICTURE") < MaxStray
  /\ UNCHANGED <<m_state, settings, evt_queue, m_apiResultList, callers>>

CancelLiveSnapshot ==
  /\ cam.live = "stop"
  /\ cam' = StopSnapshot(cam)
  /\ UNCHANGED <<m_state, settings, api_queue, evt_queue, m_apiResultList, callers>>

(* The picture's frames arrive; the postprocessor stops a regular capture. *)
PictureArrives ==
  /\ cam.shot = "asked"
  /\ cam' = [cam EXCEPT !.shot = "got"]
  /\ IF ~cam.hint /\ ~cam.zsl THEN Post("STOP_CAPTURE_CHANNEL", << >>) ELSE UNCHANGED api_queue
  /\ UNCHANGED <<m_state, settings, evt_queue, m_apiResultList, callers>>

(* The callback thread has the last picture and waits until the state      *)
(* machine knows.                                                          *)
SnapshotCallback ==
  /\ cam.shot = "got" /\ notifier = "idle"
  /\ cam' = [cam EXCEPT !.shot = "none"]
  /\ notifier' = "waits" /\ evt_queue' = Append(evt_queue, "SNAPSHOT_DONE")
  /\ UNCHANGED <<m_state, settings, api_queue, m_apiResultList, app, mPrepSnapRun, encoder>>

HardwarePrepared ==
  /\ prep /\ prep' = FALSE
  /\ evt_queue' = Append(evt_queue, "PREP_SNAPSHOT_DONE")
  /\ UNCHANGED <<m_state, cam, zslNew, needRestart, mPreviewWindow, api_queue, m_apiResultList,
                 callers>>

-----------------------------------------------------------------------------
Next ==
  \/ SmEvtProc
  \/ \E f \in Call, flash \in BOOLEAN : \E arg \in Arguments(f) : AppCall(f, arg, flash)
  \/ AppReturn
  \/ PrepareTimeout
  \/ VideoFrame
  \/ ReleaseRecordingFrame
  \/ FrameReleased
  \/ TakeLiveSnapshot
  \/ CancelLiveSnapshot
  \/ PictureArrives
  \/ SnapshotCallback
  \/ HardwarePrepared

Spec == Init /\ [][Next]_vars

(* Threads that can go on do; the clock runs.  The hardware, the encoder   *)
(* and the application owe nothing.                                        *)
Fairness ==
  /\ WF_vars(SmEvtProc)
  /\ WF_vars(AppReturn)
  /\ WF_vars(PrepareTimeout)
  /\ WF_vars(FrameReleased)
  /\ WF_vars(TakeLiveSnapshot)
  /\ WF_vars(CancelLiveSnapshot)

FairSpec == Spec /\ Fairness

-----------------------------------------------------------------------------
On(ch) == cam.chan[ch] = "on"
PreviewOn == On("PREVIEW") \/ On("ZSL")

(* set_parameters stopped the preview and has not started it again.        *)
Restarting == app.call = "set_parameters" /\ app.step > 1 /\ needRestart

(* What the comments of qcamera_state_enum_t say of each state: the        *)
(* channels that exist and run are the state's, whatever interleaving of   *)
(* calls, events and failed starts led there.                              *)
ChannelsMatchState ==
  /\ m_state = "STOPPED" => \A ch \in Channel : cam.chan[ch] = "none"
  /\ m_state = "READY" => ~PreviewOn
  /\ m_state \in {"PREVIEWING", "PREPARE_SNAPSHOT", "PREVIEW_PIC_TAKING"} =>
       PreviewOn \/ Restarting
  /\ m_state = "PIC_TAKING" <=> cam.chan["CAPTURE"] # "none"
  /\ m_state = "PIC_TAKING" => \A ch \in Channel \ {"CAPTURE"} : cam.chan[ch] = "none"
  /\ m_state \in {"RECORDING", "VIDEO_PIC_TAKING"} <=> On("VIDEO")
  /\ On("VIDEO") => On("PREVIEW") /\ cam.chan["SNAPSHOT"] # "none"
  /\ cam.chan["ZSL"] # "none" => cam.chan["PREVIEW"] = "none" /\ ZslPreview(cam)

(* The live snapshot thread uses the snapshot channel through a pointer    *)
(* read without a lock: while it runs, the state machine does not delete   *)
(* the channel.                                                            *)
LiveHasChannel == cam.live # "none" => cam.chan["SNAPSHOT"] # "none"

(* A queued SET_PARAMS or SET_PREVIEW_WINDOW points into its caller's      *)
(* memory: the caller is still in the call when it is served.              *)
PayloadAlive ==
  \A i \in DOMAIN api_queue :
    api_queue[i].arg # << >> => app.step = 1 /\ Script[app.call][1] = api_queue[i].api

(* A recording ends only by STOP_RECORDING or STOP_PREVIEW: no picture,    *)
(* event or change of parameters stops its channel.                        *)
RecordingSurvives ==
  [][On("VIDEO") /\ ~On("VIDEO")' =>
       /\ api_queue # << >> /\ Head(api_queue).api \in {"STOP_RECORDING", "STOP_PREVIEW"}
       /\ api_queue' = Tail(api_queue)]_vars

(* Every call of the application returns, whether or not the hardware ever *)
(* answers.                                                                *)
CallsReturn == Waiting ~> ~Waiting

(* "API is in a way sync call" (QCameraStateMachine.cpp:85): the encoder's *)
(* release_recording_frame returns.                                        *)
ReleaseReturns == (encoder = "waits") ~> (encoder = "idle")
=============================================================================
