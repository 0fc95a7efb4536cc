---------------------------- MODULE CameraProofs ----------------------------
(***************************************************************************)
(* Proofs about the camera: its state machine (CameraStateMachine) and its  *)
(* deferred work thread (DeferredWork).                                    *)
(*                                                                         *)
(* The state machine, for every value of the constants: a payload that is   *)
(* queued has its caller waiting (Calls), and a recording ends only by the  *)
(* two calls that end it (VideoState).  For an application that keeps the   *)
(* ZSL mode during a capture (~ZslBusy): the live snapshot thread has its   *)
(* channel, and, as long as the preview itself starts whenever it is asked  *)
(* to (Firm), the channels are those of the state.                         *)
(*                                                                         *)
(* The deferred work thread, for every number of slots, previews, pictures  *)
(* and faults: the types of its variables, and that no job loses the        *)
(* stream, the channel or the postprocessor it uses.  A call waits for the  *)
(* job whose id a member holds, not for all the jobs that use what it is    *)
(* about to free.  What makes that enough is the order of the queue: the    *)
(* jobs that are not over are the last ones of all that were numbered,      *)
(* without a gap, so that a job that is over has none before it that is     *)
(* not (Backlog, and LEMMA Waited).  The rest of that invariant says at     *)
(* which place of a call which job's id is the last one.                   *)
(***************************************************************************)
EXTENDS CameraStateMachine, DeferredWork, TLAPS

Camera == [chan : [Channel -> {"none", "added", "on"}], zsl : BOOLEAN, hint : BOOLEAN,
           shot : {"none", "asked", "got"}, live : {"none", "start", "stop"}]

Outcome == [ok : BOOLEAN, cam : Camera]

Request == [api : Api \cup {"STOP_CAPTURE_CHANNEL"}, arg : Seq(BOOLEAN)]

PreviewChannel == {"ZSL", "PREVIEW", "VIDEO", "SNAPSHOT"}

RecordingState == {"RECORDING", "VIDEO_PIC_TAKING"}

-----------------------------------------------------------------------------
(* What the operations on the channels do to a camera.                     *)
LEMMA MovedFacts ==
  ASSUME NEW c \in Camera, NEW some, NEW to \in {"none", "added", "on"}
  PROVE  /\ Moved(c, some, to) \in Camera
         /\ \A ch \in Channel :
              Moved(c, some, to).chan[ch] = IF ch \in some THEN to ELSE c.chan[ch]
         /\ Moved(c, some, to).zsl = c.zsl /\ Moved(c, some, to).hint = c.hint
         /\ Moved(c, some, to).live = c.live
<1> DEFINE chan == [ch \in Channel |-> IF ch \in some THEN to ELSE c.chan[ch]]
           lost == c.shot = "asked" /\ \A ch \in Picture : chan[ch] # "on"
<1>1. Moved(c, some, to) = [c EXCEPT !.chan = chan, !.shot = IF lost THEN "none" ELSE @]
  BY DEF Moved
<1>2. chan \in [Channel -> {"none", "added", "on"}]
  BY DEF Camera
<1>3. (IF lost THEN "none" ELSE c.shot) \in {"none", "asked", "got"}
  BY DEF Camera
<1>4. \A ch \in Channel : chan[ch] = IF ch \in some THEN to ELSE c.chan[ch]
  OBVIOUS
<1> HIDE DEF chan, lost
<1>5. Moved(c, some, to).chan = chan
  BY <1>1 DEF Camera
<1> QED
  BY <1>1, <1>2, <1>3, <1>4, <1>5 DEF Camera

LEMMA StopChannelFacts ==
  ASSUME NEW c \in Camera, NEW ch \in Channel
  PROVE  /\ StopChannel(c, ch) \in Camera
         /\ \A x \in Channel : StopChannel(c, ch).chan[x] =
              IF x = ch /\ c.chan[x] = "on" THEN "added" ELSE c.chan[x]
         /\ StopChannel(c, ch).zsl = c.zsl /\ StopChannel(c, ch).hint = c.hint
         /\ StopChannel(c, ch).live = c.live
<1>1. CASE c.chan[ch] = "on"
  <2>1. StopChannel(c, ch) = Moved(c, {ch}, "added")
    BY <1>1 DEF StopChannel
  <2> QED
    BY <1>1, <2>1, MovedFacts
<1>2. CASE c.chan[ch] # "on"
  BY <1>2 DEF StopChannel
<1> QED
  BY <1>1, <1>2

LEMMA StartChannelFacts ==
  ASSUME NEW c \in Camera, NEW ch \in Channel, NEW o \in StartChannel(c, ch)
  PROVE  /\ o \in Outcome
         /\ o.cam.zsl = c.zsl /\ o.cam.hint = c.hint /\ o.cam.live = c.live
         /\ o.ok => /\ c.chan[ch] # "none"
                    /\ \A x \in Channel : o.cam.chan[x] = IF x = ch THEN "on" ELSE c.chan[x]
         /\ ~o.ok => o.cam = c /\ (c.chan[ch] = "none" \/ ch \in MayFail)
<1>1. CASE o = [ok |-> TRUE, cam |-> Moved(c, {ch}, "on")] /\ c.chan[ch] # "none"
  BY <1>1, MovedFacts DEF Outcome
<1>2. CASE o = [ok |-> FALSE, cam |-> c] /\ (c.chan[ch] = "none" \/ ch \in MayFail)
  BY <1>2 DEF Outcome
<1> QED
  BY <1>1, <1>2 DEF StartChannel

LEMMA CommittedFacts ==
  ASSUME NEW c \in Camera, zslNew \in BOOLEAN
  PROVE  /\ Committed(c) \in Camera /\ Committed(c).chan = c.chan
         /\ Committed(c).zsl = zslNew /\ Committed(c).hint = c.hint
         /\ Committed(c).live = c.live
BY DEF Committed, Camera

LEMMA UnprepareFacts ==
  ASSUME NEW c \in Camera
  PROVE  /\ UnpreparePreview(c) \in Camera
         /\ \A ch \in PreviewChannel : UnpreparePreview(c).chan[ch] = "none"
         /\ UnpreparePreview(c).chan["CAPTURE"] = c.chan["CAPTURE"]
         /\ UnpreparePreview(c).zsl = c.zsl /\ UnpreparePreview(c).hint = c.hint
         /\ UnpreparePreview(c).live = c.live
BY MovedFacts DEF UnpreparePreview, Channel, PreviewChannel

LEMMA StopPreviewFacts ==
  ASSUME NEW c \in Camera
  PROVE  /\ StopPreview(c) \in Camera
         /\ \A ch \in PreviewChannel : StopPreview(c).chan[ch] = "none"
         /\ StopPreview(c).chan["CAPTURE"] = c.chan["CAPTURE"]
         /\ StopPreview(c).zsl = c.zsl /\ StopPreview(c).hint = c.hint
         /\ StopPreview(c).live = c.live
<1> DEFINE d == StopChannel(c, "ZSL")
           e == StopChannel(d, "PREVIEW")
<1>0. {"ZSL", "PREVIEW", "CAPTURE"} \subseteq Channel
  BY DEF Channel
<1>1. d \in Camera /\ d.chan["CAPTURE"] = c.chan["CAPTURE"] /\ d.zsl = c.zsl
      /\ d.hint = c.hint /\ d.live = c.live
  BY <1>0, StopChannelFacts
<1> HIDE DEF d
<1>2. e \in Camera /\ e.chan["CAPTURE"] = d.chan["CAPTURE"] /\ e.zsl = d.zsl
      /\ e.hint = d.hint /\ e.live = d.live
  BY <1>0, <1>1, StopChannelFacts
<1>3. StopPreview(c) = UnpreparePreview(e)
  BY DEF StopPreview, d
<1> HIDE DEF e
<1> QED
  BY <1>1, <1>2, <1>3, UnprepareFacts

LEMMA CancelFacts ==
  ASSUME NEW c \in Camera
  PROVE  /\ CancelPicture(c) \in Camera
         /\ \A ch \in Channel : CancelPicture(c).chan[ch] =
              IF ch = "CAPTURE" /\ ~c.zsl THEN "none" ELSE c.chan[ch]
         /\ CancelPicture(c).zsl = c.zsl /\ CancelPicture(c).hint = c.hint
         /\ CancelPicture(c).live = c.live
<1>1. CASE c.zsl
  BY <1>1 DEF CancelPicture, Camera
<1>2. CASE ~c.zsl
  <2> DEFINE d == Moved(c, {"CAPTURE"}, "none")
  <2>1. /\ d \in Camera
        /\ \A ch \in Channel : d.chan[ch] = IF ch = "CAPTURE" THEN "none" ELSE c.chan[ch]
        /\ d.zsl = c.zsl /\ d.hint = c.hint /\ d.live = c.live
    BY MovedFacts
  <2>2. CancelPicture(c) = [d EXCEPT !.shot = "none"]
    BY <1>2 DEF CancelPicture
  <2> HIDE DEF d
  <2>3. CancelPicture(c).chan = d.chan
    BY <2>1, <2>2 DEF Camera
  <2> QED
    BY <1>2, <2>1, <2>2, <2>3 DEF Camera
<1> QED
  BY <1>1, <1>2

LEMMA LiveFacts ==
  ASSUME NEW c \in Camera, NEW work \in {"none", "start", "stop"}
  PROVE  /\ Live(c, work) \in Camera /\ Live(c, work).chan = c.chan
         /\ Live(c, work).zsl = c.zsl /\ Live(c, work).hint = c.hint
         /\ Live(c, work).live = work
BY DEF Live, Camera

LEMMA StopSnapshotFacts ==
  ASSUME NEW c \in Camera
  PROVE  /\ StopSnapshot(c) \in Camera
         /\ \A x \in Channel : StopSnapshot(c).chan[x] =
              IF x = "SNAPSHOT" /\ c.chan[x] = "on" THEN "added" ELSE c.chan[x]
         /\ StopSnapshot(c).zsl = c.zsl /\ StopSnapshot(c).hint = c.hint
         /\ StopSnapshot(c).live = "none"
<1> DEFINE d == StopChannel(c, "SNAPSHOT")
<1>1. /\ d \in Camera /\ d.zsl = c.zsl /\ d.hint = c.hint
      /\ \A x \in Channel : d.chan[x] =
           IF x = "SNAPSHOT" /\ c.chan[x] = "on" THEN "added" ELSE c.chan[x]
  BY StopChannelFacts DEF Channel
<1>2. StopSnapshot(c) = [d EXCEPT !.live = "none", !.shot = "none"]
  BY DEF StopSnapshot
<1> HIDE DEF d
<1>3. StopSnapshot(c).chan = d.chan
  BY <1>1, <1>2 DEF Camera
<1>4. StopSnapshot(c) \in Camera
  BY <1>1, <1>2 DEF Camera
<1>5. StopSnapshot(c).zsl = d.zsl /\ StopSnapshot(c).hint = d.hint
      /\ StopSnapshot(c).live = "none"
  BY <1>1, <1>2 DEF Camera
<1> QED
  BY <1>1, <1>3, <1>4, <1>5

-----------------------------------------------------------------------------
(* The preview: the channels it needs, those made, and those that run.      *)
PreviewOf(c) == IF ZslPreview(c) THEN "ZSL" ELSE "PREVIEW"

PreparedFor(c) ==
  IF ZslPreview(c) THEN {"ZSL"}
  ELSE IF c.hint THEN {"PREVIEW", "VIDEO", "SNAPSHOT"} ELSE {"PREVIEW"}

NoPreview(c) == \A ch \in PreviewChannel : c.chan[ch] = "none"

Prepared(c) ==
  \A ch \in PreviewChannel : c.chan[ch] = IF ch \in PreparedFor(c) THEN "added" ELSE "none"

Runs(c) ==
  \A ch \in PreviewChannel :
    c.chan[ch] = IF ch = PreviewOf(c) THEN "on"
                 ELSE IF ch \in PreparedFor(c) THEN "added" ELSE "none"

(* The preview always starts: only other channels may fail.                *)
Firm == MayFail \cap {"PREVIEW", "ZSL"} = {}

Same(c, d) == d.hint = c.hint /\ d.live = c.live /\ d.chan["CAPTURE"] = c.chan["CAPTURE"]

LEMMA PrepareFacts ==
  ASSUME NEW c \in Camera, zslNew \in BOOLEAN, NEW p \in PreparePreview(c)
  PROVE  /\ p \in Outcome /\ p.cam.zsl = zslNew /\ Same(c, p.cam)
         /\ p.ok => \A ch \in PreviewChannel :
              p.cam.chan[ch] = IF ch \in PreparedFor(p.cam) THEN "added" ELSE c.chan[ch]
         /\ ~p.ok => p.cam.chan = c.chan /\ ~Firm
<1> DEFINE now == Committed(c)
           some == PreparedFor(now)
<1>1. now \in Camera /\ now.chan = c.chan /\ now.zsl = zslNew /\ now.hint = c.hint
      /\ now.live = c.live
  BY CommittedFacts
<1>2. \/ p = [ok |-> TRUE, cam |-> Moved(now, some, "added")]
      \/ p = [ok |-> FALSE, cam |-> now] /\ ~Firm
  BY DEF PreparePreview, PreparedFor, Firm
<1>3. "CAPTURE" \notin some /\ PreviewChannel \subseteq Channel /\ "CAPTURE" \in Channel
  BY DEF PreparedFor, PreviewChannel, Channel
<1> HIDE DEF now
<1>4. CASE p = [ok |-> TRUE, cam |-> Moved(now, some, "added")]
  <2>1. /\ p.ok /\ p \in Outcome /\ p.cam = Moved(now, some, "added")
        /\ p.cam.zsl = now.zsl /\ p.cam.hint = now.hint /\ p.cam.live = now.live
        /\ \A ch \in Channel : p.cam.chan[ch] = IF ch \in some THEN "added" ELSE now.chan[ch]
    BY <1>1, <1>4, MovedFacts DEF Outcome
  <2>2. PreparedFor(p.cam) = some
    BY <2>1 DEF PreparedFor, ZslPreview
  <2> QED
    BY <1>1, <1>3, <2>1, <2>2 DEF Same
<1>5. CASE p = [ok |-> FALSE, cam |-> now] /\ ~Firm
  BY <1>1, <1>5 DEF Outcome, Same
<1> QED
  BY <1>2, <1>4, <1>5

LEMMA StartPreviewFacts ==
  ASSUME NEW c \in Camera, NEW o \in StartPreview(c)
  PROVE  /\ o \in Outcome /\ o.cam.zsl = c.zsl /\ Same(c, o.cam)
         /\ o.ok => /\ c.chan[PreviewOf(c)] # "none" /\ PreviewOf(o.cam) = PreviewOf(c)
                    /\ \A x \in Channel :
                         o.cam.chan[x] = IF x = PreviewOf(c) THEN "on" ELSE c.chan[x]
         /\ ~o.ok => o.cam = c /\ (c.chan[PreviewOf(c)] = "none" \/ ~Firm)
<1>1. PreviewOf(c) \in {"ZSL", "PREVIEW"} /\ PreviewOf(c) \in Channel /\ "CAPTURE" \in Channel
  BY DEF PreviewOf, Channel
<1>2. o \in StartChannel(c, PreviewOf(c))
  BY DEF StartPreview, PreviewOf
<1>3. /\ o \in Outcome /\ o.cam.zsl = c.zsl /\ o.cam.hint = c.hint /\ o.cam.live = c.live
      /\ o.ok => /\ c.chan[PreviewOf(c)] # "none"
                 /\ \A x \in Channel :
                      o.cam.chan[x] = IF x = PreviewOf(c) THEN "on" ELSE c.chan[x]
      /\ ~o.ok => o.cam = c /\ (c.chan[PreviewOf(c)] = "none" \/ PreviewOf(c) \in MayFail)
  BY <1>1, <1>2, StartChannelFacts
<1>4. o.ok => o.cam.chan["CAPTURE"] = c.chan["CAPTURE"]
  BY <1>1, <1>3
<1>5. PreviewOf(o.cam) = PreviewOf(c)
  BY <1>3 DEF PreviewOf, ZslPreview
<1>6. PreviewOf(c) \in MayFail => ~Firm
  BY <1>1 DEF Firm
<1> QED
  BY <1>3, <1>4, <1>5, <1>6 DEF Same

LEMMA RestartFacts ==
  ASSUME NEW c \in Camera, zslNew \in BOOLEAN, NoPreview(c), NEW p \in RestartPreview(c)
  PROVE  /\ p \in Outcome /\ p.cam.zsl = zslNew /\ Same(c, p.cam)
         /\ p.ok => Runs(p.cam)
         /\ ~p.ok => ~Firm /\ (NoPreview(p.cam) \/ Prepared(p.cam))
<1>1. PICK q \in PreparePreview(c) : p \in (IF q.ok THEN StartPreview(q.cam) ELSE {q})
  BY DEF RestartPreview
<1>2. /\ q \in Outcome /\ q.cam.zsl = zslNew /\ Same(c, q.cam)
      /\ q.ok => \A ch \in PreviewChannel :
           q.cam.chan[ch] = IF ch \in PreparedFor(q.cam) THEN "added" ELSE c.chan[ch]
      /\ ~q.ok => q.cam.chan = c.chan /\ ~Firm
  BY PrepareFacts
<1>3. CASE ~q.ok
  BY <1>1, <1>2, <1>3 DEF NoPreview
<1>4. CASE q.ok
  <2>1. q.cam \in Camera /\ p \in StartPreview(q.cam) /\ Prepared(q.cam)
    BY <1>1, <1>2, <1>4 DEF Outcome, NoPreview, Prepared
  <2>2. /\ p \in Outcome /\ p.cam.zsl = q.cam.zsl /\ Same(q.cam, p.cam)
        /\ p.ok => /\ PreviewOf(p.cam) = PreviewOf(q.cam)
                   /\ \A x \in Channel :
                       p.cam.chan[x] = IF x = PreviewOf(q.cam) THEN "on" ELSE q.cam.chan[x]
        /\ ~p.ok => p.cam = q.cam /\ (q.cam.chan[PreviewOf(q.cam)] = "none" \/ ~Firm)
    BY <2>1, StartPreviewFacts
  <2>3. PreviewOf(q.cam) \in PreparedFor(q.cam) /\ PreviewOf(q.cam) \in PreviewChannel
        /\ PreviewChannel \subseteq Channel
    BY DEF PreviewOf, PreparedFor, PreviewChannel, Channel
  <2>4. q.cam.chan[PreviewOf(q.cam)] = "added"
    BY <2>1, <2>3 DEF Prepared
  <2>5. PreparedFor(p.cam) = PreparedFor(q.cam)
    BY <2>2 DEF PreparedFor, ZslPreview, Same
  <2>6. p.ok => Runs(p.cam)
    BY <2>1, <2>2, <2>3, <2>5 DEF Runs, Prepared
  <2> QED
    BY <1>2, <2>1, <2>2, <2>4, <2>6 DEF Same
<1> QED
  BY <1>3, <1>4

LEMMA RestartOrUnprepareFacts ==
  ASSUME NEW c \in Camera, zslNew \in BOOLEAN, NoPreview(c), NEW p \in RestartOrUnprepare(c)
  PROVE  /\ p \in Outcome /\ p.cam.zsl = zslNew /\ Same(c, p.cam)
         /\ p.ok => Runs(p.cam)
         /\ ~p.ok => ~Firm /\ NoPreview(p.cam)
<1>1. PICK q \in RestartPreview(c) :
        p = IF q.ok THEN q ELSE [q EXCEPT !.cam = UnpreparePreview(q.cam)]
  BY DEF RestartOrUnprepare
<1>2. /\ q \in Outcome /\ q.cam.zsl = zslNew /\ Same(c, q.cam)
      /\ q.ok => Runs(q.cam)
      /\ ~q.ok => ~Firm
  BY RestartFacts
<1>3. CASE q.ok
  BY <1>1, <1>2, <1>3
<1>4. CASE ~q.ok
  <2>1. /\ UnpreparePreview(q.cam) \in Camera
        /\ \A ch \in PreviewChannel : UnpreparePreview(q.cam).chan[ch] = "none"
        /\ UnpreparePreview(q.cam).zsl = q.cam.zsl /\ Same(q.cam, UnpreparePreview(q.cam))
    BY <1>2, UnprepareFacts DEF Outcome, Same
  <2>2. p.cam = UnpreparePreview(q.cam) /\ ~p.ok /\ p \in Outcome
    BY <1>1, <1>2, <1>4, <2>1 DEF Outcome
  <2> QED
    BY <1>2, <1>4, <2>1, <2>2 DEF Same, NoPreview
<1> QED
  BY <1>3, <1>4

(* The same for channels of any kind: what takes no knowledge of them.      *)
LEMMA AnyRestart ==
  ASSUME NEW c \in Camera, zslNew \in BOOLEAN
  PROVE  /\ RestartPreview(c) \subseteq Outcome /\ RestartOrUnprepare(c) \subseteq Outcome
         /\ c.chan["VIDEO"] # "on" =>
              /\ \A p \in RestartPreview(c) : p.cam.chan["VIDEO"] # "on"
              /\ \A p \in RestartOrUnprepare(c) : p.cam.chan["VIDEO"] # "on"
<1>1. \A p \in RestartPreview(c) :
        p \in Outcome /\ (c.chan["VIDEO"] # "on" => p.cam.chan["VIDEO"] # "on")
  <2> SUFFICES ASSUME NEW p \in RestartPreview(c)
               PROVE  p \in Outcome /\ (c.chan["VIDEO"] # "on" => p.cam.chan["VIDEO"] # "on")
    OBVIOUS
  <2>0. "VIDEO" \in PreviewChannel /\ "VIDEO" \in Channel /\ \A x : PreviewOf(x) # "VIDEO"
    BY DEF PreviewChannel, Channel, PreviewOf
  <2>1. PICK q \in PreparePreview(c) : p \in (IF q.ok THEN StartPreview(q.cam) ELSE {q})
    BY DEF RestartPreview
  <2>2. /\ q \in Outcome /\ q.cam \in Camera
        /\ c.chan["VIDEO"] # "on" => q.cam.chan["VIDEO"] # "on"
    BY <2>0, PrepareFacts DEF Outcome
  <2>3. CASE ~q.ok
    BY <2>1, <2>2, <2>3
  <2>4. CASE q.ok
    BY <2>0, <2>1, <2>2, <2>4, StartPreviewFacts
  <2> QED
    BY <2>3, <2>4
<1>2. \A p \in RestartOrUnprepare(c) :
        p \in Outcome /\ (c.chan["VIDEO"] # "on" => p.cam.chan["VIDEO"] # "on")
  <2> SUFFICES ASSUME NEW p \in RestartOrUnprepare(c)
               PROVE  p \in Outcome /\ (c.chan["VIDEO"] # "on" => p.cam.chan["VIDEO"] # "on")
    OBVIOUS
  <2>1. PICK q \in RestartPreview(c) :
          p = IF q.ok THEN q ELSE [q EXCEPT !.cam = UnpreparePreview(q.cam)]
    BY DEF RestartOrUnprepare
  <2>2. UnpreparePreview(q.cam) \in Camera /\ UnpreparePreview(q.cam).chan["VIDEO"] = "none"
    BY <1>1, UnprepareFacts DEF Outcome, PreviewChannel
  <2>3. ~q.ok => p \in Outcome /\ p.cam = UnpreparePreview(q.cam)
    BY <1>1, <2>1, <2>2 DEF Outcome
  <2> QED
    BY <1>1, <2>1, <2>2, <2>3
<1> QED
  BY <1>1, <1>2

LEMMA PreTakeFacts ==
  ASSUME NEW c \in Camera, zslNew \in BOOLEAN, NEW p \in PreTakePicture(c)
  PROVE  /\ p \in Outcome /\ ~p.cam.hint /\ Same([c EXCEPT !.hint = FALSE], p.cam)
         /\ c.hint => /\ p.cam.zsl = zslNew
                      /\ p.ok => Runs(p.cam)
                      /\ ~p.ok => ~Firm /\ NoPreview(p.cam)
         /\ ~c.hint => p.ok /\ p.cam = c
<1>1. CASE ~c.hint
  <2>1. p = [ok |-> TRUE, cam |-> c]
    BY <1>1 DEF PreTakePicture
  <2> QED
    BY <1>1, <2>1 DEF Outcome, Same, Camera
<1>2. CASE c.hint
  <2> DEFINE stopped == StopPreview(c)
             d == WithHint(stopped, FALSE)
  <2>0. stopped \in Camera /\ NoPreview(stopped) /\ stopped.live = c.live
        /\ stopped.chan["CAPTURE"] = c.chan["CAPTURE"]
    BY StopPreviewFacts DEF NoPreview
  <2> HIDE DEF stopped
  <2>1. d \in Camera /\ NoPreview(d) /\ d.hint = FALSE /\ d.live = c.live
        /\ d.chan["CAPTURE"] = c.chan["CAPTURE"]
    BY <2>0 DEF NoPreview, WithHint, Committed, Camera
  <2>2. p \in RestartOrUnprepare(d)
    BY <1>2 DEF PreTakePicture, stopped
  <2> HIDE DEF d
  <2>3. /\ p \in Outcome /\ p.cam.zsl = zslNew /\ Same(d, p.cam)
        /\ p.ok => Runs(p.cam)
        /\ ~p.ok => ~Firm /\ NoPreview(p.cam)
    BY <2>1, <2>2, RestartOrUnprepareFacts
  <2> QED
    BY <1>2, <2>1, <2>3 DEF Same, Camera
<1> QED
  BY <1>1, <1>2

LEMMA PreStartFacts ==
  ASSUME NEW c \in Camera, zslNew \in BOOLEAN, NEW p \in PreStartRecording(c)
  PROVE  /\ p \in Outcome /\ p.cam.hint /\ p.cam.live = c.live
         /\ p.cam.chan["CAPTURE"] = c.chan["CAPTURE"]
         /\ ~c.hint => /\ p.cam.zsl = zslNew
                       /\ p.ok => Runs(p.cam)
                       /\ ~p.ok => ~Firm /\ (NoPreview(p.cam) \/ Prepared(p.cam))
         /\ c.hint => p.ok /\ p.cam = c
<1>1. CASE c.hint
  <2>1. p = [ok |-> TRUE, cam |-> c]
    BY <1>1 DEF PreStartRecording
  <2> QED
    BY <1>1, <2>1 DEF Outcome, Camera
<1>2. CASE ~c.hint
  <2> DEFINE stopped == StopPreview(c)
             d == WithHint(stopped, TRUE)
  <2>0. stopped \in Camera /\ NoPreview(stopped) /\ stopped.live = c.live
        /\ stopped.chan["CAPTURE"] = c.chan["CAPTURE"]
    BY StopPreviewFacts DEF NoPreview
  <2> HIDE DEF stopped
  <2>1. d \in Camera /\ NoPreview(d) /\ d.hint = TRUE /\ d.live = c.live
        /\ d.chan["CAPTURE"] = c.chan["CAPTURE"]
    BY <2>0 DEF NoPreview, WithHint, Committed, Camera
  <2>2. p \in RestartPreview(d)
    BY <1>2 DEF PreStartRecording, stopped
  <2> HIDE DEF d
  <2>3. /\ p \in Outcome /\ p.cam.zsl = zslNew /\ Same(d, p.cam)
        /\ p.ok => Runs(p.cam)
        /\ ~p.ok => ~Firm /\ (NoPreview(p.cam) \/ Prepared(p.cam))
    BY <2>1, <2>2, RestartFacts
  <2> QED
    BY <1>2, <2>1, <2>3 DEF Same, Camera
<1> QED
  BY <1>1, <1>2

LEMMA TakeFacts ==
  ASSUME NEW c \in Camera, zslNew \in BOOLEAN, NEW t \in TakePicture(c)
  PROVE  /\ t \in Outcome /\ t.cam.hint = c.hint /\ t.cam.live = c.live
         /\ c.zsl => t.cam.zsl /\ t.cam.chan = c.chan /\ (t.ok <=> c.chan["ZSL"] # "none")
         /\ ~c.zsl => /\ t.cam.zsl = zslNew /\ NoPreview(t.cam)
                      /\ t.cam.chan["CAPTURE"] = IF t.ok THEN "on" ELSE "none"
<1> DEFINE asked(o)  == IF o.ok THEN [o EXCEPT !.cam.shot = "asked"] ELSE o
           stopped   == Committed(StopPreview(c))
           capture   == Moved(stopped, {"CAPTURE"}, "added")
           fallen(o) == IF o.ok THEN o ELSE [o EXCEPT !.cam = Moved(o.cam, {"CAPTURE"}, "none")]
<1>0. "CAPTURE" \in Channel /\ PreviewChannel \subseteq Channel /\ "CAPTURE" \notin PreviewChannel
  BY DEF Channel, PreviewChannel
<1>1. ASSUME NEW o \in Outcome
      PROVE  /\ asked(o) \in Outcome /\ asked(o).ok = o.ok /\ asked(o).cam.chan = o.cam.chan
             /\ asked(o).cam.zsl = o.cam.zsl /\ asked(o).cam.hint = o.cam.hint
             /\ asked(o).cam.live = o.cam.live
  BY DEF Outcome, Camera
<1>2. CASE c.zsl
  <2>1. t = asked([ok |-> c.chan["ZSL"] # "none", cam |-> c])
    BY <1>2 DEF TakePicture
  <2>2. [ok |-> c.chan["ZSL"] # "none", cam |-> c] \in Outcome
    BY DEF Outcome
  <2> HIDE DEF asked
  <2> QED
    BY <1>1, <1>2, <2>1, <2>2
<1>3. CASE ~c.zsl
  <2>1. stopped \in Camera /\ NoPreview(stopped) /\ stopped.zsl = zslNew
        /\ stopped.hint = c.hint /\ stopped.live = c.live
    BY StopPreviewFacts, CommittedFacts DEF NoPreview
  <2>2. PICK o \in StartChannel(capture, "CAPTURE") : t = asked(fallen(o))
    BY <1>3 DEF TakePicture
  <2> HIDE DEF asked, stopped
  <2>3. capture \in Camera /\ NoPreview(capture) /\ capture.zsl = zslNew
        /\ capture.hint = c.hint /\ capture.live = c.live
    BY <1>0, <2>1, MovedFacts DEF NoPreview
  <2> HIDE DEF capture
  <2>4. /\ o \in Outcome /\ o.cam.zsl = zslNew /\ o.cam.hint = c.hint /\ o.cam.live = c.live
        /\ o.ok => \A x \in Channel :
                     o.cam.chan[x] = IF x = "CAPTURE" THEN "on" ELSE capture.chan[x]
        /\ ~o.ok => o.cam = capture
    BY <1>0, <2>2, <2>3, StartChannelFacts
  <2>5. NoPreview(o.cam)
    BY <1>0, <2>3, <2>4 DEF NoPreview
  <2>6. /\ fallen(o) \in Outcome /\ fallen(o).ok = o.ok /\ NoPreview(fallen(o).cam)
        /\ fallen(o).cam.zsl = zslNew /\ fallen(o).cam.hint = c.hint
        /\ fallen(o).cam.live = c.live
        /\ fallen(o).cam.chan["CAPTURE"] = IF o.ok THEN "on" ELSE "none"
    <3>1. CASE o.ok
      BY <1>0, <2>4, <2>5, <3>1
    <3>2. CASE ~o.ok
      <4> DEFINE m == Moved(o.cam, {"CAPTURE"}, "none")
      <4>1. /\ m \in Camera /\ m.zsl = o.cam.zsl /\ m.hint = o.cam.hint /\ m.live = o.cam.live
            /\ \A x \in Channel : m.chan[x] = IF x = "CAPTURE" THEN "none" ELSE o.cam.chan[x]
        BY <2>4, MovedFacts DEF Outcome
      <4> HIDE DEF m
      <4>2. fallen(o) = [o EXCEPT !.cam = m]
        BY <3>2 DEF m
      <4>3. fallen(o) \in Outcome /\ fallen(o).cam = m /\ fallen(o).ok = o.ok
        BY <2>4, <4>1, <4>2 DEF Outcome
      <4> HIDE DEF fallen
      <4> QED
        BY <1>0, <2>4, <2>5, <3>2, <4>1, <4>3 DEF NoPreview
    <3> QED
      BY <3>1, <3>2
  <2> HIDE DEF fallen
  <2> QED
    BY <1>1, <1>3, <2>2, <2>6 DEF NoPreview
<1> QED
  BY <1>2, <1>3

-----------------------------------------------------------------------------
(* The calls and their APIs.                                               *)
ParamApi == {"SET_PARAMS", "SET_PARAMS_STOP", "SET_PARAMS_COMMIT", "SET_PARAMS_RESTART"}

PayloadApi == {"SET_PARAMS", "SET_PREVIEW_WINDOW"}

(* The APIs that only a call posts, and whose result it always waits for.   *)
Single == CallApi \ {"PREPARE_SNAPSHOT", "CANCEL_PICTURE"}

LEMMA Calls ==
  /\ Call = {"set_preview_window", "start_preview", "stop_preview", "set_parameters",
             "start_recording", "stop_recording", "take_picture", "cancel_picture", "release"}
  /\ \A f \in Call : DOMAIN Script[f] =
       CASE f = "set_parameters" -> 1..4 [] f = "start_recording" -> 1..2
         [] f = "take_picture" -> 1..3 [] OTHER -> 1..1
  /\ \A f \in Call : \A i \in DOMAIN Script[f] : Script[f][i] \in CallApi
BY DEF Call, Script, CallApi

LEMMA CallSteps ==
  /\ Script["set_preview_window"][1] = "SET_PREVIEW_WINDOW"
  /\ Script["start_preview"][1] = "START_PREVIEW" /\ Script["stop_preview"][1] = "STOP_PREVIEW"
  /\ Script["set_parameters"][1] = "SET_PARAMS" /\ Script["set_parameters"][2] = "SET_PARAMS_STOP"
  /\ Script["set_parameters"][3] = "SET_PARAMS_COMMIT"
  /\ Script["set_parameters"][4] = "SET_PARAMS_RESTART"
  /\ Script["start_recording"][1] = "PRE_START_RECORDING"
  /\ Script["start_recording"][2] = "START_RECORDING"
  /\ Script["stop_recording"][1] = "STOP_RECORDING"
  /\ Script["take_picture"][1] = "PREPARE_SNAPSHOT" /\ Script["take_picture"][2] = "PRE_TAKE_PICTURE"
  /\ Script["take_picture"][3] = "TAKE_PICTURE"
  /\ Script["cancel_picture"][1] = "CANCEL_PICTURE" /\ Script["release"][1] = "RELEASE"
BY DEF Script

LEMMA Apis ==
  /\ CallApi = {"SET_PREVIEW_WINDOW", "START_PREVIEW", "STOP_PREVIEW", "PRE_START_RECORDING",
                "START_RECORDING", "STOP_RECORDING", "PREPARE_SNAPSHOT", "PRE_TAKE_PICTURE",
                "TAKE_PICTURE", "CANCEL_PICTURE", "RELEASE"} \cup ParamApi
  /\ Api = CallApi \cup {"RELEASE_RECORDING_FRAME"}
<1>1. ASSUME NEW a \in CallApi
      PROVE  a \in {"SET_PREVIEW_WINDOW", "START_PREVIEW", "STOP_PREVIEW", "PRE_START_RECORDING",
                "START_RECORDING", "STOP_RECORDING", "PREPARE_SNAPSHOT", "PRE_TAKE_PICTURE",
                "TAKE_PICTURE", "CANCEL_PICTURE", "RELEASE"} \cup ParamApi
  <2>1. PICK f \in Call : \E i \in DOMAIN Script[f] : a = Script[f][i]
    BY DEF CallApi
  <2>2. PICK i \in DOMAIN Script[f] : a = Script[f][i]
    BY <2>1
  <2>3. CASE f = "set_parameters"
    <3>1. i \in {1, 2, 3, 4}
      BY <2>3, Calls
    <3> QED
      BY <2>2, <2>3, <3>1, CallSteps DEF ParamApi
  <2>4. CASE f = "take_picture"
    <3>1. i \in {1, 2, 3}
      BY <2>4, Calls
    <3> QED
      BY <2>2, <2>4, <3>1, CallSteps
  <2>5. CASE f = "start_recording"
    <3>1. i \in {1, 2}
      BY <2>5, Calls
    <3> QED
      BY <2>2, <2>5, <3>1, CallSteps
  <2>6. CASE f \notin {"set_parameters", "take_picture", "start_recording"}
    <3>1. i = 1
      BY <2>6, Calls
    <3> QED
      BY <2>2, <2>6, <3>1, Calls, CallSteps
  <2> QED
    BY <2>3, <2>4, <2>5, <2>6
<1>2. ASSUME NEW f \in Call, NEW i \in DOMAIN Script[f]
      PROVE  Script[f][i] \in CallApi
  BY <1>2, Calls
<1>3. {"SET_PREVIEW_WINDOW", "START_PREVIEW", "STOP_PREVIEW", "PRE_START_RECORDING",
                "START_RECORDING", "STOP_RECORDING", "PREPARE_SNAPSHOT", "PRE_TAKE_PICTURE",
                "TAKE_PICTURE", "CANCEL_PICTURE", "RELEASE"} \cup ParamApi \subseteq CallApi
  <2>1. "SET_PREVIEW_WINDOW" \in CallApi
    BY <1>2, Calls, CallSteps
  <2>2. "START_PREVIEW" \in CallApi
    BY <1>2, Calls, CallSteps
  <2>3. "STOP_PREVIEW" \in CallApi
    BY <1>2, Calls, CallSteps
  <2>4. "PRE_START_RECORDING" \in CallApi /\ "START_RECORDING" \in CallApi
    BY <1>2, Calls, CallSteps
  <2>5. "STOP_RECORDING" \in CallApi
    BY <1>2, Calls, CallSteps
  <2>6. "PREPARE_SNAPSHOT" \in CallApi /\ "PRE_TAKE_PICTURE" \in CallApi /\ "TAKE_PICTURE" \in CallApi
    BY <1>2, Calls, CallSteps
  <2>7. "CANCEL_PICTURE" \in CallApi
    BY <1>2, Calls, CallSteps
  <2>8. "RELEASE" \in CallApi
    BY <1>2, Calls, CallSteps
  <2>9. ParamApi \subseteq CallApi
    BY <1>2, Calls, CallSteps DEF ParamApi
  <2> QED
    BY <2>1, <2>2, <2>3, <2>4, <2>5, <2>6, <2>7, <2>8, <2>9
<1> QED
  BY <1>1, <1>3 DEF Api

LEMMA MinFacts ==
  ASSUME NEW S \in SUBSET (1..4), S # {}
  PROVE  Min(S) \in S /\ \A x \in S : Min(S) <= x
<1>0. \A y \in S : y \in 1..4
  OBVIOUS
<1>1. \E x \in S : \A y \in S : x <= y
  <2>1. CASE 1 \in S
    BY <2>1
  <2>2. CASE 1 \notin S /\ 2 \in S
    <3>1. \A y \in S : 2 <= y
      BY <2>2
    <3> QED
      BY <2>2, <3>1
  <2>3. CASE 1 \notin S /\ 2 \notin S /\ 3 \in S
    <3>1. \A y \in S : 3 <= y
      BY <2>3
    <3> QED
      BY <2>3, <3>1
  <2>4. CASE 1 \notin S /\ 2 \notin S /\ 3 \notin S
    <3>1. \A y \in S : y = 4
      <4>1. \A y \in S : y # 1 /\ y # 2 /\ y # 3
        BY <2>4
      <4> QED
        BY <1>0, <4>1
    <3>2. 4 \in S
      BY <3>1
    <3> QED
      BY <3>1, <3>2
  <2> QED
    BY <2>1, <2>2, <2>3, <2>4
<1> QED
  BY <1>1 DEF Min

-----------------------------------------------------------------------------
(* The protocol of the calls.  A call's request is in the queue or its      *)
(* result in the list, never both; only take_picture, that may have given   *)
(* up its wait for PREPARE_SNAPSHOT, leaves requests behind, and these come *)
(* before any request of a later call.                                     *)
Queued(a) == \E i \in 1..Len(api_queue) : api_queue[i].api = a

Answered == m_apiResultList[Awaited] # << >>

CallShape ==
  /\ app \in [call : Call \cup {"none"}, step : 0..4]
  /\ \A i \in 1..Len(api_queue) :
       /\ api_queue[i].api = "SET_PARAMS" => api_queue[i].arg \in [1..2 -> BOOLEAN]
       /\ api_queue[i].api = "SET_PREVIEW_WINDOW" => api_queue[i].arg \in [1..1 -> BOOLEAN]
       /\ api_queue[i].api \notin PayloadApi => api_queue[i].arg = << >>

OneRequest ==
  \A i \in 1..Len(api_queue) : api_queue[i].api \in Single =>
    /\ Waiting /\ Awaited = api_queue[i].api /\ ~Answered
    /\ \A j \in 1..Len(api_queue) : api_queue[j].api \in Single => j = i
    /\ \A j \in 1..Len(api_queue) : api_queue[j].api = "PREPARE_SNAPSHOT" => j < i

OneResult ==
  \A a \in Single : m_apiResultList[a] # << >> =>
    /\ Waiting /\ Awaited = a /\ Len(m_apiResultList[a]) = 1
    /\ ~Queued("PREPARE_SNAPSHOT")

(* While the video channel runs the state is one of a recording.           *)
VideoState == On("VIDEO") => m_state \in RecordingState

CallInv == TypeOK /\ CallShape /\ OneRequest /\ OneResult /\ VideoState

LEMMA RequestAppended ==
  ASSUME NEW q \in Seq(Request), NEW r \in Request
  PROVE  /\ Append(q, r) \in Seq(Request) /\ Len(Append(q, r)) = Len(q) + 1
         /\ \A i \in 1..Len(q) : Append(q, r)[i] = q[i]
         /\ Append(q, r)[Len(q) + 1] = r
         /\ 1..Len(Append(q, r)) = (1..Len(q)) \cup {Len(q) + 1}
OBVIOUS

LEMMA RequestServed ==
  ASSUME NEW q \in Seq(Request), q # << >>
  PROVE  /\ Tail(q) \in Seq(Request) /\ Head(q) = q[1] /\ 1 \in 1..Len(q) /\ q[1] \in Request
         /\ Len(Tail(q)) = Len(q) - 1
         /\ \A i \in 1..Len(Tail(q)) : i + 1 \in 1..Len(q) /\ Tail(q)[i] = q[i + 1]
OBVIOUS

LEMMA QueueType ==
  ASSUME TypeOK
  PROVE  /\ api_queue \in Seq(Request) /\ DOMAIN api_queue = 1..Len(api_queue)
         /\ Len(api_queue) \in Nat /\ cam \in Camera
BY DEF TypeOK, Request, Camera

LEMMA ResultAdded ==
  ASSUME NEW list \in Seq(BOOLEAN), NEW ok \in BOOLEAN
  PROVE  /\ Append(list, ok) \in Seq(BOOLEAN) /\ Append(list, ok) # << >>
         /\ Len(Append(list, ok)) = Len(list) + 1
OBVIOUS

LEMMA FirstResult ==
  ASSUME NEW ok
  PROVE  Append(<< >>, ok)[1] = ok /\ Len(Append(<< >>, ok)) = 1 /\ Append(<< >>, ok) # << >>
OBVIOUS

LEMMA ResultTaken ==
  ASSUME NEW S, NEW list \in Seq(S), list # << >>
  PROVE  /\ Tail(list) \in Seq(S) /\ Head(list) = list[1] /\ list[1] \in S
         /\ (Len(list) = 1 => Tail(list) = << >>)
<1>1. Tail(list) \in Seq(S) /\ Head(list) = list[1] /\ list[1] \in S
      /\ Len(Tail(list)) = Len(list) - 1
  OBVIOUS
<1>2. \A q \in Seq(S) : Len(q) = 0 => q = << >>
  OBVIOUS
<1> QED
  BY <1>1, <1>2

LEMMA AwaitedType ==
  ASSUME TypeOK, CallShape
  PROVE  Waiting => /\ app.call \in Call /\ app.step \in DOMAIN Script[app.call]
                    /\ Awaited \in CallApi
BY Calls DEF TypeOK, CallShape, Waiting, Awaited

(* What every handler does with the queue and the results: it takes the     *)
(* first request and adds at most one result of its API.                   *)
Answers(a) ==
  /\ Serve(a) /\ UNCHANGED callers
  /\ \/ \E ok \in BOOLEAN : a \in Api /\ Signal(a, ok)
     \/ a \notin Single /\ UNCHANGED m_apiResultList

(* The types of what the handlers change besides.                          *)
MachineTypes ==
  /\ m_state \in State /\ cam \in Camera /\ zslNew \in BOOLEAN
  /\ needRestart \in BOOLEAN /\ mPreviewWindow \in BOOLEAN /\ prep \in BOOLEAN

LEMMA HandlerKeepsCalls ==
  ASSUME CallInv, NEW a \in Api \cup {"STOP_CAPTURE_CHANNEL"}, Answers(a), MachineTypes'
  PROVE  TypeOK' /\ CallShape' /\ OneRequest' /\ OneResult'
<1> USE DEF CallInv
<1>1. /\ api_queue \in Seq(Request) /\ api_queue' \in Seq(Request) /\ api_queue # << >>
      /\ 1 \in 1..Len(api_queue) /\ api_queue[1].api = a
      /\ \A i \in 1..Len(api_queue') : /\ i + 1 \in 1..Len(api_queue)
                                       /\ api_queue'[i] = api_queue[i + 1]
  BY QueueType, RequestServed DEF Answers, Serve
<1>2. UNCHANGED <<app, mPrepSnapRun, encoder, notifier, evt_queue>>
  BY DEF Answers, Serve, callers
<1>3. /\ m_apiResultList' \in [Api -> Seq(BOOLEAN)]
      /\ \A b \in Api : b # a => m_apiResultList'[b] = m_apiResultList[b]
      /\ a \in Single => \E ok \in BOOLEAN : m_apiResultList'[a] = Append(m_apiResultList[a], ok)
  <2>1. m_apiResultList \in [Api -> Seq(BOOLEAN)]
    BY DEF TypeOK
  <2>2. CASE UNCHANGED m_apiResultList /\ a \notin Single
    BY <2>1, <2>2
  <2>3. ASSUME NEW ok \in BOOLEAN, a \in Api, Signal(a, ok)
        PROVE  <1>3
    BY <2>1, <2>3, ResultAdded DEF Signal
  <2> QED
    BY <2>2, <2>3 DEF Answers
<1>4. TypeOK'
  BY <1>1, <1>2, <1>3 DEF TypeOK, MachineTypes, Request, Camera
<1>5. CallShape'
  BY <1>1, <1>2 DEF CallShape
<1>6. Waiting' = Waiting /\ Awaited' = Awaited
  BY <1>2 DEF Waiting, Awaited
<1>7. Single \subseteq Api
  BY DEF Single, Api
<1>8. CASE a \in Single
  <2>1. /\ Waiting /\ Awaited = a /\ m_apiResultList[a] = << >>
        /\ \A j \in 1..Len(api_queue) : api_queue[j].api \in Single => j = 1
        /\ \A j \in 1..Len(api_queue) : api_queue[j].api # "PREPARE_SNAPSHOT"
    BY <1>1, <1>8 DEF OneRequest, Answered
  <2>2. \A i \in 1..Len(api_queue') : api_queue'[i].api \notin Single
    BY <1>1, <2>1
  <2>3. ~Queued("PREPARE_SNAPSHOT")'
    BY <1>1, <2>1 DEF Queued
  <2>4. \A b \in Single : m_apiResultList'[b] # << >> => b = a
    BY <1>3, <1>7, <2>1 DEF OneResult
  <2>5. Len(m_apiResultList'[a]) = 1
    BY <1>3, <1>8, <2>1, FirstResult
  <2> QED
    BY <1>4, <1>5, <1>6, <2>1, <2>2, <2>3, <2>4, <2>5 DEF OneRequest, OneResult
<1>9. CASE a \notin Single
  <2>1. \A b \in Single : m_apiResultList'[b] = m_apiResultList[b]
    BY <1>3, <1>7, <1>9
  <2>2. OneRequest'
    <3> SUFFICES ASSUME NEW i \in 1..Len(api_queue'), api_queue'[i].api \in Single
                 PROVE  /\ Waiting' /\ Awaited' = api_queue'[i].api /\ ~Answered'
                        /\ \A j \in 1..Len(api_queue') : api_queue'[j].api \in Single => j = i
                        /\ \A j \in 1..Len(api_queue') :
                             api_queue'[j].api = "PREPARE_SNAPSHOT" => j < i
      BY DEF OneRequest
    <3>1. i + 1 \in 1..Len(api_queue) /\ api_queue[i + 1].api = api_queue'[i].api
      BY <1>1
    <3>2. /\ Waiting /\ Awaited = api_queue[i + 1].api /\ ~Answered
          /\ \A j \in 1..Len(api_queue) : api_queue[j].api \in Single => j = i + 1
          /\ \A j \in 1..Len(api_queue) : api_queue[j].api = "PREPARE_SNAPSHOT" => j < i + 1
      BY <3>1 DEF OneRequest
    <3>3. ~Answered'
      BY <1>6, <2>1, <3>1, <3>2 DEF Answered
    <3>4. \A j \in 1..Len(api_queue') : api_queue'[j].api \in Single => j = i
      BY <1>1, <3>2
    <3>5. \A j \in 1..Len(api_queue') : api_queue'[j].api = "PREPARE_SNAPSHOT" => j < i
      BY <1>1, <3>2
    <3> QED
      BY <1>6, <3>1, <3>2, <3>3, <3>4, <3>5
  <2>3. OneResult'
    <3>1. ~Queued("PREPARE_SNAPSHOT") => ~Queued("PREPARE_SNAPSHOT")'
      BY <1>1 DEF Queued
    <3> QED
      BY <1>6, <2>1, <3>1 DEF OneResult
  <2> QED
    BY <1>4, <1>5, <2>2, <2>3
<1> QED
  BY <1>8, <1>9

-----------------------------------------------------------------------------
(* The handlers, for any application: how they answer, the types of what    *)
(* they leave, and the video channel.                                      *)
Ends == {"STOP_RECORDING", "STOP_PREVIEW"}

Handled(a) ==
  /\ Answers(a) /\ MachineTypes' /\ VideoState'
  /\ On("VIDEO") /\ ~On("VIDEO")' => a \in Ends

LEMMA MachineType ==
  ASSUME TypeOK
  PROVE  /\ MachineTypes /\ TRUE \in BOOLEAN /\ FALSE \in BOOLEAN
BY DEF TypeOK, MachineTypes, Camera

(* A handler that ends with Reply. *)
LEMMA ReplyHandled ==
  ASSUME CallInv, NEW a \in Api, Serve(a), UNCHANGED callers,
         NEW state \in State, NEW c \in Camera, NEW ok \in BOOLEAN, Reply(state, c, ok),
         zslNew' \in BOOLEAN, needRestart' \in BOOLEAN, mPreviewWindow' \in BOOLEAN,
         prep' \in BOOLEAN,
         c.chan["VIDEO"] = "on" => state \in RecordingState,
         On("VIDEO") => c.chan["VIDEO"] = "on" \/ a \in Ends
  PROVE  Handled(a)
<1>1. m_state' = state /\ cam' = c /\ Signal(a, ok)
  BY DEF Reply, Serve
<1>2. Answers(a)
  BY <1>1 DEF Answers
<1>3. MachineTypes'
  BY <1>1 DEF MachineTypes
<1>4. VideoState'
  BY <1>1 DEF VideoState, On
<1> QED
  BY <1>1, <1>2, <1>3, <1>4 DEF Handled, On

LEMMA NothingChanged ==
  ASSUME CallInv, NEW a \in Api, Serve(a), UNCHANGED callers, Accept \/ Refuse,
         zslNew' \in BOOLEAN, needRestart' \in BOOLEAN, mPreviewWindow' \in BOOLEAN,
         prep' \in BOOLEAN
  PROVE  Handled(a)
<1>1. PICK ok \in BOOLEAN : Reply(m_state, cam, ok)
  BY DEF Accept, Refuse
<1>2. m_state \in State /\ cam \in Camera
  BY MachineType DEF CallInv, MachineTypes
<1>3. On("VIDEO") => m_state \in RecordingState
  BY DEF CallInv, VideoState
<1> QED
  BY <1>1, <1>2, <1>3, ReplyHandled DEF On

LEMMA SettingsKept ==
  ASSUME CallInv, UNCHANGED settings
  PROVE  zslNew' \in BOOLEAN /\ needRestart' \in BOOLEAN /\ mPreviewWindow' \in BOOLEAN
         /\ prep' \in BOOLEAN
BY MachineType DEF CallInv, MachineTypes, settings

LEMMA SomeApis ==
  {"SET_PREVIEW_WINDOW", "START_PREVIEW", "STOP_PREVIEW", "PRE_START_RECORDING",
   "START_RECORDING", "STOP_RECORDING", "PREPARE_SNAPSHOT", "PRE_TAKE_PICTURE",
   "TAKE_PICTURE", "CANCEL_PICTURE", "RELEASE", "SET_PARAMS", "SET_PARAMS_STOP",
   "SET_PARAMS_COMMIT", "SET_PARAMS_RESTART", "RELEASE_RECORDING_FRAME"} \subseteq Api
BY Apis DEF ParamApi

LEMMA StartsOrStopsFacts ==
  ASSUME NEW c \in Camera, NEW o \in StartsOrStops(c)
  PROVE  /\ o.state \in {"PREVIEWING", "STOPPED"} /\ o.cam \in Camera /\ o.ok \in BOOLEAN
         /\ o.state \in State /\ (o.state = "PREVIEWING" <=> o.ok)
         /\ o.cam.zsl = c.zsl /\ Same(c, o.cam)
         /\ o.ok => /\ c.chan[PreviewOf(c)] # "none" /\ PreviewOf(o.cam) = PreviewOf(c)
                    /\ \A x \in Channel :
                         o.cam.chan[x] = IF x = PreviewOf(c) THEN "on" ELSE c.chan[x]
         /\ ~o.ok => NoPreview(o.cam) /\ (c.chan[PreviewOf(c)] = "none" \/ ~Firm)
<1>1. PICK p \in StartPreview(c) :
        o = IF p.ok THEN [state |-> "PREVIEWING", cam |-> p.cam, ok |-> TRUE]
            ELSE [state |-> "STOPPED", cam |-> UnpreparePreview(p.cam), ok |-> FALSE]
  BY DEF StartsOrStops
<1>2. /\ p \in Outcome /\ p.cam.zsl = c.zsl /\ Same(c, p.cam)
      /\ p.ok => /\ c.chan[PreviewOf(c)] # "none" /\ PreviewOf(p.cam) = PreviewOf(c)
                 /\ \A x \in Channel :
                      p.cam.chan[x] = IF x = PreviewOf(c) THEN "on" ELSE c.chan[x]
      /\ ~p.ok => p.cam = c /\ (c.chan[PreviewOf(c)] = "none" \/ ~Firm)
  BY StartPreviewFacts
<1>3. CASE p.ok
  <2>1. o.state = "PREVIEWING" /\ o.cam = p.cam /\ o.ok = TRUE
    BY <1>1, <1>3
  <2>2. o.cam \in Camera /\ o.state \in State /\ o.ok \in BOOLEAN
    BY <1>2, <2>1 DEF Outcome, State
  <2> QED
    BY <1>2, <1>3, <2>1, <2>2
<1>4. CASE ~p.ok
  <2>1. /\ UnpreparePreview(c) \in Camera /\ NoPreview(UnpreparePreview(c))
        /\ UnpreparePreview(c).zsl = c.zsl /\ Same(c, UnpreparePreview(c))
    BY UnprepareFacts DEF NoPreview, Same
  <2>2. o.state = "STOPPED" /\ o.cam = UnpreparePreview(c) /\ o.ok = FALSE
    BY <1>1, <1>2, <1>4
  <2> QED
    BY <1>2, <1>4, <2>1, <2>2 DEF State
<1> QED
  BY <1>3, <1>4

(* A preview that starts leaves the video channel as it is, or deletes it.  *)
LEMMA StartsOrStopsVideo ==
  ASSUME NEW c \in Camera, NEW o \in StartsOrStops(c), c.chan["VIDEO"] # "on"
  PROVE  o.cam.chan["VIDEO"] # "on"
<1>1. "VIDEO" \in Channel /\ "VIDEO" \in PreviewChannel /\ "VIDEO" # PreviewOf(c)
  BY DEF Channel, PreviewChannel, PreviewOf
<1> QED
  BY <1>1, StartsOrStopsFacts DEF NoPreview

LEMMA PrepareVideo ==
  ASSUME NEW c \in Camera, zslNew \in BOOLEAN, NEW p \in PreparePreview(c), c.chan["VIDEO"] # "on"
  PROVE  p \in Outcome /\ p.cam \in Camera /\ p.cam.chan["VIDEO"] # "on"
BY PrepareFacts DEF PreviewChannel, Outcome

LEMMA SetPreviewWindowHandled ==
  CallInv /\ OnSetPreviewWindow /\ UNCHANGED callers => Handled("SET_PREVIEW_WINDOW")
<1> SUFFICES ASSUME CallInv, OnSetPreviewWindow, UNCHANGED callers
             PROVE  Handled("SET_PREVIEW_WINDOW")
  OBVIOUS
<1>1. Serve("SET_PREVIEW_WINDOW") /\ "SET_PREVIEW_WINDOW" \in Api
  BY SomeApis DEF OnSetPreviewWindow
<1>2. Argument \in [1..1 -> BOOLEAN]
  BY <1>1, QueueType, RequestServed DEF CallInv, CallShape, Serve, Argument
<1>3. zslNew' \in BOOLEAN /\ needRestart' \in BOOLEAN /\ mPreviewWindow' \in BOOLEAN
      /\ prep' \in BOOLEAN
  BY <1>2, MachineType DEF OnSetPreviewWindow, CallInv, MachineTypes
<1>4. CASE Accept \/ Refuse
  BY <1>1, <1>3, <1>4, NothingChanged
<1>5. CASE m_state = "READY" /\ \E o \in StartsOrStops(cam) : Reply(o.state, o.cam, o.ok)
  <2>1. PICK o \in StartsOrStops(cam) : Reply(o.state, o.cam, o.ok)
    BY <1>5
  <2>2. cam \in Camera /\ cam.chan["VIDEO"] # "on"
    BY <1>5, QueueType DEF CallInv, VideoState, RecordingState, On
  <2>3. o.cam \in Camera /\ o.state \in State /\ o.ok \in BOOLEAN /\ o.cam.chan["VIDEO"] # "on"
    BY <2>2, StartsOrStopsFacts, StartsOrStopsVideo
  <2> QED
    BY <1>1, <1>3, <2>1, <2>2, <2>3, ReplyHandled DEF On
<1> QED
  BY <1>4, <1>5 DEF OnSetPreviewWindow

LEMMA StartPreviewHandled ==
  CallInv /\ OnStartPreview /\ UNCHANGED callers => Handled("START_PREVIEW")
<1> SUFFICES ASSUME CallInv, OnStartPreview, UNCHANGED callers
             PROVE  Handled("START_PREVIEW")
  OBVIOUS
<1>1. Serve("START_PREVIEW") /\ "START_PREVIEW" \in Api
  BY SomeApis DEF OnStartPreview
<1>2. zslNew' \in BOOLEAN /\ needRestart' \in BOOLEAN /\ mPreviewWindow' \in BOOLEAN
      /\ prep' \in BOOLEAN
  BY SettingsKept DEF OnStartPreview
<1>3. cam \in Camera /\ zslNew \in BOOLEAN
  BY MachineType DEF CallInv, MachineTypes
<1>4. m_state \in {"STOPPED", "READY"} => cam.chan["VIDEO"] # "on"
  BY DEF CallInv, VideoState, RecordingState, On
<1>5. CASE Accept \/ Refuse
  BY <1>1, <1>2, <1>5, NothingChanged
<1>6. CASE /\ m_state = "STOPPED"
           /\ \E p \in PreparePreview(cam) :
                IF ~p.ok THEN Reply("STOPPED", p.cam, FALSE)
                ELSE IF ~mPreviewWindow THEN Reply("READY", p.cam, TRUE)
                ELSE \E o \in StartsOrStops(p.cam) : Reply(o.state, o.cam, o.ok)
  <2>1. PICK p \in PreparePreview(cam) :
                IF ~p.ok THEN Reply("STOPPED", p.cam, FALSE)
                ELSE IF ~mPreviewWindow THEN Reply("READY", p.cam, TRUE)
                ELSE \E o \in StartsOrStops(p.cam) : Reply(o.state, o.cam, o.ok)
    BY <1>6
  <2>2. p.cam \in Camera /\ p.cam.chan["VIDEO"] # "on"
    BY <1>3, <1>4, <1>6, PrepareVideo
  <2>3. CASE \E ok \in BOOLEAN, s \in {"STOPPED", "READY"} : Reply(s, p.cam, ok)
    BY <1>1, <1>2, <1>4, <1>6, <2>2, <2>3, ReplyHandled DEF On, State
  <2>4. CASE \E o \in StartsOrStops(p.cam) : Reply(o.state, o.cam, o.ok)
    <3>1. PICK o \in StartsOrStops(p.cam) : Reply(o.state, o.cam, o.ok)
      BY <2>4
    <3>2. o.cam \in Camera /\ o.state \in State /\ o.ok \in BOOLEAN /\ o.cam.chan["VIDEO"] # "on"
      BY <2>2, StartsOrStopsFacts, StartsOrStopsVideo
    <3> QED
      BY <1>1, <1>2, <1>4, <1>6, <3>1, <3>2, ReplyHandled DEF On
  <2> QED
    BY <2>1, <2>3, <2>4
<1>7. CASE m_state = "READY" /\ \E o \in StartsOrStops(cam) : Reply(o.state, o.cam, TRUE)
  <2>1. PICK o \in StartsOrStops(cam) : Reply(o.state, o.cam, TRUE)
    BY <1>7
  <2>2. o.cam \in Camera /\ o.state \in State /\ o.cam.chan["VIDEO"] # "on"
    BY <1>3, <1>4, <1>7, StartsOrStopsFacts, StartsOrStopsVideo
  <2> QED
    BY <1>1, <1>2, <1>4, <1>7, <2>1, <2>2, ReplyHandled DEF On
<1> QED
  BY <1>5, <1>6, <1>7 DEF OnStartPreview

LEMMA StopPreviewHandled ==
  CallInv /\ OnStopPreview /\ UNCHANGED callers => Handled("STOP_PREVIEW")
<1> SUFFICES ASSUME CallInv, OnStopPreview, UNCHANGED callers
             PROVE  Handled("STOP_PREVIEW")
  OBVIOUS
<1>1. Serve("STOP_PREVIEW") /\ "STOP_PREVIEW" \in Api /\ "STOP_PREVIEW" \in Ends
  BY SomeApis DEF OnStopPreview, Ends
<1>2. zslNew' \in BOOLEAN /\ needRestart' \in BOOLEAN /\ mPreviewWindow' \in BOOLEAN
      /\ prep' \in BOOLEAN
  BY SettingsKept DEF OnStopPreview
<1>3. cam \in Camera
  BY MachineType DEF CallInv, MachineTypes
<1>4. "VIDEO" \in PreviewChannel /\ "VIDEO" \in Channel /\ "STOPPED" \in State
  BY DEF PreviewChannel, Channel, State
<1>5. \A c \in Camera : /\ StopPreview(c) \in Camera /\ StopPreview(c).chan["VIDEO"] = "none"
                        /\ UnpreparePreview(c) \in Camera
                        /\ UnpreparePreview(c).chan["VIDEO"] = "none"
                        /\ StopRecording(c) \in Camera /\ CancelPicture(c) \in Camera
                        /\ StopSnapshot(c) \in Camera /\ Live(c, "stop") \in Camera
                        /\ CancelPicture(c).chan["VIDEO"] = c.chan["VIDEO"]
  BY <1>4, StopPreviewFacts, UnprepareFacts, StopChannelFacts, CancelFacts, StopSnapshotFacts,
     LiveFacts DEF StopRecording
<1>6. CASE Accept \/ Refuse
  BY <1>1, <1>2, <1>6, NothingChanged
<1>7. CASE m_state = "READY" /\ Reply("STOPPED", UnpreparePreview(cam), TRUE)
  BY <1>1, <1>2, <1>3, <1>4, <1>5, <1>7, ReplyHandled
<1>8. CASE m_state = "PREVIEWING" /\ Reply("STOPPED", StopPreview(cam), TRUE)
  BY <1>1, <1>2, <1>3, <1>4, <1>5, <1>8, ReplyHandled
<1>9. CASE m_state = "PIC_TAKING" /\ Reply("STOPPED", CancelPicture(cam), TRUE)
  <2>1. cam.chan["VIDEO"] # "on"
    BY <1>9 DEF CallInv, VideoState, RecordingState, On
  <2> QED
    BY <1>1, <1>2, <1>3, <1>4, <1>5, <1>9, <2>1, ReplyHandled
<1>10. CASE \E c \in {cam, StopSnapshot(cam)} : Reply("STOPPED", StopPreview(StopRecording(c)), TRUE)
  <2>1. PICK c \in {cam, StopSnapshot(cam)} : Reply("STOPPED", StopPreview(StopRecording(c)), TRUE)
    BY <1>10
  <2>2. StopRecording(c) \in Camera
    BY <1>3, <1>5
  <2> QED
    BY <1>1, <1>2, <1>4, <1>5, <2>1, <2>2, ReplyHandled
<1>11. CASE \E c \in {CancelPicture(cam), Live(cam, "stop")} :
              Reply("STOPPED", UnpreparePreview(c), TRUE)
  <2>1. PICK c \in {CancelPicture(cam), Live(cam, "stop")} :
          Reply("STOPPED", UnpreparePreview(c), TRUE)
    BY <1>11
  <2>2. c \in Camera
    BY <1>3, <1>5
  <2> QED
    BY <1>1, <1>2, <1>4, <1>5, <2>1, <2>2, ReplyHandled
<1> QED
  BY <1>6, <1>7, <1>8, <1>9, <1>10, <1>11 DEF OnStopPreview

LEMMA SetParamsHandled ==
  CallInv /\ OnSetParams /\ UNCHANGED callers => Handled("SET_PARAMS")
<1> SUFFICES ASSUME CallInv, OnSetParams, UNCHANGED callers
             PROVE  Handled("SET_PARAMS")
  OBVIOUS
<1>1. Serve("SET_PARAMS") /\ "SET_PARAMS" \in Api
  BY SomeApis DEF OnSetParams
<1>2. Argument \in [1..2 -> BOOLEAN]
  BY <1>1, QueueType, RequestServed DEF CallInv, CallShape, Serve, Argument
<1>3. zslNew \in BOOLEAN /\ needRestart \in BOOLEAN /\ mPreviewWindow \in BOOLEAN /\ prep \in BOOLEAN
      /\ cam \in Camera /\ m_state \in State
  BY MachineType DEF CallInv, MachineTypes
<1> DEFINE restart == Argument[1] # zslNew \/ Argument[2]
           bad     == restart /\ m_state \in {"RECORDING", "VIDEO_PIC_TAKING"}
<1>4. \/ Refuse /\ UNCHANGED <<zslNew, needRestart>>
      \/ zslNew' = Argument[1] /\ needRestart' = (restart /\ ~bad) /\ Reply(m_state, cam, ~bad)
  BY DEF OnSetParams
<1>5. UNCHANGED <<mPreviewWindow, prep>>
  BY DEF OnSetParams
<1>6. Argument[1] \in BOOLEAN /\ (~bad) \in BOOLEAN /\ (restart /\ ~bad) \in BOOLEAN
  BY <1>2
<1>7. zslNew' \in BOOLEAN /\ needRestart' \in BOOLEAN /\ mPreviewWindow' \in BOOLEAN
      /\ prep' \in BOOLEAN
  BY <1>3, <1>4, <1>5, <1>6
<1> HIDE DEF bad, restart
<1>8. CASE Reply(m_state, cam, ~bad)
  <2>1. Accept \/ Refuse
    BY <1>8 DEF Accept, Refuse
  <2> QED
    BY <1>1, <1>7, <2>1, NothingChanged
<1> QED
  BY <1>1, <1>4, <1>7, <1>8, NothingChanged

LEMMA SetParamsStopHandled ==
  CallInv /\ OnSetParamsStop /\ UNCHANGED callers => Handled("SET_PARAMS_STOP")
<1> SUFFICES ASSUME CallInv, OnSetParamsStop, UNCHANGED callers
             PROVE  Handled("SET_PARAMS_STOP")
  OBVIOUS
<1>1. Serve("SET_PARAMS_STOP") /\ "SET_PARAMS_STOP" \in Api
  BY SomeApis DEF OnSetParamsStop
<1>2. zslNew' \in BOOLEAN /\ needRestart' \in BOOLEAN /\ mPreviewWindow' \in BOOLEAN
      /\ prep' \in BOOLEAN
  BY SettingsKept DEF OnSetParamsStop
<1>3. cam \in Camera /\ m_state \in State
  BY MachineType DEF CallInv, MachineTypes
<1>4. CASE Accept \/ Refuse
  BY <1>1, <1>2, <1>4, NothingChanged
<1>5. CASE /\ m_state \in {"READY", "PREVIEWING", "PREVIEW_PIC_TAKING"}
           /\ \E c \in {UnpreparePreview(cam), StopPreview(cam)} : Reply(m_state, c, TRUE)
  <2>1. PICK c \in {UnpreparePreview(cam), StopPreview(cam)} : Reply(m_state, c, TRUE)
    BY <1>5
  <2>2. c \in Camera /\ c.chan["VIDEO"] = "none"
    BY <1>3, UnprepareFacts, StopPreviewFacts DEF PreviewChannel
  <2>3. ~On("VIDEO")
    BY <1>5 DEF CallInv, VideoState, RecordingState
  <2> QED
    BY <1>1, <1>2, <1>3, <2>1, <2>2, <2>3, ReplyHandled
<1> QED
  BY <1>4, <1>5 DEF OnSetParamsStop

LEMMA SetParamsCommitHandled ==
  CallInv /\ OnSetParamsCommit /\ UNCHANGED callers => Handled("SET_PARAMS_COMMIT")
<1> SUFFICES ASSUME CallInv, OnSetParamsCommit, UNCHANGED callers
             PROVE  Handled("SET_PARAMS_COMMIT")
  OBVIOUS
<1>1. Serve("SET_PARAMS_COMMIT") /\ "SET_PARAMS_COMMIT" \in Api
  BY SomeApis DEF OnSetParamsCommit
<1>2. zslNew' \in BOOLEAN /\ needRestart' \in BOOLEAN /\ mPreviewWindow' \in BOOLEAN
      /\ prep' \in BOOLEAN
  BY SettingsKept DEF OnSetParamsCommit
<1>3. cam \in Camera /\ m_state \in State /\ zslNew \in BOOLEAN
  BY MachineType DEF CallInv, MachineTypes
<1>4. CASE Refuse
  BY <1>1, <1>2, <1>4, NothingChanged
<1>5. CASE Reply(m_state, Committed(cam), TRUE)
  <2>1. Committed(cam) \in Camera /\ Committed(cam).chan = cam.chan
    BY <1>3, CommittedFacts
  <2>2. On("VIDEO") => m_state \in RecordingState
    BY DEF CallInv, VideoState
  <2> QED
    BY <1>1, <1>2, <1>3, <1>5, <2>1, <2>2, ReplyHandled DEF On
<1> QED
  BY <1>4, <1>5 DEF OnSetParamsCommit

LEMMA SetParamsRestartHandled ==
  CallInv /\ OnSetParamsRestart /\ UNCHANGED callers => Handled("SET_PARAMS_RESTART")
<1> SUFFICES ASSUME CallInv, OnSetParamsRestart, UNCHANGED callers
             PROVE  Handled("SET_PARAMS_RESTART")
  OBVIOUS
<1>1. Serve("SET_PARAMS_RESTART") /\ "SET_PARAMS_RESTART" \in Api
  BY SomeApis DEF OnSetParamsRestart
<1>2. cam \in Camera /\ m_state \in State /\ zslNew \in BOOLEAN /\ needRestart \in BOOLEAN
  BY MachineType DEF CallInv, MachineTypes
<1>3. zslNew' \in BOOLEAN /\ needRestart' \in BOOLEAN /\ mPreviewWindow' \in BOOLEAN
      /\ prep' \in BOOLEAN
  <2>1. UNCHANGED <<zslNew, mPreviewWindow, prep>> /\ needRestart' \in {needRestart, FALSE}
    BY DEF OnSetParamsRestart
  <2> QED
    BY <2>1, MachineType DEF CallInv, MachineTypes
<1>4. CASE Accept \/ Refuse
  BY <1>1, <1>3, <1>4, NothingChanged
<1>5. m_state \notin RecordingState => cam.chan["VIDEO"] # "on"
  BY DEF CallInv, VideoState, On
<1>6. CASE \E c \in Camera, s \in State, ok \in BOOLEAN :
             m_state \notin RecordingState /\ c.chan["VIDEO"] # "on" /\ Reply(s, c, ok)
  BY <1>1, <1>3, <1>5, <1>6, ReplyHandled DEF On
<1>7. CASE /\ m_state = "READY"
           /\ \E p \in PreparePreview(cam) :
                Reply(IF p.ok THEN "READY" ELSE "STOPPED", p.cam, p.ok)
  <2>1. PICK p \in PreparePreview(cam) :
                Reply(IF p.ok THEN "READY" ELSE "STOPPED", p.cam, p.ok)
    BY <1>7
  <2>2. p \in Outcome /\ p.cam \in Camera /\ p.cam.chan["VIDEO"] # "on"
    BY <1>2, <1>5, <1>7, PrepareVideo DEF RecordingState
  <2>3. p.ok \in BOOLEAN /\ (IF p.ok THEN "READY" ELSE "STOPPED") \in State
    BY <2>2 DEF Outcome, State
  <2> QED
    BY <1>6, <1>7, <2>1, <2>2, <2>3 DEF RecordingState
<1>8. CASE /\ m_state = "PREVIEWING"
           /\ \E p \in PreparePreview(cam) :
                IF ~p.ok THEN Reply(m_state, p.cam, FALSE)
                ELSE \E o \in StartsOrStops(p.cam) : Reply(o.state, o.cam, o.ok)
  <2>1. PICK p \in PreparePreview(cam) :
                IF ~p.ok THEN Reply(m_state, p.cam, FALSE)
                ELSE \E o \in StartsOrStops(p.cam) : Reply(o.state, o.cam, o.ok)
    BY <1>8
  <2>2. p \in Outcome /\ p.cam \in Camera /\ p.cam.chan["VIDEO"] # "on"
    BY <1>2, <1>5, <1>8, PrepareVideo DEF RecordingState
  <2>3. CASE Reply(m_state, p.cam, FALSE)
    BY <1>2, <1>6, <1>8, <2>2, <2>3 DEF RecordingState
  <2>4. CASE \E o \in StartsOrStops(p.cam) : Reply(o.state, o.cam, o.ok)
    <3>1. PICK o \in StartsOrStops(p.cam) : Reply(o.state, o.cam, o.ok)
      BY <2>4
    <3>2. o.cam \in Camera /\ o.state \in State /\ o.ok \in BOOLEAN /\ o.cam.chan["VIDEO"] # "on"
      BY <2>2, StartsOrStopsFacts, StartsOrStopsVideo
    <3> QED
      BY <1>6, <1>8, <3>1, <3>2 DEF RecordingState
  <2> QED
    BY <2>1, <2>3, <2>4
<1>9. CASE /\ m_state = "PREVIEW_PIC_TAKING"
           /\ \E p \in RestartOrUnprepare(cam) :
                Reply(IF p.ok THEN m_state ELSE "PIC_TAKING", p.cam, p.ok)
  <2>1. PICK p \in RestartOrUnprepare(cam) :
                Reply(IF p.ok THEN m_state ELSE "PIC_TAKING", p.cam, p.ok)
    BY <1>9
  <2>2. p \in Outcome /\ p.cam.chan["VIDEO"] # "on"
    BY <1>2, <1>5, <1>9, AnyRestart DEF RecordingState
  <2>3. p.cam \in Camera /\ p.ok \in BOOLEAN /\ (IF p.ok THEN m_state ELSE "PIC_TAKING") \in State
    BY <1>2, <2>2 DEF Outcome, State
  <2> QED
    BY <1>6, <1>9, <2>1, <2>2, <2>3 DEF RecordingState
<1> QED
  BY <1>4, <1>7, <1>8, <1>9 DEF OnSetParamsRestart

LEMMA PreTakeVideo ==
  ASSUME NEW c \in Camera, zslNew \in BOOLEAN, NEW p \in PreTakePicture(c), c.chan["VIDEO"] # "on"
  PROVE  p.cam.chan["VIDEO"] # "on"
<1>1. CASE c.hint
  BY <1>1, PreTakeFacts DEF NoPreview, Runs, PreviewChannel, PreviewOf
<1>2. CASE ~c.hint
  BY <1>2, PreTakeFacts
<1> QED
  BY <1>1, <1>2

(* What the end of a picture does to the state and the channels. *)
LEMMA UncapturedFacts ==
  ASSUME TypeOK, VideoState, m_state \in DOMAIN Uncaptured
  PROVE  /\ m_state \in {"PIC_TAKING", "VIDEO_PIC_TAKING", "PREVIEW_PIC_TAKING"}
         /\ Uncaptured[m_state].state =
              CASE m_state = "PIC_TAKING" -> "STOPPED" [] m_state = "VIDEO_PIC_TAKING" -> "RECORDING"
                [] OTHER -> "PREVIEWING"
         /\ Uncaptured[m_state].cam =
              IF m_state = "PIC_TAKING" \/ (m_state = "PREVIEW_PIC_TAKING" /\ cam.zsl)
              THEN CancelPicture(cam) ELSE Live(cam, "stop")
         /\ Uncaptured[m_state].state \in State /\ Uncaptured[m_state].cam \in Camera
         /\ Uncaptured[m_state].cam.chan["VIDEO"] = cam.chan["VIDEO"]
         /\ On("VIDEO") => Uncaptured[m_state].state \in RecordingState
<1>1. m_state \in {"PIC_TAKING", "VIDEO_PIC_TAKING", "PREVIEW_PIC_TAKING"}
  BY DEF Uncaptured
<1>2. /\ Uncaptured[m_state].state =
           CASE m_state = "PIC_TAKING" -> "STOPPED" [] m_state = "VIDEO_PIC_TAKING" -> "RECORDING"
             [] OTHER -> "PREVIEWING"
      /\ Uncaptured[m_state].cam =
           IF m_state = "PIC_TAKING" \/ (m_state = "PREVIEW_PIC_TAKING" /\ cam.zsl)
           THEN CancelPicture(cam) ELSE Live(cam, "stop")
  <2>1. CASE m_state = "PIC_TAKING"
    BY <2>1 DEF Uncaptured
  <2>2. CASE m_state = "VIDEO_PIC_TAKING"
    BY <2>2 DEF Uncaptured
  <2>3. CASE m_state = "PREVIEW_PIC_TAKING"
    BY <2>3 DEF Uncaptured
  <2> QED
    BY <1>1, <2>1, <2>2, <2>3
<1>3. /\ CancelPicture(cam) \in Camera /\ CancelPicture(cam).chan["VIDEO"] = cam.chan["VIDEO"]
      /\ Live(cam, "stop") \in Camera /\ Live(cam, "stop").chan["VIDEO"] = cam.chan["VIDEO"]
  BY QueueType, CancelFacts, LiveFacts DEF Channel
<1>4. Uncaptured[m_state].state \in State
      /\ (m_state = "VIDEO_PIC_TAKING" => Uncaptured[m_state].state \in RecordingState)
  BY <1>1, <1>2 DEF State, RecordingState
<1>5. On("VIDEO") => m_state = "VIDEO_PIC_TAKING"
  BY <1>1 DEF VideoState, RecordingState
<1> QED
  BY <1>1, <1>2, <1>3, <1>4, <1>5

LEMMA PreStartRecordingHandled ==
  CallInv /\ OnPreStartRecording /\ UNCHANGED callers => Handled("PRE_START_RECORDING")
<1> SUFFICES ASSUME CallInv, OnPreStartRecording, UNCHANGED callers
             PROVE  Handled("PRE_START_RECORDING")
  OBVIOUS
<1>1. Serve("PRE_START_RECORDING") /\ "PRE_START_RECORDING" \in Api
  BY SomeApis DEF OnPreStartRecording
<1>2. zslNew' \in BOOLEAN /\ needRestart' \in BOOLEAN /\ mPreviewWindow' \in BOOLEAN
      /\ prep' \in BOOLEAN
  BY SettingsKept DEF OnPreStartRecording
<1>3. cam \in Camera /\ m_state \in State /\ zslNew \in BOOLEAN
  BY MachineType DEF CallInv, MachineTypes
<1>4. On("VIDEO") => m_state \in RecordingState
  BY DEF CallInv, VideoState
<1>5. CASE Accept \/ Refuse
  BY <1>1, <1>2, <1>5, NothingChanged
<1>6. CASE /\ m_state \in {"PREVIEWING", "PREVIEW_PIC_TAKING"}
           /\ \E p \in PreStartRecording(cam) : Reply(m_state, p.cam, p.ok)
  <2>1. PICK p \in PreStartRecording(cam) : Reply(m_state, p.cam, p.ok)
    BY <1>6
  <2>2. ~On("VIDEO")
    BY <1>4, <1>6 DEF RecordingState
  <2>3. p.cam \in Camera /\ p.ok \in BOOLEAN
    BY <1>3, PreStartFacts DEF Outcome
  <2>4. p.cam.chan["VIDEO"] # "on"
    <3>1. CASE cam.hint
      BY <1>3, <2>2, <3>1, PreStartFacts DEF On
    <3>2. CASE ~cam.hint
      BY <1>3, <3>2, PreStartFacts DEF NoPreview, Prepared, Runs, PreviewChannel, PreviewOf
    <3> QED
      BY <3>1, <3>2
  <2> QED
    BY <1>1, <1>2, <1>3, <2>1, <2>2, <2>3, <2>4, ReplyHandled
<1> QED
  BY <1>5, <1>6 DEF OnPreStartRecording

LEMMA StartRecordingHandled ==
  CallInv /\ OnStartRecording /\ UNCHANGED callers => Handled("START_RECORDING")
<1> SUFFICES ASSUME CallInv, OnStartRecording, UNCHANGED callers
             PROVE  Handled("START_RECORDING")
  OBVIOUS
<1>1. Serve("START_RECORDING") /\ "START_RECORDING" \in Api
  BY SomeApis DEF OnStartRecording
<1>2. zslNew' \in BOOLEAN /\ needRestart' \in BOOLEAN /\ mPreviewWindow' \in BOOLEAN
      /\ prep' \in BOOLEAN
  BY SettingsKept DEF OnStartRecording
<1>3. cam \in Camera /\ m_state \in State /\ zslNew \in BOOLEAN
  BY MachineType DEF CallInv, MachineTypes
<1>4. On("VIDEO") => m_state \in RecordingState
  BY DEF CallInv, VideoState
<1>5. CASE Accept \/ Refuse
  BY <1>1, <1>2, <1>5, NothingChanged
<1>6. CASE /\ m_state \in {"PREVIEWING", "PREVIEW_PIC_TAKING"}
           /\ \E started \in RecordingState : \E p \in StartChannel(cam, "VIDEO") :
                Reply(IF p.ok THEN started ELSE m_state, p.cam, p.ok)
  <2>1. PICK started \in RecordingState, p \in StartChannel(cam, "VIDEO") :
                Reply(IF p.ok THEN started ELSE m_state, p.cam, p.ok)
    BY <1>6
  <2>2. ~On("VIDEO") /\ "VIDEO" \in Channel
    BY <1>4, <1>6 DEF RecordingState, Channel
  <2>3. p.cam \in Camera /\ p.ok \in BOOLEAN /\ (~p.ok => p.cam = cam)
    BY <1>3, <2>2, StartChannelFacts DEF Outcome
  <2>4. (IF p.ok THEN started ELSE m_state) \in State
    BY <1>3, <2>3 DEF RecordingState, State
  <2>5. p.cam.chan["VIDEO"] = "on" => (IF p.ok THEN started ELSE m_state) \in RecordingState
    BY <2>2, <2>3 DEF On
  <2> QED
    BY <1>1, <1>2, <2>1, <2>2, <2>3, <2>4, <2>5, ReplyHandled
<1>7. ASSUME m_state \in {"PREVIEWING", "PREVIEW_PIC_TAKING"},
             LET started == IF m_state = "PREVIEWING" THEN "RECORDING" ELSE "VIDEO_PIC_TAKING"
             IN  \E p \in StartChannel(cam, "VIDEO") :
                   Reply(IF p.ok THEN started ELSE m_state, p.cam, p.ok)
      PROVE  Handled("START_RECORDING")
  <2> DEFINE started == IF m_state = "PREVIEWING" THEN "RECORDING" ELSE "VIDEO_PIC_TAKING"
  <2>1. started \in RecordingState
    BY DEF RecordingState
  <2>2. \E p \in StartChannel(cam, "VIDEO") :
          Reply(IF p.ok THEN started ELSE m_state, p.cam, p.ok)
    BY <1>7
  <2> HIDE DEF started
  <2> QED
    BY <1>6, <1>7, <2>1, <2>2
<1> QED
  BY <1>5, <1>7 DEF OnStartRecording

LEMMA StopRecordingHandled ==
  CallInv /\ OnStopRecording /\ UNCHANGED callers => Handled("STOP_RECORDING")
<1> SUFFICES ASSUME CallInv, OnStopRecording, UNCHANGED callers
             PROVE  Handled("STOP_RECORDING")
  OBVIOUS
<1>1. Serve("STOP_RECORDING") /\ "STOP_RECORDING" \in Api
  BY SomeApis DEF OnStopRecording
<1>2. zslNew' \in BOOLEAN /\ needRestart' \in BOOLEAN /\ mPreviewWindow' \in BOOLEAN
      /\ prep' \in BOOLEAN
  BY SettingsKept DEF OnStopRecording
<1>3. cam \in Camera /\ m_state \in State /\ zslNew \in BOOLEAN
  BY MachineType DEF CallInv, MachineTypes
<1>4. On("VIDEO") => m_state \in RecordingState
  BY DEF CallInv, VideoState
<1>5. CASE Accept \/ Refuse
  BY <1>1, <1>2, <1>5, NothingChanged
<1>6. CASE \E c \in {cam, Live(cam, "stop")} : Reply("PREVIEWING", StopRecording(c), TRUE)
  <2>1. PICK c \in {cam, Live(cam, "stop")} : Reply("PREVIEWING", StopRecording(c), TRUE)
    BY <1>6
  <2>2. c \in Camera /\ "VIDEO" \in Channel /\ "PREVIEWING" \in State
        /\ "STOP_RECORDING" \in Ends
    BY <1>3, LiveFacts DEF Channel, State, Ends
  <2>3. StopRecording(c) \in Camera /\ StopRecording(c).chan["VIDEO"] # "on"
    BY <2>2, StopChannelFacts DEF StopRecording
  <2> QED
    BY <1>1, <1>2, <2>1, <2>2, <2>3, ReplyHandled
<1> QED
  BY <1>5, <1>6 DEF OnStopRecording

LEMMA PrepareSnapshotHandled ==
  CallInv /\ OnPrepareSnapshot /\ UNCHANGED callers => Handled("PREPARE_SNAPSHOT")
<1> SUFFICES ASSUME CallInv, OnPrepareSnapshot, UNCHANGED callers
             PROVE  Handled("PREPARE_SNAPSHOT")
  OBVIOUS
<1>1. Serve("PREPARE_SNAPSHOT") /\ "PREPARE_SNAPSHOT" \in Api /\ "PREPARE_SNAPSHOT" \notin Single
  BY SomeApis DEF OnPrepareSnapshot, Single
<1>2. zslNew' \in BOOLEAN /\ needRestart' \in BOOLEAN /\ mPreviewWindow' \in BOOLEAN
      /\ prep' \in BOOLEAN
  <2>1. UNCHANGED <<zslNew, needRestart, mPreviewWindow>> /\ (prep' = TRUE \/ prep' = prep)
    BY DEF OnPrepareSnapshot
  <2> QED
    BY <2>1, MachineType DEF CallInv, MachineTypes
<1>3. cam \in Camera
  BY MachineType DEF CallInv, MachineTypes
<1>4. On("VIDEO") => m_state \in RecordingState
  BY DEF CallInv, VideoState
<1>5. CASE Accept \/ Refuse
  BY <1>1, <1>2, <1>5, NothingChanged
<1>6. CASE /\ m_state = "PREVIEWING" /\ m_state' = "PREPARE_SNAPSHOT" /\ prep' = TRUE
           /\ UNCHANGED <<cam, m_apiResultList>>
  <2>1. Answers("PREPARE_SNAPSHOT")
    BY <1>1, <1>6 DEF Answers
  <2>2. MachineTypes'
    BY <1>2, <1>3, <1>6 DEF MachineTypes, State
  <2>3. VideoState' /\ ~On("VIDEO")
    BY <1>4, <1>6 DEF VideoState, On, RecordingState
  <2> QED
    BY <2>1, <2>2, <2>3 DEF Handled
<1> QED
  BY <1>5, <1>6 DEF OnPrepareSnapshot

LEMMA PreTakePictureHandled ==
  CallInv /\ OnPreTakePicture /\ UNCHANGED callers => Handled("PRE_TAKE_PICTURE")
<1> SUFFICES ASSUME CallInv, OnPreTakePicture, UNCHANGED callers
             PROVE  Handled("PRE_TAKE_PICTURE")
  OBVIOUS
<1>1. Serve("PRE_TAKE_PICTURE") /\ "PRE_TAKE_PICTURE" \in Api
  BY SomeApis DEF OnPreTakePicture
<1>2. zslNew' \in BOOLEAN /\ needRestart' \in BOOLEAN /\ mPreviewWindow' \in BOOLEAN
      /\ prep' \in BOOLEAN
  BY SettingsKept DEF OnPreTakePicture
<1>3. cam \in Camera /\ m_state \in State /\ zslNew \in BOOLEAN
  BY MachineType DEF CallInv, MachineTypes
<1>4. On("VIDEO") => m_state \in RecordingState
  BY DEF CallInv, VideoState
<1>5. CASE Accept \/ Refuse
  BY <1>1, <1>2, <1>5, NothingChanged
<1>6. CASE m_state = "PREVIEWING" /\ \E p \in PreTakePicture(cam) : Reply(m_state, p.cam, p.ok)
  <2>1. PICK p \in PreTakePicture(cam) : Reply(m_state, p.cam, p.ok)
    BY <1>6
  <2>2. ~On("VIDEO")
    BY <1>4, <1>6 DEF RecordingState
  <2>3. p.cam \in Camera /\ p.ok \in BOOLEAN
    BY <1>3, PreTakeFacts DEF Outcome
  <2>4. p.cam.chan["VIDEO"] # "on"
    BY <1>3, <2>2, PreTakeVideo DEF On
  <2> QED
    BY <1>1, <1>2, <1>3, <2>1, <2>2, <2>3, <2>4, ReplyHandled
<1> QED
  BY <1>5, <1>6 DEF OnPreTakePicture

LEMMA TakePictureHandled ==
  CallInv /\ OnTakePicture /\ UNCHANGED callers => Handled("TAKE_PICTURE")
<1> SUFFICES ASSUME CallInv, OnTakePicture, UNCHANGED callers
             PROVE  Handled("TAKE_PICTURE")
  OBVIOUS
<1>1. Serve("TAKE_PICTURE") /\ "TAKE_PICTURE" \in Api
  BY SomeApis DEF OnTakePicture
<1>2. zslNew' \in BOOLEAN /\ needRestart' \in BOOLEAN /\ mPreviewWindow' \in BOOLEAN
      /\ prep' \in BOOLEAN
  BY SettingsKept DEF OnTakePicture
<1>3. cam \in Camera /\ m_state \in State /\ zslNew \in BOOLEAN
  BY MachineType DEF CallInv, MachineTypes
<1>4. On("VIDEO") => m_state \in RecordingState
  BY DEF CallInv, VideoState
<1>5. CASE Accept \/ Refuse
  BY <1>1, <1>2, <1>5, NothingChanged
<1>6. CASE /\ m_state = "PREVIEWING"
           /\ \E p \in PreTakePicture(cam) : \E t \in TakePicture(p.cam) :
                IF t.ok
                THEN Reply(IF p.cam.zsl THEN "PREVIEW_PIC_TAKING" ELSE "PIC_TAKING", t.cam, TRUE)
                ELSE IF p.cam.zsl THEN Reply("PREVIEWING", t.cam, FALSE)
                ELSE \E r \in RestartOrUnprepare(StopPreview(t.cam)) :
                       Reply(IF r.ok THEN "PREVIEWING" ELSE "STOPPED", r.cam, FALSE)
  <2>0. PICK p \in PreTakePicture(cam) : \E t \in TakePicture(p.cam) :
                IF t.ok
                THEN Reply(IF p.cam.zsl THEN "PREVIEW_PIC_TAKING" ELSE "PIC_TAKING", t.cam, TRUE)
                ELSE IF p.cam.zsl THEN Reply("PREVIEWING", t.cam, FALSE)
                ELSE \E r \in RestartOrUnprepare(StopPreview(t.cam)) :
                       Reply(IF r.ok THEN "PREVIEWING" ELSE "STOPPED", r.cam, FALSE)
    BY <1>6
  <2>1. PICK t \in TakePicture(p.cam) :
                IF t.ok
                THEN Reply(IF p.cam.zsl THEN "PREVIEW_PIC_TAKING" ELSE "PIC_TAKING", t.cam, TRUE)
                ELSE IF p.cam.zsl THEN Reply("PREVIEWING", t.cam, FALSE)
                ELSE \E r \in RestartOrUnprepare(StopPreview(t.cam)) :
                       Reply(IF r.ok THEN "PREVIEWING" ELSE "STOPPED", r.cam, FALSE)
    BY <2>0
  <2>2. ~On("VIDEO")
    BY <1>4, <1>6 DEF RecordingState
  <2>3. p.cam \in Camera /\ p.cam.chan["VIDEO"] # "on"
    BY <1>3, <2>2, PreTakeFacts, PreTakeVideo DEF Outcome, On
  <2>4. t.cam \in Camera /\ t.cam.chan["VIDEO"] # "on"
    BY <1>3, <2>3, TakeFacts DEF Outcome, NoPreview, PreviewChannel
  <2>5. CASE \E s \in State, ok \in BOOLEAN : Reply(s, t.cam, ok)
    BY <1>1, <1>2, <2>2, <2>4, <2>5, ReplyHandled
  <2>6. CASE \E r \in RestartOrUnprepare(StopPreview(t.cam)) :
               Reply(IF r.ok THEN "PREVIEWING" ELSE "STOPPED", r.cam, FALSE)
    <3>1. PICK r \in RestartOrUnprepare(StopPreview(t.cam)) :
               Reply(IF r.ok THEN "PREVIEWING" ELSE "STOPPED", r.cam, FALSE)
      BY <2>6
    <3>2. StopPreview(t.cam) \in Camera /\ StopPreview(t.cam).chan["VIDEO"] # "on"
      BY <2>4, StopPreviewFacts DEF PreviewChannel
    <3>3. r.cam \in Camera /\ r.cam.chan["VIDEO"] # "on"
      BY <1>3, <3>2, AnyRestart DEF Outcome
    <3>4. (IF r.ok THEN "PREVIEWING" ELSE "STOPPED") \in State
      BY DEF State
    <3> QED
      BY <1>1, <1>2, <2>2, <3>1, <3>3, <3>4, ReplyHandled
  <2>7. {"PREVIEW_PIC_TAKING", "PIC_TAKING", "PREVIEWING"} \subseteq State
    BY DEF State
  <2> QED
    BY <2>1, <2>5, <2>6, <2>7
<1>7. CASE m_state = "RECORDING" /\ Reply("VIDEO_PIC_TAKING", Live(cam, "start"), TRUE)
  <2>1. Live(cam, "start") \in Camera /\ Live(cam, "start").chan = cam.chan
    BY <1>3, LiveFacts
  <2>2. "VIDEO_PIC_TAKING" \in State /\ "VIDEO_PIC_TAKING" \in RecordingState
    BY DEF State, RecordingState
  <2> QED
    BY <1>1, <1>2, <1>7, <2>1, <2>2, ReplyHandled DEF On
<1> QED
  BY <1>5, <1>6, <1>7 DEF OnTakePicture

LEMMA CancelPictureHandled ==
  CallInv /\ OnCancelPicture /\ UNCHANGED callers => Handled("CANCEL_PICTURE")
<1> SUFFICES ASSUME CallInv, OnCancelPicture, UNCHANGED callers
             PROVE  Handled("CANCEL_PICTURE")
  OBVIOUS
<1>1. Serve("CANCEL_PICTURE") /\ "CANCEL_PICTURE" \in Api
  BY SomeApis DEF OnCancelPicture
<1>2. zslNew' \in BOOLEAN /\ needRestart' \in BOOLEAN /\ mPreviewWindow' \in BOOLEAN
      /\ prep' \in BOOLEAN
  BY SettingsKept DEF OnCancelPicture
<1>3. cam \in Camera /\ m_state \in State /\ zslNew \in BOOLEAN
  BY MachineType DEF CallInv, MachineTypes
<1>4. On("VIDEO") => m_state \in RecordingState
  BY DEF CallInv, VideoState
<1>5. CASE Accept \/ Refuse
  BY <1>1, <1>2, <1>5, NothingChanged
<1>6. CASE m_state \in DOMAIN Uncaptured /\ Reply(Uncaptured[m_state].state, Uncaptured[m_state].cam, TRUE)
  <2>1. PICK state \in State, c \in Camera :
          /\ state = Uncaptured[m_state].state /\ c = Uncaptured[m_state].cam
          /\ c.chan["VIDEO"] = cam.chan["VIDEO"] /\ (On("VIDEO") => state \in RecordingState)
    BY <1>6, UncapturedFacts DEF CallInv
  <2> QED
    BY <1>1, <1>2, <1>6, <2>1, ReplyHandled DEF On
<1> QED
  BY <1>5, <1>6 DEF OnCancelPicture

LEMMA ReleaseHandled ==
  CallInv /\ OnRelease /\ UNCHANGED callers => Handled("RELEASE")
<1> SUFFICES ASSUME CallInv, OnRelease, UNCHANGED callers
             PROVE  Handled("RELEASE")
  OBVIOUS
<1>1. Serve("RELEASE") /\ "RELEASE" \in Api
  BY SomeApis DEF OnRelease
<1>2. zslNew' \in BOOLEAN /\ needRestart' \in BOOLEAN /\ mPreviewWindow' \in BOOLEAN
      /\ prep' \in BOOLEAN
  BY SettingsKept DEF OnRelease
<1>3. cam \in Camera /\ m_state \in State /\ zslNew \in BOOLEAN
  BY MachineType DEF CallInv, MachineTypes
<1>4. On("VIDEO") => m_state \in RecordingState
  BY DEF CallInv, VideoState
<1>5. CASE Accept \/ Refuse
  BY <1>1, <1>2, <1>5, NothingChanged
<1>6. CASE m_state = "STOPPED" /\ Reply(m_state, Moved(cam, Channel, "none"), TRUE)
  <2>1. Moved(cam, Channel, "none") \in Camera /\ Moved(cam, Channel, "none").chan["VIDEO"] # "on"
    BY <1>3, MovedFacts DEF Channel
  <2>2. ~On("VIDEO")
    BY <1>4, <1>6 DEF RecordingState
  <2> QED
    BY <1>1, <1>2, <1>3, <1>6, <2>1, <2>2, ReplyHandled
<1> QED
  BY <1>5, <1>6 DEF OnRelease

LEMMA ReleaseRecordingFrameHandled ==
  CallInv /\ OnReleaseRecordingFrame /\ UNCHANGED callers => Handled("RELEASE_RECORDING_FRAME")
<1> SUFFICES ASSUME CallInv, OnReleaseRecordingFrame, UNCHANGED callers
             PROVE  Handled("RELEASE_RECORDING_FRAME")
  OBVIOUS
<1>1. Serve("RELEASE_RECORDING_FRAME") /\ "RELEASE_RECORDING_FRAME" \in Api
  BY SomeApis DEF OnReleaseRecordingFrame
<1>2. zslNew' \in BOOLEAN /\ needRestart' \in BOOLEAN /\ mPreviewWindow' \in BOOLEAN
      /\ prep' \in BOOLEAN
  BY SettingsKept DEF OnReleaseRecordingFrame
<1>3. cam \in Camera /\ m_state \in State /\ zslNew \in BOOLEAN
  BY MachineType DEF CallInv, MachineTypes
<1>4. On("VIDEO") => m_state \in RecordingState
  BY DEF CallInv, VideoState
<1>5. CASE Accept \/ Refuse
  BY <1>1, <1>2, <1>5, NothingChanged
<1>6. CASE UNCHANGED <<m_state, cam, m_apiResultList>>
  <2>1. Answers("RELEASE_RECORDING_FRAME")
    BY <1>1, <1>6, Apis DEF Answers, Single, ParamApi
  <2>2. MachineTypes' /\ VideoState'
    BY <1>2, <1>3, <1>4, <1>6 DEF MachineTypes, VideoState, On
  <2> QED
    BY <1>6, <2>1, <2>2 DEF Handled, On
<1> QED
  BY <1>5, <1>6 DEF OnReleaseRecordingFrame

LEMMA StopCaptureChannelHandled ==
  CallInv /\ OnStopCaptureChannel /\ UNCHANGED callers => Handled("STOP_CAPTURE_CHANNEL")
<1> SUFFICES ASSUME CallInv, OnStopCaptureChannel, UNCHANGED callers
             PROVE  Handled("STOP_CAPTURE_CHANNEL")
  OBVIOUS
<1>1. zslNew' \in BOOLEAN /\ needRestart' \in BOOLEAN /\ mPreviewWindow' \in BOOLEAN
      /\ prep' \in BOOLEAN
  BY SettingsKept DEF OnStopCaptureChannel
<1>2. cam \in Camera /\ m_state \in State
  BY MachineType DEF CallInv, MachineTypes
<1>3. /\ StopChannel(cam, "CAPTURE") \in Camera
      /\ StopChannel(cam, "CAPTURE").chan["VIDEO"] = cam.chan["VIDEO"]
  BY <1>2, StopChannelFacts DEF Channel
<1>4. cam' \in Camera /\ cam'.chan["VIDEO"] = cam.chan["VIDEO"] /\ UNCHANGED m_state
  BY <1>2, <1>3 DEF OnStopCaptureChannel
<1>5. Answers("STOP_CAPTURE_CHANNEL")
  BY Apis DEF OnStopCaptureChannel, Answers, Single, ParamApi
<1>6. MachineTypes'
  BY <1>1, <1>2, <1>4 DEF MachineTypes
<1> QED
  BY <1>4, <1>5, <1>6 DEF Handled, VideoState, CallInv, On

-----------------------------------------------------------------------------
(* The steps of the others.  Who is not the application posts only requests *)
(* that no call waits for, and takes only its own results.                 *)
Stranger == {"RELEASE_RECORDING_FRAME", "CANCEL_PICTURE", "STOP_CAPTURE_CHANNEL"}

OtherTypes ==
  /\ evt_queue \in Seq({"SNAPSHOT_DONE", "PREP_SNAPSHOT_DONE"})
  /\ m_apiResultList \in [Api -> Seq(BOOLEAN)] /\ mPrepSnapRun \in BOOLEAN
  /\ encoder \in {"idle", "holds", "waits"} /\ notifier \in {"idle", "waits"}

LEMMA OtherType == TypeOK => OtherTypes
BY DEF TypeOK, OtherTypes

LEMMA StrangerKeepsCalls ==
  ASSUME CallInv, UNCHANGED app, MachineTypes', OtherTypes',
         UNCHANGED api_queue \/ \E a \in Stranger : Post(a, << >>),
         \A b \in Single : m_apiResultList'[b] = m_apiResultList[b]
  PROVE  /\ TypeOK' /\ CallShape' /\ OneRequest' /\ OneResult'
         /\ Len(api_queue') \in Nat /\ Len(api_queue) \in Nat /\ Len(api_queue) <= Len(api_queue')
         /\ \A i \in 1..Len(api_queue) : api_queue'[i] = api_queue[i]
         /\ \A i \in 1..Len(api_queue') : i \in 1..Len(api_queue) \/ api_queue'[i].api \in Stranger
<1> USE DEF CallInv
<1>1. api_queue \in Seq(Request) /\ Len(api_queue) \in Nat
  BY QueueType
<1>2. Waiting' = Waiting /\ Awaited' = Awaited
  BY DEF Waiting, Awaited
<1>3. Stranger \cap Single = {} /\ "PREPARE_SNAPSHOT" \notin Stranger
      /\ Stranger \cap PayloadApi = {}
  BY Apis DEF Stranger, Single, PayloadApi, ParamApi
<1>4. /\ api_queue' \in Seq(Request) /\ Len(api_queue') \in Nat /\ Len(api_queue) <= Len(api_queue')
      /\ \A i \in 1..Len(api_queue) : i \in 1..Len(api_queue') /\ api_queue'[i] = api_queue[i]
      /\ \A i \in 1..Len(api_queue') : \/ i \in 1..Len(api_queue)
                                       \/ api_queue'[i].api \in Stranger /\ api_queue'[i].arg = << >>
  <2>1. CASE UNCHANGED api_queue
    BY <1>1, <2>1
  <2>2. ASSUME NEW a \in Stranger, Post(a, << >>)
        PROVE  <1>4
    <3> DEFINE r == [api |-> a, arg |-> << >>]
    <3>1. r \in Request /\ r.api = a /\ r.arg = << >> /\ api_queue' = Append(api_queue, r)
      BY <2>2, Apis DEF Post, Request, Stranger
    <3> HIDE DEF r
    <3>2. /\ Append(api_queue, r) \in Seq(Request) /\ Len(Append(api_queue, r)) = Len(api_queue) + 1
          /\ \A i \in 1..Len(api_queue) : Append(api_queue, r)[i] = api_queue[i]
          /\ Append(api_queue, r)[Len(api_queue) + 1] = r
          /\ 1..Len(Append(api_queue, r)) = (1..Len(api_queue)) \cup {Len(api_queue) + 1}
      BY <1>1, <3>1, RequestAppended
    <3> QED
      BY <1>1, <2>2, <3>1, <3>2
  <2> QED
    BY <2>1, <2>2
<1>5. TypeOK'
  <2>1. (app.step # 0 => app.call \in Call /\ app.step \in DOMAIN Script[app.call])'
    BY DEF TypeOK
  <2> QED
    BY <1>4, <2>1 DEF MachineTypes, OtherTypes, TypeOK, Request, Camera
<1>6. CallShape'
  BY <1>3, <1>4 DEF CallShape, PayloadApi
<1>7. OneRequest'
  <2> SUFFICES ASSUME NEW i \in 1..Len(api_queue'), api_queue'[i].api \in Single
               PROVE  /\ Waiting' /\ Awaited' = api_queue'[i].api /\ ~Answered'
                      /\ \A j \in 1..Len(api_queue') : api_queue'[j].api \in Single => j = i
                      /\ \A j \in 1..Len(api_queue') : api_queue'[j].api = "PREPARE_SNAPSHOT" => j < i
    BY DEF OneRequest
  <2>1. i \in 1..Len(api_queue) /\ api_queue[i] = api_queue'[i]
    BY <1>3, <1>4
  <2>2. /\ Waiting /\ Awaited = api_queue[i].api /\ ~Answered
        /\ \A j \in 1..Len(api_queue) : api_queue[j].api \in Single => j = i
        /\ \A j \in 1..Len(api_queue) : api_queue[j].api = "PREPARE_SNAPSHOT" => j < i
    BY <2>1 DEF OneRequest
  <2>3. ~Answered'
    BY <1>2, <2>1, <2>2 DEF Answered
  <2> QED
    BY <1>2, <1>3, <1>4, <2>1, <2>2, <2>3
<1>8. OneResult'
  <2>1. ~Queued("PREPARE_SNAPSHOT") => ~Queued("PREPARE_SNAPSHOT")'
    BY <1>3, <1>4 DEF Queued
  <2> QED
    BY <1>2, <2>1 DEF OneResult
<1> QED
  BY <1>1, <1>4, <1>5, <1>6, <1>7, <1>8

LEMMA EventAppended ==
  ASSUME NEW S, NEW q \in Seq(S), NEW e \in S
  PROVE  Append(q, e) \in Seq(S)
OBVIOUS

LEMMA EventServed ==
  ASSUME NEW S, NEW q \in Seq(S), q # << >>
  PROVE  Tail(q) \in Seq(S)
OBVIOUS

(* What such a step keeps of the calls, and of the video channel. *)
Kept == CallInv' /\ (On("VIDEO") => On("VIDEO")')

LEMMA SnapshotDoneKeeps == CallInv /\ OnSnapshotDone => Kept
<1> SUFFICES ASSUME CallInv, OnSnapshotDone
             PROVE  Kept
  OBVIOUS
<1> USE DEF CallInv
<1>1. /\ UNCHANGED <<api_queue, m_apiResultList, app, mPrepSnapRun, encoder>> /\ notifier' = "idle"
      /\ UNCHANGED <<zslNew, needRestart, mPreviewWindow, prep>>
      /\ evt_queue # << >> /\ evt_queue' = Tail(evt_queue)
  BY DEF OnSnapshotDone, ServeEvent, settings
<1>2. OtherTypes'
  BY <1>1, OtherType, EventServed DEF OtherTypes
<1>3. m_state' \in State /\ cam' \in Camera /\ VideoState' /\ (On("VIDEO") => On("VIDEO")')
  <2>1. CASE m_state \in DOMAIN Uncaptured
    <3>1. m_state' = Uncaptured[m_state].state /\ cam' = Uncaptured[m_state].cam
      BY <2>1 DEF OnSnapshotDone
    <3> QED
      BY <2>1, <3>1, UncapturedFacts DEF VideoState, On
  <2>2. CASE m_state \notin DOMAIN Uncaptured
    <3>1. UNCHANGED <<m_state, cam>>
      BY <2>2 DEF OnSnapshotDone
    <3> QED
      BY <3>1, MachineType DEF MachineTypes, VideoState, On
  <2> QED
    BY <2>1, <2>2
<1>4. MachineTypes'
  BY <1>1, <1>3, MachineType DEF MachineTypes
<1> QED
  BY <1>1, <1>2, <1>3, <1>4, StrangerKeepsCalls DEF Kept

LEMMA PrepSnapshotDoneKeeps == CallInv /\ OnPrepSnapshotDone => Kept
<1> SUFFICES ASSUME CallInv, OnPrepSnapshotDone
             PROVE  Kept
  OBVIOUS
<1> USE DEF CallInv
<1>1. /\ UNCHANGED <<api_queue, app, mPrepSnapRun, encoder, notifier>>
      /\ UNCHANGED <<cam, zslNew, needRestart, mPreviewWindow, prep>>
      /\ evt_queue # << >> /\ evt_queue' = Tail(evt_queue)
  BY DEF OnPrepSnapshotDone, ServeEvent, settings, callers
<1>2. /\ m_apiResultList' \in [Api -> Seq(BOOLEAN)]
      /\ \A b \in Single : m_apiResultList'[b] = m_apiResultList[b]
  <2>1. m_apiResultList \in [Api -> Seq(BOOLEAN)] /\ "PREPARE_SNAPSHOT" \in Api
        /\ "PREPARE_SNAPSHOT" \notin Single /\ Single \subseteq Api
    BY SomeApis DEF TypeOK, Single, Api
  <2>2. CASE Signal("PREPARE_SNAPSHOT", TRUE)
    <3>1. Append(m_apiResultList["PREPARE_SNAPSHOT"], TRUE) \in Seq(BOOLEAN)
      BY <2>1
    <3> QED
      BY <2>1, <2>2, <3>1 DEF Signal
  <2> QED
    BY <2>1, <2>2 DEF OnPrepSnapshotDone
<1>3. OtherTypes'
  BY <1>1, <1>2, OtherType, EventServed DEF OtherTypes
<1>4. m_state' \in State /\ (m_state' = m_state \/ m_state = "PREPARE_SNAPSHOT")
  BY MachineType DEF OnPrepSnapshotDone, MachineTypes, State
<1>5. MachineTypes'
  BY <1>1, <1>4, MachineType DEF MachineTypes
<1>6. VideoState'
  BY <1>1, <1>4 DEF VideoState, On, RecordingState
<1> QED
  BY <1>1, <1>2, <1>3, <1>5, <1>6, StrangerKeepsCalls DEF Kept, On

(* Steps that leave the state and the channels to the machine. *)
LEMMA AsideKeeps ==
  ASSUME CallInv, UNCHANGED <<m_state, cam>>, UNCHANGED settings, UNCHANGED app, OtherTypes',
         UNCHANGED api_queue \/ \E a \in Stranger : Post(a, << >>),
         \A b \in Single : m_apiResultList'[b] = m_apiResultList[b]
  PROVE  Kept
<1>1. MachineTypes'
  BY MachineType DEF CallInv, MachineTypes, settings
<1>2. VideoState'
  BY DEF CallInv, VideoState, On
<1> QED
  BY <1>1, <1>2, StrangerKeepsCalls DEF Kept, CallInv, On

LEMMA VideoFrameKeeps == CallInv /\ VideoFrame => Kept
<1> SUFFICES ASSUME CallInv, VideoFrame
             PROVE  Kept
  OBVIOUS
<1>1. OtherTypes'
  BY OtherType DEF VideoFrame, OtherTypes, CallInv
<1> QED
  BY <1>1, AsideKeeps DEF VideoFrame

LEMMA ReleaseRecordingFrameKeeps == CallInv /\ ReleaseRecordingFrame => Kept
<1> SUFFICES ASSUME CallInv, ReleaseRecordingFrame
             PROVE  Kept
  OBVIOUS
<1>1. OtherTypes'
  BY OtherType DEF ReleaseRecordingFrame, OtherTypes, CallInv
<1>2. \E a \in Stranger : Post(a, << >>)
  BY DEF ReleaseRecordingFrame, Stranger
<1> QED
  BY <1>1, <1>2, AsideKeeps DEF ReleaseRecordingFrame

LEMMA FrameReleasedKeeps == CallInv /\ FrameReleased => Kept
<1> SUFFICES ASSUME CallInv, FrameReleased
             PROVE  Kept
  OBVIOUS
<1>1. m_apiResultList \in [Api -> Seq(BOOLEAN)] /\ Single \subseteq Api
      /\ "RELEASE_RECORDING_FRAME" \in Api /\ "RELEASE_RECORDING_FRAME" \notin Single
  BY Apis, SomeApis DEF CallInv, TypeOK, Single, Api, ParamApi
<1>2. /\ m_apiResultList["RELEASE_RECORDING_FRAME"] # << >>
      /\ TakeResult("RELEASE_RECORDING_FRAME")
  BY DEF FrameReleased, Found
<1>3. Tail(m_apiResultList["RELEASE_RECORDING_FRAME"]) \in Seq(BOOLEAN)
  BY <1>1, <1>2, ResultTaken
<1>4. /\ m_apiResultList' \in [Api -> Seq(BOOLEAN)]
      /\ \A b \in Single : m_apiResultList'[b] = m_apiResultList[b]
  BY <1>1, <1>2, <1>3 DEF TakeResult
<1>5. OtherTypes'
  BY <1>4, OtherType DEF FrameReleased, OtherTypes, CallInv
<1> QED
  BY <1>4, <1>5, AsideKeeps DEF FrameReleased

LEMMA HardwarePreparedKeeps == CallInv /\ HardwarePrepared => Kept
<1> SUFFICES ASSUME CallInv, HardwarePrepared
             PROVE  Kept
  OBVIOUS
<1>1. OtherTypes'
  BY OtherType, EventAppended DEF HardwarePrepared, OtherTypes, CallInv, callers
<1>2. MachineTypes'
  BY MachineType DEF HardwarePrepared, CallInv, MachineTypes
<1>3. VideoState' /\ (On("VIDEO") => On("VIDEO")')
  BY DEF HardwarePrepared, CallInv, VideoState, On
<1> QED
  BY <1>1, <1>2, <1>3, StrangerKeepsCalls DEF HardwarePrepared, callers, Kept, CallInv

(* The live snapshot thread and the picture change only the camera. *)
LEMMA CameraStepKeeps ==
  ASSUME CallInv, UNCHANGED m_state, UNCHANGED settings, UNCHANGED <<m_apiResultList, app>>,
         OtherTypes', cam' \in Camera, cam'.chan["VIDEO"] = cam.chan["VIDEO"],
         UNCHANGED api_queue \/ \E a \in Stranger : Post(a, << >>)
  PROVE  Kept
<1>1. MachineTypes'
  BY MachineType DEF CallInv, MachineTypes, settings
<1>2. VideoState'
  BY DEF CallInv, VideoState, On
<1> QED
  BY <1>1, <1>2, StrangerKeepsCalls DEF Kept, CallInv, On

LEMMA LiveTaken ==
  ASSUME cam \in Camera, NEW p \in StartChannel(cam, "SNAPSHOT"),
         cam' = [p.cam EXCEPT !.live = "none", !.shot = IF p.ok THEN "asked" ELSE @]
  PROVE  /\ cam' \in Camera /\ cam'.zsl = cam.zsl /\ cam'.hint = cam.hint /\ cam'.live = "none"
         /\ cam'.chan = p.cam.chan
         /\ \A x \in Channel : x # "SNAPSHOT" => cam'.chan[x] = cam.chan[x]
         /\ cam'.chan["SNAPSHOT"] = "none" <=> cam.chan["SNAPSHOT"] = "none"
<1>1. /\ p.cam \in Camera /\ p.ok \in BOOLEAN
      /\ p.cam.zsl = cam.zsl /\ p.cam.hint = cam.hint
      /\ p.ok => /\ cam.chan["SNAPSHOT"] # "none"
                 /\ \A x \in Channel : p.cam.chan[x] = IF x = "SNAPSHOT" THEN "on" ELSE cam.chan[x]
      /\ ~p.ok => p.cam = cam
  BY StartChannelFacts DEF Channel, Outcome
<1>2. /\ cam' \in Camera /\ cam'.chan = p.cam.chan /\ cam'.zsl = p.cam.zsl
      /\ cam'.hint = p.cam.hint /\ cam'.live = "none"
  BY <1>1 DEF Camera
<1>3. "SNAPSHOT" \in Channel
  BY DEF Channel
<1> QED
  BY <1>1, <1>2, <1>3

LEMMA TakeLiveSnapshotKeeps == CallInv /\ TakeLiveSnapshot => Kept
<1> SUFFICES ASSUME CallInv, TakeLiveSnapshot
             PROVE  Kept
  OBVIOUS
<1>1. PICK p \in StartChannel(cam, "SNAPSHOT") :
        /\ cam' = [p.cam EXCEPT !.live = "none", !.shot = IF p.ok THEN "asked" ELSE @]
        /\ IF p.ok THEN UNCHANGED api_queue
           ELSE Post("CANCEL_PICTURE", << >>) /\ Stray("CANCEL_PICTURE") < MaxStray
  BY DEF TakeLiveSnapshot
<1>2. cam' \in Camera /\ cam'.chan["VIDEO"] = cam.chan["VIDEO"]
  BY <1>1, LiveTaken, QueueType DEF CallInv, Channel
<1>3. UNCHANGED api_queue \/ \E a \in Stranger : Post(a, << >>)
  BY <1>1 DEF Stranger
<1>4. OtherTypes'
  BY OtherType DEF TakeLiveSnapshot, OtherTypes, CallInv, callers
<1> QED
  BY <1>2, <1>3, <1>4, CameraStepKeeps DEF TakeLiveSnapshot, callers

LEMMA CancelLiveSnapshotKeeps == CallInv /\ CancelLiveSnapshot => Kept
<1> SUFFICES ASSUME CallInv, CancelLiveSnapshot
             PROVE  Kept
  OBVIOUS
<1>1. cam' \in Camera /\ cam'.chan["VIDEO"] = cam.chan["VIDEO"]
  BY QueueType, StopSnapshotFacts DEF CancelLiveSnapshot, CallInv, Channel
<1>2. OtherTypes'
  BY OtherType DEF CancelLiveSnapshot, OtherTypes, CallInv, callers
<1> QED
  BY <1>1, <1>2, CameraStepKeeps DEF CancelLiveSnapshot, callers

LEMMA PictureArrivesKeeps == CallInv /\ PictureArrives => Kept
<1> SUFFICES ASSUME CallInv, PictureArrives
             PROVE  Kept
  OBVIOUS
<1>1. cam' \in Camera /\ cam'.chan["VIDEO"] = cam.chan["VIDEO"]
  BY QueueType DEF PictureArrives, CallInv, Camera
<1>2. OtherTypes'
  BY OtherType DEF PictureArrives, OtherTypes, CallInv, callers
<1>3. UNCHANGED api_queue \/ \E a \in Stranger : Post(a, << >>)
  BY DEF PictureArrives, Stranger
<1> QED
  BY <1>1, <1>2, <1>3, CameraStepKeeps DEF PictureArrives, callers

LEMMA SnapshotCallbackKeeps == CallInv /\ SnapshotCallback => Kept
<1> SUFFICES ASSUME CallInv, SnapshotCallback
             PROVE  Kept
  OBVIOUS
<1>1. cam' \in Camera /\ cam'.chan["VIDEO"] = cam.chan["VIDEO"]
  BY QueueType DEF SnapshotCallback, CallInv, Camera
<1>2. OtherTypes'
  BY OtherType, EventAppended DEF SnapshotCallback, OtherTypes, CallInv
<1> QED
  BY <1>1, <1>2, CameraStepKeeps DEF SnapshotCallback

-----------------------------------------------------------------------------
(* The application.  When a call begins, goes on or returns, no request of  *)
(* its kind is in the queue and no result of its kind is left.             *)
Free == /\ \A i \in 1..Len(api_queue) : api_queue[i].api \notin Single
        /\ \A b \in Single : m_apiResultList'[b] = << >>

LEMMA LaterApis ==
  \A f \in Call : \A i \in DOMAIN Script[f] :
    i > 1 => Script[f][i] \in Single /\ Script[f][i] \notin PayloadApi
<1> SUFFICES ASSUME NEW f \in Call, NEW i \in DOMAIN Script[f], i > 1
             PROVE  Script[f][i] \in Single /\ Script[f][i] \notin PayloadApi
  OBVIOUS
<1>1. CASE f = "set_parameters"
  <2>1. i \in {2, 3, 4}
    BY <1>1, Calls
  <2> QED
    BY <1>1, <2>1, CallSteps, Apis DEF Single, ParamApi, PayloadApi
<1>2. CASE f = "take_picture"
  <2>1. i \in {2, 3}
    BY <1>2, Calls
  <2> QED
    BY <1>2, <2>1, CallSteps, Apis DEF Single, ParamApi, PayloadApi
<1>3. CASE f = "start_recording"
  <2>1. i = 2
    BY <1>3, Calls
  <2> QED
    BY <1>3, <2>1, CallSteps, Apis DEF Single, ParamApi, PayloadApi
<1>4. CASE f \notin {"set_parameters", "take_picture", "start_recording"}
  <2>1. i \in 1..1
    BY <1>4, Calls
  <2> QED
    BY <2>1
<1> QED
  BY <1>1, <1>2, <1>3, <1>4

LEMMA PayloadType ==
  ASSUME NEW n \in Nat, NEW q \in [1..n -> BOOLEAN]
  PROVE  q \in Seq(BOOLEAN)
OBVIOUS

(* A call posts the request of one of its steps. *)
LEMMA StepKeepsCalls ==
  ASSUME CallInv, Free, MachineTypes', OtherTypes',
         NEW f \in Call, NEW s \in DOMAIN Script[f], app' = [call |-> f, step |-> s],
         NEW arg \in Seq(BOOLEAN), Post(Script[f][s], arg),
         Script[f][s] = "SET_PARAMS" => arg \in [1..2 -> BOOLEAN],
         Script[f][s] = "SET_PREVIEW_WINDOW" => arg \in [1..1 -> BOOLEAN],
         Script[f][s] \notin PayloadApi => arg = << >>
  PROVE  TypeOK' /\ CallShape' /\ OneRequest' /\ OneResult'
<1> USE DEF CallInv
<1> DEFINE a == Script[f][s]
           r == [api |-> a, arg |-> arg]
           n == Len(api_queue) + 1
<1>1. api_queue \in Seq(Request) /\ Len(api_queue) \in Nat
  BY QueueType
<1>2. s \in 1..4 /\ s # 0 /\ a \in CallApi
  BY Calls
<1>3. r \in Request /\ r.api = a /\ r.arg = arg /\ api_queue' = Append(api_queue, r)
  BY <1>2 DEF Request, Api, Post
<1>4. app'.call = f /\ app'.step = s /\ Waiting' /\ Awaited' = a
  BY <1>2 DEF Waiting, Awaited
<1> HIDE DEF r, a
<1>5. /\ api_queue' \in Seq(Request) /\ Len(api_queue') = n /\ api_queue'[n] = r
      /\ \A i \in 1..Len(api_queue) : api_queue'[i] = api_queue[i]
      /\ 1..Len(api_queue') = (1..Len(api_queue)) \cup {n}
  BY <1>1, <1>3, RequestAppended
<1>6. TypeOK'
  BY <1>4, <1>5 DEF MachineTypes, OtherTypes, TypeOK, Request, Camera
<1>7. CallShape'
  <2>1. app' \in [call : Call \cup {"none"}, step : 0..4]
    BY <1>2
  <2>2. ASSUME NEW i \in 1..Len(api_queue')
        PROVE  /\ api_queue'[i].api = "SET_PARAMS" => api_queue'[i].arg \in [1..2 -> BOOLEAN]
               /\ api_queue'[i].api = "SET_PREVIEW_WINDOW" =>
                    api_queue'[i].arg \in [1..1 -> BOOLEAN]
               /\ api_queue'[i].api \notin PayloadApi => api_queue'[i].arg = << >>
    <3>1. CASE i \in 1..Len(api_queue)
      BY <1>5, <3>1 DEF CallShape
    <3>2. CASE i = n
      BY <1>3, <1>5, <3>2 DEF a
    <3> QED
      BY <1>5, <3>1, <3>2
  <2> QED
    BY <2>1, <2>2 DEF CallShape
<1>8. OneRequest'
  <2> SUFFICES ASSUME NEW i \in 1..Len(api_queue'), api_queue'[i].api \in Single
               PROVE  /\ Waiting' /\ Awaited' = api_queue'[i].api /\ ~Answered'
                      /\ \A j \in 1..Len(api_queue') : api_queue'[j].api \in Single => j = i
                      /\ \A j \in 1..Len(api_queue') : api_queue'[j].api = "PREPARE_SNAPSHOT" => j < i
    BY DEF OneRequest
  <2>1. i = n /\ a \in Single
    BY <1>3, <1>5 DEF Free
  <2>2. ~Answered'
    BY <1>4, <2>1 DEF Answered, Free
  <2>3. \A j \in 1..Len(api_queue') : api_queue'[j].api \in Single => j = n
    BY <1>5 DEF Free
  <2>4. \A j \in 1..Len(api_queue') : api_queue'[j].api = "PREPARE_SNAPSHOT" => j < n
    <3>1. a # "PREPARE_SNAPSHOT"
      BY <2>1 DEF Single
    <3> QED
      BY <1>1, <1>3, <1>5, <3>1
  <2> QED
    BY <1>3, <1>4, <1>5, <2>1, <2>2, <2>3, <2>4
<1>9. OneResult'
  BY DEF OneResult, Free
<1> QED
  BY <1>6, <1>7, <1>8, <1>9

(* A call returns. *)
LEMMA EndKeepsCalls ==
  ASSUME CallInv, Free, MachineTypes', OtherTypes', app' = NoCall, UNCHANGED api_queue
  PROVE  TypeOK' /\ CallShape' /\ OneRequest' /\ OneResult'
<1>1. app' \in [call : Call \cup {"none"}, step : 0..4] /\ app'.step = 0
  BY DEF NoCall
<1>2. TypeOK'
  BY <1>1 DEF CallInv, TypeOK, MachineTypes, OtherTypes, Camera
<1>3. CallShape'
  BY <1>1 DEF CallInv, CallShape
<1>4. OneRequest' /\ OneResult'
  BY DEF OneRequest, OneResult, Free
<1> QED
  BY <1>2, <1>3, <1>4

LEMMA AppCallKeeps ==
  ASSUME NEW f \in Call, NEW flash \in BOOLEAN, NEW arg \in Arguments(f)
  PROVE  CallInv /\ AppCall(f, arg, flash) => Kept
<1> SUFFICES ASSUME CallInv, AppCall(f, arg, flash)
             PROVE  Kept
  OBVIOUS
<1> USE DEF CallInv
<1> DEFINE first == IF f = "take_picture" /\ (mPrepSnapRun \/ ~flash) THEN 2 ELSE 1
<1>1. /\ app.step = 0 /\ app' = [call |-> f, step |-> first] /\ Post(Script[f][first], arg)
      /\ UNCHANGED <<m_state, cam, evt_queue, m_apiResultList, mPrepSnapRun, encoder, notifier>>
      /\ UNCHANGED <<zslNew, needRestart, mPreviewWindow, prep>>
  BY DEF AppCall, settings
<1>2. first \in DOMAIN Script[f]
  BY Calls
<1>3. Free
  <2>1. ~Waiting
    BY <1>1 DEF Waiting
  <2> QED
    BY <1>1, <2>1 DEF Free, OneRequest, OneResult
<1>4. MachineTypes' /\ OtherTypes'
  BY <1>1, MachineType, OtherType DEF MachineTypes, OtherTypes
<1>5. /\ arg \in Seq(BOOLEAN)
      /\ Script[f][first] = "SET_PARAMS" => arg \in [1..2 -> BOOLEAN]
      /\ Script[f][first] = "SET_PREVIEW_WINDOW" => arg \in [1..1 -> BOOLEAN]
      /\ Script[f][first] \notin PayloadApi => arg = << >>
  <2>1. CASE f = "set_parameters"
    <3>1. arg \in [1..2 -> BOOLEAN] /\ first = 1
      BY <2>1 DEF Arguments
    <3> QED
      BY <2>1, <3>1, CallSteps, PayloadType DEF PayloadApi
  <2>2. CASE f = "set_preview_window"
    <3>1. arg \in [1..1 -> BOOLEAN] /\ first = 1
      BY <2>2 DEF Arguments
    <3> QED
      BY <2>2, <3>1, CallSteps, PayloadType DEF PayloadApi
  <2>3. CASE f = "take_picture"
    <3>1. arg = << >>
      BY <2>3 DEF Arguments
    <3> QED
      BY <2>3, <3>1, CallSteps
  <2>4. CASE f \notin {"set_parameters", "set_preview_window", "take_picture"}
    <3>1. arg = << >> /\ first = 1
      BY <2>4 DEF Arguments
    <3> QED
      BY <2>4, <3>1, Calls, CallSteps
  <2> QED
    BY <2>1, <2>2, <2>3, <2>4
<1> HIDE DEF first
<1>6. TypeOK' /\ CallShape' /\ OneRequest' /\ OneResult'
  BY <1>1, <1>2, <1>3, <1>4, <1>5, StepKeepsCalls
<1> QED
  BY <1>1, <1>6 DEF Kept, VideoState, On

LEMMA ProceedKeeps ==
  ASSUME CallInv, NEW ok \in BOOLEAN, Proceed(ok), Waiting, Free,
         m_apiResultList' \in [Api -> Seq(BOOLEAN)]
  PROVE  Kept
<1> USE DEF CallInv
<1>1. UNCHANGED <<m_state, cam, evt_queue, encoder, notifier>>
      /\ UNCHANGED <<zslNew, needRestart, mPreviewWindow, prep>> /\ mPrepSnapRun' \in BOOLEAN
  BY OtherType DEF Proceed, settings, OtherTypes
<1>2. MachineTypes' /\ OtherTypes'
  BY <1>1, MachineType, OtherType DEF MachineTypes, OtherTypes
<1>3. CASE app' = NoCall /\ UNCHANGED api_queue
  BY <1>1, <1>2, <1>3, EndKeepsCalls DEF Kept, VideoState, On
<1>4. CASE /\ Later # {} /\ app' = [app EXCEPT !.step = Min(Later)]
           /\ Post(Script[app.call][Min(Later)], << >>)
  <2> DEFINE s == Min(Later)
  <2>1. app.call \in Call /\ app.step \in 1..4
    BY AwaitedType, Calls DEF CallShape, Waiting
  <2>2. Later \in SUBSET (1..4) /\ Later \subseteq DOMAIN Script[app.call]
        /\ \A i \in Later : i > app.step
    BY <2>1, Calls DEF Later
  <2>3. s \in Later
    BY <1>4, <2>2, MinFacts
  <2> HIDE DEF s
  <2>4. s \in DOMAIN Script[app.call] /\ s > 1
    BY <2>1, <2>2, <2>3
  <2>5. app' = [call |-> app.call, step |-> s] /\ Post(Script[app.call][s], << >>)
    BY <1>4, <2>1 DEF CallShape, s
  <2>6. << >> \in Seq(BOOLEAN) /\ Script[app.call][s] \notin PayloadApi
    BY <2>1, <2>4, LaterApis
  <2>7. TypeOK' /\ CallShape' /\ OneRequest' /\ OneResult'
    BY <1>2, <2>1, <2>4, <2>5, <2>6, StepKeepsCalls DEF PayloadApi
  <2> QED
    BY <1>1, <2>7 DEF Kept, VideoState, On
<1> QED
  BY <1>3, <1>4 DEF Proceed

LEMMA AppReturnFacts ==
  ASSUME CallInv, AppReturn
  PROVE  /\ Waiting /\ Answered /\ Free /\ m_apiResultList' \in [Api -> Seq(BOOLEAN)]
         /\ Head(m_apiResultList[Awaited]) \in BOOLEAN
         /\ Head(m_apiResultList[Awaited]) = m_apiResultList[Awaited][1]
         /\ Proceed(Head(m_apiResultList[Awaited]))
<1> USE DEF CallInv
<1>1. /\ Waiting /\ Answered /\ TakeResult(Awaited)
      /\ Proceed(Head(m_apiResultList[Awaited]))
  BY DEF AppReturn, Found, Answered
<1>2. m_apiResultList \in [Api -> Seq(BOOLEAN)] /\ Awaited \in Api /\ Single \subseteq Api
  BY <1>1, AwaitedType DEF TypeOK, Api, Single
<1>3. /\ Tail(m_apiResultList[Awaited]) \in Seq(BOOLEAN)
      /\ Head(m_apiResultList[Awaited]) \in BOOLEAN
      /\ Head(m_apiResultList[Awaited]) = m_apiResultList[Awaited][1]
      /\ Len(m_apiResultList[Awaited]) = 1 => Tail(m_apiResultList[Awaited]) = << >>
  <2>1. m_apiResultList[Awaited] \in Seq(BOOLEAN) /\ m_apiResultList[Awaited] # << >>
    BY <1>1, <1>2 DEF Answered
  <2> HIDE DEF Awaited
  <2> QED
    BY <2>1, ResultTaken
<1>4. /\ m_apiResultList' \in [Api -> Seq(BOOLEAN)]
      /\ \A b \in Api : m_apiResultList'[b] =
           IF b = Awaited THEN Tail(m_apiResultList[b]) ELSE m_apiResultList[b]
  BY <1>1, <1>2, <1>3 DEF TakeResult
<1>5. Free
  BY <1>1, <1>2, <1>3, <1>4 DEF Free, OneRequest, OneResult
<1> QED
  BY <1>1, <1>3, <1>4, <1>5

LEMMA AppReturnKeeps == CallInv /\ AppReturn => Kept
BY AppReturnFacts, ProceedKeeps

LEMMA PrepareTimeoutKeeps == CallInv /\ PrepareTimeout => Kept
<1> SUFFICES ASSUME CallInv, PrepareTimeout
             PROVE  Kept
  OBVIOUS
<1> USE DEF CallInv
<1>1. Waiting /\ Awaited = "PREPARE_SNAPSHOT" /\ Proceed(FALSE) /\ UNCHANGED m_apiResultList
  BY DEF PrepareTimeout
<1>2. m_apiResultList' \in [Api -> Seq(BOOLEAN)]
  BY <1>1 DEF TypeOK
<1>3. "PREPARE_SNAPSHOT" \notin Single
  BY DEF Single
<1>4. Free
  BY <1>1, <1>3 DEF Free, OneRequest, OneResult
<1>5. FALSE \in BOOLEAN
  OBVIOUS
<1> QED
  BY <1>1, <1>2, <1>4, <1>5, ProceedKeeps

-----------------------------------------------------------------------------
(* The theorems for any application and any failures.                      *)
LEMMA HandledKeeps ==
  ASSUME CallInv, NEW a \in Api \cup {"STOP_CAPTURE_CHANNEL"}, Handled(a)
  PROVE  CallInv'
BY HandlerKeepsCalls DEF Handled, CallInv

LEMMA EveryStep ==
  ASSUME CallInv, Next
  PROVE  (\E a \in Api \cup {"STOP_CAPTURE_CHANNEL"} : Handled(a)) \/ Kept
<1>0. \A a \in Api : a \in Api \cup {"STOP_CAPTURE_CHANNEL"}
  OBVIOUS
<1>1. CASE OnSetPreviewWindow /\ UNCHANGED callers
  BY <1>0, <1>1, SetPreviewWindowHandled, SomeApis
<1>2. CASE OnStartPreview /\ UNCHANGED callers
  BY <1>0, <1>2, StartPreviewHandled, SomeApis
<1>3. CASE OnStopPreview /\ UNCHANGED callers
  BY <1>0, <1>3, StopPreviewHandled, SomeApis
<1>4. CASE OnSetParams /\ UNCHANGED callers
  BY <1>0, <1>4, SetParamsHandled, SomeApis
<1>5. CASE OnSetParamsStop /\ UNCHANGED callers
  BY <1>0, <1>5, SetParamsStopHandled, SomeApis
<1>6. CASE OnSetParamsCommit /\ UNCHANGED callers
  BY <1>0, <1>6, SetParamsCommitHandled, SomeApis
<1>7. CASE OnSetParamsRestart /\ UNCHANGED callers
  BY <1>0, <1>7, SetParamsRestartHandled, SomeApis
<1>8. CASE OnPreStartRecording /\ UNCHANGED callers
  BY <1>0, <1>8, PreStartRecordingHandled, SomeApis
<1>9. CASE OnStartRecording /\ UNCHANGED callers
  BY <1>0, <1>9, StartRecordingHandled, SomeApis
<1>10. CASE OnStopRecording /\ UNCHANGED callers
  BY <1>0, <1>10, StopRecordingHandled, SomeApis
<1>11. CASE OnPrepareSnapshot /\ UNCHANGED callers
  BY <1>0, <1>11, PrepareSnapshotHandled, SomeApis
<1>12. CASE OnPreTakePicture /\ UNCHANGED callers
  BY <1>0, <1>12, PreTakePictureHandled, SomeApis
<1>13. CASE OnTakePicture /\ UNCHANGED callers
  BY <1>0, <1>13, TakePictureHandled, SomeApis
<1>14. CASE OnCancelPicture /\ UNCHANGED callers
  BY <1>0, <1>14, CancelPictureHandled, SomeApis
<1>15. CASE OnRelease /\ UNCHANGED callers
  BY <1>0, <1>15, ReleaseHandled, SomeApis
<1>16. CASE OnReleaseRecordingFrame /\ UNCHANGED callers
  BY <1>0, <1>16, ReleaseRecordingFrameHandled, SomeApis
<1>17. CASE OnStopCaptureChannel /\ UNCHANGED callers
  BY <1>0, <1>17, StopCaptureChannelHandled, SomeApis
<1>18. CASE OnSnapshotDone
  BY <1>18, SnapshotDoneKeeps
<1>19. CASE OnPrepSnapshotDone
  BY <1>19, PrepSnapshotDoneKeeps
<1>20. CASE \E f \in Call, flash \in BOOLEAN : \E arg \in Arguments(f) : AppCall(f, arg, flash)
  BY <1>20, AppCallKeeps
<1>21. CASE AppReturn
  BY <1>21, AppReturnKeeps
<1>22. CASE PrepareTimeout
  BY <1>22, PrepareTimeoutKeeps
<1>23. CASE VideoFrame
  BY <1>23, VideoFrameKeeps
<1>24. CASE ReleaseRecordingFrame
  BY <1>24, ReleaseRecordingFrameKeeps
<1>25. CASE FrameReleased
  BY <1>25, FrameReleasedKeeps
<1>26. CASE TakeLiveSnapshot
  BY <1>26, TakeLiveSnapshotKeeps
<1>27. CASE CancelLiveSnapshot
  BY <1>27, CancelLiveSnapshotKeeps
<1>28. CASE PictureArrives
  BY <1>28, PictureArrivesKeeps
<1>29. CASE SnapshotCallback
  BY <1>29, SnapshotCallbackKeeps
<1>30. CASE HardwarePrepared
  BY <1>30, HardwarePreparedKeeps
<1> QED
  BY <1>1, <1>2, <1>3, <1>4, <1>5, <1>6, <1>7, <1>8, <1>9, <1>10, <1>11, <1>12,
     <1>13, <1>14, <1>15, <1>16, <1>17, <1>18, <1>19, <1>20, <1>21, <1>22, <1>23, <1>24,
     <1>25, <1>26, <1>27, <1>28, <1>29, <1>30
  DEF Next, SmEvtProc

LEMMA CallInit == Init => CallInv
<1> SUFFICES ASSUME Init
             PROVE  CallInv
  OBVIOUS
<1>1. TypeOK
  <2>1. << >> \in Seq(Request) /\ << >> \in Seq(BOOLEAN)
        /\ << >> \in Seq({"SNAPSHOT_DONE", "PREP_SNAPSHOT_DONE"})
    OBVIOUS
  <2> QED
    BY <2>1 DEF Init, TypeOK, NoCall, State, Request
<1>2. api_queue = << >> /\ Len(api_queue) = 0 /\ 1..Len(api_queue) = {}
  BY DEF Init
<1>3. CallShape
  BY <1>2 DEF CallShape, Init, NoCall
<1>4. OneRequest
  BY <1>2 DEF OneRequest
<1>5. OneResult
  <2>1. Single \subseteq Api
    BY DEF Single, Api
  <2> QED
    BY <2>1 DEF OneResult, Init
<1>6. VideoState
  BY DEF VideoState, On, Init, Channel
<1> QED
  BY <1>1, <1>3, <1>4, <1>5, <1>6 DEF CallInv

LEMMA CallStep == CallInv /\ [Next]_vars => CallInv'
<1> SUFFICES ASSUME CallInv, [Next]_vars
             PROVE  CallInv'
  OBVIOUS
<1>1. CASE UNCHANGED vars
  <2> USE <1>1 DEF vars, CallInv
  <2>1. TypeOK'
    BY DEF TypeOK
  <2>2. CallShape'
    BY DEF CallShape
  <2>3. Waiting' = Waiting /\ Awaited' = Awaited /\ Answered' = Answered
        /\ Queued("PREPARE_SNAPSHOT")' = Queued("PREPARE_SNAPSHOT")
    BY DEF Waiting, Awaited, Answered, Queued
  <2>4. OneRequest' /\ OneResult'
    BY <2>3 DEF OneRequest, OneResult
  <2>5. VideoState'
    BY DEF VideoState, On
  <2> QED
    BY <2>1, <2>2, <2>4, <2>5
<1>2. CASE Next
  BY <1>2, EveryStep, HandledKeeps DEF Kept
<1> QED
  BY <1>1, <1>2

(* The types of the machine, its queues, results and channels.             *)
THEOREM CameraTypeCorrect == Spec => []TypeOK
<1>1. CallInv => TypeOK
  BY DEF CallInv
<1> QED
  BY <1>1, CallInit, CallStep, PTL DEF Spec

(* Whatever the application calls and whichever channels fail, a queued     *)
(* request that points into its caller's memory finds the caller still in   *)
(* that call: its thread has not returned from the wait, and the results it *)
(* could take for its own are none.                                        *)
THEOREM PayloadAlwaysAlive == Spec => []PayloadAlive
<1>1. ASSUME CallInv
      PROVE  PayloadAlive
  <2> SUFFICES ASSUME NEW i \in DOMAIN api_queue, api_queue[i].arg # << >>
               PROVE  app.step = 1 /\ Script[app.call][1] = api_queue[i].api
    BY DEF PayloadAlive
  <2>1. i \in 1..Len(api_queue)
    BY <1>1, QueueType DEF CallInv
  <2>2. api_queue[i].api \in PayloadApi
    BY <1>1, <2>1 DEF CallInv, CallShape
  <2>3. api_queue[i].api \in Single
    BY <2>2, Apis DEF PayloadApi, Single, ParamApi
  <2>4. Waiting /\ Awaited = api_queue[i].api
    BY <1>1, <2>1, <2>3 DEF CallInv, OneRequest
  <2>5. app.call \in Call /\ app.step \in DOMAIN Script[app.call] /\ app.step \in 0..4
        /\ app.step # 0
    BY <1>1, <2>4, AwaitedType DEF CallInv, CallShape, Waiting
  <2>6. ~(app.step > 1)
    BY <2>2, <2>4, <2>5, LaterApis DEF Awaited
  <2>7. app.step = 1
    BY <2>5, <2>6
  <2> QED
    BY <2>4, <2>7 DEF Awaited
<1> QED
  BY <1>1, CallInit, CallStep, PTL DEF Spec

(* Whatever the application calls and whichever channels fail, the video    *)
(* channel stops only where STOP_RECORDING or STOP_PREVIEW is served.       *)
THEOREM RecordingAlwaysSurvives == Spec => RecordingSurvives
<1>1. ASSUME CallInv, [Next]_vars
      PROVE  [On("VIDEO") /\ ~On("VIDEO")' =>
               /\ api_queue # << >> /\ Head(api_queue).api \in {"STOP_RECORDING", "STOP_PREVIEW"}
               /\ api_queue' = Tail(api_queue)]_vars
  <2>1. CASE UNCHANGED vars
    BY <2>1
  <2>2. CASE \E a \in Api \cup {"STOP_CAPTURE_CHANNEL"} : Handled(a)
    BY <2>2 DEF Handled, Answers, Serve, Ends
  <2>3. CASE Kept
    BY <2>3 DEF Kept
  <2> QED
    BY <1>1, <2>1, <2>2, <2>3, EveryStep
<1> QED
  BY <1>1, CallInit, CallStep, PTL DEF Spec, RecordingSurvives

-----------------------------------------------------------------------------
(* For an application that keeps the ZSL mode during a capture, the         *)
(* channels.  What holds of a camera in any state (Sound), what a state     *)
(* asks of the camera (Fits), and what the states promise when the preview  *)
(* starts whenever it is asked to (Firmly); halted says that set_parameters *)
(* has stopped the preview for a while.                                     *)
PictureState == {"PIC_TAKING", "PREVIEW_PIC_TAKING"}

Busy == RecordingState \cup {"PREPARE_SNAPSHOT"}

Sound(c) ==
  /\ c.chan["VIDEO"] # "none" <=> c.chan["SNAPSHOT"] # "none"
  /\ c.chan["VIDEO"] # "none" => c.hint /\ c.chan["PREVIEW"] # "none"
  /\ c.chan["ZSL"] # "none" => c.chan["PREVIEW"] = "none" /\ c.zsl /\ ~c.hint
  /\ c.live # "none" => c.chan["SNAPSHOT"] # "none"

Fits(s, c) ==
  /\ s = "STOPPED" => NoPreview(c)
  /\ s = "READY" => \A ch \in PreviewChannel : c.chan[ch] # "on"
  /\ s = "PIC_TAKING" => NoPreview(c) /\ ~c.hint /\ c.zsl = zslNew
  /\ s = "PREVIEW_PIC_TAKING" => c.zsl /\ zslNew /\ ~c.hint
  /\ s \in RecordingState <=> c.chan["VIDEO"] = "on"
  /\ c.chan["CAPTURE"] # "none" => s = "PIC_TAKING" /\ ~c.zsl
  /\ c.live # "none" => s = "PREVIEWING" \/ s \in Busy

Firmly(s, c, halted) ==
  /\ s \in {"PREVIEWING", "PREPARE_SNAPSHOT", "PREVIEW_PIC_TAKING"} =>
       c.chan["PREVIEW"] = "on" \/ c.chan["ZSL"] = "on" \/ halted
  /\ s = "PIC_TAKING" => c.chan["CAPTURE"] # "none"
  /\ c.chan["VIDEO"] = "on" => c.chan["PREVIEW"] = "on"

(* set_parameters between its steps: it has stopped the preview, or has not *)
(* committed the ZSL mode yet.                                              *)
Halted == needRestart /\ (app.step > 2 \/ (app.step = 2 /\ Answered))

Uncommitted == needRestart /\ (app.step < 3 \/ (app.step = 3 /\ ~Answered))

(* A restart is asked for only while set_parameters is on its way to it.    *)
RestartAsked ==
  needRestart =>
    /\ app.call = "set_parameters" /\ app.step \in 1..4 /\ m_state \notin Busy
    /\ app.step = 1 => Answered
    /\ app.step = 4 => ~Answered
    /\ Answered => m_apiResultList[Awaited][1]
    /\ ~Queued("PREPARE_SNAPSHOT")

RestartNeeded ==
  app.call = "set_parameters" /\ (app.step = 2 \/ (app.step = 4 /\ ~Answered)) => needRestart

ModeKept ==
  m_state \in PictureState =>
    \A i \in 1..Len(api_queue) :
      api_queue[i].api = "SET_PARAMS" => api_queue[i].arg[1] = zslNew

ModeKnown == ~cam.hint => cam.zsl = zslNew \/ Uncommitted

ChannelInv ==
  /\ CallInv /\ RestartAsked /\ RestartNeeded /\ ModeKept /\ ModeKnown
  /\ Sound(cam) /\ Fits(m_state, cam)
  /\ Halted => NoPreview(cam)
  /\ Firm => Firmly(m_state, cam, Halted)

(* The same between the calls that change parameters.                      *)
Good(s, c) ==
  /\ Sound(c) /\ Fits(s, c)
  /\ ~c.hint => c.zsl = zslNew
  /\ Firm => Firmly(s, c, FALSE)

LEMMA Channels ==
  /\ PreviewChannel \subseteq Channel /\ "CAPTURE" \in Channel /\ "CAPTURE" \notin PreviewChannel
  /\ {"ZSL", "PREVIEW", "VIDEO", "SNAPSHOT"} \subseteq PreviewChannel
  /\ Channel = PreviewChannel \cup {"CAPTURE"}
BY DEF PreviewChannel, Channel

(* A preview that was made anew, in part or not at all, is sound.          *)
LEMMA ShapeSound ==
  ASSUME NEW c \in Camera, c.live = "none", NoPreview(c) \/ Prepared(c) \/ Runs(c)
  PROVE  /\ Sound(c) /\ c.chan["VIDEO"] # "on"
         /\ ~Runs(c) => \A ch \in PreviewChannel : c.chan[ch] # "on"
         /\ Runs(c) => c.chan["PREVIEW"] = "on" \/ c.chan["ZSL"] = "on"
<1>0. Runs(c) => c.chan["PREVIEW"] = "on" \/ c.chan["ZSL"] = "on"
  <2>1. PreviewOf(c) \in {"ZSL", "PREVIEW"} /\ PreviewOf(c) \in PreviewChannel
    BY DEF PreviewOf, PreviewChannel
  <2> QED
    BY <2>1 DEF Runs
<1>1. CASE NoPreview(c)
  BY <1>0, <1>1, Channels DEF NoPreview, Sound
<1>2. CASE ~NoPreview(c) /\ ZslPreview(c)
  <2>1. PreviewOf(c) = "ZSL" /\ PreparedFor(c) = {"ZSL"} /\ c.zsl /\ ~c.hint
    BY <1>2 DEF PreviewOf, PreparedFor, ZslPreview
  <2> QED
    BY <1>2, <2>1, Channels DEF Prepared, Runs, Sound
<1>3. CASE ~NoPreview(c) /\ ~ZslPreview(c) /\ c.hint
  <2>1. PreviewOf(c) = "PREVIEW" /\ PreparedFor(c) = {"PREVIEW", "VIDEO", "SNAPSHOT"}
    BY <1>3 DEF PreviewOf, PreparedFor
  <2> QED
    BY <1>3, <2>1, Channels DEF Prepared, Runs, Sound
<1>4. CASE ~NoPreview(c) /\ ~ZslPreview(c) /\ ~c.hint
  <2>1. PreviewOf(c) = "PREVIEW" /\ PreparedFor(c) = {"PREVIEW"}
    BY <1>4 DEF PreviewOf, PreparedFor
  <2> QED
    BY <1>4, <2>1, Channels DEF Prepared, Runs, Sound
<1> QED
  BY <1>1, <1>2, <1>3, <1>4

LEMMA PreviewingGood ==
  ASSUME NEW c \in Camera, c.live = "none", c.chan["CAPTURE"] = "none",
         NoPreview(c) \/ Prepared(c) \/ Runs(c), ~c.hint => c.zsl = zslNew, Firm => Runs(c)
  PROVE  Good("PREVIEWING", c)
<1>1. /\ Sound(c) /\ c.chan["VIDEO"] # "on"
      /\ Runs(c) => c.chan["PREVIEW"] = "on" \/ c.chan["ZSL"] = "on"
  BY ShapeSound
<1>2. Fits("PREVIEWING", c)
  BY <1>1 DEF Fits, RecordingState
<1>3. Firm => Firmly("PREVIEWING", c, FALSE)
  BY <1>1 DEF Firmly
<1> QED
  BY <1>1, <1>2, <1>3 DEF Good

LEMMA StoppedGood ==
  ASSUME NEW c \in Camera, c.live = "none", c.chan["CAPTURE"] = "none", NoPreview(c),
         ~c.hint => c.zsl = zslNew
  PROVE  Good("STOPPED", c)
<1>1. Sound(c) /\ c.chan["VIDEO"] # "on"
  BY ShapeSound
<1>2. Fits("STOPPED", c) /\ Firmly("STOPPED", c, FALSE)
  BY <1>1 DEF Fits, Firmly, RecordingState
<1> QED
  BY <1>1, <1>2 DEF Good

LEMMA ReadyGood ==
  ASSUME NEW c \in Camera, c.live = "none", c.chan["CAPTURE"] = "none",
         Sound(c), \A ch \in PreviewChannel : c.chan[ch] # "on", ~c.hint => c.zsl = zslNew
  PROVE  Good("READY", c)
<1>1. c.chan["VIDEO"] # "on"
  BY Channels
<1>2. Fits("READY", c) /\ Firmly("READY", c, FALSE)
  BY <1>1 DEF Fits, Firmly, RecordingState
<1> QED
  BY <1>2 DEF Good

LEMMA StartedGood ==
  ASSUME NEW c \in Camera, Good("READY", c), NEW o \in StartsOrStops(c)
  PROVE  Good(o.state, o.cam)
<1>1. /\ Sound(c) /\ \A ch \in PreviewChannel : c.chan[ch] # "on"
      /\ c.live = "none" /\ c.chan["CAPTURE"] = "none" /\ (~c.hint => c.zsl = zslNew)
  BY DEF Good, Fits, Busy, RecordingState, Camera
<1>2. /\ o.cam \in Camera /\ o.ok \in BOOLEAN /\ o.state \in {"PREVIEWING", "STOPPED"}
      /\ (o.state = "PREVIEWING" <=> o.ok)
      /\ o.cam.zsl = c.zsl /\ o.cam.hint = c.hint /\ o.cam.live = c.live
      /\ o.cam.chan["CAPTURE"] = c.chan["CAPTURE"]
      /\ o.ok => /\ c.chan[PreviewOf(c)] # "none"
                 /\ \A x \in Channel :
                      o.cam.chan[x] = IF x = PreviewOf(c) THEN "on" ELSE c.chan[x]
      /\ ~o.ok => NoPreview(o.cam)
  BY StartsOrStopsFacts DEF Same
<1>3. CASE ~o.ok
  BY <1>1, <1>2, <1>3, StoppedGood
<1>4. CASE o.ok
  <2>1. PreviewOf(c) \in {"PREVIEW", "ZSL"}
    BY DEF PreviewOf
  <2>2. /\ o.cam.chan["VIDEO"] = c.chan["VIDEO"] /\ o.cam.chan["SNAPSHOT"] = c.chan["SNAPSHOT"]
        /\ o.cam.chan["PREVIEW"] = "none" <=> c.chan["PREVIEW"] = "none"
        /\ o.cam.chan["ZSL"] = "none" <=> c.chan["ZSL"] = "none"
        /\ o.cam.chan["PREVIEW"] = "on" \/ o.cam.chan["ZSL"] = "on"
    BY <1>2, <1>4, <2>1, Channels
  <2>3. Sound(o.cam)
    BY <1>1, <1>2, <2>2 DEF Sound
  <2>4. o.cam.chan["VIDEO"] # "on"
    BY <1>1, <2>2, Channels
  <2>5. Fits("PREVIEWING", o.cam) /\ Firmly("PREVIEWING", o.cam, FALSE)
    BY <1>1, <1>2, <2>2, <2>4 DEF Fits, Firmly, RecordingState
  <2> QED
    BY <1>1, <1>2, <1>4, <2>3, <2>5 DEF Good
<1> QED
  BY <1>2, <1>3, <1>4

(* The handlers of the calls that change no parameters.                    *)
LEMMA UnchangedGood ==
  ASSUME Good(m_state, cam), Accept \/ Refuse
  PROVE  Good(m_state', cam')
BY DEF Accept, Refuse, Reply

LEMMA SetPreviewWindowGood ==
  ASSUME CallInv, Good(m_state, cam), OnSetPreviewWindow
  PROVE  Good(m_state', cam')
<1>1. CASE Accept \/ Refuse
  BY <1>1, UnchangedGood
<1>2. CASE m_state = "READY" /\ \E o \in StartsOrStops(cam) : Reply(o.state, o.cam, o.ok)
  BY <1>2, MachineType, StartedGood DEF Reply, CallInv, MachineTypes
<1> QED
  BY <1>1, <1>2 DEF OnSetPreviewWindow

(* A preview that is prepared where there was none.                         *)
LEMMA PreparedGood ==
  ASSUME cam \in Camera, zslNew \in BOOLEAN, NoPreview(cam), cam.live = "none",
         cam.chan["CAPTURE"] = "none", NEW p \in PreparePreview(cam)
  PROVE  /\ p.cam \in Camera /\ p.ok \in BOOLEAN
         /\ p.ok => Good("READY", p.cam)
         /\ ~p.ok => Good("STOPPED", p.cam) /\ Good("PREVIEWING", p.cam)
<1>1. /\ p.cam \in Camera /\ p.ok \in BOOLEAN /\ p.cam.zsl = zslNew /\ p.cam.hint = cam.hint
      /\ p.cam.live = "none" /\ p.cam.chan["CAPTURE"] = "none"
      /\ p.ok => \A ch \in PreviewChannel :
           p.cam.chan[ch] = IF ch \in PreparedFor(p.cam) THEN "added" ELSE cam.chan[ch]
      /\ ~p.ok => p.cam.chan = cam.chan /\ ~Firm
  BY PrepareFacts DEF Outcome, Same
<1>2. p.ok => Prepared(p.cam) /\ ~Runs(p.cam)
  <2>1. p.ok => Prepared(p.cam)
    BY <1>1 DEF NoPreview, Prepared
  <2>2. PreviewOf(p.cam) \in PreviewChannel
    BY DEF PreviewOf, PreviewChannel
  <2> QED
    BY <2>1, <2>2 DEF Prepared, Runs
<1>3. ~p.ok => NoPreview(p.cam)
  BY <1>1 DEF NoPreview
<1>4. p.ok => Good("READY", p.cam)
  BY <1>1, <1>2, ShapeSound, ReadyGood
<1>5. ~p.ok => Good("STOPPED", p.cam) /\ Good("PREVIEWING", p.cam)
  BY <1>1, <1>3, StoppedGood, PreviewingGood
<1> QED
  BY <1>1, <1>4, <1>5

LEMMA StartPreviewGood ==
  ASSUME CallInv, Good(m_state, cam), OnStartPreview
  PROVE  Good(m_state', cam')
<1>0. cam \in Camera /\ zslNew \in BOOLEAN
  BY MachineType DEF CallInv, MachineTypes
<1>1. CASE Accept \/ Refuse
  BY <1>1, UnchangedGood
<1>2. CASE m_state = "READY" /\ \E o \in StartsOrStops(cam) : Reply(o.state, o.cam, TRUE)
  BY <1>0, <1>2, StartedGood DEF Reply
<1>3. CASE /\ m_state = "STOPPED"
           /\ \E p \in PreparePreview(cam) :
                IF ~p.ok THEN Reply("STOPPED", p.cam, FALSE)
                ELSE IF ~mPreviewWindow THEN Reply("READY", p.cam, TRUE)
                ELSE \E o \in StartsOrStops(p.cam) : Reply(o.state, o.cam, o.ok)
  <2>1. PICK p \in PreparePreview(cam) :
                IF ~p.ok THEN Reply("STOPPED", p.cam, FALSE)
                ELSE IF ~mPreviewWindow THEN Reply("READY", p.cam, TRUE)
                ELSE \E o \in StartsOrStops(p.cam) : Reply(o.state, o.cam, o.ok)
    BY <1>3
  <2>2. NoPreview(cam) /\ cam.live = "none" /\ cam.chan["CAPTURE"] = "none"
    BY <1>0, <1>3 DEF Good, Fits, Busy, RecordingState, Camera
  <2>3. /\ p.cam \in Camera
        /\ p.ok => Good("READY", p.cam)
        /\ ~p.ok => Good("STOPPED", p.cam)
    BY <1>0, <2>2, PreparedGood
  <2>4. CASE \E o \in StartsOrStops(p.cam) : p.ok /\ Reply(o.state, o.cam, o.ok)
    BY <2>3, <2>4, StartedGood DEF Reply
  <2> QED
    BY <2>1, <2>3, <2>4 DEF Reply
<1> QED
  BY <1>1, <1>2, <1>3 DEF OnStartPreview

LEMMA StopPreviewGood ==
  ASSUME CallInv, Good(m_state, cam), OnStopPreview
  PROVE  Good(m_state', cam')
<1>0. cam \in Camera /\ zslNew \in BOOLEAN /\ (~cam.hint => cam.zsl = zslNew)
  BY MachineType DEF CallInv, MachineTypes, Good
<1>1. CASE Accept \/ Refuse
  BY <1>1, UnchangedGood
<1>2. CASE m_state = "READY" /\ Reply("STOPPED", UnpreparePreview(cam), TRUE)
  <2>1. cam.live = "none" /\ cam.chan["CAPTURE"] = "none"
    BY <1>0, <1>2 DEF Good, Fits, Busy, RecordingState, Camera
  <2> QED
    BY <1>0, <1>2, <2>1, UnprepareFacts, StoppedGood DEF Reply, NoPreview
<1>3. CASE m_state = "PREVIEWING" /\ Joined /\ Reply("STOPPED", StopPreview(cam), TRUE)
  <2>1. cam.live = "none" /\ cam.chan["CAPTURE"] = "none"
    BY <1>0, <1>3 DEF Good, Fits, Joined
  <2> QED
    BY <1>0, <1>3, <2>1, StopPreviewFacts, StoppedGood DEF Reply, NoPreview
<1>4. CASE m_state = "PIC_TAKING" /\ Reply("STOPPED", CancelPicture(cam), TRUE)
  <2>1. cam.live = "none" /\ NoPreview(cam) /\ (cam.zsl => cam.chan["CAPTURE"] = "none")
    BY <1>0, <1>4 DEF Good, Fits, Busy, RecordingState, Camera
  <2>2. /\ CancelPicture(cam) \in Camera /\ CancelPicture(cam).chan["CAPTURE"] = "none"
        /\ CancelPicture(cam).live = "none" /\ CancelPicture(cam).hint = cam.hint
        /\ CancelPicture(cam).zsl = cam.zsl /\ NoPreview(CancelPicture(cam))
    BY <1>0, <2>1, CancelFacts, Channels DEF NoPreview
  <2> QED
    BY <1>0, <1>4, <2>2, StoppedGood DEF Reply
<1>5. CASE /\ m_state \in RecordingState /\ Joined
           /\ \E c \in {cam, StopSnapshot(cam)} :
                Reply("STOPPED", StopPreview(StopRecording(c)), TRUE)
  <2>1. PICK c \in {cam, StopSnapshot(cam)} :
          Reply("STOPPED", StopPreview(StopRecording(c)), TRUE)
    BY <1>5
  <2>2. cam.live = "none" /\ cam.chan["CAPTURE"] = "none"
    BY <1>0, <1>5 DEF Good, Fits, Joined, RecordingState
  <2>3. /\ c \in Camera /\ c.live = "none" /\ c.chan["CAPTURE"] = "none" /\ c.zsl = cam.zsl
        /\ c.hint = cam.hint
    BY <1>0, <2>2, StopSnapshotFacts, Channels
  <2> DEFINE d == StopRecording(c)
  <2>4. /\ d \in Camera /\ d.live = "none" /\ d.chan["CAPTURE"] = "none" /\ d.zsl = cam.zsl
        /\ d.hint = cam.hint
    BY <2>3, StopChannelFacts DEF StopRecording, Channel
  <2> HIDE DEF d
  <2>5. /\ StopPreview(d) \in Camera /\ StopPreview(d).live = "none" /\ NoPreview(StopPreview(d))
        /\ StopPreview(d).chan["CAPTURE"] = "none" /\ StopPreview(d).zsl = cam.zsl
        /\ StopPreview(d).hint = cam.hint
    BY <2>4, StopPreviewFacts DEF NoPreview
  <2>6. m_state' = "STOPPED" /\ cam' = StopPreview(d)
    BY <2>1 DEF Reply, d
  <2> QED
    BY <1>0, <2>5, <2>6, StoppedGood
<1>6. CASE /\ m_state = "PREVIEW_PIC_TAKING"
           /\ LET c == IF cam.zsl THEN CancelPicture(cam) ELSE Live(cam, "stop")
              IN  Reply("STOPPED", UnpreparePreview(c), TRUE)
  <2> DEFINE c == CancelPicture(cam)
  <2>1. cam.live = "none" /\ cam.chan["CAPTURE"] = "none" /\ cam.zsl
    BY <1>0, <1>6 DEF Good, Fits, Busy, RecordingState, Camera
  <2>2. /\ c \in Camera /\ c.live = "none" /\ c.chan["CAPTURE"] = "none" /\ c.zsl = cam.zsl
        /\ c.hint = cam.hint
    BY <1>0, <2>1, CancelFacts, Channels
  <2>3. m_state' = "STOPPED" /\ cam' = UnpreparePreview(c)
    BY <1>6, <2>1 DEF Reply
  <2> HIDE DEF c
  <2> QED
    BY <1>0, <2>2, <2>3, UnprepareFacts, StoppedGood DEF NoPreview
<1>7. CASE /\ m_state \in {"RECORDING", "VIDEO_PIC_TAKING"} /\ Joined
           /\ LET c == IF m_state = "RECORDING" THEN cam ELSE StopSnapshot(cam)
              IN  Reply("STOPPED", StopPreview(StopRecording(c)), TRUE)
  <2>1. CASE m_state = "RECORDING"
    BY <1>5, <1>7, <2>1 DEF RecordingState
  <2>2. CASE m_state = "VIDEO_PIC_TAKING"
    BY <1>5, <1>7, <2>2 DEF RecordingState
  <2> QED
    BY <1>7, <2>1, <2>2
<1> QED
  BY <1>1, <1>2, <1>3, <1>4, <1>6, <1>7 DEF OnStopPreview

(* While nothing runs on the live snapshot thread, the hint and the ZSL     *)
(* mode are those of the channels that are made anew.                       *)
LEMMA PreStartRecordingGood ==
  ASSUME CallInv, Good(m_state, cam), OnPreStartRecording
  PROVE  Good(m_state', cam')
<1>0. cam \in Camera /\ zslNew \in BOOLEAN
  BY MachineType DEF CallInv, MachineTypes
<1>1. CASE Accept \/ Refuse
  BY <1>1, UnchangedGood
<1>2. CASE /\ m_state = "PREVIEWING" /\ (cam.hint \/ Joined)
           /\ \E p \in PreStartRecording(cam) : Reply(m_state, p.cam, p.ok)
  <2>1. PICK p \in PreStartRecording(cam) : Reply(m_state, p.cam, p.ok)
    BY <1>2
  <2>2. m_state' = "PREVIEWING" /\ cam' = p.cam
    BY <1>2, <2>1 DEF Reply
  <2>3. CASE cam.hint
    BY <1>0, <1>2, <2>2, <2>3, PreStartFacts
  <2>4. CASE ~cam.hint
    <3>1. cam.live = "none" /\ cam.chan["CAPTURE"] = "none"
      BY <1>2, <2>4 DEF Good, Fits, Joined
    <3>2. /\ p.cam \in Camera /\ p.cam.hint /\ p.cam.live = "none"
          /\ p.cam.chan["CAPTURE"] = "none"
          /\ NoPreview(p.cam) \/ Prepared(p.cam) \/ Runs(p.cam)
          /\ Firm => Runs(p.cam)
      BY <1>0, <2>4, <3>1, PreStartFacts DEF Outcome
    <3> QED
      BY <2>2, <3>2, PreviewingGood
  <2> QED
    BY <2>3, <2>4
<1>3. m_state = "PREVIEW_PIC_TAKING" => cam.zsl
  BY DEF Good, Fits
<1> QED
  BY <1>1, <1>2, <1>3 DEF OnPreStartRecording

LEMMA StartRecordingGood ==
  ASSUME CallInv, Good(m_state, cam), OnStartRecording
  PROVE  Good(m_state', cam')
<1>0. cam \in Camera /\ "VIDEO" \in Channel
  BY MachineType DEF CallInv, MachineTypes, Channel
<1>1. CASE Accept \/ Refuse
  BY <1>1, UnchangedGood
<1>2. CASE /\ m_state = "PREVIEWING"
           /\ \E p \in StartChannel(cam, "VIDEO") :
                Reply(IF p.ok THEN "RECORDING" ELSE m_state, p.cam, p.ok)
  <2>1. PICK p \in StartChannel(cam, "VIDEO") :
          Reply(IF p.ok THEN "RECORDING" ELSE m_state, p.cam, p.ok)
    BY <1>2
  <2>2. /\ p.cam \in Camera /\ p.cam.zsl = cam.zsl /\ p.cam.hint = cam.hint
        /\ p.cam.live = cam.live
        /\ p.ok => /\ cam.chan["VIDEO"] # "none"
                   /\ \A x \in Channel : p.cam.chan[x] = IF x = "VIDEO" THEN "on" ELSE cam.chan[x]
        /\ ~p.ok => p.cam = cam
    BY <1>0, StartChannelFacts DEF Outcome
  <2>3. CASE ~p.ok
    BY <2>1, <2>2, <2>3 DEF Reply
  <2>4. CASE p.ok
    <3>1. /\ p.cam.chan["VIDEO"] = "on" /\ p.cam.chan["SNAPSHOT"] = cam.chan["SNAPSHOT"]
          /\ p.cam.chan["PREVIEW"] = cam.chan["PREVIEW"] /\ p.cam.chan["ZSL"] = cam.chan["ZSL"]
          /\ p.cam.chan["CAPTURE"] = cam.chan["CAPTURE"] /\ cam.chan["VIDEO"] # "none"
      BY <2>2, <2>4 DEF Channel
    <3>2. Sound(cam) /\ cam.hint /\ cam.chan["PREVIEW"] # "none" /\ cam.chan["ZSL"] = "none"
      BY <3>1 DEF Good, Sound
    <3>3. Sound(p.cam)
      BY <2>2, <3>1, <3>2 DEF Sound
    <3>4. Fits("RECORDING", p.cam)
      BY <1>2, <2>2, <3>1 DEF Good, Fits, RecordingState, Busy
    <3>5. Firm => Firmly("RECORDING", p.cam, FALSE)
      BY <1>2, <3>1, <3>2 DEF Good, Firmly
    <3>6. m_state' = "RECORDING" /\ cam' = p.cam
      BY <2>1, <2>4 DEF Reply
    <3> QED
      BY <2>2, <3>2, <3>3, <3>4, <3>5, <3>6 DEF Good
  <2> QED
    BY <2>3, <2>4
<1>3. m_state = "PREVIEW_PIC_TAKING" => cam.zsl
  BY DEF Good, Fits
<1> QED
  BY <1>1, <1>2, <1>3 DEF OnStartRecording

LEMMA StopRecordingGood ==
  ASSUME CallInv, Good(m_state, cam), OnStopRecording
  PROVE  Good(m_state', cam')
<1>0. cam \in Camera /\ "VIDEO" \in Channel
  BY MachineType DEF CallInv, MachineTypes, Channel
<1>1. CASE Accept \/ Refuse
  BY <1>1, UnchangedGood
<1>2. CASE /\ m_state \in RecordingState /\ m_state' = "PREVIEWING"
           /\ \E c \in {cam, Live(cam, "stop")} : cam' = StopRecording(c)
  <2>1. PICK c \in {cam, Live(cam, "stop")} : cam' = StopRecording(c)
    BY <1>2
  <2>2. /\ c \in Camera /\ c.chan = cam.chan /\ c.zsl = cam.zsl /\ c.hint = cam.hint
    BY <1>0, LiveFacts
  <2>3. /\ cam' \in Camera /\ cam'.zsl = cam.zsl /\ cam'.hint = cam.hint
        /\ \A x \in Channel :
             cam'.chan[x] = IF x = "VIDEO" /\ cam.chan[x] = "on" THEN "added" ELSE cam.chan[x]
    BY <1>0, <2>1, <2>2, StopChannelFacts DEF StopRecording
  <2>4. Sound(cam) /\ cam.chan["VIDEO"] = "on" /\ cam.chan["CAPTURE"] = "none"
        /\ cam.hint /\ (Firm => cam.chan["PREVIEW"] = "on")
    BY <1>2 DEF Good, Fits, RecordingState, Firmly, Sound
  <2>5. /\ cam'.chan["VIDEO"] = "added" /\ cam'.chan["SNAPSHOT"] = cam.chan["SNAPSHOT"]
        /\ cam'.chan["PREVIEW"] = cam.chan["PREVIEW"] /\ cam'.chan["ZSL"] = cam.chan["ZSL"]
        /\ cam'.chan["CAPTURE"] = "none"
    BY <2>3, <2>4 DEF Channel
  <2>6. Sound(cam')
    BY <2>3, <2>4, <2>5 DEF Sound
  <2>7. Fits("PREVIEWING", cam') /\ (Firm => Firmly("PREVIEWING", cam', FALSE))
    BY <2>4, <2>5 DEF Fits, Firmly, RecordingState
  <2> QED
    BY <1>2, <2>3, <2>4, <2>6, <2>7 DEF Good
<1>3. CASE m_state = "RECORDING" /\ Reply("PREVIEWING", StopRecording(cam), TRUE)
  BY <1>2, <1>3 DEF Reply, RecordingState
<1>4. CASE m_state = "VIDEO_PIC_TAKING" /\ Reply("PREVIEWING", StopRecording(Live(cam, "stop")), TRUE)
  BY <1>2, <1>4 DEF Reply, RecordingState
<1>5. \/ Accept \/ Refuse
      \/ m_state = "RECORDING" /\ Reply("PREVIEWING", StopRecording(cam), TRUE)
      \/ m_state = "VIDEO_PIC_TAKING" /\ Reply("PREVIEWING", StopRecording(Live(cam, "stop")), TRUE)
  BY DEF OnStopRecording
<1> QED
  BY <1>1, <1>3, <1>4, <1>5

(* What taking the hint away leaves of a preview.                          *)
LEMMA PreTaken ==
  ASSUME CallInv, Good("PREVIEWING", cam), cam.hint => Joined, NEW p \in PreTakePicture(cam)
  PROVE  /\ p \in Outcome /\ p.cam \in Camera /\ ~p.cam.hint /\ p.cam.zsl = zslNew
         /\ Good("PREVIEWING", p.cam) /\ (cam.live = "none" => p.cam.live = "none")
<1>1. cam \in Camera /\ zslNew \in BOOLEAN
  BY MachineType DEF CallInv, MachineTypes
<1>2. p \in Outcome /\ p.cam \in Camera /\ ~p.cam.hint
  BY <1>1, PreTakeFacts DEF Outcome
<1>3. CASE ~cam.hint
  BY <1>1, <1>2, <1>3, PreTakeFacts DEF Good
<1>4. CASE cam.hint
  <2>1. cam.live = "none" /\ cam.chan["CAPTURE"] = "none"
    BY <1>4 DEF Good, Fits, Joined
  <2>2. /\ p.cam.zsl = zslNew /\ p.cam.live = "none" /\ p.cam.chan["CAPTURE"] = "none"
        /\ NoPreview(p.cam) \/ Runs(p.cam)
        /\ Firm => Runs(p.cam)
    BY <1>1, <1>4, <2>1, PreTakeFacts DEF Same, Camera
  <2> QED
    BY <1>2, <2>2, PreviewingGood
<1> QED
  BY <1>3, <1>4

LEMMA PreTakePictureGood ==
  ASSUME CallInv, Good(m_state, cam), OnPreTakePicture
  PROVE  Good(m_state', cam')
<1>1. CASE Accept \/ Refuse
  BY <1>1, UnchangedGood
<1>2. CASE /\ m_state = "PREVIEWING" /\ (cam.hint => Joined)
           /\ \E p \in PreTakePicture(cam) : Reply(m_state, p.cam, p.ok)
  BY <1>2, PreTaken DEF Reply
<1> QED
  BY <1>1, <1>2 DEF OnPreTakePicture

LEMMA TakePictureGood ==
  ASSUME CallInv, Good(m_state, cam), OnTakePicture
  PROVE  Good(m_state', cam')
<1>0. cam \in Camera /\ zslNew \in BOOLEAN
  BY MachineType DEF CallInv, MachineTypes
<1>1. CASE Accept \/ Refuse
  BY <1>1, UnchangedGood
<1>2. CASE m_state = "RECORDING" /\ Joined /\ Reply("VIDEO_PIC_TAKING", Live(cam, "start"), TRUE)
  <2>1. /\ cam'.chan = cam.chan /\ cam'.zsl = cam.zsl /\ cam'.hint = cam.hint
        /\ m_state' = "VIDEO_PIC_TAKING"
    BY <1>0, <1>2, LiveFacts DEF Reply
  <2>2. Sound(cam) /\ cam.chan["VIDEO"] = "on" /\ cam.chan["CAPTURE"] = "none" /\ cam.hint
        /\ (Firm => cam.chan["PREVIEW"] = "on")
    BY <1>2 DEF Good, Fits, RecordingState, Firmly, Sound
  <2>3. Sound(cam')
    BY <2>1, <2>2 DEF Sound
  <2>4. Fits("VIDEO_PIC_TAKING", cam') /\ (Firm => Firmly("VIDEO_PIC_TAKING", cam', FALSE))
    BY <2>1, <2>2 DEF Fits, Firmly, RecordingState, Busy
  <2> QED
    BY <2>1, <2>2, <2>3, <2>4 DEF Good
<1>3. CASE /\ m_state = "PREVIEWING" /\ (cam.hint \/ ~cam.zsl => Joined)
           /\ \E p \in PreTakePicture(cam) : \E t \in TakePicture(p.cam) :
                IF t.ok
                THEN Reply(IF p.cam.zsl THEN "PREVIEW_PIC_TAKING" ELSE "PIC_TAKING", t.cam, TRUE)
                ELSE IF p.cam.zsl THEN Reply("PREVIEWING", t.cam, FALSE)
                ELSE \E r \in RestartOrUnprepare(StopPreview(t.cam)) :
                       Reply(IF r.ok THEN "PREVIEWING" ELSE "STOPPED", r.cam, FALSE)
  <2>1. PICK p \in PreTakePicture(cam) : \E t \in TakePicture(p.cam) :
                IF t.ok
                THEN Reply(IF p.cam.zsl THEN "PREVIEW_PIC_TAKING" ELSE "PIC_TAKING", t.cam, TRUE)
                ELSE IF p.cam.zsl THEN Reply("PREVIEWING", t.cam, FALSE)
                ELSE \E r \in RestartOrUnprepare(StopPreview(t.cam)) :
                       Reply(IF r.ok THEN "PREVIEWING" ELSE "STOPPED", r.cam, FALSE)
    BY <1>3
  <2>2. PICK t \in TakePicture(p.cam) :
                IF t.ok
                THEN Reply(IF p.cam.zsl THEN "PREVIEW_PIC_TAKING" ELSE "PIC_TAKING", t.cam, TRUE)
                ELSE IF p.cam.zsl THEN Reply("PREVIEWING", t.cam, FALSE)
                ELSE \E r \in RestartOrUnprepare(StopPreview(t.cam)) :
                       Reply(IF r.ok THEN "PREVIEWING" ELSE "STOPPED", r.cam, FALSE)
    BY <2>1
  <2>3. cam.live = "none"
    <3>1. CASE cam.hint \/ ~cam.zsl
      BY <1>3, <3>1 DEF Joined
    <3>2. CASE ~cam.hint
      BY <1>0, <3>2 DEF Good, Sound, Camera
    <3> QED
      BY <3>1, <3>2
  <2>4. /\ p.cam \in Camera /\ ~p.cam.hint /\ p.cam.zsl = zslNew /\ p.cam.live = "none"
        /\ Good("PREVIEWING", p.cam)
    BY <1>3, <2>3, PreTaken DEF Joined
  <2>5. /\ t \in Outcome /\ t.cam \in Camera /\ t.cam.hint = p.cam.hint /\ t.cam.live = "none"
        /\ p.cam.zsl => t.cam.zsl /\ t.cam.chan = p.cam.chan
        /\ ~p.cam.zsl => /\ t.cam.zsl = zslNew /\ NoPreview(t.cam)
                         /\ t.cam.chan["CAPTURE"] = IF t.ok THEN "on" ELSE "none"
    BY <1>0, <2>4, TakeFacts DEF Outcome
  <2>6. CASE p.cam.zsl
    <3>1. Sound(t.cam)
      BY <2>4, <2>5, <2>6 DEF Good, Sound
    <3>2. Fits("PREVIEWING", p.cam) /\ (Firm => Firmly("PREVIEWING", p.cam, FALSE))
      BY <2>4 DEF Good
    <3>3. /\ p.cam.chan["VIDEO"] # "on" /\ p.cam.chan["CAPTURE"] = "none"
          /\ Firm => p.cam.chan["PREVIEW"] = "on" \/ p.cam.chan["ZSL"] = "on"
      BY <3>2 DEF Fits, Firmly, RecordingState
    <3>4. ASSUME NEW s \in {"PREVIEWING", "PREVIEW_PIC_TAKING"}
          PROVE  Good(s, t.cam)
      <4>1. Fits(s, t.cam)
        BY <2>4, <2>5, <2>6, <3>3 DEF Fits, RecordingState
      <4>2. Firm => Firmly(s, t.cam, FALSE)
        BY <2>5, <2>6, <3>3 DEF Firmly
      <4> QED
        BY <2>4, <2>5, <2>6, <3>1, <4>1, <4>2 DEF Good
    <3>5. cam' = t.cam /\ m_state' \in {"PREVIEWING", "PREVIEW_PIC_TAKING"}
      BY <2>2, <2>6 DEF Reply
    <3> QED
      BY <3>4, <3>5
  <2>7. CASE ~p.cam.zsl /\ t.ok
    <3>1. cam' = t.cam /\ m_state' = "PIC_TAKING"
      BY <2>2, <2>7 DEF Reply
    <3>2. Sound(t.cam) /\ t.cam.chan["VIDEO"] # "on"
      BY <2>5, <2>7, ShapeSound
    <3>3. Fits("PIC_TAKING", t.cam) /\ Firmly("PIC_TAKING", t.cam, FALSE)
      BY <2>4, <2>5, <2>7, <3>2 DEF Fits, Firmly, RecordingState
    <3> QED
      BY <2>5, <2>7, <3>1, <3>2, <3>3 DEF Good
  <2>8. CASE ~p.cam.zsl /\ ~t.ok
    <3>1. PICK r \in RestartOrUnprepare(StopPreview(t.cam)) :
            Reply(IF r.ok THEN "PREVIEWING" ELSE "STOPPED", r.cam, FALSE)
      BY <2>2, <2>8
    <3> DEFINE d == StopPreview(t.cam)
    <3>2. d \in Camera /\ NoPreview(d) /\ d.live = "none" /\ d.chan["CAPTURE"] = "none"
      BY <2>5, <2>8, StopPreviewFacts DEF NoPreview
    <3>3. r \in RestartOrUnprepare(d)
      BY <3>1
    <3> HIDE DEF d
    <3>4. /\ r.cam \in Camera /\ r.ok \in BOOLEAN /\ r.cam.zsl = zslNew /\ r.cam.live = "none"
          /\ r.cam.chan["CAPTURE"] = "none"
          /\ r.ok => Runs(r.cam)
          /\ ~r.ok => NoPreview(r.cam)
      BY <1>0, <3>2, <3>3, RestartOrUnprepareFacts DEF Same, Outcome
    <3>5. cam' = r.cam /\ m_state' = IF r.ok THEN "PREVIEWING" ELSE "STOPPED"
      BY <3>1 DEF Reply
    <3> QED
      BY <3>4, <3>5, PreviewingGood, StoppedGood
  <2> QED
    BY <2>6, <2>7, <2>8
<1> QED
  BY <1>1, <1>2, <1>3 DEF OnTakePicture

LEMMA ReleaseGood ==
  ASSUME CallInv, Good(m_state, cam), OnRelease
  PROVE  Good(m_state', cam')
<1>1. CASE Refuse
  BY <1>1, UnchangedGood
<1>2. CASE m_state = "STOPPED" /\ Reply(m_state, Moved(cam, Channel, "none"), TRUE)
  <2> DEFINE c == Moved(cam, Channel, "none")
  <2>1. cam \in Camera
    BY MachineType DEF CallInv, MachineTypes
  <2>2. cam.live = "none" /\ (~cam.hint => cam.zsl = zslNew)
    BY <1>2, <2>1 DEF Good, Fits, Busy, RecordingState, Camera
  <2>3. /\ c \in Camera /\ c.live = "none" /\ c.hint = cam.hint /\ c.zsl = cam.zsl
        /\ c.chan["CAPTURE"] = "none" /\ NoPreview(c)
    BY <2>1, <2>2, MovedFacts, Channels DEF NoPreview
  <2>4. m_state' = "STOPPED" /\ cam' = c
    BY <1>2 DEF Reply
  <2> HIDE DEF c
  <2> QED
    BY <2>2, <2>3, <2>4, StoppedGood
<1> QED
  BY <1>1, <1>2 DEF OnRelease

(* A request of a call that changes no parameters finds no restart asked    *)
(* for: set_parameters would be the caller.                                 *)
LEMMA ParamSteps ==
  ASSUME app.call = "set_parameters", app.step \in 1..4
  PROVE  Awaited \in ParamApi /\ ParamApi \subseteq Single
<1>1. app.step \in {1, 2, 3, 4}
  OBVIOUS
<1>2. Awaited \in ParamApi
  BY <1>1, CallSteps DEF Awaited, ParamApi
<1> QED
  BY <1>2, Apis DEF Single, ParamApi

LEMMA Unasked ==
  ASSUME ChannelInv, NEW a \in Single \ ParamApi, Serve(a)
  PROVE  /\ ~needRestart /\ Good(m_state, cam)
         /\ \A i \in 1..Len(api_queue) : api_queue[i].api \in Single => i = 1
         /\ ~(app.call = "set_parameters" /\ app.step \in 1..4)
<1>1. /\ api_queue # << >> /\ 1 \in 1..Len(api_queue) /\ api_queue[1].api = a
  BY QueueType, RequestServed DEF ChannelInv, CallInv, Serve
<1>2. /\ Awaited = a
      /\ \A i \in 1..Len(api_queue) : api_queue[i].api \in Single => i = 1
  BY <1>1 DEF ChannelInv, CallInv, OneRequest
<1>3. ~(app.call = "set_parameters" /\ app.step \in 1..4)
  BY <1>2, ParamSteps
<1>4. ~needRestart
  BY <1>3 DEF ChannelInv, RestartAsked
<1>5. Good(m_state, cam)
  BY <1>4 DEF ChannelInv, Good, ModeKnown, Halted, Uncommitted, Firmly
<1> QED
  BY <1>2, <1>3, <1>4, <1>5

LEMMA SingleServed ==
  ASSUME ChannelInv, CallInv', NEW a \in Single \ ParamApi, Serve(a), UNCHANGED callers,
         UNCHANGED <<zslNew, needRestart>>, Good(m_state', cam')
  PROVE  ChannelInv'
<1>1. /\ ~needRestart' /\ UNCHANGED app
      /\ ~(app.call = "set_parameters" /\ app.step \in 1..4)
  BY Unasked DEF callers
<1>2. RestartAsked'
  BY <1>1 DEF RestartAsked
<1>3. RestartNeeded'
  BY <1>1 DEF RestartNeeded
<1>4. ModeKept'
  <2>1. \A i \in 1..Len(api_queue') : api_queue'[i].api \notin Single
    <3>1. /\ api_queue' = Tail(api_queue) /\ Len(api_queue') \in Nat
          /\ \A i \in 1..Len(api_queue') : /\ i + 1 \in 1..Len(api_queue)
                                           /\ api_queue'[i] = api_queue[i + 1]
      BY QueueType, RequestServed DEF ChannelInv, CallInv, Serve
    <3>2. \A i \in 1..Len(api_queue) : api_queue[i].api \in Single => i = 1
      BY Unasked
    <3>3. \A i \in 1..Len(api_queue') : i + 1 # 1
      BY <3>1
    <3> QED
      BY <3>1, <3>2, <3>3
  <2>2. "SET_PARAMS" \in Single
    BY Apis DEF Single, ParamApi
  <2> QED
    BY <2>1, <2>2 DEF ModeKept
<1>5. ~Halted' /\ ~Uncommitted'
  BY <1>1 DEF Halted, Uncommitted
<1>6. ModeKnown'
  BY DEF ModeKnown, Good
<1>7. Sound(cam)' /\ Fits(m_state, cam)'
  BY DEF Good, Sound, Fits
<1>8. (Firm => Firmly(m_state, cam, Halted))'
  BY DEF Good, Firmly
<1> QED
  BY <1>2, <1>3, <1>4, <1>5, <1>6, <1>7, <1>8 DEF ChannelInv

LEMMA CallsKeepChannels ==
  ASSUME ChannelInv, UNCHANGED callers,
         \/ OnSetPreviewWindow \/ OnStartPreview \/ OnStopPreview \/ OnPreStartRecording
         \/ OnStartRecording \/ OnStopRecording \/ OnPreTakePicture \/ OnTakePicture
         \/ OnRelease
  PROVE  ChannelInv'
<1>0. CallInv
  BY DEF ChannelInv
<1>1. {"SET_PREVIEW_WINDOW", "START_PREVIEW", "STOP_PREVIEW", "PRE_START_RECORDING",
       "START_RECORDING", "STOP_RECORDING", "PRE_TAKE_PICTURE", "TAKE_PICTURE", "RELEASE"}
        \subseteq (Single \ ParamApi) \cap Api
  BY Apis DEF Single, ParamApi
<1>2. ASSUME NEW a \in (Single \ ParamApi) \cap Api, Serve(a), Handled(a),
             UNCHANGED <<zslNew, needRestart>>, Good(m_state, cam) => Good(m_state', cam')
      PROVE  ChannelInv'
  <2>1. CallInv'
    BY <1>0, <1>2, HandledKeeps
  <2>2. Good(m_state', cam')
    BY <1>2, Unasked
  <2> QED
    BY <1>2, <2>1, <2>2, SingleServed
<1>3. CASE OnSetPreviewWindow
  <2>1. Serve("SET_PREVIEW_WINDOW") /\ UNCHANGED <<zslNew, needRestart>>
    BY <1>3 DEF OnSetPreviewWindow, settings
  <2>2. Handled("SET_PREVIEW_WINDOW")
    BY <1>0, <1>3, SetPreviewWindowHandled
  <2>3. Good(m_state, cam) => Good(m_state', cam')
    BY <1>0, <1>3, SetPreviewWindowGood
  <2> QED
    BY <1>1, <1>2, <2>1, <2>2, <2>3
<1>4. CASE OnStartPreview
  <2>1. Serve("START_PREVIEW") /\ UNCHANGED <<zslNew, needRestart>>
    BY <1>4 DEF OnStartPreview, settings
  <2>2. Handled("START_PREVIEW")
    BY <1>0, <1>4, StartPreviewHandled
  <2>3. Good(m_state, cam) => Good(m_state', cam')
    BY <1>0, <1>4, StartPreviewGood
  <2> QED
    BY <1>1, <1>2, <2>1, <2>2, <2>3
<1>5. CASE OnStopPreview
  <2>1. Serve("STOP_PREVIEW") /\ UNCHANGED <<zslNew, needRestart>>
    BY <1>5 DEF OnStopPreview, settings
  <2>2. Handled("STOP_PREVIEW")
    BY <1>0, <1>5, StopPreviewHandled
  <2>3. Good(m_state, cam) => Good(m_state', cam')
    BY <1>0, <1>5, StopPreviewGood
  <2> QED
    BY <1>1, <1>2, <2>1, <2>2, <2>3
<1>6. CASE OnPreStartRecording
  <2>1. Serve("PRE_START_RECORDING") /\ UNCHANGED <<zslNew, needRestart>>
    BY <1>6 DEF OnPreStartRecording, settings
  <2>2. Handled("PRE_START_RECORDING")
    BY <1>0, <1>6, PreStartRecordingHandled
  <2>3. Good(m_state, cam) => Good(m_state', cam')
    BY <1>0, <1>6, PreStartRecordingGood
  <2> QED
    BY <1>1, <1>2, <2>1, <2>2, <2>3
<1>7. CASE OnStartRecording
  <2>1. Serve("START_RECORDING") /\ UNCHANGED <<zslNew, needRestart>>
    BY <1>7 DEF OnStartRecording, settings
  <2>2. Handled("START_RECORDING")
    BY <1>0, <1>7, StartRecordingHandled
  <2>3. Good(m_state, cam) => Good(m_state', cam')
    BY <1>0, <1>7, StartRecordingGood
  <2> QED
    BY <1>1, <1>2, <2>1, <2>2, <2>3
<1>8. CASE OnStopRecording
  <2>1. Serve("STOP_RECORDING") /\ UNCHANGED <<zslNew, needRestart>>
    BY <1>8 DEF OnStopRecording, settings
  <2>2. Handled("STOP_RECORDING")
    BY <1>0, <1>8, StopRecordingHandled
  <2>3. Good(m_state, cam) => Good(m_state', cam')
    BY <1>0, <1>8, StopRecordingGood
  <2> QED
    BY <1>1, <1>2, <2>1, <2>2, <2>3
<1>9. CASE OnPreTakePicture
  <2>1. Serve("PRE_TAKE_PICTURE") /\ UNCHANGED <<zslNew, needRestart>>
    BY <1>9 DEF OnPreTakePicture, settings
  <2>2. Handled("PRE_TAKE_PICTURE")
    BY <1>0, <1>9, PreTakePictureHandled
  <2>3. Good(m_state, cam) => Good(m_state', cam')
    BY <1>0, <1>9, PreTakePictureGood
  <2> QED
    BY <1>1, <1>2, <2>1, <2>2, <2>3
<1>10. CASE OnTakePicture
  <2>1. Serve("TAKE_PICTURE") /\ UNCHANGED <<zslNew, needRestart>>
    BY <1>10 DEF OnTakePicture, settings
  <2>2. Handled("TAKE_PICTURE")
    BY <1>0, <1>10, TakePictureHandled
  <2>3. Good(m_state, cam) => Good(m_state', cam')
    BY <1>0, <1>10, TakePictureGood
  <2> QED
    BY <1>1, <1>2, <2>1, <2>2, <2>3
<1>11. CASE OnRelease
  <2>1. Serve("RELEASE") /\ UNCHANGED <<zslNew, needRestart>>
    BY <1>11 DEF OnRelease, settings
  <2>2. Handled("RELEASE")
    BY <1>0, <1>11, ReleaseHandled
  <2>3. Good(m_state, cam) => Good(m_state', cam')
    BY <1>0, <1>11, ReleaseGood
  <2> QED
    BY <1>1, <1>2, <2>1, <2>2, <2>3
<1> QED
  BY <1>3, <1>4, <1>5, <1>6, <1>7, <1>8, <1>9, <1>10, <1>11

-----------------------------------------------------------------------------
(* The steps beside the application's calls: the strangers' requests, the   *)
(* events and the other threads.  They may come while set_parameters is     *)
(* between two of its steps.                                                *)
NoneAdded ==
  \A i \in 1..Len(api_queue') :
    api_queue'[i].api \in {"SET_PARAMS", "PREPARE_SNAPSHOT"} =>
      \E j \in 1..Len(api_queue) : api_queue'[i] = api_queue[j]

LEMMA ServeAddsNone ==
  ASSUME CallInv, NEW a, Serve(a)
  PROVE  NoneAdded
BY QueueType, RequestServed DEF CallInv, Serve, NoneAdded

LEMMA StrangerAddsNone ==
  ASSUME CallInv, UNCHANGED api_queue \/ \E a \in Stranger : Post(a, << >>)
  PROVE  NoneAdded
<1>1. CASE UNCHANGED api_queue
  BY <1>1 DEF NoneAdded
<1>2. ASSUME NEW a \in Stranger, Post(a, << >>)
      PROVE  NoneAdded
  <2> DEFINE r == [api |-> a, arg |-> << >>]
  <2>1. a \in Api \cup {"STOP_CAPTURE_CHANNEL"} /\ a \notin {"SET_PARAMS", "PREPARE_SNAPSHOT"}
    BY Apis DEF Stranger
  <2>2. r \in Request /\ r.api = a /\ api_queue' = Append(api_queue, r)
    BY <1>2, <2>1 DEF Post, Request
  <2>3. api_queue \in Seq(Request)
    BY QueueType DEF CallInv
  <2> HIDE DEF r
  <2> QED
    BY <2>1, <2>2, <2>3, RequestAppended DEF NoneAdded
<1> QED
  BY <1>1, <1>2

LEMMA AsideChannels ==
  ASSUME ChannelInv, CallInv', UNCHANGED <<zslNew, needRestart, app>>,
         \A b \in Single : m_apiResultList'[b] = m_apiResultList[b], NoneAdded,
         needRestart /\ m_state' \in Busy => m_state \in Busy,
         m_state' \in PictureState => m_state \in PictureState,
         cam'.zsl = cam.zsl, cam'.hint = cam.hint,
         \A ch \in PreviewChannel : cam.chan[ch] = "none" => cam'.chan[ch] = "none",
         Sound(cam'), Fits(m_state', cam'), Firm => Firmly(m_state', cam', Halted)
  PROVE  ChannelInv'
<1>1. app.call = "set_parameters" /\ app.step \in 1..4 =>
        /\ Answered' = Answered /\ Awaited' = Awaited
        /\ m_apiResultList'[Awaited] = m_apiResultList[Awaited]
  <2>1. Awaited' = Awaited
    BY DEF Awaited
  <2> QED
    BY <2>1, ParamSteps DEF Answered
<1>2. Queued("PREPARE_SNAPSHOT")' => Queued("PREPARE_SNAPSHOT")
  BY DEF Queued, NoneAdded
<1>3. RestartAsked'
  <2>1. ~needRestart => RestartAsked'
    BY DEF RestartAsked
  <2>2. ASSUME needRestart
        PROVE  RestartAsked'
    BY <1>1, <1>2, <2>2 DEF ChannelInv, RestartAsked
  <2> QED
    BY <2>1, <2>2
<1>4. RestartNeeded'
  BY <1>1 DEF ChannelInv, RestartNeeded
<1>5. ModeKept'
  BY DEF ChannelInv, ModeKept, NoneAdded
<1>6. Halted' = Halted /\ Uncommitted' = Uncommitted
  <2>1. CASE ~needRestart
    BY <2>1 DEF Halted, Uncommitted
  <2>2. CASE needRestart
    <3>1. app.call = "set_parameters" /\ app.step \in 1..4
      BY <2>2 DEF ChannelInv, RestartAsked
    <3> QED
      BY <1>1, <3>1 DEF Halted, Uncommitted
  <2> QED
    BY <2>1, <2>2
<1>7. ModeKnown'
  BY <1>6 DEF ChannelInv, ModeKnown
<1>8. (Halted => NoPreview(cam))'
  BY <1>6 DEF ChannelInv, NoPreview
<1>9. Sound(cam)' /\ Fits(m_state, cam)'
  BY DEF Sound, Fits
<1>10. (Firm => Firmly(m_state, cam, Halted))'
  BY <1>6 DEF Firmly
<1> QED
  BY <1>3, <1>4, <1>5, <1>7, <1>8, <1>9, <1>10 DEF ChannelInv

(* Such a step that leaves the state and all that runs as they are.        *)
LEMMA StillChannels ==
  ASSUME ChannelInv, CallInv', UNCHANGED <<zslNew, needRestart, app>>,
         \A b \in Single : m_apiResultList'[b] = m_apiResultList[b], NoneAdded,
         UNCHANGED m_state, cam'.chan = cam.chan, cam'.zsl = cam.zsl, cam'.hint = cam.hint,
         cam'.live = cam.live
  PROVE  ChannelInv'
<1>1. Sound(cam') /\ Fits(m_state', cam')
  BY DEF ChannelInv, Sound, Fits, NoPreview
<1>2. Firm => Firmly(m_state', cam', Halted)
  BY DEF ChannelInv, Firmly
<1> QED
  BY <1>1, <1>2, AsideChannels

(* A picture that is cancelled or complete.                                *)
LEMMA UncapturedChannels ==
  ASSUME ChannelInv, CallInv', UNCHANGED <<zslNew, needRestart, app>>,
         \A b \in Single : m_apiResultList'[b] = m_apiResultList[b], NoneAdded,
         m_state \in DOMAIN Uncaptured, m_state' = Uncaptured[m_state].state,
         cam' = Uncaptured[m_state].cam
  PROVE  ChannelInv'
<1>1. cam \in Camera /\ TypeOK /\ VideoState
  BY QueueType DEF ChannelInv, CallInv
<1>2. /\ m_state \in {"PIC_TAKING", "VIDEO_PIC_TAKING", "PREVIEW_PIC_TAKING"}
      /\ m_state' = CASE m_state = "PIC_TAKING" -> "STOPPED"
                      [] m_state = "VIDEO_PIC_TAKING" -> "RECORDING" [] OTHER -> "PREVIEWING"
      /\ cam' = IF m_state = "PIC_TAKING" \/ (m_state = "PREVIEW_PIC_TAKING" /\ cam.zsl)
                THEN CancelPicture(cam) ELSE Live(cam, "stop")
  BY <1>1, UncapturedFacts
<1>3. Sound(cam) /\ Fits(m_state, cam) /\ (Firm => Firmly(m_state, cam, Halted))
  BY DEF ChannelInv
<1>4. CASE m_state = "VIDEO_PIC_TAKING"
  <2>1. m_state' = "RECORDING" /\ cam'.chan = cam.chan /\ cam'.zsl = cam.zsl /\ cam'.hint = cam.hint
    BY <1>1, <1>2, <1>4, LiveFacts
  <2>2. cam.chan["VIDEO"] = "on" /\ cam.chan["CAPTURE"] = "none"
    BY <1>3, <1>4 DEF Fits, RecordingState
  <2>3. Sound(cam')
    BY <1>3, <2>1, <2>2 DEF Sound
  <2>4. Fits(m_state', cam') /\ (Firm => Firmly(m_state', cam', Halted))
    BY <1>3, <1>4, <2>1, <2>2 DEF Fits, Firmly, RecordingState, Busy
  <2> QED
    BY <1>4, <2>1, <2>3, <2>4, AsideChannels DEF Busy, RecordingState, PictureState
<1>5. CASE m_state \in {"PIC_TAKING", "PREVIEW_PIC_TAKING"}
  <2>1. cam' = CancelPicture(cam) /\ m_state' = IF m_state = "PIC_TAKING" THEN "STOPPED" ELSE "PREVIEWING"
    BY <1>2, <1>3, <1>5 DEF Fits
  <2>2. /\ cam'.zsl = cam.zsl /\ cam'.hint = cam.hint /\ cam'.live = cam.live
        /\ \A ch \in PreviewChannel : cam'.chan[ch] = cam.chan[ch]
        /\ cam'.chan["CAPTURE"] = IF cam.zsl THEN cam.chan["CAPTURE"] ELSE "none"
    BY <1>1, <2>1, CancelFacts, Channels
  <2>3. Sound(cam')
    BY <1>3, <2>2, Channels DEF Sound
  <2>4. cam'.live = "none" /\ cam'.chan["VIDEO"] # "on" /\ cam'.chan["CAPTURE"] = "none"
        /\ (m_state = "PIC_TAKING" => NoPreview(cam))
    BY <1>1, <1>3, <1>5, <2>2, Channels DEF Fits, Busy, RecordingState, Camera
  <2>5. Fits(m_state', cam')
    BY <1>5, <2>1, <2>2, <2>4 DEF Fits, NoPreview, RecordingState
  <2>6. Firm => Firmly(m_state', cam', Halted)
    BY <1>3, <1>5, <2>1, <2>2, <2>4, Channels DEF Firmly
  <2> QED
    BY <1>5, <2>1, <2>2, <2>3, <2>5, <2>6, AsideChannels DEF Busy, RecordingState, PictureState
<1> QED
  BY <1>2, <1>4, <1>5

LEMMA OtherAnswers ==
  ASSUME TypeOK, NEW a \in (Api \cup {"STOP_CAPTURE_CHANNEL"}) \ Single, Answers(a)
  PROVE  \A b \in Single : m_apiResultList'[b] = m_apiResultList[b]
<1>1. m_apiResultList \in [Api -> Seq(BOOLEAN)] /\ Single \subseteq Api
  BY DEF TypeOK, Single, Api
<1> QED
  BY <1>1 DEF Answers, Signal

LEMMA CancelKeepsChannels ==
  ASSUME ChannelInv, OnCancelPicture, UNCHANGED callers
  PROVE  ChannelInv'
<1>1. CallInv /\ Handled("CANCEL_PICTURE") /\ "CANCEL_PICTURE" \in Api
  BY CancelPictureHandled, SomeApis DEF ChannelInv
<1>2. CallInv' /\ NoneAdded
  BY <1>1, HandledKeeps, ServeAddsNone DEF OnCancelPicture
<1>3. UNCHANGED <<zslNew, needRestart, app>>
  BY DEF OnCancelPicture, settings, callers
<1>4. \A b \in Single : m_apiResultList'[b] = m_apiResultList[b]
  BY <1>1, OtherAnswers DEF CallInv, Handled, Single
<1>5. CASE Accept \/ Refuse
  BY <1>2, <1>3, <1>4, <1>5, StillChannels DEF Accept, Refuse, Reply
<1>6. CASE /\ m_state \in DOMAIN Uncaptured
           /\ Reply(Uncaptured[m_state].state, Uncaptured[m_state].cam, TRUE)
  BY <1>2, <1>3, <1>4, <1>6, UncapturedChannels DEF Reply
<1> QED
  BY <1>5, <1>6 DEF OnCancelPicture

LEMMA SnapshotDoneKeepsChannels ==
  ASSUME ChannelInv, OnSnapshotDone
  PROVE  ChannelInv'
<1>1. CallInv'
  BY SnapshotDoneKeeps DEF ChannelInv, Kept
<1>2. UNCHANGED <<zslNew, needRestart, app, m_apiResultList, api_queue>>
  BY DEF OnSnapshotDone, settings, ServeEvent
<1>3. NoneAdded
  BY <1>2 DEF NoneAdded
<1>4. CASE m_state \in DOMAIN Uncaptured
  <2>1. m_state' = Uncaptured[m_state].state /\ cam' = Uncaptured[m_state].cam
    BY <1>4 DEF OnSnapshotDone
  <2> QED
    BY <1>1, <1>2, <1>3, <1>4, <2>1, UncapturedChannels
<1>5. CASE m_state \notin DOMAIN Uncaptured
  <2>1. UNCHANGED <<m_state, cam>>
    BY <1>5 DEF OnSnapshotDone
  <2> QED
    BY <1>1, <1>2, <1>3, <2>1, StillChannels
<1> QED
  BY <1>4, <1>5

LEMMA PrepareKeepsChannels ==
  ASSUME ChannelInv, OnPrepareSnapshot, UNCHANGED callers
  PROVE  ChannelInv'
<1>1. CallInv /\ Handled("PREPARE_SNAPSHOT") /\ "PREPARE_SNAPSHOT" \in Api
      /\ Serve("PREPARE_SNAPSHOT")
  BY PrepareSnapshotHandled, SomeApis DEF ChannelInv, OnPrepareSnapshot
<1>2. CallInv' /\ NoneAdded
  BY <1>1, HandledKeeps, ServeAddsNone
<1>3. UNCHANGED <<zslNew, needRestart, app>>
  BY DEF OnPrepareSnapshot, callers
<1>4. \A b \in Single : m_apiResultList'[b] = m_apiResultList[b]
  BY <1>1, OtherAnswers DEF CallInv, Handled, Single
<1>5. CASE Accept \/ Refuse
  BY <1>2, <1>3, <1>4, <1>5, StillChannels DEF Accept, Refuse, Reply
<1>6. CASE m_state = "PREVIEWING" /\ m_state' = "PREPARE_SNAPSHOT" /\ UNCHANGED cam
  <2>1. Queued("PREPARE_SNAPSHOT")
    BY <1>1, QueueType, RequestServed DEF CallInv, Serve, Queued
  <2>2. ~needRestart
    BY <2>1 DEF ChannelInv, RestartAsked
  <2>3. Sound(cam')
    BY <1>6 DEF ChannelInv
  <2>4. Fits(m_state', cam') /\ (Firm => Firmly(m_state', cam', Halted))
    BY <1>6 DEF ChannelInv, Fits, Firmly, RecordingState, Busy
  <2>5. \A ch \in PreviewChannel : cam.chan[ch] = "none" => cam'.chan[ch] = "none"
    BY <1>6
  <2>6. m_state' \notin PictureState
    BY <1>6 DEF PictureState
  <2> QED
    BY <1>2, <1>3, <1>4, <1>6, <2>2, <2>3, <2>4, <2>5, <2>6, AsideChannels
<1> QED
  BY <1>5, <1>6 DEF OnPrepareSnapshot

LEMMA PrepSnapshotDoneKeepsChannels ==
  ASSUME ChannelInv, OnPrepSnapshotDone
  PROVE  ChannelInv'
<1>1. CallInv'
  BY PrepSnapshotDoneKeeps DEF ChannelInv, Kept
<1>2. UNCHANGED <<zslNew, needRestart, app, api_queue, cam>>
  BY DEF OnPrepSnapshotDone, settings, ServeEvent, callers
<1>3. NoneAdded
  BY <1>2 DEF NoneAdded
<1>4. \A b \in Single : m_apiResultList'[b] = m_apiResultList[b]
  <2>1. m_apiResultList \in [Api -> Seq(BOOLEAN)] /\ Single \subseteq Api
        /\ "PREPARE_SNAPSHOT" \notin Single
    BY DEF ChannelInv, CallInv, TypeOK, Single, Api
  <2> QED
    BY <2>1 DEF OnPrepSnapshotDone, Signal
<1>5. CASE UNCHANGED m_state
  BY <1>1, <1>2, <1>3, <1>4, <1>5, StillChannels
<1>6. CASE m_state = "PREPARE_SNAPSHOT" /\ m_state' = "PREVIEWING"
  <2>1. Sound(cam')
    BY <1>2 DEF ChannelInv
  <2>2. Fits(m_state', cam') /\ (Firm => Firmly(m_state', cam', Halted))
    BY <1>2, <1>6 DEF ChannelInv, Fits, Firmly, RecordingState, Busy
  <2>3. m_state' \notin PictureState /\ m_state' \notin Busy
    BY <1>6 DEF PictureState, Busy, RecordingState
  <2> QED
    BY <1>1, <1>2, <1>3, <1>4, <2>1, <2>2, <2>3, AsideChannels
<1> QED
  BY <1>5, <1>6 DEF OnPrepSnapshotDone

LEMMA FrameRequestKeepsChannels ==
  ASSUME ChannelInv, OnReleaseRecordingFrame, UNCHANGED callers
  PROVE  ChannelInv'
<1>1. CallInv /\ Handled("RELEASE_RECORDING_FRAME") /\ "RELEASE_RECORDING_FRAME" \in Api \ Single
  BY ReleaseRecordingFrameHandled, SomeApis, Apis DEF ChannelInv, Single, ParamApi
<1>2. CallInv' /\ NoneAdded
  BY <1>1, HandledKeeps, ServeAddsNone DEF OnReleaseRecordingFrame
<1>3. UNCHANGED <<zslNew, needRestart, app>>
  BY DEF OnReleaseRecordingFrame, callers, settings
<1>4. \A b \in Single : m_apiResultList'[b] = m_apiResultList[b]
  BY <1>1, OtherAnswers DEF CallInv, Handled
<1>5. UNCHANGED <<m_state, cam>>
  BY DEF OnReleaseRecordingFrame, Accept, Refuse, Reply
<1> QED
  BY <1>2, <1>3, <1>4, <1>5, StillChannels

LEMMA StopCaptureKeepsChannels ==
  ASSUME ChannelInv, OnStopCaptureChannel, UNCHANGED callers
  PROVE  ChannelInv'
<1>1. CallInv /\ Handled("STOP_CAPTURE_CHANNEL") /\ cam \in Camera
  BY StopCaptureChannelHandled, QueueType DEF ChannelInv, CallInv
<1>2. CallInv' /\ NoneAdded
  BY <1>1, HandledKeeps, ServeAddsNone DEF OnStopCaptureChannel
<1>3. UNCHANGED <<zslNew, needRestart, app, m_apiResultList, m_state>>
  BY DEF OnStopCaptureChannel, callers, settings
<1>4. CASE UNCHANGED cam
  BY <1>2, <1>3, <1>4, StillChannels
<1>5. CASE m_state = "PIC_TAKING" /\ cam' = StopChannel(cam, "CAPTURE")
  <2>0. "CAPTURE" \in Channel
    BY Channels
  <2>1. /\ cam'.zsl = cam.zsl /\ cam'.hint = cam.hint /\ cam'.live = cam.live
        /\ \A x \in Channel : cam'.chan[x] =
             IF x = "CAPTURE" /\ cam.chan[x] = "on" THEN "added" ELSE cam.chan[x]
    BY <1>1, <1>5, <2>0, StopChannelFacts
  <2>2. /\ \A ch \in PreviewChannel : cam'.chan[ch] = cam.chan[ch]
        /\ cam'.chan["CAPTURE"] = "none" <=> cam.chan["CAPTURE"] = "none"
    BY <2>0, <2>1, Channels
  <2>3. Sound(cam')
    BY <2>1, <2>2, Channels DEF ChannelInv, Sound
  <2>4. Fits(m_state', cam')
    BY <1>3, <1>5, <2>1, <2>2, Channels DEF ChannelInv, Fits, NoPreview
  <2>5. Firm => Firmly(m_state', cam', Halted)
    BY <1>3, <2>2, Channels DEF ChannelInv, Firmly
  <2> QED
    BY <1>2, <1>3, <2>1, <2>2, <2>3, <2>4, <2>5, AsideChannels
<1> QED
  BY <1>4, <1>5 DEF OnStopCaptureChannel

(* The live snapshot thread: it has the snapshot channel only to start and   *)
(* to stop.                                                                 *)
LEMMA LiveChannels ==
  ASSUME ChannelInv, CallInv', UNCHANGED <<zslNew, needRestart, app, m_apiResultList, m_state>>,
         NoneAdded, cam.live # "none", cam'.live = "none",
         cam'.zsl = cam.zsl, cam'.hint = cam.hint,
         \A x \in Channel : x # "SNAPSHOT" => cam'.chan[x] = cam.chan[x],
         cam'.chan["SNAPSHOT"] = "none" <=> cam.chan["SNAPSHOT"] = "none"
  PROVE  ChannelInv'
<1>1. /\ \A x \in {"VIDEO", "PREVIEW", "ZSL", "CAPTURE"} : cam'.chan[x] = cam.chan[x]
      /\ \A ch \in PreviewChannel : cam.chan[ch] = "none" => cam'.chan[ch] = "none"
  BY Channels
<1>2. Sound(cam')
  BY <1>1 DEF ChannelInv, Sound
<1>3. m_state = "PREVIEWING" \/ m_state \in Busy
  BY DEF ChannelInv, Fits
<1>4. Fits(m_state', cam')
  BY <1>1, <1>3 DEF ChannelInv, Fits, Busy, RecordingState
<1>5. Firm => Firmly(m_state', cam', Halted)
  BY <1>1 DEF ChannelInv, Firmly
<1> QED
  BY <1>1, <1>2, <1>4, <1>5, AsideChannels

LEMMA TakeLiveKeepsChannels ==
  ASSUME ChannelInv, TakeLiveSnapshot
  PROVE  ChannelInv'
<1>1. CallInv /\ CallInv' /\ cam \in Camera
  BY TakeLiveSnapshotKeeps, QueueType DEF ChannelInv, Kept, CallInv
<1>2. PICK p \in StartChannel(cam, "SNAPSHOT") :
        /\ cam' = [p.cam EXCEPT !.live = "none", !.shot = IF p.ok THEN "asked" ELSE @]
        /\ IF p.ok THEN UNCHANGED api_queue
           ELSE Post("CANCEL_PICTURE", << >>) /\ Stray("CANCEL_PICTURE") < MaxStray
  BY DEF TakeLiveSnapshot
<1>3. UNCHANGED api_queue \/ \E a \in Stranger : Post(a, << >>)
  BY <1>2 DEF Stranger
<1>4. NoneAdded
  BY <1>1, <1>3, StrangerAddsNone
<1>5. UNCHANGED <<zslNew, needRestart, app, m_apiResultList, m_state>> /\ cam.live # "none"
  BY DEF TakeLiveSnapshot, settings, callers
<1>6. /\ cam'.zsl = cam.zsl /\ cam'.hint = cam.hint /\ cam'.live = "none"
      /\ \A x \in Channel : x # "SNAPSHOT" => cam'.chan[x] = cam.chan[x]
      /\ cam'.chan["SNAPSHOT"] = "none" <=> cam.chan["SNAPSHOT"] = "none"
  BY <1>1, <1>2, LiveTaken
<1> QED
  BY <1>1, <1>4, <1>5, <1>6, LiveChannels

LEMMA CancelLiveKeepsChannels ==
  ASSUME ChannelInv, CancelLiveSnapshot
  PROVE  ChannelInv'
<1>1. CallInv /\ CallInv' /\ cam \in Camera
  BY CancelLiveSnapshotKeeps, QueueType DEF ChannelInv, Kept, CallInv
<1>2. UNCHANGED <<zslNew, needRestart, app, m_apiResultList, m_state, api_queue>>
      /\ cam.live # "none" /\ cam' = StopSnapshot(cam)
  BY DEF CancelLiveSnapshot, settings, callers
<1>3. NoneAdded
  BY <1>2 DEF NoneAdded
<1>4. /\ cam'.zsl = cam.zsl /\ cam'.hint = cam.hint /\ cam'.live = "none"
      /\ \A x \in Channel : x # "SNAPSHOT" => cam'.chan[x] = cam.chan[x]
      /\ cam'.chan["SNAPSHOT"] = "none" <=> cam.chan["SNAPSHOT"] = "none"
  BY <1>1, <1>2, StopSnapshotFacts DEF Channel
<1> QED
  BY <1>1, <1>2, <1>3, <1>4, LiveChannels

LEMMA OthersKeepChannels ==
  ASSUME ChannelInv,
         \/ PictureArrives \/ SnapshotCallback \/ VideoFrame \/ ReleaseRecordingFrame
         \/ FrameReleased \/ HardwarePrepared
  PROVE  ChannelInv'
<1>0. CallInv /\ CallInv' /\ cam \in Camera
  BY PictureArrivesKeeps, SnapshotCallbackKeeps, VideoFrameKeeps, ReleaseRecordingFrameKeeps,
     FrameReleasedKeeps, HardwarePreparedKeeps, QueueType DEF ChannelInv, Kept, CallInv
<1>1. UNCHANGED <<zslNew, needRestart, app, m_state>>
  BY DEF PictureArrives, SnapshotCallback, VideoFrame, ReleaseRecordingFrame, FrameReleased,
     HardwarePrepared, settings, callers
<1>2. cam'.chan = cam.chan /\ cam'.zsl = cam.zsl /\ cam'.hint = cam.hint /\ cam'.live = cam.live
  BY <1>0 DEF PictureArrives, SnapshotCallback, VideoFrame, ReleaseRecordingFrame, FrameReleased,
     HardwarePrepared, Camera
<1>3. UNCHANGED api_queue \/ \E a \in Stranger : Post(a, << >>)
  BY DEF PictureArrives, SnapshotCallback, VideoFrame, ReleaseRecordingFrame, FrameReleased,
     HardwarePrepared, Stranger
<1>4. \A b \in Single : m_apiResultList'[b] = m_apiResultList[b]
  <2>1. CASE UNCHANGED m_apiResultList
    BY <2>1
  <2>2. CASE FrameReleased
    <3>1. m_apiResultList \in [Api -> Seq(BOOLEAN)] /\ Single \subseteq Api
          /\ "RELEASE_RECORDING_FRAME" \notin Single
      BY <1>0, Apis DEF CallInv, TypeOK, Single, Api, ParamApi
    <3>2. TakeResult("RELEASE_RECORDING_FRAME")
      BY <2>2 DEF FrameReleased, Found
    <3> QED
      BY <3>1, <3>2 DEF TakeResult
  <2> QED
    BY <2>1, <2>2 DEF PictureArrives, SnapshotCallback, VideoFrame, ReleaseRecordingFrame,
       HardwarePrepared
<1>5. NoneAdded
  BY <1>0, <1>3, StrangerAddsNone
<1> QED
  BY <1>0, <1>1, <1>2, <1>4, <1>5, StillChannels

-----------------------------------------------------------------------------
(* The steps of set_parameters.                                            *)
ParamStep(a) ==
  CASE a = "SET_PARAMS" -> 1 [] a = "SET_PARAMS_STOP" -> 2 [] a = "SET_PARAMS_COMMIT" -> 3
    [] a = "SET_PARAMS_RESTART" -> 4

LEMMA ParamCalls ==
  \A f \in Call : \A i \in DOMAIN Script[f] :
    Script[f][i] \in ParamApi => f = "set_parameters" /\ i = ParamStep(Script[f][i])
<1> SUFFICES ASSUME NEW f \in Call, NEW i \in DOMAIN Script[f], Script[f][i] \in ParamApi
             PROVE  f = "set_parameters" /\ i = ParamStep(Script[f][i])
  OBVIOUS
<1>1. CASE f = "set_parameters"
  <2>1. i \in {1, 2, 3, 4}
    BY <1>1, Calls
  <2> QED
    BY <1>1, <2>1, CallSteps DEF ParamStep
<1>2. CASE f = "take_picture"
  <2>1. i \in {1, 2, 3}
    BY <1>2, Calls
  <2> QED
    BY <1>2, <2>1, CallSteps DEF ParamApi
<1>3. CASE f = "start_recording"
  <2>1. i \in {1, 2}
    BY <1>3, Calls
  <2> QED
    BY <1>3, <2>1, CallSteps DEF ParamApi
<1>4. CASE f \notin {"set_parameters", "take_picture", "start_recording"}
  <2>1. i = 1
    BY <1>4, Calls
  <2> QED
    BY <1>4, <2>1, Calls, CallSteps DEF ParamApi
<1> QED
  BY <1>1, <1>2, <1>3, <1>4

LEMMA ParamServed ==
  ASSUME ChannelInv, NEW a \in ParamApi, Serve(a), UNCHANGED callers
  PROVE  /\ app.call = "set_parameters" /\ app.step = ParamStep(a) /\ UNCHANGED app
         /\ ~Answered /\ ~Queued("PREPARE_SNAPSHOT")' /\ ModeKept'
         /\ \A ok \in BOOLEAN :
              Signal(a, ok) => Answered' /\ m_apiResultList'[Awaited'][1] = ok
<1> USE DEF ChannelInv, CallInv
<1>1. /\ api_queue # << >> /\ 1 \in 1..Len(api_queue) /\ api_queue[1].api = a
      /\ Len(api_queue') \in Nat
      /\ \A i \in 1..Len(api_queue') : /\ i + 1 \in 1..Len(api_queue)
                                       /\ api_queue'[i] = api_queue[i + 1]
  BY QueueType, RequestServed DEF Serve
<1>2. ParamApi \subseteq Single /\ "SET_PARAMS" \in Single
  BY Apis DEF Single, ParamApi
<1>3. /\ Waiting /\ Awaited = a /\ ~Answered
      /\ \A i \in 1..Len(api_queue) : api_queue[i].api \in Single => i = 1
      /\ \A i \in 1..Len(api_queue) : api_queue[i].api = "PREPARE_SNAPSHOT" => i < 1
  BY <1>1, <1>2 DEF OneRequest
<1>4. app.call = "set_parameters" /\ app.step = ParamStep(a)
  BY <1>3, AwaitedType, ParamCalls DEF Awaited
<1>5. \A i \in 1..Len(api_queue') :
        api_queue'[i].api \notin Single /\ api_queue'[i].api # "PREPARE_SNAPSHOT"
  <2>1. \A i \in 1..Len(api_queue') : i + 1 # 1 /\ ~(i + 1 < 1)
    BY <1>1
  <2> QED
    BY <1>1, <1>3, <2>1
<1>6. ~Queued("PREPARE_SNAPSHOT")' /\ ModeKept'
  BY <1>2, <1>5 DEF Queued, ModeKept
<1>7. UNCHANGED app /\ Awaited' = a
  BY <1>3 DEF callers, Awaited
<1>8. ASSUME NEW ok \in BOOLEAN, Signal(a, ok)
      PROVE  Answered' /\ m_apiResultList'[Awaited'][1] = ok
  <2>1. m_apiResultList \in [Api -> Seq(BOOLEAN)] /\ a \in Api /\ m_apiResultList[a] = << >>
    BY <1>2, <1>3 DEF TypeOK, Single, Api, Answered
  <2>2. m_apiResultList'[a] = Append(<< >>, ok)
    BY <1>8, <2>1 DEF Signal
  <2> QED
    BY <1>7, <2>2, FirstResult DEF Answered
<1> QED
  BY <1>3, <1>4, <1>6, <1>7, <1>8

LEMMA SetParamsKeepsChannels ==
  ASSUME ChannelInv, OnSetParams, UNCHANGED callers
  PROVE  ChannelInv'
<1>1. CallInv /\ CallInv' /\ Serve("SET_PARAMS")
  BY SetParamsHandled, SomeApis, HandledKeeps DEF ChannelInv, OnSetParams
<1>2. /\ app.call = "set_parameters" /\ app.step = 1 /\ UNCHANGED app
      /\ ~Answered /\ ~Queued("PREPARE_SNAPSHOT")' /\ ModeKept'
      /\ \A ok \in BOOLEAN :
           Signal("SET_PARAMS", ok) => Answered' /\ m_apiResultList'[Awaited'][1] = ok
  <2>1. "SET_PARAMS" \in ParamApi /\ ParamStep("SET_PARAMS") = 1
    BY DEF ParamApi, ParamStep
  <2> QED
    BY <1>1, <2>1, ParamServed
<1>3. ~needRestart /\ ~Halted /\ ~Uncommitted
  BY <1>2 DEF ChannelInv, RestartAsked, Halted, Uncommitted
<1>4. cam' = cam /\ m_state' = m_state
  BY DEF OnSetParams, Refuse, Reply
<1>5. ~Halted' /\ RestartNeeded' /\ (needRestart' => Uncommitted')
  BY <1>2 DEF Halted, RestartNeeded, Uncommitted
<1>6. Sound(cam)' /\ (Firm => Firmly(m_state, cam, Halted))'
  BY <1>3, <1>4, <1>5 DEF ChannelInv, Sound, Firmly
<1> DEFINE restart == Argument[1] # zslNew \/ Argument[2]
           bad     == restart /\ m_state \in {"RECORDING", "VIDEO_PIC_TAKING"}
<1>7. CASE UNCHANGED <<zslNew, needRestart>>
  <2>1. RestartAsked'
    BY <1>3, <1>7 DEF RestartAsked
  <2>2. ModeKnown' /\ Fits(m_state, cam)'
    BY <1>3, <1>4, <1>7 DEF ChannelInv, ModeKnown, Fits, NoPreview
  <2> QED
    BY <1>1, <1>2, <1>5, <1>6, <2>1, <2>2 DEF ChannelInv
<1>8. CASE /\ m_state # "PREPARE_SNAPSHOT" /\ zslNew' = Argument[1]
           /\ needRestart' = (restart /\ ~bad) /\ Reply(m_state, cam, ~bad)
  <2>1. RestartAsked'
    <3>1. needRestart' => ~bad /\ m_state \notin Busy
      BY <1>8 DEF Busy, RecordingState
    <3>2. needRestart' => Signal("SET_PARAMS", TRUE)
      BY <1>1, <1>8, <3>1 DEF Reply, Serve
    <3>3. needRestart' => Answered' /\ m_apiResultList'[Awaited'][1]
      BY <1>2, <3>2
    <3> QED
      BY <1>2, <1>4, <3>1, <3>3 DEF RestartAsked
  <2>2. m_state \in PictureState => Argument[1] = zslNew
    BY <1>1, QueueType, RequestServed DEF ChannelInv, CallInv, Serve, ModeKept, Argument
  <2>3. zslNew' = zslNew \/ needRestart' \/ cam.hint
    <3>1. m_state \in RecordingState => cam.hint
      BY DEF ChannelInv, Fits, Sound
    <3> QED
      BY <1>8, <3>1 DEF RecordingState
  <2>4. ModeKnown'
    BY <1>3, <1>4, <1>5, <2>3 DEF ChannelInv, ModeKnown
  <2>5. Fits(m_state, cam)'
    <3>1. m_state \in PictureState => zslNew' = zslNew
      BY <1>8, <2>2
    <3> QED
      BY <1>4, <3>1 DEF ChannelInv, Fits, NoPreview, PictureState
  <2> QED
    BY <1>1, <1>2, <1>5, <1>6, <2>1, <2>4, <2>5 DEF ChannelInv
<1> QED
  BY <1>7, <1>8 DEF OnSetParams

LEMMA SetParamsStopKeepsChannels ==
  ASSUME ChannelInv, OnSetParamsStop, UNCHANGED callers
  PROVE  ChannelInv'
<1>1. CallInv /\ CallInv' /\ Serve("SET_PARAMS_STOP") /\ cam \in Camera
  BY SetParamsStopHandled, SomeApis, HandledKeeps, QueueType
  DEF ChannelInv, OnSetParamsStop, CallInv
<1>2. /\ app.call = "set_parameters" /\ app.step = 2 /\ UNCHANGED app
      /\ ~Answered /\ ~Queued("PREPARE_SNAPSHOT")' /\ ModeKept'
      /\ \A ok \in BOOLEAN :
           Signal("SET_PARAMS_STOP", ok) => Answered' /\ m_apiResultList'[Awaited'][1] = ok
  <2>1. "SET_PARAMS_STOP" \in ParamApi /\ ParamStep("SET_PARAMS_STOP") = 2
    BY DEF ParamApi, ParamStep
  <2> QED
    BY <1>1, <2>1, ParamServed
<1>3. needRestart /\ m_state \notin Busy /\ Uncommitted
  BY <1>2 DEF ChannelInv, RestartNeeded, RestartAsked, Uncommitted
<1>4. UNCHANGED <<zslNew, needRestart>>
  BY DEF OnSetParamsStop, settings
<1>5. PICK c \in {cam, UnpreparePreview(cam), StopPreview(cam)} :
        /\ Reply(m_state, c, TRUE) /\ c \in Camera /\ NoPreview(c) /\ c.live = "none"
        /\ c.zsl = cam.zsl /\ c.hint = cam.hint /\ c.chan["CAPTURE"] = cam.chan["CAPTURE"]
  <2>1. m_state \notin {"PREPARE_SNAPSHOT", "RECORDING", "VIDEO_PIC_TAKING"}
    BY <1>3 DEF Busy, RecordingState
  <2>2. m_state # "PREVIEWING" => cam.live = "none"
    BY <1>1, <1>3 DEF ChannelInv, Fits, Camera
  <2>3. CASE m_state \in {"STOPPED", "PIC_TAKING"} /\ Accept
    BY <1>1, <2>2, <2>3 DEF Accept, ChannelInv, Fits
  <2>4. CASE m_state = "READY" /\ Reply(m_state, UnpreparePreview(cam), TRUE)
    BY <1>1, <2>2, <2>4, UnprepareFacts DEF NoPreview
  <2>5. CASE /\ m_state \in {"PREVIEWING", "PREVIEW_PIC_TAKING"} /\ Joined
             /\ Reply(m_state, StopPreview(cam), TRUE)
    BY <1>1, <2>5, StopPreviewFacts DEF NoPreview, Joined
  <2> QED
    BY <2>1, <2>3, <2>4, <2>5 DEF OnSetParamsStop
<1>6. cam' = c /\ m_state' = m_state /\ Signal("SET_PARAMS_STOP", TRUE)
  BY <1>1, <1>5 DEF Reply, Serve
<1>7. Answered' /\ m_apiResultList'[Awaited'][1] /\ Halted'
  <2>1. Answered' /\ m_apiResultList'[Awaited'][1] = TRUE
    BY <1>2, <1>6
  <2> QED
    BY <1>2, <1>3, <1>4, <2>1 DEF Halted
<1>8. RestartAsked' /\ RestartNeeded' /\ Uncommitted'
  BY <1>2, <1>3, <1>4, <1>6, <1>7 DEF RestartAsked, RestartNeeded, Uncommitted
<1>9. ModeKnown'
  BY <1>8 DEF ModeKnown
<1>10. Sound(c) /\ c.chan["VIDEO"] # "on"
  BY <1>5, ShapeSound
<1>11. Sound(cam)' /\ Fits(m_state, cam)'
  <2>1. \A ch \in PreviewChannel : c.chan[ch] # "on"
    BY <1>5 DEF NoPreview
  <2>2. m_state \notin RecordingState
    BY <1>3 DEF Busy
  <2> QED
    BY <1>4, <1>5, <1>6, <1>10, <2>1, <2>2 DEF ChannelInv, Sound, Fits, NoPreview
<1>12. (Halted => NoPreview(cam))'
  BY <1>5, <1>6 DEF NoPreview
<1>13. (Firm => Firmly(m_state, cam, Halted))'
  BY <1>5, <1>6, <1>7, <1>10 DEF ChannelInv, Firmly
<1> QED
  BY <1>1, <1>2, <1>8, <1>9, <1>11, <1>12, <1>13 DEF ChannelInv

LEMMA SetParamsCommitKeepsChannels ==
  ASSUME ChannelInv, OnSetParamsCommit, UNCHANGED callers
  PROVE  ChannelInv'
<1>1. CallInv /\ CallInv' /\ Serve("SET_PARAMS_COMMIT") /\ cam \in Camera /\ zslNew \in BOOLEAN
  BY SetParamsCommitHandled, SomeApis, HandledKeeps, MachineType
  DEF ChannelInv, OnSetParamsCommit, CallInv, MachineTypes
<1>2. /\ app.call = "set_parameters" /\ app.step = 3 /\ UNCHANGED app
      /\ ~Answered /\ ~Queued("PREPARE_SNAPSHOT")' /\ ModeKept'
      /\ \A ok \in BOOLEAN :
           Signal("SET_PARAMS_COMMIT", ok) => Answered' /\ m_apiResultList'[Awaited'][1] = ok
  <2>1. "SET_PARAMS_COMMIT" \in ParamApi /\ ParamStep("SET_PARAMS_COMMIT") = 3
    BY DEF ParamApi, ParamStep
  <2> QED
    BY <1>1, <2>1, ParamServed
<1>3. UNCHANGED <<zslNew, needRestart>>
  BY DEF OnSetParamsCommit, settings
<1>4. /\ Halted <=> needRestart
      /\ Halted' <=> needRestart
      /\ Uncommitted => needRestart
      /\ needRestart => NoPreview(cam) /\ m_state \notin Busy
  BY <1>2, <1>3 DEF ChannelInv, RestartAsked, Halted, Uncommitted
<1>5. RestartNeeded'
  BY <1>2 DEF RestartNeeded
<1>6. CASE Refuse /\ m_state = "PREPARE_SNAPSHOT"
  <2>1. ~needRestart
    BY <1>4, <1>6 DEF Busy
  <2>2. cam' = cam /\ m_state' = m_state
    BY <1>6 DEF Refuse, Reply
  <2>3. RestartAsked'
    BY <1>3, <2>1 DEF RestartAsked
  <2>4. ModeKnown'
    BY <1>3, <1>4, <2>1, <2>2 DEF ChannelInv, ModeKnown
  <2>5. Sound(cam)' /\ Fits(m_state, cam)'
    BY <1>3, <2>2 DEF ChannelInv, Sound, Fits, NoPreview
  <2>6. (Halted => NoPreview(cam))' /\ (Firm => Firmly(m_state, cam, Halted))'
    BY <1>4, <2>1, <2>2 DEF ChannelInv, Firmly
  <2> QED
    BY <1>1, <1>2, <1>5, <2>3, <2>4, <2>5, <2>6 DEF ChannelInv
<1>7. CASE m_state # "PREPARE_SNAPSHOT" /\ Reply(m_state, Committed(cam), TRUE)
  <2>1. m_state' = m_state /\ cam' = Committed(cam) /\ Signal("SET_PARAMS_COMMIT", TRUE)
    BY <1>1, <1>7 DEF Reply, Serve
  <2>2. cam'.chan = cam.chan /\ cam'.zsl = zslNew /\ cam'.hint = cam.hint /\ cam'.live = cam.live
    BY <1>1, <2>1, CommittedFacts
  <2>3. RestartAsked'
    <3>1. Answered' /\ m_apiResultList'[Awaited'][1] = TRUE
      BY <1>2, <2>1
    <3> QED
      BY <1>2, <1>3, <1>4, <2>1, <3>1 DEF RestartAsked
  <2>4. ModeKnown'
    BY <1>3, <2>2 DEF ModeKnown
  <2>5. cam.chan["ZSL"] # "none" => ~cam.hint /\ zslNew
    <3>1. cam.chan["ZSL"] # "none" => ~needRestart
      BY <1>4, Channels DEF NoPreview
    <3> QED
      BY <1>4, <3>1 DEF ChannelInv, Sound, ModeKnown
  <2>6. Sound(cam)'
    BY <1>3, <2>2, <2>5 DEF ChannelInv, Sound
  <2>7. Fits(m_state, cam)'
    BY <1>3, <2>1, <2>2 DEF ChannelInv, Fits, NoPreview
  <2>8. (Halted => NoPreview(cam))'
    BY <1>4, <2>2 DEF NoPreview
  <2>9. (Firm => Firmly(m_state, cam, Halted))'
    BY <1>4, <2>1, <2>2 DEF ChannelInv, Firmly
  <2> QED
    BY <1>1, <1>2, <1>5, <2>3, <2>4, <2>6, <2>7, <2>8, <2>9 DEF ChannelInv
<1> QED
  BY <1>6, <1>7 DEF OnSetParamsCommit

LEMMA SetParamsRestartKeepsChannels ==
  ASSUME ChannelInv, OnSetParamsRestart, UNCHANGED callers
  PROVE  ChannelInv'
<1>1. CallInv /\ CallInv' /\ Serve("SET_PARAMS_RESTART") /\ cam \in Camera /\ zslNew \in BOOLEAN
  BY SetParamsRestartHandled, SomeApis, HandledKeeps, MachineType
  DEF ChannelInv, OnSetParamsRestart, CallInv, MachineTypes
<1>2. /\ app.call = "set_parameters" /\ app.step = 4 /\ UNCHANGED app
      /\ ~Answered /\ ModeKept'
      /\ \A ok \in BOOLEAN : Signal("SET_PARAMS_RESTART", ok) => Answered'
  <2>1. "SET_PARAMS_RESTART" \in ParamApi /\ ParamStep("SET_PARAMS_RESTART") = 4
    BY DEF ParamApi, ParamStep
  <2> QED
    BY <1>1, <2>1, ParamServed
<1>3. needRestart /\ m_state \notin Busy /\ Halted /\ ~Uncommitted
  BY <1>2 DEF ChannelInv, RestartNeeded, RestartAsked, Halted, Uncommitted
<1>4. UNCHANGED zslNew /\ ~needRestart'
  BY <1>3 DEF OnSetParamsRestart, Busy, RecordingState
<1>5. NoPreview(cam) /\ cam.live = "none" /\ (~cam.hint => cam.zsl = zslNew)
  BY <1>1, <1>3, Channels DEF ChannelInv, NoPreview, Sound, ModeKnown, Camera
<1>6. m_state # "PIC_TAKING" => cam.chan["CAPTURE"] = "none"
  BY DEF ChannelInv, Fits
<1>7. Good(m_state', cam') /\ \E ok \in BOOLEAN : Signal("SET_PARAMS_RESTART", ok)
  <2>1. CASE m_state \in {"STOPPED", "PIC_TAKING"} /\ Accept
    <3>1. Good(m_state, cam)
      BY <1>5, <2>1 DEF ChannelInv, Good, Firmly
    <3> QED
      BY <1>1, <2>1, <3>1 DEF Accept, Reply, Serve
  <2>2. CASE /\ m_state = "READY"
             /\ \E p \in PreparePreview(cam) :
                  Reply(IF p.ok THEN "READY" ELSE "STOPPED", p.cam, p.ok)
    <3>1. PICK p \in PreparePreview(cam) :
            Reply(IF p.ok THEN "READY" ELSE "STOPPED", p.cam, p.ok)
      BY <2>2
    <3> QED
      BY <1>1, <1>5, <1>6, <2>2, <3>1, PreparedGood DEF Reply, Serve
  <2>3. CASE /\ m_state = "PREVIEWING"
             /\ \E p \in PreparePreview(cam) :
                  IF ~p.ok THEN Reply(m_state, p.cam, FALSE)
                  ELSE \E o \in StartsOrStops(p.cam) : Reply(o.state, o.cam, o.ok)
    <3>1. PICK p \in PreparePreview(cam) :
                  IF ~p.ok THEN Reply(m_state, p.cam, FALSE)
                  ELSE \E o \in StartsOrStops(p.cam) : Reply(o.state, o.cam, o.ok)
      BY <2>3
    <3>2. /\ p.cam \in Camera
          /\ p.ok => Good("READY", p.cam)
          /\ ~p.ok => Good("PREVIEWING", p.cam)
      BY <1>1, <1>5, <1>6, <2>3, PreparedGood
    <3>3. CASE ~p.ok
      BY <1>1, <2>3, <3>1, <3>2, <3>3 DEF Reply, Serve
    <3>4. CASE p.ok
      <4>1. PICK o \in StartsOrStops(p.cam) : Reply(o.state, o.cam, o.ok)
        BY <3>1, <3>4
      <4>2. Good(o.state, o.cam) /\ o.ok \in BOOLEAN
        BY <3>2, <3>4, StartedGood, StartsOrStopsFacts
      <4> QED
        BY <1>1, <4>1, <4>2 DEF Reply, Serve
    <3> QED
      BY <3>3, <3>4
  <2>4. CASE /\ m_state = "PREVIEW_PIC_TAKING"
             /\ \E p \in RestartOrUnprepare(cam) :
                  Reply(IF p.ok THEN m_state ELSE "PIC_TAKING", p.cam, p.ok)
    <3>1. PICK p \in RestartOrUnprepare(cam) :
                  Reply(IF p.ok THEN m_state ELSE "PIC_TAKING", p.cam, p.ok)
      BY <2>4
    <3>2. ~cam.hint /\ zslNew /\ cam.chan["CAPTURE"] = "none"
      BY <1>6, <2>4 DEF ChannelInv, Fits
    <3>3. /\ p.cam \in Camera /\ p.ok \in BOOLEAN /\ p.cam.zsl = zslNew /\ ~p.cam.hint
          /\ p.cam.live = "none" /\ p.cam.chan["CAPTURE"] = "none"
          /\ p.ok => Runs(p.cam)
          /\ ~p.ok => ~Firm /\ NoPreview(p.cam)
      BY <1>1, <1>5, <3>2, RestartOrUnprepareFacts DEF Same, Outcome
    <3>4. /\ Sound(p.cam) /\ p.cam.chan["VIDEO"] # "on"
          /\ Runs(p.cam) => p.cam.chan["PREVIEW"] = "on" \/ p.cam.chan["ZSL"] = "on"
      BY <3>3, ShapeSound
    <3>5. p.ok => Good("PREVIEW_PIC_TAKING", p.cam)
      BY <3>2, <3>3, <3>4 DEF Good, Fits, Firmly, RecordingState
    <3>6. ~p.ok => Good("PIC_TAKING", p.cam)
      BY <3>2, <3>3, <3>4 DEF Good, Fits, RecordingState
    <3> QED
      BY <1>1, <2>4, <3>1, <3>3, <3>5, <3>6 DEF Reply, Serve
  <2>5. m_state \notin {"PREPARE_SNAPSHOT", "RECORDING", "VIDEO_PIC_TAKING"}
    BY <1>3 DEF Busy, RecordingState
  <2> QED
    BY <2>1, <2>2, <2>3, <2>4, <2>5 DEF OnSetParamsRestart
<1>8. RestartAsked' /\ RestartNeeded' /\ ~Halted' /\ ~Uncommitted'
  BY <1>2, <1>4, <1>7 DEF RestartAsked, RestartNeeded, Halted, Uncommitted
<1>9. ModeKnown' /\ Sound(cam)' /\ Fits(m_state, cam)' /\ (Firm => Firmly(m_state, cam, Halted))'
  BY <1>4, <1>7, <1>8 DEF Good, ModeKnown, Sound, Fits, Firmly
<1> QED
  BY <1>1, <1>2, <1>8, <1>9 DEF ChannelInv

-----------------------------------------------------------------------------
(* The application's own steps.  While no restart is asked for, they leave  *)
(* the channels alone.                                                      *)
LEMMA Posted ==
  ASSUME CallInv, NEW a, NEW arg, Post(a, arg)
  PROVE  \A i \in 1..Len(api_queue') :
           \/ api_queue'[i] = [api |-> a, arg |-> arg]
           \/ \E j \in 1..Len(api_queue) : api_queue'[i] = api_queue[j]
BY QueueType DEF CallInv, Post

LEMMA IdleKeepsChannels ==
  ASSUME ChannelInv, CallInv', ~needRestart, UNCHANGED <<m_state, cam, zslNew, needRestart>>,
         RestartNeeded', ModeKept'
  PROVE  ChannelInv'
<1>1. RestartAsked' /\ ~Halted' /\ ~Uncommitted' /\ ~Halted /\ ~Uncommitted
  BY DEF RestartAsked, Halted, Uncommitted
<1>2. ModeKnown' /\ Sound(cam)' /\ Fits(m_state, cam)'
  BY <1>1 DEF ChannelInv, ModeKnown, Sound, Fits, NoPreview
<1>3. (Firm => Firmly(m_state, cam, Halted))'
  BY <1>1 DEF ChannelInv, Firmly
<1> QED
  BY <1>1, <1>2, <1>3 DEF ChannelInv

LEMMA AppCallKeepsChannels ==
  ASSUME ~ZslBusy, ChannelInv, NEW f \in Call, NEW flash \in BOOLEAN, NEW arg \in Arguments(f),
         AppCall(f, arg, flash)
  PROVE  ChannelInv'
<1> DEFINE first == IF f = "take_picture" /\ (mPrepSnapRun \/ ~flash) THEN 2 ELSE 1
<1>1. /\ app.step = 0 /\ app' = [call |-> f, step |-> first] /\ Post(Script[f][first], arg)
      /\ UNCHANGED <<m_state, cam, zslNew, needRestart>>
  BY DEF AppCall, settings
<1>2. CallInv /\ CallInv'
  BY AppCallKeeps DEF ChannelInv, Kept
<1>3. ~needRestart
  BY <1>1 DEF ChannelInv, RestartAsked
<1>4. first = 1 \/ (first = 2 /\ f = "take_picture")
  OBVIOUS
<1> HIDE DEF first
<1>5. RestartNeeded'
  BY <1>1, <1>4 DEF RestartNeeded
<1>6. ModeKept'
  <2> SUFFICES ASSUME m_state \in PictureState, NEW i \in 1..Len(api_queue'),
                      api_queue'[i].api = "SET_PARAMS"
               PROVE  api_queue'[i].arg[1] = zslNew
    BY <1>1 DEF ModeKept
  <2>1. CASE \E j \in 1..Len(api_queue) : api_queue'[i] = api_queue[j]
    BY <2>1 DEF ChannelInv, ModeKept
  <2>2. CASE api_queue'[i] = [api |-> Script[f][first], arg |-> arg]
    <3>1. Script[f][first] = "SET_PARAMS" /\ first \in DOMAIN Script[f]
      BY <1>4, <2>2, Calls
    <3>2. f = "set_parameters"
      BY <3>1, ParamCalls DEF ParamApi
    <3>3. arg[1] = zslNew
      BY <3>2 DEF Arguments, PictureState
    <3> QED
      BY <2>2, <3>3
  <2> QED
    BY <1>1, <1>2, <2>1, <2>2, Posted
<1> QED
  BY <1>1, <1>2, <1>3, <1>5, <1>6, IdleKeepsChannels

(* Where a call goes on, and what it posts. *)
LEMMA NextStep ==
  ASSUME CallInv, Waiting, NEW ok, Proceed(ok),
         ~(app' = NoCall /\ UNCHANGED api_queue)
  PROVE  /\ Min(Later) \in Later /\ \A i \in Later : Min(Later) <= i
         /\ Later \in SUBSET (1..4)
         /\ app'.call = app.call /\ app'.step = Min(Later)
         /\ Script[app.call][Min(Later)] \in Single \ PayloadApi
         /\ Post(Script[app.call][Min(Later)], << >>)
<1>1. app.call \in Call /\ app.step \in 1..4 /\ app \in [call : Call \cup {"none"}, step : 0..4]
  BY AwaitedType, Calls DEF CallInv, CallShape, Waiting
<1>2. Later # {} /\ app' = [app EXCEPT !.step = Min(Later)]
      /\ Post(Script[app.call][Min(Later)], << >>)
  BY DEF Proceed
<1>3. Later \in SUBSET (1..4) /\ Later \subseteq DOMAIN Script[app.call]
      /\ \A i \in Later : i > app.step
  BY <1>1, Calls DEF Later
<1>4. Min(Later) \in Later /\ \A i \in Later : Min(Later) <= i
  BY <1>2, <1>3, MinFacts
<1>5. Min(Later) \in DOMAIN Script[app.call] /\ Min(Later) > 1
  <2>1. Min(Later) \in 1..4 /\ Min(Later) > app.step
    BY <1>3, <1>4
  <2> QED
    BY <1>1, <1>3, <1>4, <2>1
<1>6. Script[app.call][Min(Later)] \in Single \ PayloadApi
  BY <1>1, <1>5, LaterApis
<1> QED
  BY <1>1, <1>2, <1>3, <1>4, <1>6

LEMMA ProceedModeKept ==
  ASSUME ChannelInv, Waiting, NEW ok, Proceed(ok)
  PROVE  ModeKept' /\ (~Queued("PREPARE_SNAPSHOT") => ~Queued("PREPARE_SNAPSHOT")')
<1>1. UNCHANGED <<m_state, zslNew>> /\ CallInv
  BY DEF Proceed, settings, ChannelInv
<1>2. CASE app' = NoCall /\ UNCHANGED api_queue
  BY <1>1, <1>2 DEF ChannelInv, ModeKept, Queued
<1>3. CASE ~(app' = NoCall /\ UNCHANGED api_queue)
  <2> DEFINE a == Script[app.call][Min(Later)]
  <2>1. Post(a, << >>) /\ a \in Single \ PayloadApi
    BY <1>1, <1>3, NextStep
  <2>2. a # "SET_PARAMS" /\ a # "PREPARE_SNAPSHOT"
    BY <2>1 DEF PayloadApi, Single
  <2> HIDE DEF a
  <2>3. \A i \in 1..Len(api_queue') :
          \/ api_queue'[i].api = a
          \/ \E j \in 1..Len(api_queue) : api_queue'[i] = api_queue[j]
    <3>1. CallInv
      BY <1>1
    <3>2. \A i \in 1..Len(api_queue') :
            \/ api_queue'[i] = [api |-> a, arg |-> << >>]
            \/ \E j \in 1..Len(api_queue) : api_queue'[i] = api_queue[j]
      BY <2>1, <3>1, Posted
    <3> QED
      BY <3>2
  <2> QED
    BY <1>1, <2>2, <2>3 DEF ChannelInv, ModeKept, Queued
<1> QED
  BY <1>2, <1>3

LEMMA ProceedIdle ==
  ASSUME ChannelInv, CallInv', ~needRestart, Waiting, NEW ok, Proceed(ok)
  PROVE  ChannelInv'
<1>1. UNCHANGED <<m_state, cam, zslNew, needRestart>> /\ CallInv
  BY DEF Proceed, settings, ChannelInv
<1>2. RestartNeeded'
  <2>1. CASE app' = NoCall
    BY <2>1 DEF RestartNeeded, NoCall
  <2>2. CASE app' # NoCall
    <3>1. Min(Later) \in Later /\ app'.call = app.call /\ app'.step = Min(Later)
      BY <1>1, <2>2, NextStep
    <3>2. Script[app.call][Min(Later)] \notin {"SET_PARAMS_STOP", "SET_PARAMS_RESTART"}
      BY <3>1 DEF Later
    <3>3. app'.call = "set_parameters" => app'.step # 2 /\ app'.step # 4
      BY <3>1, <3>2, CallSteps
    <3> QED
      BY <3>3 DEF RestartNeeded
  <2> QED
    BY <2>1, <2>2
<1> QED
  BY <1>1, <1>2, ProceedModeKept, IdleKeepsChannels

LEMMA PrepareTimeoutKeepsChannels ==
  ASSUME ChannelInv, PrepareTimeout
  PROVE  ChannelInv'
<1>1. Waiting /\ Awaited = "PREPARE_SNAPSHOT" /\ Proceed(FALSE)
  BY DEF PrepareTimeout
<1>2. CallInv'
  BY PrepareTimeoutKeeps DEF ChannelInv, Kept
<1>3. ~needRestart
  BY <1>1, ParamSteps DEF ChannelInv, RestartAsked, ParamApi
<1> QED
  BY <1>1, <1>2, <1>3, ProceedIdle

(* A restart that is asked for takes set_parameters to its next step.      *)
LEMMA AppReturnKeepsChannels ==
  ASSUME ChannelInv, AppReturn
  PROVE  ChannelInv'
<1> DEFINE ok == Head(m_apiResultList[Awaited])
<1>0. CallInv /\ CallInv'
  BY AppReturnKeeps DEF ChannelInv, Kept
<1>1. Waiting /\ Answered /\ Free /\ ok = m_apiResultList[Awaited][1] /\ Proceed(ok)
  BY <1>0, AppReturnFacts
<1> HIDE DEF ok
<1>2. CASE ~needRestart
  BY <1>0, <1>1, <1>2, ProceedIdle
<1>3. CASE needRestart
  <2>1. /\ app.call = "set_parameters" /\ app.step \in 1..3 /\ m_state \notin Busy /\ ok
        /\ ~Queued("PREPARE_SNAPSHOT")
    BY <1>1, <1>3 DEF ChannelInv, RestartAsked
  <2>2. Later = {i \in 1..4 : i > app.step}
    BY <1>3, <2>1, Calls DEF Later
  <2>3. Later # {} /\ app' # NoCall
    <3>1. 4 \in Later
      BY <2>1, <2>2
    <3>2. app' = [app EXCEPT !.step = Min(Later)]
      BY <1>1, <2>1, <3>1 DEF Proceed
    <3>3. Min(Later) \in Later
      BY <2>2, <3>1, MinFacts
    <3>4. app'.step # 0
      BY <1>0, <2>1, <2>2, <3>2, <3>3 DEF CallInv, CallShape
    <3> QED
      BY <3>1, <3>4 DEF NoCall
  <2>4. app'.call = "set_parameters" /\ app'.step = app.step + 1
    <3>1. /\ Min(Later) \in Later /\ \A i \in Later : Min(Later) <= i
          /\ app'.call = app.call /\ app'.step = Min(Later)
      BY <1>0, <1>1, <2>3, NextStep
    <3>2. app.step + 1 \in Later
      BY <2>1, <2>2
    <3> QED
      BY <2>1, <2>2, <3>1, <3>2
  <2>5. ~Answered'
    <3>1. app'.step \in 1..4
      BY <2>1, <2>4
    <3>2. Awaited' \in Single
      <4>1. app'.step \in {1, 2, 3, 4}
        BY <3>1
      <4> QED
        BY <2>4, <4>1, CallSteps, Apis DEF Awaited, Single, ParamApi
    <3> QED
      BY <1>1, <3>2 DEF Free, Answered
  <2>6. UNCHANGED <<m_state, cam, zslNew, needRestart>>
    BY <1>1 DEF Proceed, settings
  <2>7. ModeKept' /\ ~Queued("PREPARE_SNAPSHOT")'
    BY <1>1, <2>1, ProceedModeKept
  <2>8. RestartAsked' /\ RestartNeeded'
    BY <1>3, <2>1, <2>4, <2>5, <2>6, <2>7 DEF RestartAsked, RestartNeeded
  <2>9. (Halted' <=> Halted) /\ (Uncommitted' <=> Uncommitted)
    BY <1>1, <1>3, <2>1, <2>4, <2>5, <2>6 DEF Halted, Uncommitted
  <2>10. ModeKnown' /\ Sound(cam)' /\ Fits(m_state, cam)' /\ (Halted => NoPreview(cam))'
    BY <2>6, <2>9 DEF ChannelInv, ModeKnown, Sound, Fits, NoPreview
  <2>11. (Firm => Firmly(m_state, cam, Halted))'
    BY <2>6, <2>9 DEF ChannelInv, Firmly
  <2> QED
    BY <1>0, <2>7, <2>8, <2>10, <2>11 DEF ChannelInv
<1> QED
  BY <1>2, <1>3

-----------------------------------------------------------------------------
LEMMA ChannelInit == Init => ChannelInv
<1> SUFFICES ASSUME Init
             PROVE  ChannelInv
  OBVIOUS
<1>1. ~needRestart /\ app.call = "none" /\ m_state = "STOPPED" /\ cam.zsl = zslNew
  BY DEF Init, NoCall
<1>2. RestartAsked /\ RestartNeeded /\ ModeKept /\ ModeKnown /\ ~Halted
  BY <1>1 DEF RestartAsked, RestartNeeded, ModeKept, PictureState, ModeKnown, Halted
<1>3. \A c \in Channel : cam.chan[c] = "none"
  BY DEF Init
<1>4. Sound(cam)
  BY <1>3 DEF Sound, Channel, Init
<1>5. Fits(m_state, cam) /\ Firmly(m_state, cam, Halted)
  BY <1>1, <1>3 DEF Fits, Firmly, NoPreview, Channel, PreviewChannel, RecordingState, Init
<1> QED
  BY <1>2, <1>4, <1>5, CallInit DEF ChannelInv

LEMMA ChannelStill == ChannelInv /\ UNCHANGED vars => ChannelInv'
<1> SUFFICES ASSUME ChannelInv, UNCHANGED vars
             PROVE  ChannelInv'
  OBVIOUS
<1> USE DEF vars, settings, callers, ChannelInv
<1>1. CallInv'
  BY CallStep
<1>2. (Waiting' <=> Waiting) /\ Awaited' = Awaited /\ (Answered' <=> Answered)
  BY DEF Waiting, Awaited, Answered
<1>3. Queued("PREPARE_SNAPSHOT")' <=> Queued("PREPARE_SNAPSHOT")
  BY DEF Queued
<1>4. RestartAsked' /\ RestartNeeded'
  BY <1>2, <1>3 DEF RestartAsked, RestartNeeded
<1>5. (Halted' <=> Halted) /\ (Uncommitted' <=> Uncommitted)
  BY <1>2 DEF Halted, Uncommitted
<1>6. ModeKept'
  BY DEF ModeKept
<1>7. ModeKnown' /\ Sound(cam)' /\ Fits(m_state, cam)' /\ (Halted => NoPreview(cam))'
  BY <1>5 DEF ModeKnown, Sound, Fits, NoPreview
<1>8. (Firm => Firmly(m_state, cam, Halted))'
  BY <1>5 DEF Firmly
<1> QED
  BY <1>1, <1>4, <1>6, <1>7, <1>8

LEMMA ChannelStep ==
  ASSUME ~ZslBusy
  PROVE  ChannelInv /\ [Next]_vars => ChannelInv'
<1> SUFFICES ASSUME ChannelInv, [Next]_vars
             PROVE  ChannelInv'
  OBVIOUS
<1>1. CASE UNCHANGED vars
  BY <1>1, ChannelStill
<1>2. CASE SmEvtProc
  BY <1>2, CallsKeepChannels, SetParamsKeepsChannels, SetParamsStopKeepsChannels,
     SetParamsCommitKeepsChannels, SetParamsRestartKeepsChannels, PrepareKeepsChannels,
     CancelKeepsChannels, FrameRequestKeepsChannels, StopCaptureKeepsChannels,
     SnapshotDoneKeepsChannels, PrepSnapshotDoneKeepsChannels DEF SmEvtProc
<1>3. CASE \E f \in Call, flash \in BOOLEAN : \E arg \in Arguments(f) : AppCall(f, arg, flash)
  BY <1>3, AppCallKeepsChannels
<1>4. CASE AppReturn \/ PrepareTimeout
  BY <1>4, AppReturnKeepsChannels, PrepareTimeoutKeepsChannels
<1>5. CASE TakeLiveSnapshot \/ CancelLiveSnapshot
  BY <1>5, TakeLiveKeepsChannels, CancelLiveKeepsChannels
<1>6. CASE \/ PictureArrives \/ SnapshotCallback \/ VideoFrame \/ ReleaseRecordingFrame
           \/ FrameReleased \/ HardwarePrepared
  BY <1>6, OthersKeepChannels
<1> QED
  BY <1>1, <1>2, <1>3, <1>4, <1>5, <1>6 DEF Next

(* While the application keeps the ZSL mode during a capture, and whichever *)
(* channels fail: the live snapshot thread runs only while the snapshot     *)
(* channel exists, so the pointer it reads without a lock is good.          *)
THEOREM LiveAlwaysHasChannel ==
  ASSUME ~ZslBusy
  PROVE  Spec => []LiveHasChannel
<1>1. ChannelInv => LiveHasChannel
  BY DEF ChannelInv, Sound, LiveHasChannel
<1>2. ChannelInv /\ [Next]_vars => ChannelInv'
  BY ChannelStep
<1> QED
  BY <1>1, <1>2, ChannelInit, PTL DEF Spec

(* While the application keeps the ZSL mode during a capture, and the       *)
(* preview starts when it is asked to, whichever other channels fail: every *)
(* state has the channels that the comments of qcamera_state_enum_t give it.*)
THEOREM ChannelsAlwaysMatch ==
  ASSUME ~ZslBusy, Firm
  PROVE  Spec => []ChannelsMatchState
<1>1. ASSUME ChannelInv
      PROVE  ChannelsMatchState
  <2>1. Sound(cam) /\ Fits(m_state, cam) /\ Firmly(m_state, cam, Halted)
    BY <1>1 DEF ChannelInv
  <2>2. cam \in Camera
    BY <1>1, QueueType DEF ChannelInv, CallInv
  <2>3. \A ch \in Channel \ {"CAPTURE"} : NoPreview(cam) => cam.chan[ch] = "none"
    BY DEF NoPreview, Channel, PreviewChannel
  <2>4. cam.chan["CAPTURE"] # "none" => m_state = "PIC_TAKING"
    BY <2>1 DEF Fits
  <2>5. m_state = "STOPPED" => \A ch \in Channel : cam.chan[ch] = "none"
    BY <2>1, <2>3, <2>4 DEF Fits
  <2>6. m_state = "READY" => ~PreviewOn
    BY <2>1 DEF Fits, PreviewOn, On, PreviewChannel
  <2>7. Halted => Restarting
    BY <1>1 DEF ChannelInv, RestartAsked, Halted, Restarting
  <2>8. m_state \in {"PREVIEWING", "PREPARE_SNAPSHOT", "PREVIEW_PIC_TAKING"} =>
          PreviewOn \/ Restarting
    BY <2>1, <2>7 DEF Firmly, PreviewOn, On
  <2>9. m_state = "PIC_TAKING" <=> cam.chan["CAPTURE"] # "none"
    BY <2>1, <2>4 DEF Firmly
  <2>10. m_state = "PIC_TAKING" => \A ch \in Channel \ {"CAPTURE"} : cam.chan[ch] = "none"
    BY <2>1, <2>3 DEF Fits
  <2>11. m_state \in {"RECORDING", "VIDEO_PIC_TAKING"} <=> On("VIDEO")
    BY <2>1 DEF Fits, RecordingState, On
  <2>12. On("VIDEO") => On("PREVIEW") /\ cam.chan["SNAPSHOT"] # "none"
    BY <2>1 DEF Firmly, Sound, On
  <2>13. cam.chan["ZSL"] # "none" => cam.chan["PREVIEW"] = "none" /\ ZslPreview(cam)
    BY <2>1 DEF Sound, ZslPreview
  <2> QED
    BY <2>5, <2>6, <2>8, <2>9, <2>10, <2>11, <2>12, <2>13 DEF ChannelsMatchState
<1>2. ChannelInv /\ [Next]_vars => ChannelInv'
  BY ChannelStep
<1> QED
  BY <1>1, <1>2, ChannelInit, PTL DEF Spec

-----------------------------------------------------------------------------
(* The deferred work thread. *)

(* The jobs that are queued, running or not yet struck off. *)
Occupied == worker.at \in {"run", "done"}

InQueue == {queue[i] : i \in 1..Len(queue)}

Pending == InQueue \cup {w \in {worker.work} : Occupied}

(* The jobs a call may still queue before it begins another preview or      *)
(* picture: what keeps the ids in Id.                                      *)
Ahead == CASE at = "closed" -> 3
           [] at \in {"open", "mapTask"} -> 2
           [] at \in {"openCamera", "allocWait", "jpegJob"} -> 1
           [] OTHER -> 0

Numbered == nextId # 0 /\ nextId + Ahead <= 4 + 3 * bound.previews + 2 * bound.pictures

(* The queue is in the order of the ids, behind the job of the thread. *)
Ordered ==
  /\ \A i, j \in 1..Len(queue) : i < j => queue[i].id < queue[j].id
  /\ Occupied => \A i \in 1..Len(queue) : worker.work.id < queue[i].id

(* No job is over that was queued after one that is not. *)
Backlog ==
  \A w \in Pending : /\ w.id # 0 /\ w.id < nextId
                     /\ \A j \in Id : w.id <= j /\ j < nextId => j \in ongoing

JobIds == \A k \in Kind : job[k] < nextId

(* Where the calls have a channel, and where its streams may have tasks. *)
ChannelPlace ==
  {"mapTask", "allocWait", "stopStreams", "mapWait", "preview", "jpegJob",
   "request", "refused", "refused2", "queueFull", "picture", "cancel",
   "cancel2", "stopPostproc"}

(* A task that is not over is one of the channel's, and the latest. *)
StreamsKept ==
  \A w \in Pending : w.kind \in StreamTask =>
    /\ w.channel = channel /\ w.id = job[w.kind] /\ at \in ChannelPlace
    /\ w.kind = "alloc" => at # "mapWait"
    /\ w.kind = "map" => at # "mapTask"

(* In a picture no job of a picture was queued after the last one of this. *)
PicturesKept ==
  \A w \in Pending : w.kind \in PictureJob =>
    /\ at \in {"jpegJob", "queueFull"} => w.id <= job["pprocStart"]
    /\ at \in {"request", "refused", "refused2", "picture", "cancel", "cancel2"}
         => w.id <= job["jpegSession"]
    /\ at # "stopPostproc"

DeferredIInv ==
  /\ DeferredTypeOK /\ Numbered /\ Ordered /\ Backlog /\ JobIds
  /\ StreamsKept /\ PicturesKept

-----------------------------------------------------------------------------
(* Sequences of jobs, and the jobs of a step.                              *)
LEMMA JobAppended ==
  ASSUME NEW q \in Seq(Work), NEW w \in Work
  PROVE  /\ Append(q, w) \in Seq(Work) /\ Len(Append(q, w)) = Len(q) + 1
         /\ \A i \in 1..Len(q) : Append(q, w)[i] = q[i]
         /\ Append(q, w)[Len(q) + 1] = w
OBVIOUS

LEMMA JobTaken ==
  ASSUME NEW q \in Seq(Work), q # << >>
  PROVE  /\ Tail(q) \in Seq(Work) /\ Head(q) = q[1] /\ 1 \in 1..Len(q) /\ q[1] \in Work
         /\ Len(Tail(q)) = Len(q) - 1
         /\ \A i \in 1..Len(Tail(q)) : i + 1 \in 1..Len(q) /\ Tail(q)[i] = q[i + 1]
OBVIOUS

(* What is pending is a job.                                               *)
LEMMA PendingType ==
  ASSUME DeferredTypeOK
  PROVE  /\ Pending \subseteq Work
         /\ \A w \in Pending : w.id \in Nat /\ w.kind \in Kind
<1>1. InQueue \subseteq Work
  BY DEF DeferredTypeOK, InQueue
<1>2. worker.work \in Work
  BY DEF DeferredTypeOK
<1>3. \A w \in Work : w.id \in Nat /\ w.kind \in Kind
  BY DeferredAssumption DEF Work, Id
<1> QED
  BY <1>1, <1>2, <1>3 DEF Pending

LEMMA JobsNat == DeferredTypeOK => /\ \A k \in Kind : job[k] \in Nat
                                   /\ "pprocStart" \in Kind /\ "jpegSession" \in Kind
BY DeferredAssumption DEF DeferredTypeOK, Id, Kind, PictureJob

(* A job that is over has no job before it that is not: who saw that the    *)
(* job of a member is over knows that what is pending came later.          *)
LEMMA Waited ==
  ASSUME DeferredTypeOK, Backlog, JobIds, NEW k \in Kind, ~CheckDeferredWork(k)
  PROVE  \A w \in Pending : w.id > job[k]
<1> SUFFICES ASSUME NEW w \in Pending, w.id <= job[k]
             PROVE  FALSE
  <2>1. job[k] \in Nat
    BY DeferredAssumption DEF DeferredTypeOK, Id
  <2> QED
    BY <2>1, PendingType
<1>1. job[k] \in Id /\ job[k] \in Nat /\ w.id \in Nat
  BY PendingType, DeferredAssumption DEF DeferredTypeOK, Id
<1>2. job[k] # 0
  BY <1>1 DEF Backlog
<1>3. job[k] \in ongoing
  BY <1>1 DEF Backlog, JobIds
<1> QED
  BY <1>2, <1>3 DEF CheckDeferredWork

(* A step that touches neither the queue nor the thread.                   *)
LEMMA JobsUntouched ==
  ASSUME Ordered, Backlog, JobIds, UNCHANGED <<ongoing, queue, nextId, job, worker>>
  PROVE  Pending' = Pending /\ Ordered' /\ Backlog' /\ JobIds'
<1>1. Pending' = Pending
  BY DEF Pending, InQueue, Occupied
<1>2. Ordered'
  BY DEF Ordered, Occupied
<1>3. Backlog'
  BY <1>1 DEF Backlog
<1> QED
  BY <1>1, <1>2, <1>3 DEF JobIds

(* A job that is queued is behind the others, and the latest of its kind.  *)
LEMMA JobQueued ==
  ASSUME DeferredTypeOK, Ordered, Backlog, JobIds, nextId \in Id, nextId # 0,
         NEW k \in Kind, NEW ch \in 0..MaxPreviews, NEW from, NEW queued, NEW full,
         QueueDeferredWork(k, ch, from, queued, full)
  PROVE  /\ queue' \in Seq(Work) /\ nextId' \in Nat /\ job' \in [Kind -> Id]
         /\ ongoing' \subseteq Id /\ Ordered' /\ Backlog' /\ JobIds'
         /\ \/ /\ at' = queued /\ nextId' = nextId + 1
               /\ job' = [job EXCEPT ![k] = nextId]
               /\ Pending' = Pending \cup {[kind |-> k, id |-> nextId, channel |-> ch]}
            \/ /\ at' = full /\ Pending' = Pending /\ nextId' = nextId
               /\ job' = [job EXCEPT ![k] = 0]
<1> DEFINE w == [kind |-> k, id |-> nextId, channel |-> ch]
<1>0. nextId \in Nat /\ 0 \in Id /\ w \in Work /\ w.id = nextId
  BY DeferredAssumption DEF DeferredTypeOK, Id, Work
<1>1. CASE SlotFree
  <2>1. /\ queue' = Append(queue, w) /\ ongoing' = ongoing \cup {nextId}
        /\ nextId' = nextId + 1 /\ job' = [job EXCEPT ![k] = nextId] /\ at' = queued
        /\ UNCHANGED worker
    BY <1>1 DEF QueueDeferredWork
  <2>2. queue \in Seq(Work)
    BY DEF DeferredTypeOK
  <2>3. /\ queue' \in Seq(Work) /\ Len(queue') = Len(queue) + 1
        /\ \A i \in 1..Len(queue) : queue'[i] = queue[i]
        /\ queue'[Len(queue) + 1] = w
    BY <2>1, <2>2, <1>0, JobAppended
  <2>4. 1..Len(queue') = (1..Len(queue)) \cup {Len(queue) + 1}
    BY <2>2, <2>3
  <2>5. Pending' = Pending \cup {w}
    <3>1. InQueue' = InQueue \cup {w}
      BY <2>3, <2>4 DEF InQueue
    <3> QED
      BY <3>1, <2>1 DEF Pending, Occupied
  <2>6. \A v \in Pending : v.id # 0 /\ v.id < nextId /\ v.id \in Nat
    BY PendingType DEF Backlog
  <2>7. Ordered'
    <3>1. \A i \in 1..Len(queue) : queue[i] \in Pending
      BY DEF Pending, InQueue
    <3>2. Occupied => worker.work \in Pending
      BY DEF Pending
    <3>3. ASSUME NEW i \in 1..Len(queue'), NEW j \in 1..Len(queue'), i < j
          PROVE  queue'[i].id < queue'[j].id
      <4>1. i \in 1..Len(queue)
        BY <3>3, <2>2, <2>4, <2>3
      <4>2. CASE j \in 1..Len(queue)
        BY <4>1, <4>2, <3>3, <2>3 DEF Ordered
      <4>3. CASE j = Len(queue) + 1
        BY <4>1, <4>3, <3>1, <2>3, <2>6, <1>0
      <4> QED
        BY <4>2, <4>3, <2>4
    <3>4. ASSUME Occupied, NEW i \in 1..Len(queue')
          PROVE  worker.work.id < queue'[i].id
      <4>1. CASE i \in 1..Len(queue)
        BY <4>1, <3>4, <2>3 DEF Ordered
      <4>2. CASE i = Len(queue) + 1
        BY <4>2, <3>4, <3>2, <2>3, <2>6, <1>0
      <4> QED
        BY <4>1, <4>2, <2>4
    <3> QED
      BY <3>3, <3>4, <2>1 DEF Ordered, Occupied
  <2>8. Backlog'
    <3> SUFFICES ASSUME NEW v \in Pending'
                 PROVE  /\ v.id # 0 /\ v.id < nextId + 1
                        /\ \A j \in Id : v.id <= j /\ j < nextId + 1 => j \in ongoing \cup {nextId}
      BY <2>1 DEF Backlog
    <3>1. v.id # 0 /\ v.id <= nextId
      BY <2>5, <2>6, <1>0
    <3>2. CASE v \in Pending
      BY <3>1, <3>2, <2>6, <1>0 DEF Backlog, Id
    <3>3. CASE v = w
      BY <3>1, <3>3, <1>0 DEF Id
    <3> QED
      BY <3>2, <3>3, <2>5
  <2>9. JobIds'
    BY <2>1, <1>0, DeferredAssumption DEF JobIds, DeferredTypeOK, Id
  <2>10. job' \in [Kind -> Id] /\ ongoing' \subseteq Id
    BY <2>1 DEF DeferredTypeOK
  <2> QED
    BY <2>1, <2>3, <2>5, <2>7, <2>8, <2>9, <2>10, <1>0
<1>2. CASE ~SlotFree
  <2>1. /\ UNCHANGED <<queue, ongoing, nextId, worker>>
        /\ job' = [job EXCEPT ![k] = 0] /\ at' = full
    BY <1>2 DEF QueueDeferredWork
  <2>2. Pending' = Pending
    BY <2>1 DEF Pending, InQueue, Occupied
  <2>3. Ordered' /\ Backlog'
    BY <2>1, <2>2 DEF Ordered, Backlog, Occupied
  <2>4. JobIds'
    BY <2>1, <1>0 DEF JobIds, DeferredTypeOK
  <2>5. job' \in [Kind -> Id]
    BY <2>1, <1>0 DEF DeferredTypeOK
  <2> QED
    BY <2>1, <2>2, <2>3, <2>4, <2>5, <1>0 DEF DeferredTypeOK
<1> QED
  BY <1>1, <1>2

(* What every step that queues a job keeps.                                *)
LEMMA QueueStep ==
  ASSUME DeferredIInv, NEW k \in Kind, NEW ch \in 0..MaxPreviews, NEW from,
         NEW queued \in Place, NEW full \in Place,
         QueueDeferredWork(k, ch, from, queued, full),
         channel' \in 0..MaxPreviews,
         bound' \in [previews : 0..MaxPreviews, pictures : 0..MaxPictures, faults : 0..MaxFaults],
         nextId < 4 + 3 * bound'.previews + 2 * bound'.pictures
  PROVE  /\ DeferredTypeOK' /\ Ordered' /\ Backlog' /\ JobIds'
         /\ \A w \in Pending : w.id < nextId
         /\ \/ /\ at' = queued /\ nextId' = nextId + 1
               /\ job' = [job EXCEPT ![k] = nextId]
               /\ Pending' = Pending \cup {[kind |-> k, id |-> nextId, channel |-> ch]}
            \/ /\ at' = full /\ Pending' = Pending /\ nextId' = nextId
               /\ job' = [job EXCEPT ![k] = 0]
<1>1. nextId \in Nat /\ nextId # 0
  BY DEF DeferredIInv, DeferredTypeOK, Numbered
<1>2. nextId \in Id
  <2>1. /\ bound'.previews \in Nat /\ bound'.previews <= MaxPreviews
        /\ bound'.pictures \in Nat /\ bound'.pictures <= MaxPictures
        /\ MaxPreviews \in Nat /\ MaxPictures \in Nat
    BY DeferredAssumption
  <2>2. nextId <= 3 + 3 * MaxPreviews + 2 * MaxPictures
    BY <2>1, <1>1
  <2> QED
    BY <2>1, <2>2, <1>1 DEF Id
<1>3. /\ queue' \in Seq(Work) /\ nextId' \in Nat /\ job' \in [Kind -> Id]
      /\ ongoing' \subseteq Id /\ Ordered' /\ Backlog' /\ JobIds'
      /\ \/ /\ at' = queued /\ nextId' = nextId + 1
            /\ job' = [job EXCEPT ![k] = nextId]
            /\ Pending' = Pending \cup {[kind |-> k, id |-> nextId, channel |-> ch]}
         \/ /\ at' = full /\ Pending' = Pending /\ nextId' = nextId
            /\ job' = [job EXCEPT ![k] = 0]
  BY <1>1, <1>2, JobQueued DEF DeferredIInv
<1>4. UNCHANGED <<failed, worker, waiting, broken>>
  BY DEF QueueDeferredWork
<1>5. DeferredTypeOK'
  BY <1>3, <1>4 DEF DeferredIInv, DeferredTypeOK
<1> QED
  BY <1>3, <1>5 DEF DeferredIInv, Backlog

(* What every step keeps that only moves a call or a callback.             *)
LEMMA CallsStep ==
  ASSUME DeferredIInv, UNCHANGED <<ongoing, failed, queue, nextId, job, worker, bound, broken>>,
         at' \in Place, channel' \in 0..MaxPreviews, waiting' \subseteq {"frame", "reprocessed"}
  PROVE  /\ DeferredTypeOK' /\ Ordered' /\ Backlog' /\ JobIds' /\ Pending' = Pending
<1>1. DeferredTypeOK'
  BY DEF DeferredIInv, DeferredTypeOK
<1> QED
  BY <1>1, JobsUntouched DEF DeferredIInv

-----------------------------------------------------------------------------
(* The invariant is inductive: one lemma for each part of the step.        *)
LEMMA InitHolds == DeferredInit => DeferredIInv
<1> SUFFICES ASSUME DeferredInit
             PROVE  DeferredIInv
  OBVIOUS
<1>1. DeferredTypeOK
  <2>1. 0 \in Id /\ NoWork \in Work /\ 0 \in 0..MaxPreviews /\ 0 \in 0..MaxPictures /\ 0 \in 0..MaxFaults
    BY DeferredAssumption DEF Id, NoWork, Work, Kind, StreamTask
  <2> QED
    BY <2>1 DEF DeferredInit, DeferredTypeOK, Place
<1>2. Pending = {}
  BY DEF DeferredInit, Pending, InQueue, Occupied
<1>3. Ordered
  BY DEF DeferredInit, Ordered, Occupied
<1>4. Numbered /\ JobIds
  BY DEF DeferredInit, Numbered, Ahead, JobIds
<1> QED
  BY <1>1, <1>2, <1>3, <1>4 DEF DeferredIInv, Backlog, StreamsKept, PicturesKept

LEMMA NextJobKeeps == DeferredIInv /\ NextJob => DeferredIInv'
<1> SUFFICES ASSUME DeferredIInv, NextJob
             PROVE  DeferredIInv'
  OBVIOUS
<1> USE DEF DeferredIInv
<1>1. PICK s \in {"done", "run"}, b \in BOOLEAN :
        worker' = [at |-> s, work |-> Head(queue), status |-> b]
  <2> DEFINE refused == \E k \in Needs[Head(queue).kind] : GetDefJobStatus(k)
  <2>1. worker' = [at |-> IF refused THEN "done" ELSE "run", work |-> Head(queue),
                   status |-> refused \/ worker.status]
    BY DEF NextJob
  <2>2. (refused \/ worker.status) \in BOOLEAN
    BY DEF DeferredTypeOK
  <2> QED
    BY <2>1, <2>2
<1>2. /\ worker.at = "idle" /\ queue # << >> /\ queue' = Tail(queue)
      /\ UNCHANGED <<ongoing, failed, nextId, job, at, channel, waiting, bound>>
      /\ broken' = broken \/ broken' = broken \cup {Head(queue).id}
  BY DEF NextJob
<1>3. /\ queue \in Seq(Work) /\ queue' \in Seq(Work) /\ Head(queue) = queue[1]
      /\ 1 \in 1..Len(queue) /\ queue[1] \in Work
      /\ Len(queue') = Len(queue) - 1
      /\ \A i \in 1..Len(queue') : i + 1 \in 1..Len(queue) /\ queue'[i] = queue[i + 1]
  BY <1>2, JobTaken DEF DeferredTypeOK
<1>4. DeferredTypeOK'
  <2>1. broken' \subseteq Id
    BY <1>2, <1>3 DEF DeferredTypeOK, Work
  <2>2. worker' \in [at : {"idle", "run", "done", "exit"}, work : Work, status : BOOLEAN]
    BY <1>1, <1>3
  <2> QED
    BY <2>1, <2>2, <1>2, <1>3 DEF DeferredTypeOK
<1>5. Numbered'
  BY <1>2 DEF Numbered, Ahead
<1>6. Pending' \subseteq Pending
  <2>1. InQueue' \subseteq InQueue /\ queue[1] \in InQueue
    BY <1>3 DEF InQueue
  <2>2. worker'.work = queue[1]
    BY <1>1, <1>3
  <2> QED
    BY <2>1, <2>2 DEF Pending
<1>7. Ordered'
  <2>1. ASSUME NEW i \in 1..Len(queue'), NEW j \in 1..Len(queue'), i < j
        PROVE  queue'[i].id < queue'[j].id
    BY <2>1, <1>3 DEF Ordered
  <2>2. ASSUME NEW i \in 1..Len(queue')
        PROVE  worker'.work.id < queue'[i].id
    BY <1>1, <1>3 DEF Ordered
  <2> QED
    BY <2>1, <2>2 DEF Ordered
<1>8. Backlog' /\ JobIds' /\ StreamsKept' /\ PicturesKept'
  BY <1>2, <1>6 DEF Backlog, JobIds, StreamsKept, PicturesKept
<1> QED
  BY <1>4, <1>5, <1>7, <1>8

LEMMA RunJobKeeps == DeferredIInv /\ RunJob => DeferredIInv'
<1> SUFFICES ASSUME DeferredIInv, RunJob
             PROVE  DeferredIInv'
  OBVIOUS
<1> USE DEF DeferredIInv
<1>1. PICK fails \in BOOLEAN :
        /\ worker.at = "run" /\ (fails => bound.faults < MaxFaults)
        /\ worker' = [worker EXCEPT !.at = "done",
                                    !.status = JobStatus(worker.work.kind, fails)]
        /\ broken' = IF fails THEN broken \cup {worker.work.id} ELSE broken
        /\ bound' = [bound EXCEPT !.faults = IF fails THEN @ + 1 ELSE @]
        /\ UNCHANGED <<ongoing, failed, queue, nextId, job, at, channel, waiting>>
  BY DEF RunJob
<1>2. JobStatus(worker.work.kind, fails) \in BOOLEAN
  BY DEF JobStatus, DeferredTypeOK
<1>3. DeferredTypeOK'
  <2>1. worker' \in [at : {"idle", "run", "done", "exit"}, work : Work, status : BOOLEAN]
    BY <1>1, <1>2 DEF DeferredTypeOK
  <2>2. worker.work.id \in Id
    BY DEF DeferredTypeOK, Work
  <2>3. broken' \subseteq Id
    BY <1>1, <2>2 DEF DeferredTypeOK
  <2>4. bound' \in [previews : 0..MaxPreviews, pictures : 0..MaxPictures, faults : 0..MaxFaults]
    BY SMTT(60), <1>1, DeferredAssumption DEF DeferredTypeOK
  <2> QED
    BY <2>1, <2>3, <2>4, <1>1 DEF DeferredTypeOK
<1>4. worker'.work = worker.work /\ worker'.at = "done"
      /\ bound'.previews = bound.previews /\ bound'.pictures = bound.pictures
  BY <1>1 DEF DeferredTypeOK
<1>5. Pending' = Pending
  BY <1>1, <1>4 DEF Pending, InQueue, Occupied
<1>6. Numbered'
  BY <1>1, <1>4 DEF Numbered, Ahead
<1>7. Ordered'
  BY <1>1, <1>4 DEF Ordered, Occupied
<1>8. Backlog' /\ JobIds' /\ StreamsKept' /\ PicturesKept'
  BY <1>1, <1>5 DEF Backlog, JobIds, StreamsKept, PicturesKept
<1> QED
  BY <1>3, <1>6, <1>7, <1>8

LEMMA DequeueKeeps == DeferredIInv /\ DequeueDeferredWork => DeferredIInv'
<1> SUFFICES ASSUME DeferredIInv, DequeueDeferredWork
             PROVE  DeferredIInv'
  OBVIOUS
<1> USE DEF DeferredIInv
<1>1. /\ worker.at = "done" /\ ongoing' = ongoing \ {worker.work.id}
      /\ failed' \subseteq failed \cup {worker.work.id}
      /\ worker' = [worker EXCEPT !.at = "idle", !.work = NoWork]
      /\ UNCHANGED <<queue, nextId, job, at, channel, waiting, bound, broken>>
  BY DEF DequeueDeferredWork
<1>2. worker.work \in Work /\ worker.work.id \in Id
  BY DEF DeferredTypeOK, Work
<1>3. DeferredTypeOK'
  <2>1. NoWork \in Work
    BY DeferredAssumption DEF NoWork, Work, Kind, StreamTask, Id
  <2>2. worker' \in [at : {"idle", "run", "done", "exit"}, work : Work, status : BOOLEAN]
    BY <2>1, <1>1 DEF DeferredTypeOK
  <2> QED
    BY <2>2, <1>1, <1>2 DEF DeferredTypeOK
<1>4. worker'.at = "idle"
  BY <1>1 DEF DeferredTypeOK
<1>5. Pending' = InQueue /\ InQueue \subseteq Pending
  BY <1>1, <1>4 DEF Pending, InQueue, Occupied
<1>6. Numbered'
  BY <1>1 DEF Numbered, Ahead
<1>7. Ordered'
  BY <1>1, <1>4 DEF Ordered, Occupied
<1>8. Backlog'
  <2> SUFFICES ASSUME NEW w \in InQueue, NEW j \in Id, w.id <= j, j < nextId
               PROVE  j \in ongoing /\ j # worker.work.id
    BY <1>1, <1>5 DEF Backlog
  <2>1. worker.work.id < w.id
    BY <1>1 DEF Ordered, Occupied, InQueue
  <2>2. w.id \in Nat /\ worker.work.id \in Nat /\ j \in Nat
    BY <1>2, <1>5, PendingType, DeferredAssumption DEF Id
  <2> QED
    BY <2>1, <2>2, <1>5 DEF Backlog
<1>9. JobIds' /\ StreamsKept' /\ PicturesKept'
  BY <1>1, <1>5 DEF JobIds, StreamsKept, PicturesKept
<1> QED
  BY <1>3, <1>6, <1>7, <1>8, <1>9

LEMMA OpenKeeps == DeferredIInv /\ OpenCamera => DeferredIInv'
<1> SUFFICES ASSUME DeferredIInv, OpenCamera
             PROVE  DeferredIInv'
  OBVIOUS
<1> USE DEF DeferredIInv
<1>1. CASE /\ QueueDeferredWork("paramAlloc", 0, "closed", "open", "ended")
           /\ Keep
  <2>1. at = "closed" /\ bound \in [previews : 0..MaxPreviews, pictures : 0..MaxPictures, faults : 0..MaxFaults]
    BY <1>1 DEF QueueDeferredWork, DeferredTypeOK
  <2>2. /\ channel' \in 0..MaxPreviews /\ 0 \in 0..MaxPreviews
        /\ bound' \in [previews : 0..MaxPreviews, pictures : 0..MaxPictures, faults : 0..MaxFaults]
    BY <1>1, DeferredAssumption DEF Keep, DeferredTypeOK
  <2>3. nextId + Ahead <= 4 + 3 * bound.previews + 2 * bound.pictures /\ nextId \in Nat /\ nextId # 0
    BY DEF Numbered, DeferredTypeOK
  <2>4. nextId < 4 + 3 * bound'.previews + 2 * bound'.pictures
    BY <1>1, <2>1, <2>3 DEF Ahead, Keep
  <2>5. "paramAlloc" \in Kind /\ "open" \in Place /\ "ended" \in Place
    BY DEF Kind, StreamTask, PictureJob, Place
  <2>6. /\ DeferredTypeOK' /\ Ordered' /\ Backlog' /\ JobIds'
        /\ \A w \in Pending : w.id < nextId
        /\ \/ /\ at' = "open" /\ nextId' = nextId + 1
              /\ job' = [job EXCEPT !["paramAlloc"] = nextId]
              /\ Pending' = Pending \cup {[kind |-> "paramAlloc", id |-> nextId, channel |-> 0]}
           \/ /\ at' = "ended" /\ Pending' = Pending /\ nextId' = nextId
              /\ job' = [job EXCEPT !["paramAlloc"] = 0]
    BY <1>1, <2>2, <2>4, <2>5, QueueStep
  <2>7. Numbered'
    BY <1>1, <2>1, <2>3, <2>6 DEF Numbered, Ahead, Keep
  <2>8. StreamsKept'
    BY <1>1, <2>1, <2>5, <2>6, PendingType DEF StreamsKept, ChannelPlace, StreamTask, Keep, DeferredTypeOK
  <2>9. PicturesKept'
    BY <1>1, <2>1, <2>3, <2>5, <2>6, PendingType, JobsNat DEF PicturesKept, PictureJob, DeferredTypeOK
  <2> QED
    BY <2>6, <2>7, <2>8, <2>9
<1>2. CASE /\ QueueDeferredWork("metadataAlloc", 0, "open", "openCamera", "openFailed2")
           /\ Keep
  <2>1. at = "open" /\ bound \in [previews : 0..MaxPreviews, pictures : 0..MaxPictures, faults : 0..MaxFaults]
    BY <1>2 DEF QueueDeferredWork, DeferredTypeOK
  <2>2. /\ channel' \in 0..MaxPreviews /\ 0 \in 0..MaxPreviews
        /\ bound' \in [previews : 0..MaxPreviews, pictures : 0..MaxPictures, faults : 0..MaxFaults]
    BY <1>2, DeferredAssumption DEF Keep, DeferredTypeOK
  <2>3. nextId + Ahead <= 4 + 3 * bound.previews + 2 * bound.pictures /\ nextId \in Nat /\ nextId # 0
    BY DEF Numbered, DeferredTypeOK
  <2>4. nextId < 4 + 3 * bound'.previews + 2 * bound'.pictures
    BY <1>2, <2>1, <2>3 DEF Ahead, Keep
  <2>5. "metadataAlloc" \in Kind /\ "openCamera" \in Place /\ "openFailed2" \in Place
    BY DEF Kind, StreamTask, PictureJob, Place
  <2>6. /\ DeferredTypeOK' /\ Ordered' /\ Backlog' /\ JobIds'
        /\ \A w \in Pending : w.id < nextId
        /\ \/ /\ at' = "openCamera" /\ nextId' = nextId + 1
              /\ job' = [job EXCEPT !["metadataAlloc"] = nextId]
              /\ Pending' = Pending \cup {[kind |-> "metadataAlloc", id |-> nextId, channel |-> 0]}
           \/ /\ at' = "openFailed2" /\ Pending' = Pending /\ nextId' = nextId
              /\ job' = [job EXCEPT !["metadataAlloc"] = 0]
    BY <1>2, <2>2, <2>4, <2>5, QueueStep
  <2>7. Numbered'
    BY <1>2, <2>1, <2>3, <2>6 DEF Numbered, Ahead, Keep
  <2>8. StreamsKept'
    BY <1>2, <2>1, <2>5, <2>6, PendingType DEF StreamsKept, ChannelPlace, StreamTask, Keep, DeferredTypeOK
  <2>9. PicturesKept'
    BY <1>2, <2>1, <2>3, <2>5, <2>6, PendingType, JobsNat DEF PicturesKept, PictureJob, DeferredTypeOK
  <2> QED
    BY <2>6, <2>7, <2>8, <2>9
<1>3. CASE Go("open", "openCamera")
  <2>1. at = "open" /\ at' = "openCamera"
    BY <1>3 DEF Go
  <2>2. UNCHANGED <<ongoing, failed, queue, nextId, job, worker, channel, waiting, bound, broken>>
    BY <1>3 DEF Go
  <2>3. DeferredTypeOK' /\ Ordered' /\ Backlog' /\ JobIds' /\ Pending' = Pending
    BY <2>1, <2>2, CallsStep DEF Place, DeferredTypeOK
  <2>5. Numbered'
    BY <2>1, <2>2 DEF Numbered, Ahead, DeferredTypeOK
  <2>6. StreamsKept'
    BY <2>1, <2>2, <2>3, PendingType DEF StreamsKept, ChannelPlace, StreamTask, DeferredTypeOK
  <2>7. PicturesKept'
    BY <2>1, <2>2, <2>3, PendingType, JobsNat DEF PicturesKept
  <2> QED
    BY <2>3, <2>5, <2>6, <2>7
<1>4. CASE /\ QueueDeferredWork("paramInit", 0, "openCamera", "stopped", "openFailed")
           /\ Keep
  <2>1. at = "openCamera" /\ bound \in [previews : 0..MaxPreviews, pictures : 0..MaxPictures, faults : 0..MaxFaults]
    BY <1>4 DEF QueueDeferredWork, DeferredTypeOK
  <2>2. /\ channel' \in 0..MaxPreviews /\ 0 \in 0..MaxPreviews
        /\ bound' \in [previews : 0..MaxPreviews, pictures : 0..MaxPictures, faults : 0..MaxFaults]
    BY <1>4, DeferredAssumption DEF Keep, DeferredTypeOK
  <2>3. nextId + Ahead <= 4 + 3 * bound.previews + 2 * bound.pictures /\ nextId \in Nat /\ nextId # 0
    BY DEF Numbered, DeferredTypeOK
  <2>4. nextId < 4 + 3 * bound'.previews + 2 * bound'.pictures
    BY <1>4, <2>1, <2>3 DEF Ahead, Keep
  <2>5. "paramInit" \in Kind /\ "stopped" \in Place /\ "openFailed" \in Place
    BY DEF Kind, StreamTask, PictureJob, Place
  <2>6. /\ DeferredTypeOK' /\ Ordered' /\ Backlog' /\ JobIds'
        /\ \A w \in Pending : w.id < nextId
        /\ \/ /\ at' = "stopped" /\ nextId' = nextId + 1
              /\ job' = [job EXCEPT !["paramInit"] = nextId]
              /\ Pending' = Pending \cup {[kind |-> "paramInit", id |-> nextId, channel |-> 0]}
           \/ /\ at' = "openFailed" /\ Pending' = Pending /\ nextId' = nextId
              /\ job' = [job EXCEPT !["paramInit"] = 0]
    BY <1>4, <2>2, <2>4, <2>5, QueueStep
  <2>7. Numbered'
    BY <1>4, <2>1, <2>3, <2>6 DEF Numbered, Ahead, Keep
  <2>8. StreamsKept'
    BY <1>4, <2>1, <2>5, <2>6, PendingType DEF StreamsKept, ChannelPlace, StreamTask, Keep, DeferredTypeOK
  <2>9. PicturesKept'
    BY <1>4, <2>1, <2>3, <2>5, <2>6, PendingType, JobsNat DEF PicturesKept, PictureJob, DeferredTypeOK
  <2> QED
    BY <2>6, <2>7, <2>8, <2>9
<1>5. CASE Go("openCamera", "openFailed")
  <2>1. at = "openCamera" /\ at' = "openFailed"
    BY <1>5 DEF Go
  <2>2. UNCHANGED <<ongoing, failed, queue, nextId, job, worker, channel, waiting, bound, broken>>
    BY <1>5 DEF Go
  <2>3. DeferredTypeOK' /\ Ordered' /\ Backlog' /\ JobIds' /\ Pending' = Pending
    BY <2>1, <2>2, CallsStep DEF Place, DeferredTypeOK
  <2>5. Numbered'
    BY <2>1, <2>2 DEF Numbered, Ahead, DeferredTypeOK
  <2>6. StreamsKept'
    BY <2>1, <2>2, <2>3, PendingType DEF StreamsKept, ChannelPlace, StreamTask, DeferredTypeOK
  <2>7. PicturesKept'
    BY <2>1, <2>2, <2>3, PendingType, JobsNat DEF PicturesKept
  <2> QED
    BY <2>3, <2>5, <2>6, <2>7
<1>6. CASE WaitDeferredWork("metadataAlloc", "openFailed", "openFailed2", "openFailed2")
  <2>1. at = "openFailed" /\ at' \in {"openFailed2", "openFailed2"}
    BY <1>6 DEF WaitDeferredWork
  <2>2. UNCHANGED <<ongoing, failed, queue, nextId, job, worker, channel, waiting, bound, broken>>
    BY <1>6 DEF WaitDeferredWork
  <2>3. DeferredTypeOK' /\ Ordered' /\ Backlog' /\ JobIds' /\ Pending' = Pending
    BY <2>1, <2>2, CallsStep DEF Place, DeferredTypeOK
  <2>4. \A w \in Pending : w.id > job["metadataAlloc"]
    <3>1. "metadataAlloc" \in Kind /\ ~CheckDeferredWork("metadataAlloc")
      BY <1>6 DEF WaitDeferredWork, Kind, StreamTask, PictureJob
    <3> QED
      BY <3>1, Waited
  <2>5. Numbered'
    BY <2>1, <2>2 DEF Numbered, Ahead, DeferredTypeOK
  <2>6. StreamsKept'
    BY <2>1, <2>2, <2>3, <2>4, PendingType DEF StreamsKept, ChannelPlace, StreamTask, DeferredTypeOK
  <2>7. PicturesKept'
    BY <2>1, <2>2, <2>3, <2>4, PendingType, JobsNat DEF PicturesKept
  <2> QED
    BY <2>3, <2>5, <2>6, <2>7
<1>7. CASE WaitDeferredWork("paramAlloc", "openFailed2", "ended", "ended")
  <2>1. at = "openFailed2" /\ at' \in {"ended", "ended"}
    BY <1>7 DEF WaitDeferredWork
  <2>2. UNCHANGED <<ongoing, failed, queue, nextId, job, worker, channel, waiting, bound, broken>>
    BY <1>7 DEF WaitDeferredWork
  <2>3. DeferredTypeOK' /\ Ordered' /\ Backlog' /\ JobIds' /\ Pending' = Pending
    BY <2>1, <2>2, CallsStep DEF Place, DeferredTypeOK
  <2>4. \A w \in Pending : w.id > job["paramAlloc"]
    <3>1. "paramAlloc" \in Kind /\ ~CheckDeferredWork("paramAlloc")
      BY <1>7 DEF WaitDeferredWork, Kind, StreamTask, PictureJob
    <3> QED
      BY <3>1, Waited
  <2>5. Numbered'
    BY <2>1, <2>2 DEF Numbered, Ahead, DeferredTypeOK
  <2>6. StreamsKept'
    BY <2>1, <2>2, <2>3, <2>4, PendingType DEF StreamsKept, ChannelPlace, StreamTask, DeferredTypeOK
  <2>7. PicturesKept'
    BY <2>1, <2>2, <2>3, <2>4, PendingType, JobsNat DEF PicturesKept
  <2> QED
    BY <2>3, <2>5, <2>6, <2>7
<1> QED
  BY <1>1, <1>2, <1>3, <1>4, <1>5, <1>6, <1>7 DEF OpenCamera

LEMMA ParamInitKeeps == DeferredIInv /\ ParamInitWait => DeferredIInv'
<1> SUFFICES ASSUME DeferredIInv, ParamInitWait
             PROVE  DeferredIInv'
  OBVIOUS
<1> USE DEF DeferredIInv
<1>1. CASE Go("stopped", "paramWait")
  <2>1. at = "stopped" /\ at' = "paramWait"
    BY <1>1 DEF Go
  <2>2. UNCHANGED <<ongoing, failed, queue, nextId, job, worker, channel, waiting, bound, broken>>
    BY <1>1 DEF Go
  <2>3. DeferredTypeOK' /\ Ordered' /\ Backlog' /\ JobIds' /\ Pending' = Pending
    BY <2>1, <2>2, CallsStep DEF Place, DeferredTypeOK
  <2>5. Numbered'
    BY <2>1, <2>2 DEF Numbered, Ahead, DeferredTypeOK
  <2>6. StreamsKept'
    BY <2>1, <2>2, <2>3, PendingType DEF StreamsKept, ChannelPlace, StreamTask, DeferredTypeOK
  <2>7. PicturesKept'
    BY <2>1, <2>2, <2>3, PendingType, JobsNat DEF PicturesKept
  <2> QED
    BY <2>3, <2>5, <2>6, <2>7
<1>2. CASE WaitDeferredWork("paramInit", "paramWait", "ready", "stopped")
  <2>1. at = "paramWait" /\ at' \in {"ready", "stopped"}
    BY <1>2 DEF WaitDeferredWork
  <2>2. UNCHANGED <<ongoing, failed, queue, nextId, job, worker, channel, waiting, bound, broken>>
    BY <1>2 DEF WaitDeferredWork
  <2>3. DeferredTypeOK' /\ Ordered' /\ Backlog' /\ JobIds' /\ Pending' = Pending
    BY <2>1, <2>2, CallsStep DEF Place, DeferredTypeOK
  <2>4. \A w \in Pending : w.id > job["paramInit"]
    <3>1. "paramInit" \in Kind /\ ~CheckDeferredWork("paramInit")
      BY <1>2 DEF WaitDeferredWork, Kind, StreamTask, PictureJob
    <3> QED
      BY <3>1, Waited
  <2>5. Numbered'
    BY <2>1, <2>2 DEF Numbered, Ahead, DeferredTypeOK
  <2>6. StreamsKept'
    BY <2>1, <2>2, <2>3, <2>4, PendingType DEF StreamsKept, ChannelPlace, StreamTask, DeferredTypeOK
  <2>7. PicturesKept'
    BY <2>1, <2>2, <2>3, <2>4, PendingType, JobsNat DEF PicturesKept
  <2> QED
    BY <2>3, <2>5, <2>6, <2>7
<1> QED
  BY <1>1, <1>2 DEF ParamInitWait

LEMMA CloseKeeps == DeferredIInv /\ CloseCamera => DeferredIInv'
<1> SUFFICES ASSUME DeferredIInv, CloseCamera
             PROVE  DeferredIInv'
  OBVIOUS
<1> USE DEF DeferredIInv
<1>1. CASE Go("stopped", "exit")
  <2>1. at = "stopped" /\ at' = "exit"
    BY <1>1 DEF Go
  <2>2. UNCHANGED <<ongoing, failed, queue, nextId, job, worker, channel, waiting, bound, broken>>
    BY <1>1 DEF Go
  <2>3. DeferredTypeOK' /\ Ordered' /\ Backlog' /\ JobIds' /\ Pending' = Pending
    BY <2>1, <2>2, CallsStep DEF Place, DeferredTypeOK
  <2>5. Numbered'
    BY <2>1, <2>2 DEF Numbered, Ahead, DeferredTypeOK
  <2>6. StreamsKept'
    BY <2>1, <2>2, <2>3, PendingType DEF StreamsKept, ChannelPlace, StreamTask, DeferredTypeOK
  <2>7. PicturesKept'
    BY <2>1, <2>2, <2>3, PendingType, JobsNat DEF PicturesKept
  <2> QED
    BY <2>3, <2>5, <2>6, <2>7
<1>2. CASE Go("ready", "exit")
  <2>1. at = "ready" /\ at' = "exit"
    BY <1>2 DEF Go
  <2>2. UNCHANGED <<ongoing, failed, queue, nextId, job, worker, channel, waiting, bound, broken>>
    BY <1>2 DEF Go
  <2>3. DeferredTypeOK' /\ Ordered' /\ Backlog' /\ JobIds' /\ Pending' = Pending
    BY <2>1, <2>2, CallsStep DEF Place, DeferredTypeOK
  <2>5. Numbered'
    BY <2>1, <2>2 DEF Numbered, Ahead, DeferredTypeOK
  <2>6. StreamsKept'
    BY <2>1, <2>2, <2>3, PendingType DEF StreamsKept, ChannelPlace, StreamTask, DeferredTypeOK
  <2>7. PicturesKept'
    BY <2>1, <2>2, <2>3, PendingType, JobsNat DEF PicturesKept
  <2> QED
    BY <2>3, <2>5, <2>6, <2>7
<1>3. CASE /\ at = "exit" /\ worker.at = "idle" /\ at' = "close"
           /\ worker' = [worker EXCEPT !.at = "exit"]
           /\ UNCHANGED <<ongoing, failed, queue, nextId, job, channel, waiting, bound, broken>>
  <2>1. worker'.at = "exit"
    BY <1>3 DEF DeferredTypeOK
  <2>2. Pending' = Pending
    BY <1>3, <2>1 DEF Pending, InQueue, Occupied
  <2>3. DeferredTypeOK'
    BY <1>3 DEF DeferredTypeOK, Place
  <2>4. Ordered'
    BY <1>3, <2>1 DEF Ordered, Occupied
  <2>5. Backlog' /\ JobIds'
    BY <1>3, <2>2 DEF Backlog, JobIds
  <2>6. Numbered'
    BY <1>3 DEF Numbered, Ahead
  <2>7. StreamsKept' /\ PicturesKept'
    BY <1>3, <2>2 DEF StreamsKept, PicturesKept, ChannelPlace
  <2> QED
    BY <2>3, <2>4, <2>5, <2>6, <2>7
<1>4. CASE WaitDeferredWork("pprocStart", "close", "close2", "close2")
  <2>1. at = "close" /\ at' \in {"close2", "close2"}
    BY <1>4 DEF WaitDeferredWork
  <2>2. UNCHANGED <<ongoing, failed, queue, nextId, job, worker, channel, waiting, bound, broken>>
    BY <1>4 DEF WaitDeferredWork
  <2>3. DeferredTypeOK' /\ Ordered' /\ Backlog' /\ JobIds' /\ Pending' = Pending
    BY <2>1, <2>2, CallsStep DEF Place, DeferredTypeOK
  <2>4. \A w \in Pending : w.id > job["pprocStart"]
    <3>1. "pprocStart" \in Kind /\ ~CheckDeferredWork("pprocStart")
      BY <1>4 DEF WaitDeferredWork, Kind, StreamTask, PictureJob
    <3> QED
      BY <3>1, Waited
  <2>5. Numbered'
    BY <2>1, <2>2 DEF Numbered, Ahead, DeferredTypeOK
  <2>6. StreamsKept'
    BY <2>1, <2>2, <2>3, <2>4, PendingType DEF StreamsKept, ChannelPlace, StreamTask, DeferredTypeOK
  <2>7. PicturesKept'
    BY <2>1, <2>2, <2>3, <2>4, PendingType, JobsNat DEF PicturesKept
  <2> QED
    BY <2>3, <2>5, <2>6, <2>7
<1>5. CASE WaitDeferredWork("jpegSession", "close2", "deinit", "deinit")
  <2>1. at = "close2" /\ at' \in {"deinit", "deinit"}
    BY <1>5 DEF WaitDeferredWork
  <2>2. UNCHANGED <<ongoing, failed, queue, nextId, job, worker, channel, waiting, bound, broken>>
    BY <1>5 DEF WaitDeferredWork
  <2>3. DeferredTypeOK' /\ Ordered' /\ Backlog' /\ JobIds' /\ Pending' = Pending
    BY <2>1, <2>2, CallsStep DEF Place, DeferredTypeOK
  <2>4. \A w \in Pending : w.id > job["jpegSession"]
    <3>1. "jpegSession" \in Kind /\ ~CheckDeferredWork("jpegSession")
      BY <1>5 DEF WaitDeferredWork, Kind, StreamTask, PictureJob
    <3> QED
      BY <3>1, Waited
  <2>5. Numbered'
    BY <2>1, <2>2 DEF Numbered, Ahead, DeferredTypeOK
  <2>6. StreamsKept'
    BY <2>1, <2>2, <2>3, <2>4, PendingType DEF StreamsKept, ChannelPlace, StreamTask, DeferredTypeOK
  <2>7. PicturesKept'
    BY <2>1, <2>2, <2>3, <2>4, PendingType, JobsNat DEF PicturesKept
  <2> QED
    BY <2>3, <2>5, <2>6, <2>7
<1>6. CASE Go("deinit", "ended")
  <2>1. at = "deinit" /\ at' = "ended"
    BY <1>6 DEF Go
  <2>2. UNCHANGED <<ongoing, failed, queue, nextId, job, worker, channel, waiting, bound, broken>>
    BY <1>6 DEF Go
  <2>3. DeferredTypeOK' /\ Ordered' /\ Backlog' /\ JobIds' /\ Pending' = Pending
    BY <2>1, <2>2, CallsStep DEF Place, DeferredTypeOK
  <2>5. Numbered'
    BY <2>1, <2>2 DEF Numbered, Ahead, DeferredTypeOK
  <2>6. StreamsKept'
    BY <2>1, <2>2, <2>3, PendingType DEF StreamsKept, ChannelPlace, StreamTask, DeferredTypeOK
  <2>7. PicturesKept'
    BY <2>1, <2>2, <2>3, PendingType, JobsNat DEF PicturesKept
  <2> QED
    BY <2>3, <2>5, <2>6, <2>7
<1> QED
  BY <1>1, <1>2, <1>3, <1>4, <1>5, <1>6 DEF CloseCamera

LEMMA StartKeeps == DeferredIInv /\ StartPreviewJobs => DeferredIInv'
<1> SUFFICES ASSUME DeferredIInv, StartPreviewJobs
             PROVE  DeferredIInv'
  OBVIOUS
<1> USE DEF DeferredIInv
<1>1. CASE /\ QueueDeferredWork("alloc", bound.previews + 1, "ready", "mapTask", "stopStreams")
           /\ bound.previews < MaxPreviews
           /\ channel' = bound.previews + 1
           /\ bound' = [bound EXCEPT !.previews = @ + 1]
  <2>1. at = "ready" /\ bound \in [previews : 0..MaxPreviews, pictures : 0..MaxPictures, faults : 0..MaxFaults]
    BY <1>1 DEF QueueDeferredWork, DeferredTypeOK
  <2>2. /\ channel' \in 0..MaxPreviews /\ bound.previews + 1 \in 0..MaxPreviews
        /\ bound' \in [previews : 0..MaxPreviews, pictures : 0..MaxPictures, faults : 0..MaxFaults]
    BY <1>1, DeferredAssumption DEF Keep, DeferredTypeOK
  <2>3. nextId + Ahead <= 4 + 3 * bound.previews + 2 * bound.pictures /\ nextId \in Nat /\ nextId # 0
    BY DEF Numbered, DeferredTypeOK
  <2>4. nextId < 4 + 3 * bound'.previews + 2 * bound'.pictures
    BY <1>1, <2>1, <2>3 DEF Ahead, Keep
  <2>5. "alloc" \in Kind /\ "mapTask" \in Place /\ "stopStreams" \in Place
    BY DEF Kind, StreamTask, PictureJob, Place
  <2>6. /\ DeferredTypeOK' /\ Ordered' /\ Backlog' /\ JobIds'
        /\ \A w \in Pending : w.id < nextId
        /\ \/ /\ at' = "mapTask" /\ nextId' = nextId + 1
              /\ job' = [job EXCEPT !["alloc"] = nextId]
              /\ Pending' = Pending \cup {[kind |-> "alloc", id |-> nextId, channel |-> bound.previews + 1]}
           \/ /\ at' = "stopStreams" /\ Pending' = Pending /\ nextId' = nextId
              /\ job' = [job EXCEPT !["alloc"] = 0]
    BY <1>1, <2>2, <2>4, <2>5, QueueStep
  <2>7. Numbered'
    BY <1>1, <2>1, <2>3, <2>6 DEF Numbered, Ahead, Keep
  <2>8. StreamsKept'
    BY <1>1, <2>1, <2>5, <2>6, PendingType DEF StreamsKept, ChannelPlace, StreamTask, Keep, DeferredTypeOK
  <2>9. PicturesKept'
    BY <1>1, <2>1, <2>3, <2>5, <2>6, PendingType, JobsNat DEF PicturesKept, PictureJob, DeferredTypeOK
  <2> QED
    BY <2>6, <2>7, <2>8, <2>9
<1>2. CASE /\ QueueDeferredWork("map", channel, "mapTask", "allocWait", "stopStreams")
           /\ Keep
  <2>1. at = "mapTask" /\ bound \in [previews : 0..MaxPreviews, pictures : 0..MaxPictures, faults : 0..MaxFaults]
    BY <1>2 DEF QueueDeferredWork, DeferredTypeOK
  <2>2. /\ channel' \in 0..MaxPreviews /\ channel \in 0..MaxPreviews
        /\ bound' \in [previews : 0..MaxPreviews, pictures : 0..MaxPictures, faults : 0..MaxFaults]
    BY <1>2, DeferredAssumption DEF Keep, DeferredTypeOK
  <2>3. nextId + Ahead <= 4 + 3 * bound.previews + 2 * bound.pictures /\ nextId \in Nat /\ nextId # 0
    BY DEF Numbered, DeferredTypeOK
  <2>4. nextId < 4 + 3 * bound'.previews + 2 * bound'.pictures
    BY <1>2, <2>1, <2>3 DEF Ahead, Keep
  <2>5. "map" \in Kind /\ "allocWait" \in Place /\ "stopStreams" \in Place
    BY DEF Kind, StreamTask, PictureJob, Place
  <2>6. /\ DeferredTypeOK' /\ Ordered' /\ Backlog' /\ JobIds'
        /\ \A w \in Pending : w.id < nextId
        /\ \/ /\ at' = "allocWait" /\ nextId' = nextId + 1
              /\ job' = [job EXCEPT !["map"] = nextId]
              /\ Pending' = Pending \cup {[kind |-> "map", id |-> nextId, channel |-> channel]}
           \/ /\ at' = "stopStreams" /\ Pending' = Pending /\ nextId' = nextId
              /\ job' = [job EXCEPT !["map"] = 0]
    BY <1>2, <2>2, <2>4, <2>5, QueueStep
  <2>7. Numbered'
    BY <1>2, <2>1, <2>3, <2>6 DEF Numbered, Ahead, Keep
  <2>8. StreamsKept'
    BY <1>2, <2>1, <2>5, <2>6, PendingType DEF StreamsKept, ChannelPlace, StreamTask, Keep, DeferredTypeOK
  <2>9. PicturesKept'
    BY <1>2, <2>1, <2>3, <2>5, <2>6, PendingType, JobsNat DEF PicturesKept, PictureJob, DeferredTypeOK
  <2> QED
    BY <2>6, <2>7, <2>8, <2>9
<1>3. CASE WaitDeferredWork("alloc", "allocWait", "preview", "stopStreams")
  <2>1. at = "allocWait" /\ at' \in {"preview", "stopStreams"}
    BY <1>3 DEF WaitDeferredWork
  <2>2. UNCHANGED <<ongoing, failed, queue, nextId, job, worker, channel, waiting, bound, broken>>
    BY <1>3 DEF WaitDeferredWork
  <2>3. DeferredTypeOK' /\ Ordered' /\ Backlog' /\ JobIds' /\ Pending' = Pending
    BY <2>1, <2>2, CallsStep DEF Place, DeferredTypeOK
  <2>4. \A w \in Pending : w.id > job["alloc"]
    <3>1. "alloc" \in Kind /\ ~CheckDeferredWork("alloc")
      BY <1>3 DEF WaitDeferredWork, Kind, StreamTask, PictureJob
    <3> QED
      BY <3>1, Waited
  <2>5. Numbered'
    BY <2>1, <2>2 DEF Numbered, Ahead, DeferredTypeOK
  <2>6. StreamsKept'
    BY <2>1, <2>2, <2>3, <2>4, PendingType DEF StreamsKept, ChannelPlace, StreamTask, DeferredTypeOK
  <2>7. PicturesKept'
    BY <2>1, <2>2, <2>3, <2>4, PendingType, JobsNat DEF PicturesKept
  <2> QED
    BY <2>3, <2>5, <2>6, <2>7
<1>4. CASE /\ QueueDeferredWork("pprocInit", 0, "allocWait", "preview", "stopStreams")
           /\ Keep
  <2>1. at = "allocWait" /\ bound \in [previews : 0..MaxPreviews, pictures : 0..MaxPictures, faults : 0..MaxFaults]
    BY <1>4 DEF QueueDeferredWork, DeferredTypeOK
  <2>2. /\ channel' \in 0..MaxPreviews /\ 0 \in 0..MaxPreviews
        /\ bound' \in [previews : 0..MaxPreviews, pictures : 0..MaxPictures, faults : 0..MaxFaults]
    BY <1>4, DeferredAssumption DEF Keep, DeferredTypeOK
  <2>3. nextId + Ahead <= 4 + 3 * bound.previews + 2 * bound.pictures /\ nextId \in Nat /\ nextId # 0
    BY DEF Numbered, DeferredTypeOK
  <2>4. nextId < 4 + 3 * bound'.previews + 2 * bound'.pictures
    BY <1>4, <2>1, <2>3 DEF Ahead, Keep
  <2>5. "pprocInit" \in Kind /\ "preview" \in Place /\ "stopStreams" \in Place
    BY DEF Kind, StreamTask, PictureJob, Place
  <2>6. /\ DeferredTypeOK' /\ Ordered' /\ Backlog' /\ JobIds'
        /\ \A w \in Pending : w.id < nextId
        /\ \/ /\ at' = "preview" /\ nextId' = nextId + 1
              /\ job' = [job EXCEPT !["pprocInit"] = nextId]
              /\ Pending' = Pending \cup {[kind |-> "pprocInit", id |-> nextId, channel |-> 0]}
           \/ /\ at' = "stopStreams" /\ Pending' = Pending /\ nextId' = nextId
              /\ job' = [job EXCEPT !["pprocInit"] = 0]
    BY <1>4, <2>2, <2>4, <2>5, QueueStep
  <2>7. Numbered'
    BY <1>4, <2>1, <2>3, <2>6 DEF Numbered, Ahead, Keep
  <2>8. StreamsKept'
    BY <1>4, <2>1, <2>5, <2>6, PendingType DEF StreamsKept, ChannelPlace, StreamTask, Keep, DeferredTypeOK
  <2>9. PicturesKept'
    BY <1>4, <2>1, <2>3, <2>5, <2>6, PendingType, JobsNat DEF PicturesKept, PictureJob, DeferredTypeOK
  <2> QED
    BY <2>6, <2>7, <2>8, <2>9
<1> QED
  BY <1>1, <1>2, <1>3, <1>4 DEF StartPreviewJobs

LEMMA StopKeeps == DeferredIInv /\ StopPreviewJobs => DeferredIInv'
<1> SUFFICES ASSUME DeferredIInv, StopPreviewJobs
             PROVE  DeferredIInv'
  OBVIOUS
<1> USE DEF DeferredIInv
<1>1. CASE Go("preview", "stopStreams")
  <2>1. at = "preview" /\ at' = "stopStreams"
    BY <1>1 DEF Go
  <2>2. UNCHANGED <<ongoing, failed, queue, nextId, job, worker, channel, waiting, bound, broken>>
    BY <1>1 DEF Go
  <2>3. DeferredTypeOK' /\ Ordered' /\ Backlog' /\ JobIds' /\ Pending' = Pending
    BY <2>1, <2>2, CallsStep DEF Place, DeferredTypeOK
  <2>5. Numbered'
    BY <2>1, <2>2 DEF Numbered, Ahead, DeferredTypeOK
  <2>6. StreamsKept'
    BY <2>1, <2>2, <2>3, PendingType DEF StreamsKept, ChannelPlace, StreamTask, DeferredTypeOK
  <2>7. PicturesKept'
    BY <2>1, <2>2, <2>3, PendingType, JobsNat DEF PicturesKept
  <2> QED
    BY <2>3, <2>5, <2>6, <2>7
<1>2. CASE WaitDeferredWork("alloc", "stopStreams", "mapWait", "mapWait")
  <2>1. at = "stopStreams" /\ at' \in {"mapWait", "mapWait"}
    BY <1>2 DEF WaitDeferredWork
  <2>2. UNCHANGED <<ongoing, failed, queue, nextId, job, worker, channel, waiting, bound, broken>>
    BY <1>2 DEF WaitDeferredWork
  <2>3. DeferredTypeOK' /\ Ordered' /\ Backlog' /\ JobIds' /\ Pending' = Pending
    BY <2>1, <2>2, CallsStep DEF Place, DeferredTypeOK
  <2>4. \A w \in Pending : w.id > job["alloc"]
    <3>1. "alloc" \in Kind /\ ~CheckDeferredWork("alloc")
      BY <1>2 DEF WaitDeferredWork, Kind, StreamTask, PictureJob
    <3> QED
      BY <3>1, Waited
  <2>5. Numbered'
    BY <2>1, <2>2 DEF Numbered, Ahead, DeferredTypeOK
  <2>6. StreamsKept'
    BY <2>1, <2>2, <2>3, <2>4, PendingType DEF StreamsKept, ChannelPlace, StreamTask, DeferredTypeOK
  <2>7. PicturesKept'
    BY <2>1, <2>2, <2>3, <2>4, PendingType, JobsNat DEF PicturesKept
  <2> QED
    BY <2>3, <2>5, <2>6, <2>7
<1>3. CASE WaitDeferredWork("map", "mapWait", "delete", "delete")
  <2>1. at = "mapWait" /\ at' \in {"delete", "delete"}
    BY <1>3 DEF WaitDeferredWork
  <2>2. UNCHANGED <<ongoing, failed, queue, nextId, job, worker, channel, waiting, bound, broken>>
    BY <1>3 DEF WaitDeferredWork
  <2>3. DeferredTypeOK' /\ Ordered' /\ Backlog' /\ JobIds' /\ Pending' = Pending
    BY <2>1, <2>2, CallsStep DEF Place, DeferredTypeOK
  <2>4. \A w \in Pending : w.id > job["map"]
    <3>1. "map" \in Kind /\ ~CheckDeferredWork("map")
      BY <1>3 DEF WaitDeferredWork, Kind, StreamTask, PictureJob
    <3> QED
      BY <3>1, Waited
  <2>5. Numbered'
    BY <2>1, <2>2 DEF Numbered, Ahead, DeferredTypeOK
  <2>6. StreamsKept'
    BY <2>1, <2>2, <2>3, <2>4, PendingType DEF StreamsKept, ChannelPlace, StreamTask, DeferredTypeOK
  <2>7. PicturesKept'
    BY <2>1, <2>2, <2>3, <2>4, PendingType, JobsNat DEF PicturesKept
  <2> QED
    BY <2>3, <2>5, <2>6, <2>7
<1>4. CASE /\ at = "delete" /\ "frame" \notin waiting /\ at' = "ready" /\ channel' = 0
           /\ UNCHANGED <<ongoing, failed, queue, nextId, job, worker, waiting, bound, broken>>
  <2>1. DeferredTypeOK' /\ Ordered' /\ Backlog' /\ JobIds' /\ Pending' = Pending
    BY <1>4, CallsStep, DeferredAssumption DEF Place, DeferredTypeOK
  <2>2. Numbered'
    BY <1>4 DEF Numbered, Ahead
  <2>3. StreamsKept' /\ PicturesKept'
    BY <1>4, <2>1 DEF StreamsKept, PicturesKept, ChannelPlace
  <2> QED
    BY <2>1, <2>2, <2>3
<1> QED
  BY <1>1, <1>2, <1>3, <1>4 DEF StopPreviewJobs

LEMMA TakeKeeps == DeferredIInv /\ TakePictureJobs => DeferredIInv'
<1> SUFFICES ASSUME DeferredIInv, TakePictureJobs
             PROVE  DeferredIInv'
  OBVIOUS
<1> USE DEF DeferredIInv
<1>1. CASE /\ QueueDeferredWork("pprocStart", channel, "preview", "jpegJob", "preview")
           /\ bound.pictures < MaxPictures
           /\ bound' = [bound EXCEPT !.pictures = @ + 1]
           /\ UNCHANGED channel
  <2>1. at = "preview" /\ bound \in [previews : 0..MaxPreviews, pictures : 0..MaxPictures, faults : 0..MaxFaults]
    BY <1>1 DEF QueueDeferredWork, DeferredTypeOK
  <2>2. /\ channel' \in 0..MaxPreviews /\ channel \in 0..MaxPreviews
        /\ bound' \in [previews : 0..MaxPreviews, pictures : 0..MaxPictures, faults : 0..MaxFaults]
    BY <1>1, DeferredAssumption DEF Keep, DeferredTypeOK
  <2>3. nextId + Ahead <= 4 + 3 * bound.previews + 2 * bound.pictures /\ nextId \in Nat /\ nextId # 0
    BY DEF Numbered, DeferredTypeOK
  <2>4. nextId < 4 + 3 * bound'.previews + 2 * bound'.pictures
    BY <1>1, <2>1, <2>3 DEF Ahead, Keep
  <2>5. "pprocStart" \in Kind /\ "jpegJob" \in Place /\ "preview" \in Place
    BY DEF Kind, StreamTask, PictureJob, Place
  <2>6. /\ DeferredTypeOK' /\ Ordered' /\ Backlog' /\ JobIds'
        /\ \A w \in Pending : w.id < nextId
        /\ \/ /\ at' = "jpegJob" /\ nextId' = nextId + 1
              /\ job' = [job EXCEPT !["pprocStart"] = nextId]
              /\ Pending' = Pending \cup {[kind |-> "pprocStart", id |-> nextId, channel |-> channel]}
           \/ /\ at' = "preview" /\ Pending' = Pending /\ nextId' = nextId
              /\ job' = [job EXCEPT !["pprocStart"] = 0]
    BY <1>1, <2>2, <2>4, <2>5, QueueStep
  <2>7. Numbered'
    BY <1>1, <2>1, <2>3, <2>6 DEF Numbered, Ahead, Keep
  <2>8. StreamsKept'
    BY <1>1, <2>1, <2>5, <2>6, PendingType DEF StreamsKept, ChannelPlace, StreamTask, Keep, DeferredTypeOK
  <2>9. PicturesKept'
    <3>1. \A w \in Pending' : w.id <= nextId
      BY <2>3, <2>6, PendingType
    <3>2. at' = "jpegJob" => job'["pprocStart"] = nextId
      BY <2>5, <2>6 DEF DeferredTypeOK
    <3>3. at' = "jpegJob" => PicturesKept'
      BY <3>1, <3>2 DEF PicturesKept
    <3>4. CASE at' = "preview"
      BY <3>4 DEF PicturesKept
    <3> QED
      BY <3>3, <3>4, <2>6
  <2> QED
    BY <2>6, <2>7, <2>8, <2>9
<1>2. CASE /\ QueueDeferredWork("jpegSession", channel, "jpegJob", "request", "queueFull")
           /\ Keep
  <2>1. at = "jpegJob" /\ bound \in [previews : 0..MaxPreviews, pictures : 0..MaxPictures, faults : 0..MaxFaults]
    BY <1>2 DEF QueueDeferredWork, DeferredTypeOK
  <2>2. /\ channel' \in 0..MaxPreviews /\ channel \in 0..MaxPreviews
        /\ bound' \in [previews : 0..MaxPreviews, pictures : 0..MaxPictures, faults : 0..MaxFaults]
    BY <1>2, DeferredAssumption DEF Keep, DeferredTypeOK
  <2>3. nextId + Ahead <= 4 + 3 * bound.previews + 2 * bound.pictures /\ nextId \in Nat /\ nextId # 0
    BY DEF Numbered, DeferredTypeOK
  <2>4. nextId < 4 + 3 * bound'.previews + 2 * bound'.pictures
    BY <1>2, <2>1, <2>3 DEF Ahead, Keep
  <2>5. "jpegSession" \in Kind /\ "request" \in Place /\ "queueFull" \in Place
    BY DEF Kind, StreamTask, PictureJob, Place
  <2>6. /\ DeferredTypeOK' /\ Ordered' /\ Backlog' /\ JobIds'
        /\ \A w \in Pending : w.id < nextId
        /\ \/ /\ at' = "request" /\ nextId' = nextId + 1
              /\ job' = [job EXCEPT !["jpegSession"] = nextId]
              /\ Pending' = Pending \cup {[kind |-> "jpegSession", id |-> nextId, channel |-> channel]}
           \/ /\ at' = "queueFull" /\ Pending' = Pending /\ nextId' = nextId
              /\ job' = [job EXCEPT !["jpegSession"] = 0]
    BY <1>2, <2>2, <2>4, <2>5, QueueStep
  <2>7. Numbered'
    BY <1>2, <2>1, <2>3, <2>6 DEF Numbered, Ahead, Keep
  <2>8. StreamsKept'
    BY <1>2, <2>1, <2>5, <2>6, PendingType DEF StreamsKept, ChannelPlace, StreamTask, Keep, DeferredTypeOK
  <2>9. PicturesKept'
    <3>1. \A w \in Pending' : w.id <= nextId
      BY <2>3, <2>6, PendingType
    <3>2. at' = "request" => job'["jpegSession"] = nextId
      BY <2>5, <2>6 DEF DeferredTypeOK
    <3>3. at' = "request" => PicturesKept'
      BY <3>1, <3>2 DEF PicturesKept
    <3>4. CASE at' = "queueFull"
      <4>1. Pending' = Pending /\ job' = [job EXCEPT !["jpegSession"] = 0]
        BY <2>6, <3>4
      <4>2. job'["pprocStart"] = job["pprocStart"]
        BY <4>1, JobsNat DEF DeferredTypeOK
      <4> QED
        BY <2>1, <3>4, <4>1, <4>2 DEF PicturesKept
    <3> QED
      BY <3>3, <3>4, <2>6
  <2> QED
    BY <2>6, <2>7, <2>8, <2>9
<1>3. CASE WaitDeferredWork("pprocStart", "queueFull", "stopPostproc", "stopPostproc")
  <2>1. at = "queueFull" /\ at' \in {"stopPostproc", "stopPostproc"}
    BY <1>3 DEF WaitDeferredWork
  <2>2. UNCHANGED <<ongoing, failed, queue, nextId, job, worker, channel, waiting, bound, broken>>
    BY <1>3 DEF WaitDeferredWork
  <2>3. DeferredTypeOK' /\ Ordered' /\ Backlog' /\ JobIds' /\ Pending' = Pending
    BY <2>1, <2>2, CallsStep DEF Place, DeferredTypeOK
  <2>4. \A w \in Pending : w.id > job["pprocStart"]
    <3>1. "pprocStart" \in Kind /\ ~CheckDeferredWork("pprocStart")
      BY <1>3 DEF WaitDeferredWork, Kind, StreamTask, PictureJob
    <3> QED
      BY <3>1, Waited
  <2>5. Numbered'
    BY <2>1, <2>2 DEF Numbered, Ahead, DeferredTypeOK
  <2>6. StreamsKept'
    BY <2>1, <2>2, <2>3, <2>4, PendingType DEF StreamsKept, ChannelPlace, StreamTask, DeferredTypeOK
  <2>7. PicturesKept'
    BY <2>1, <2>2, <2>3, <2>4, PendingType, JobsNat DEF PicturesKept
  <2> QED
    BY <2>3, <2>5, <2>6, <2>7
<1>4. CASE \E outcome \in {"picture", "refused", "preview"} : Go("request", outcome)
  <2>1. at = "request" /\ at' \in {"picture", "refused", "preview"}
    BY <1>4 DEF Go
  <2>2. UNCHANGED <<ongoing, failed, queue, nextId, job, worker, channel, waiting, bound, broken>>
    BY <1>4 DEF Go
  <2>3. DeferredTypeOK' /\ Ordered' /\ Backlog' /\ JobIds' /\ Pending' = Pending
    BY <2>1, <2>2, CallsStep DEF Place, DeferredTypeOK
  <2>5. Numbered'
    BY <2>1, <2>2 DEF Numbered, Ahead, DeferredTypeOK
  <2>6. StreamsKept'
    BY <2>1, <2>2, <2>3, PendingType DEF StreamsKept, ChannelPlace, StreamTask, DeferredTypeOK
  <2>7. PicturesKept'
    BY <2>1, <2>2, <2>3, PendingType, JobsNat DEF PicturesKept
  <2> QED
    BY <2>3, <2>5, <2>6, <2>7
<1>5. CASE WaitDeferredWork("pprocStart", "refused", "refused2", "preview")
  <2>1. at = "refused" /\ at' \in {"refused2", "preview"}
    BY <1>5 DEF WaitDeferredWork
  <2>2. UNCHANGED <<ongoing, failed, queue, nextId, job, worker, channel, waiting, bound, broken>>
    BY <1>5 DEF WaitDeferredWork
  <2>3. DeferredTypeOK' /\ Ordered' /\ Backlog' /\ JobIds' /\ Pending' = Pending
    BY <2>1, <2>2, CallsStep DEF Place, DeferredTypeOK
  <2>4. \A w \in Pending : w.id > job["pprocStart"]
    <3>1. "pprocStart" \in Kind /\ ~CheckDeferredWork("pprocStart")
      BY <1>5 DEF WaitDeferredWork, Kind, StreamTask, PictureJob
    <3> QED
      BY <3>1, Waited
  <2>5. Numbered'
    BY <2>1, <2>2 DEF Numbered, Ahead, DeferredTypeOK
  <2>6. StreamsKept'
    BY <2>1, <2>2, <2>3, <2>4, PendingType DEF StreamsKept, ChannelPlace, StreamTask, DeferredTypeOK
  <2>7. PicturesKept'
    BY <2>1, <2>2, <2>3, <2>4, PendingType, JobsNat DEF PicturesKept
  <2> QED
    BY <2>3, <2>5, <2>6, <2>7
<1>6. CASE WaitDeferredWork("jpegSession", "refused2", "stopPostproc", "preview")
  <2>1. at = "refused2" /\ at' \in {"stopPostproc", "preview"}
    BY <1>6 DEF WaitDeferredWork
  <2>2. UNCHANGED <<ongoing, failed, queue, nextId, job, worker, channel, waiting, bound, broken>>
    BY <1>6 DEF WaitDeferredWork
  <2>3. DeferredTypeOK' /\ Ordered' /\ Backlog' /\ JobIds' /\ Pending' = Pending
    BY <2>1, <2>2, CallsStep DEF Place, DeferredTypeOK
  <2>4. \A w \in Pending : w.id > job["jpegSession"]
    <3>1. "jpegSession" \in Kind /\ ~CheckDeferredWork("jpegSession")
      BY <1>6 DEF WaitDeferredWork, Kind, StreamTask, PictureJob
    <3> QED
      BY <3>1, Waited
  <2>5. Numbered'
    BY <2>1, <2>2 DEF Numbered, Ahead, DeferredTypeOK
  <2>6. StreamsKept'
    BY <2>1, <2>2, <2>3, <2>4, PendingType DEF StreamsKept, ChannelPlace, StreamTask, DeferredTypeOK
  <2>7. PicturesKept'
    BY <2>1, <2>2, <2>3, <2>4, PendingType, JobsNat DEF PicturesKept
  <2> QED
    BY <2>3, <2>5, <2>6, <2>7
<1> QED
  BY <1>1, <1>2, <1>3, <1>4, <1>5, <1>6 DEF TakePictureJobs

LEMMA CancelKeeps == DeferredIInv /\ CancelPictureJobs => DeferredIInv'
<1> SUFFICES ASSUME DeferredIInv, CancelPictureJobs
             PROVE  DeferredIInv'
  OBVIOUS
<1> USE DEF DeferredIInv
<1>1. CASE Go("picture", "cancel")
  <2>1. at = "picture" /\ at' = "cancel"
    BY <1>1 DEF Go
  <2>2. UNCHANGED <<ongoing, failed, queue, nextId, job, worker, channel, waiting, bound, broken>>
    BY <1>1 DEF Go
  <2>3. DeferredTypeOK' /\ Ordered' /\ Backlog' /\ JobIds' /\ Pending' = Pending
    BY <2>1, <2>2, CallsStep DEF Place, DeferredTypeOK
  <2>5. Numbered'
    BY <2>1, <2>2 DEF Numbered, Ahead, DeferredTypeOK
  <2>6. StreamsKept'
    BY <2>1, <2>2, <2>3, PendingType DEF StreamsKept, ChannelPlace, StreamTask, DeferredTypeOK
  <2>7. PicturesKept'
    BY <2>1, <2>2, <2>3, PendingType, JobsNat DEF PicturesKept
  <2> QED
    BY <2>3, <2>5, <2>6, <2>7
<1>2. CASE WaitDeferredWork("pprocStart", "cancel", "cancel2", "cancel2")
  <2>1. at = "cancel" /\ at' \in {"cancel2", "cancel2"}
    BY <1>2 DEF WaitDeferredWork
  <2>2. UNCHANGED <<ongoing, failed, queue, nextId, job, worker, channel, waiting, bound, broken>>
    BY <1>2 DEF WaitDeferredWork
  <2>3. DeferredTypeOK' /\ Ordered' /\ Backlog' /\ JobIds' /\ Pending' = Pending
    BY <2>1, <2>2, CallsStep DEF Place, DeferredTypeOK
  <2>4. \A w \in Pending : w.id > job["pprocStart"]
    <3>1. "pprocStart" \in Kind /\ ~CheckDeferredWork("pprocStart")
      BY <1>2 DEF WaitDeferredWork, Kind, StreamTask, PictureJob
    <3> QED
      BY <3>1, Waited
  <2>5. Numbered'
    BY <2>1, <2>2 DEF Numbered, Ahead, DeferredTypeOK
  <2>6. StreamsKept'
    BY <2>1, <2>2, <2>3, <2>4, PendingType DEF StreamsKept, ChannelPlace, StreamTask, DeferredTypeOK
  <2>7. PicturesKept'
    BY <2>1, <2>2, <2>3, <2>4, PendingType, JobsNat DEF PicturesKept
  <2> QED
    BY <2>3, <2>5, <2>6, <2>7
<1>3. CASE WaitDeferredWork("jpegSession", "cancel2", "stopPostproc", "stopPostproc")
  <2>1. at = "cancel2" /\ at' \in {"stopPostproc", "stopPostproc"}
    BY <1>3 DEF WaitDeferredWork
  <2>2. UNCHANGED <<ongoing, failed, queue, nextId, job, worker, channel, waiting, bound, broken>>
    BY <1>3 DEF WaitDeferredWork
  <2>3. DeferredTypeOK' /\ Ordered' /\ Backlog' /\ JobIds' /\ Pending' = Pending
    BY <2>1, <2>2, CallsStep DEF Place, DeferredTypeOK
  <2>4. \A w \in Pending : w.id > job["jpegSession"]
    <3>1. "jpegSession" \in Kind /\ ~CheckDeferredWork("jpegSession")
      BY <1>3 DEF WaitDeferredWork, Kind, StreamTask, PictureJob
    <3> QED
      BY <3>1, Waited
  <2>5. Numbered'
    BY <2>1, <2>2 DEF Numbered, Ahead, DeferredTypeOK
  <2>6. StreamsKept'
    BY <2>1, <2>2, <2>3, <2>4, PendingType DEF StreamsKept, ChannelPlace, StreamTask, DeferredTypeOK
  <2>7. PicturesKept'
    BY <2>1, <2>2, <2>3, <2>4, PendingType, JobsNat DEF PicturesKept
  <2> QED
    BY <2>3, <2>5, <2>6, <2>7
<1> QED
  BY <1>1, <1>2, <1>3 DEF CancelPictureJobs

LEMMA PostprocStopKeeps == DeferredIInv /\ PostprocStop => DeferredIInv'
<1> SUFFICES ASSUME DeferredIInv, PostprocStop
             PROVE  DeferredIInv'
  OBVIOUS
<1> USE DEF DeferredIInv
<1>1. CASE Go("stopPostproc", "preview")
  <2>1. at = "stopPostproc" /\ at' = "preview"
    BY <1>1 DEF Go
  <2>2. UNCHANGED <<ongoing, failed, queue, nextId, job, worker, channel, waiting, bound, broken>>
    BY <1>1 DEF Go
  <2>3. DeferredTypeOK' /\ Ordered' /\ Backlog' /\ JobIds' /\ Pending' = Pending
    BY <2>1, <2>2, CallsStep DEF Place, DeferredTypeOK
  <2>5. Numbered'
    BY <2>1, <2>2 DEF Numbered, Ahead, DeferredTypeOK
  <2>6. StreamsKept'
    BY <2>1, <2>2, <2>3, PendingType DEF StreamsKept, ChannelPlace, StreamTask, DeferredTypeOK
  <2>7. PicturesKept'
    BY <2>1, <2>2, <2>3, PendingType, JobsNat DEF PicturesKept
  <2> QED
    BY <2>3, <2>5, <2>6, <2>7
<1> QED
  BY <1>1 DEF PostprocStop

LEMMA CallbackKeeps == DeferredIInv /\ (ZslCallback \/ PostprocCallback) => DeferredIInv'
<1> SUFFICES ASSUME DeferredIInv, ZslCallback \/ PostprocCallback
             PROVE  DeferredIInv'
  OBVIOUS
<1> USE DEF DeferredIInv
<1>1. UNCHANGED <<ongoing, failed, queue, nextId, job, worker, at, channel, bound, broken>>
  BY DEF ZslCallback, PostprocCallback
<1>2. waiting' \subseteq {"frame", "reprocessed"}
  BY DEF ZslCallback, PostprocCallback, DeferredTypeOK
<1>3. DeferredTypeOK' /\ Ordered' /\ Backlog' /\ JobIds' /\ Pending' = Pending
  BY <1>1, <1>2, CallsStep DEF DeferredTypeOK
<1>4. Numbered'
  BY <1>1 DEF Numbered, Ahead
<1>5. StreamsKept' /\ PicturesKept'
  BY <1>1, <1>3 DEF StreamsKept, PicturesKept
<1> QED
  BY <1>3, <1>4, <1>5

LEMMA NextKeeps == DeferredIInv /\ [DeferredNext]_defVars => DeferredIInv'
<1> SUFFICES ASSUME DeferredIInv, [DeferredNext]_defVars
             PROVE  DeferredIInv'
  OBVIOUS
<1>1. CASE ServeJobs
  BY <1>1, OpenKeeps, ParamInitKeeps, CloseKeeps, StartKeeps, StopKeeps, TakeKeeps,
     CancelKeeps, PostprocStopKeeps DEF ServeJobs
<1>2. CASE UNCHANGED defVars
  <2>1. /\ UNCHANGED <<ongoing, failed, queue, nextId, job, worker, bound, broken>>
        /\ UNCHANGED <<at, channel, waiting>>
    BY <1>2 DEF defVars
  <2>2. DeferredTypeOK' /\ Ordered' /\ Backlog' /\ JobIds' /\ Pending' = Pending
    BY <2>1, CallsStep DEF DeferredIInv, DeferredTypeOK
  <2>3. Numbered'
    BY <2>1 DEF DeferredIInv, Numbered, Ahead
  <2>4. StreamsKept' /\ PicturesKept'
    BY <2>1, <2>2 DEF DeferredIInv, StreamsKept, PicturesKept
  <2> QED
    BY <2>2, <2>3, <2>4 DEF DeferredIInv
<1> QED
  BY <1>1, <1>2, NextJobKeeps, RunJobKeeps, DequeueKeeps, CallbackKeeps DEF DeferredNext

(* What the invariant is for: when the thread runs a stream's task it is one *)
(* of the channel that exists, and the postprocessor stops without a job.   *)
LEMMA InvariantDrains == DeferredIInv => JobsDrained
<1> SUFFICES ASSUME DeferredIInv
             PROVE  JobsDrained
  OBVIOUS
<1>1. worker.at = "run" => worker.work \in Pending
  BY DEF Pending, Occupied
<1>2. \A i \in 1..Len(queue) : queue[i] \in Pending
  BY DEF Pending, InQueue
<1> QED
  BY <1>1, <1>2 DEF DeferredIInv, StreamsKept, PicturesKept, JobsDrained

-----------------------------------------------------------------------------
(* The types, of the slots, the queue and the ids: no id is ever beyond     *)
(* what the previews and pictures so far can have queued.                  *)
THEOREM DeferredTypeCorrect == DeferredSpec => []DeferredTypeOK
<1>1. DeferredIInv => DeferredTypeOK
  BY DEF DeferredIInv
<1> QED
  BY <1>1, InitHolds, NextKeeps, PTL DEF DeferredSpec

(* No job loses what it uses: the tasks of a stream are over when it goes,  *)
(* and the postprocessor never stops under a job that starts it or opens    *)
(* its jpeg session, whichever jobs fail and however few slots there are.   *)
THEOREM JobsAlwaysDrained == DeferredSpec => []JobsDrained
BY InitHolds, NextKeeps, InvariantDrains, PTL DEF DeferredSpec
=============================================================================
