------------------------------ MODULE MCStack ------------------------------
(***************************************************************************)
(* Small instances of five parts of the camera in one run: one stream with  *)
(* two buffers, one ioctl failing; the bundle of a channel, of the metadata *)
(* and one image stream, with four buffers each and five frames, among them *)
(* two the metadata may single out; the requests of the camera HAL 3 for    *)
(* two streams; the jobs of its picture channel's postprocessor; and those  *)
(* of mm-jpeg-interface.  They share nothing but the calls each names of    *)
(* the others, so it is enough that one runs while the others are as they   *)
(* were made.                                                              *)
(***************************************************************************)
EXTENDS StreamBuffers, SuperbufQueue, CaptureRequests, PictureJobs, JpegJobs

CONSTANTS meta, prev, snap, s1, s2

Mode(b, c, l) == [bundled |-> b, hasCb |-> c, linkable |-> l]

(* Bundled, with a callback, with both, and linked from another channel:   *)
(* the streams other channels link are those of the preview channel, which *)
(* have callbacks and no bundle.                                           *)
MCModes ==
  {Mode(TRUE, FALSE, FALSE), Mode(FALSE, TRUE, FALSE), Mode(TRUE, TRUE, FALSE),
   Mode(FALSE, TRUE, TRUE)}

MCMode == CHOOSE m \in MCModes : m.linkable

(* A live request, and reprocess requests with one and with two outputs. *)
MCKinds ==
  {[input |-> FALSE, out |-> {prev, snap}], [input |-> TRUE, out |-> {snap}],
   [input |-> TRUE, out |-> {prev, snap}]}

StreamIsNew == mode = MCMode /\ budget.sessions = 0 /\ ~linked

BundleIsNew == last = NoFrame /\ issued = 0 /\ priority = "normal" /\ burst

CaptureIsNew == requests = << >> /\ faults.errors = 0

PicturesAreNew == pictures = << >> /\ ~reproc.exists

JpegIsNew == spent.creates = 0

(* Four of jobs, sessions and errors, or two sessions with three jobs or    *)
(* with two jobs and an error, while no client has aborted or destroyed.    *)
JpegBound ==
  \/ Len(jobs') + spent'.creates + spent'.errors <= 4
  \/ /\ Len(jobs') + spent'.creates + spent'.errors = 5 /\ spent'.creates = 2
     /\ withdrawn' = {} /\ call'.at \notin {"abort", "destroy"}

Init == StreamInit /\ SuperbufInit /\ CaptureInit /\ PictureInit /\ JpegInit

(* A linked stream is started once, the others twice.  A queue of normal    *)
(* priority gets two commands before the last frame, otherwise one is       *)
(* issued.  Three requests are taken when nothing fails, two otherwise.     *)
(* The other parts are explored without a reprocess channel, whose          *)
(* existence makes no difference to them.  The places of sessions are       *)
(* alike: the first session takes s1.                                      *)
Next ==
  \/ /\ BundleIsNew /\ CaptureIsNew /\ PicturesAreNew /\ JpegIsNew
     /\ StreamNext
     /\ UNCHANGED <<superbufVars, captureVars, pictureVars, jpegVars>>
     /\ mode.linkable => budget'.sessions < 2
  \/ /\ StreamIsNew /\ CaptureIsNew /\ PicturesAreNew /\ JpegIsNew
     /\ SuperbufNext
     /\ issued' = 2 =>
          priority = "normal" /\ \A s \in Streams : last'[s] < MaxFrame
     /\ UNCHANGED <<streamVars, captureVars, pictureVars, jpegVars>>
  \/ /\ StreamIsNew /\ BundleIsNew /\ PicturesAreNew /\ JpegIsNew
     /\ CaptureNext
     /\ UNCHANGED <<streamVars, superbufVars, pictureVars, jpegVars>>
     /\ Len(requests') = 3 => faults'.errors + faults'.failures = 0
  \/ /\ StreamIsNew /\ BundleIsNew /\ CaptureIsNew /\ JpegIsNew
     /\ PictureNext
     /\ UNCHANGED <<streamVars, superbufVars, captureVars, jpegVars>>
  \/ /\ StreamIsNew /\ BundleIsNew /\ CaptureIsNew /\ PicturesAreNew
     /\ JpegNext
     /\ UNCHANGED <<streamVars, superbufVars, captureVars, pictureVars>>
     /\ JpegBound
     /\ spent'.creates = 1 => ~session_j'[s2].active

Spec ==
  /\ Init
  /\ [][Next]_<<streamVars, superbufVars, captureVars, pictureVars, jpegVars>>
=============================================================================
