----------------------------- MODULE MCCapture -----------------------------
(* Two requests, live ones and ones that reprocess an input buffer. *)
EXTENDS CaptureRequests

CONSTANTS prev, snap

MCKinds ==
  {[input |-> FALSE, out |-> {prev}], [input |-> TRUE, out |-> {snap}]}
=============================================================================
