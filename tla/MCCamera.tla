------------------------------ MODULE MCCamera ------------------------------
(***************************************************************************)
(* Small instances of the camera's state machine and of its deferred work   *)
(* thread in one run.  The state machine's module has the outcomes of the   *)
(* calls, the other the jobs behind them; they share nothing, so it is      *)
(* enough that one runs while the other is as it was made.                  *)
(***************************************************************************)
EXTENDS CameraStateMachine, DeferredWork

MCInit == Init /\ DeferredInit

MCNext ==
  \/ DeferredInit /\ Next /\ UNCHANGED defVars
  \/ Init /\ DeferredNext /\ UNCHANGED vars

(* What is fair of the one is disabled while it is new. *)
MCSpec == MCInit /\ [][MCNext]_<<vars, defVars>> /\ Fairness /\ DeferredFairness
=============================================================================
