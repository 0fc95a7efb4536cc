----------------------------- MODULE MCDeferred -----------------------------
(* A small instance of DeferredWork for TLC, with a slot for every job. *)
EXTENDS DeferredWork
=============================================================================
