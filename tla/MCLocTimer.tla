----------------------------- MODULE MCLocTimer -----------------------------
(* Small instances of LocTimer for TLC. *)
EXTENDS LocTimer

CONSTANTS t1, t2
=============================================================================
