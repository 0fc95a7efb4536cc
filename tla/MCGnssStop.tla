----------------------------- MODULE MCGnssStop -----------------------------
(***************************************************************************)
(* One client with one session of each kind, and an engine that never fails: *)
(* enough for a stop to meet another operation on the session.              *)
(***************************************************************************)
EXTENDS GnssTracking

CONSTANTS a

MCOwner == [s \in Session |-> a]

Opt(i, p, d) == [interval |-> i, power |-> p, distance |-> d]

MCOptions == {Opt(2, 2, TRUE)}
=============================================================================
