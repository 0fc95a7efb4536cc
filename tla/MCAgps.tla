------------------------------- MODULE MCAgps -------------------------------
(* The handles of the small instances of Agps that TLC checks; the NIFs    *)
(* and the bounds are in the .cfg files.                                   *)
EXTENDS Agps

CONSTANTS h1, h2
=============================================================================
