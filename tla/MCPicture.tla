----------------------------- MODULE MCPicture -----------------------------
(* Pictures of all kinds that overlap. *)
EXTENDS PictureJobs
=============================================================================
