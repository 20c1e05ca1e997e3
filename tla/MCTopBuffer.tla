----------------------------- MODULE MCTopBuffer -----------------------------
(* TopBuffer on a disk of four tracks.                                     *)
EXTENDS TopBuffer
=============================================================================
