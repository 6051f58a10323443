---------------------------- MODULE MCServerLoop ----------------------------
(***************************************************************************)
(* What the uninitialised revents of connections[] may hold, for TLC.      *)
(***************************************************************************)
EXTENDS ServerLoop

AnyStack == {{}, {"IN", "HUP"}}
=============================================================================
