---------------------------- MODULE MCEventSpool ----------------------------
(* EventSpool for TLC: the bounds are given in the .cfg files.             *)
EXTENDS EventSpool
=============================================================================
