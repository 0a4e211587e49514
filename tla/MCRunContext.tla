---------------------------- MODULE MCRunContext ----------------------------
(* Small instances of one Run's project context for TLC.                   *)
EXTENDS RunContext
=============================================================================
