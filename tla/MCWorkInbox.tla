----------------------------- MODULE MCWorkInbox -----------------------------
(* Instance of WorkInbox for TLC: numbers only, the bounds are in the cfg.  *)
EXTENDS WorkInbox
=============================================================================
