--------------------------- MODULE MCWorkDispatch ---------------------------
(* Small instances of one Work for TLC.                                    *)
EXTENDS WorkDispatch
=============================================================================
