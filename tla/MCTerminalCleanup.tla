-------------------------- MODULE MCTerminalCleanup --------------------------
(* TerminalCleanup for TLC: the second Run resumes the first.              *)
EXTENDS TerminalCleanup
ResumesFirst == [r \in 1..2 |-> 1]
=============================================================================
