------------------------------ MODULE EventLog ------------------------------
(***************************************************************************)
(* What the transport of run events promises, for one Run and without      *)
(* saying how: the Node produces events 1, 2, 3, ...; the Hub persists     *)
(* each of them at most once; the Node discards its own copy only of a     *)
(* prefix that the Hub has persisted without a gap.                        *)
(* EventSpool implements this (EventSpool!Log).                            *)
(***************************************************************************)
EXTENDS Naturals

VARIABLES
    produced,   \* how many events the Node has produced
    persisted,  \* the set of sequence numbers in the Hub's run_event table
    discarded   \* the sequence numbers of which the Node keeps no copy

vars == <<produced, persisted, discarded>>

TypeOK ==
    /\ produced \in Nat
    /\ persisted \subseteq 1..produced
    /\ discarded \subseteq 1..produced

Init ==
    /\ produced = 0
    /\ persisted = {}
    /\ discarded = {}

Produce ==
    /\ produced' = produced + 1
    /\ UNCHANGED <<persisted, discarded>>

Persist ==
    /\ \E s \in 1..produced \ persisted : persisted' = persisted \union {s}
    /\ UNCHANGED <<produced, discarded>>

\* The Node may discard everything up to k once the Hub holds all of 1..k.
Discard ==
    /\ \E k \in 1..produced :
          /\ 1..k \subseteq persisted
          /\ discarded' = discarded \union 1..k
    /\ UNCHANGED <<produced, persisted>>

Next == Produce \/ Persist \/ Discard

Spec == Init /\ [][Next]_vars
=============================================================================
