----------------------------- MODULE MCRunLedger -----------------------------
(* RunLedger for TLC: the members of each set are interchangeable. A Run    *)
(* meets either overlapping workers, re-issued starts and two Approvals, or *)
(* a follow-up next to one of each: Workload keeps the two apart.           *)
EXTENDS RunLedger, Naturals, FiniteSets, TLC
Symmetry == Permutations(Approval) \union Permutations(Message)
            \union Permutations(Start) \union Permutations(Worker)
NoFollowup == messages = [m \in Message |-> "absent"] /\ revoked = {} /\ disabled = {}
OneOfEach ==
    /\ trigger = "absent"
    /\ Cardinality(overdue \union {a \in Approval : approvals[a] # "absent"}) <= 1
    /\ Cardinality({s \in Start : startRow[s] # "absent"}) <= 1
    /\ Cardinality({w \in Worker : hand[w] # Idle}) <= 1
Workload == NoFollowup' \/ OneOfEach'
=============================================================================
