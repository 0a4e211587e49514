---------------------------- MODULE RunLifecycle ----------------------------
(***************************************************************************)
(* What the Hub promises about one Run, as its clients see it: the states, *)
(* and the Approvals that are open. The state diagram of the domain model  *)
(* with the two rules that go with it: an event of the Node counts as the  *)
(* acceptance of the Run, and a conflict fails it.                         *)
(* RunLedger implements this (RunLedger!Lifecycle).                        *)
(***************************************************************************)
EXTENDS RunDomain

CONSTANT Approval

VARIABLES
    status,     \* the state of the Run
    open        \* the Approvals that wait for a decision

vars == <<status, open>>

TypeOK == status \in RunStatus /\ open \in SUBSET Approval

Init == status = "queued" /\ open = {}

\* A state as the Node sees it: whatever it reports, it has accepted the Run.
Accepted(from) == IF from = "queued" THEN "dispatching" ELSE from

\* An edge of the table, taken from the state itself or from the accepted one.
Edge(event, to) ==
    /\ status' = to
    /\ <<status, event, to>> \in RunNext \/ <<Accepted(status), event, to>> \in RunNext

\* A question is put: only to a Run that runs, and it waits from then on.
Ask == \E a \in Approval :
    /\ Edge("approval_opened", "waiting_approval")
    /\ open' = {a}

\* The last open question is answered and the Run goes on.
Answer ==
    /\ Edge("approval_closed", "running")
    /\ open' = {}

\* Progress that concerns no question.
Advance == \E event \in {"dispatch_acked", "runtime_ready"}, to \in {"dispatching", "running"} :
    /\ Edge(event, to)
    /\ UNCHANGED open

\* A cancellation withdraws what is open.
RequestCancel ==
    /\ Edge("cancel_requested", "cancel_requested")
    /\ open' = {}

\* The Run ends, and nothing stays open. A conflict may fail it from any state.
End ==
    /\ \/ \E event \in {"cancel_before_dispatch", "completed", "failed",
                        "lease_expired", "cancel_confirmed"}, to \in RunTerminal :
             Edge(event, to)
       \/ status \in RunActive /\ status' = "failed"
    /\ open' = {}

Next == Ask \/ Answer \/ Advance \/ RequestCancel \/ End

Spec == Init /\ [][Next]_vars
=============================================================================
