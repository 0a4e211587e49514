------------------------------ MODULE RunDomain ------------------------------
(***************************************************************************)
(* The pure transition table of a Run (packages/domain/src/run.ts) and the *)
(* outcomes of an Approval (packages/domain/src/approval.ts).              *)
(***************************************************************************)

RunTerminal == {"completed", "failed", "cancelled", "lost"}
RunActive == {"queued", "dispatching", "running", "waiting_approval", "cancel_requested"}
RunStatus == RunActive \union RunTerminal

\* RUN_NEXT, one triple <<from, event, to>> per edge.
RunNext == {
    <<"queued", "dispatch_acked", "dispatching">>,
    <<"queued", "cancel_before_dispatch", "cancelled">>,
    <<"queued", "failed", "failed">>,
    <<"dispatching", "runtime_ready", "running">>,
    <<"dispatching", "cancel_requested", "cancel_requested">>,
    <<"dispatching", "failed", "failed">>,
    <<"dispatching", "lease_expired", "lost">>,
    <<"running", "approval_opened", "waiting_approval">>,
    <<"running", "cancel_requested", "cancel_requested">>,
    <<"running", "completed", "completed">>,
    <<"running", "failed", "failed">>,
    <<"running", "lease_expired", "lost">>,
    <<"waiting_approval", "approval_closed", "running">>,
    <<"waiting_approval", "cancel_requested", "cancel_requested">>,
    <<"waiting_approval", "completed", "completed">>,
    <<"waiting_approval", "failed", "failed">>,
    <<"waiting_approval", "lease_expired", "lost">>,
    <<"cancel_requested", "cancel_confirmed", "cancelled">>,
    <<"cancel_requested", "lease_expired", "lost">>}

\* transitionRun does not throw INVALID_RUN_TRANSITION. Its callers use it as a
\* check, and write the state it leads to themselves.
Allows(from, event) == \E to \in RunStatus : <<from, event, to>> \in RunNext

\* The states an Approval is decided to; the first decision is final.
ApprovalDecided == {"allowed_once", "rejected", "expired", "cancelled"}
ApprovalState == {"absent", "pending"} \union ApprovalDecided
=============================================================================
