------------------------------ MODULE RunLedger ------------------------------
(***************************************************************************)
(* The Hub's records of one Run: its state, its Approvals, the messages    *)
(* people send it, and the commands queued for its Node. Every action but  *)
(* those of the outbox worker is one database transaction, serialised by   *)
(* the lock on the row of the Run (apps/hub/src/modules/run).              *)
(*                                                                         *)
(* The Node is not modelled here: once a run.start has gone out it may     *)
(* report anything at any time, in any order. What holds here holds        *)
(* whatever the Node does.                                                 *)
(***************************************************************************)
EXTENDS RunDomain

CONSTANTS
    Approval,   \* approvals the Node may ask for
    Message,    \* follow-ups people may post, each by an author of its own
    Start,      \* bound: ids for run.start commands (the first, and re-issues)
    Worker,     \* bound: passes of the outbox worker that overlap
    Idle        \* a worker with no command in hand

ASSUME IdleAssumption == Idle \notin [start : Start, step : {"check", "send", "mark", "fail"}]

RowState == {"absent", "pending", "acked", "failed"}
MessageState == {"absent", "pending", "accepted", "rejected"}
InHand == [start : Start, step : {"check", "send", "mark", "fail"}]

VARIABLES
    status,     \* runs.status
    approvals,  \* approvals.status, "absent" when there is no row
    overdue,    \* Approvals whose expires_at has passed
    trigger,    \* instruction_state of the message that started the Run
    messages,   \* instruction_state of each follow-up
    receipt,    \* the Run has sent its first context receipt (or needs none)
    revoked,    \* follow-ups whose author has lost the right to instruct
    disabled,   \* follow-ups whose author's account is disabled
    valid,      \* the payload of run.start makes a valid frame
    startRow,   \* the outbox row of each run.start
    followupRow, \* the outbox row of each run.followup
    decision,   \* the decision in the approval.decide row of each Approval
    orders,     \* the run.cancel commands enqueued
    sentAt,     \* run.start rows with sent_at set
    attempted,  \* follow-ups whose row has been claimed (attempt_count > 0)
    delivered,  \* run.start commands that have gone out to the Node
    hand,       \* the run.start command each worker is busy with
    notified    \* the Run is in terminalReleaseNotified (memory of the process)

runVars == <<status, approvals, trigger, messages>>
factVars == <<overdue, receipt, revoked, disabled, valid>>
commandVars == <<startRow, followupRow, decision, orders>>
workerVars == <<sentAt, attempted, delivered, hand, notified>>
vars == <<status, approvals, overdue, trigger, messages, receipt, revoked, disabled, valid,
          startRow, followupRow, decision, orders, sentAt, attempted, delivered, hand, notified>>

TypeOK ==
    /\ status \in RunStatus
    /\ approvals \in [Approval -> ApprovalState]
    /\ overdue \in SUBSET Approval
    /\ trigger \in MessageState
    /\ messages \in [Message -> MessageState]
    /\ receipt \in BOOLEAN
    /\ revoked \in SUBSET Message
    /\ disabled \in SUBSET Message
    /\ valid \in BOOLEAN
    /\ startRow \in [Start -> RowState]
    /\ followupRow \in [Message -> RowState]
    /\ orders \in SUBSET {"cancel", "release"}
    /\ decision \in [Approval -> {"none", "allowed_once", "rejected"}]
    /\ sentAt \in SUBSET Start
    /\ attempted \in SUBSET Message
    /\ delivered \in SUBSET Start
    /\ hand \in [Worker -> InHand \union {Idle}]
    /\ notified \in BOOLEAN

\* create: the Run, its run.start row and, when an instruction started it, the
\* message are written in one transaction.
Init ==
    /\ status = "queued"
    /\ approvals = [a \in Approval |-> "absent"]
    /\ overdue = {}
    /\ trigger \in {"absent", "pending"}
    /\ messages = [m \in Message |-> "absent"]
    /\ receipt \in BOOLEAN
    /\ revoked = {}
    /\ disabled = {}
    /\ valid \in BOOLEAN
    /\ \E s \in Start : startRow = [t \in Start |-> IF t = s THEN "pending" ELSE "absent"]
    /\ followupRow = [m \in Message |-> "absent"]
    /\ orders = {}
    /\ decision = [a \in Approval |-> "none"]
    /\ sentAt = {}
    /\ attempted = {}
    /\ delivered = {}
    /\ hand = [w \in Worker |-> Idle]
    /\ notified = FALSE

-----------------------------------------------------------------------------
(* What the transactions have in common.                                   *)

Pending == {a \in Approval : approvals[a] = "pending"}

\* cancelPendingApprovalsInTransaction, on the Approvals A.
Folded(A) == [a \in Approval |-> IF A[a] = "pending" THEN "cancelled" ELSE A[a]]

\* settleInstruction: a message is settled once, from pending.
Settled(state, to) == IF state = "pending" THEN to ELSE state

\* failInTransaction, outbox.fail: a row is failed once, from pending.
Withdrawn(state) == IF state = "pending" THEN "failed" ELSE state

\* A terminal state is written: applyRunStatus, and in setRunStatus the messages
\* of the Run that are still pending are rejected (RUN_TERMINAL), the trigger too.
End(to) ==
    /\ status' = to
    /\ trigger' = Settled(trigger, "rejected")
    /\ messages' = [m \in Message |-> Settled(messages[m], "rejected")]

\* dispatchPendingInstructions: follow-ups still pending that have no row get one,
\* in the order they were posted, unless the author may not instruct any more.
Waiting == {m \in Message : messages[m] = "pending" /\ followupRow[m] = "absent"}
Barred == revoked \union disabled

\* Mutant: the queued follow-ups are not looked at.
EnterRunningOnly == status' = "running" /\ UNCHANGED <<trigger, messages, followupRow>>

\* applyRunStatus to running: the queued follow-ups are let go, in the same transaction.
EnterRunning ==
    /\ status' = "running"
    /\ messages' = [m \in Message |-> IF m \in Waiting \intersect Barred THEN "rejected" ELSE messages[m]]
    /\ followupRow' = [m \in Message |-> IF m \in Waiting \ Barred THEN "pending" ELSE followupRow[m]]
    /\ UNCHANGED trigger

-----------------------------------------------------------------------------
(* ingestNodeEvent, run.event: the event is recorded, and unless the Run is *)
(* terminal it takes effect. An event is evidence that the Node accepted    *)
(* the Run: a queued Run is taken to dispatching first, in the transaction. *)

Reported == delivered # {} /\ status \in RunActive

Accepted == IF status = "queued" THEN "dispatching" ELSE status

\* convergeSemanticConflict: the event does not fit, and the Run fails.
Converge(A) ==
    /\ End("failed")
    /\ approvals' = Folded(A)
    /\ UNCHANGED followupRow

RuntimeReady ==
    /\ Reported
    /\ IF Allows(Accepted, "runtime_ready")
       THEN EnterRunning /\ UNCHANGED approvals
       ELSE Converge(approvals)
    /\ UNCHANGED <<factVars, startRow, decision, orders, workerVars>>

\* run.completed and run.failed: the verdict of the Runtime closes what is open.
Verdict(to) ==
    /\ Reported
    /\ IF Allows(Accepted, to)
       THEN End(to) /\ approvals' = Folded(approvals) /\ UNCHANGED followupRow
       ELSE Converge(approvals)
    /\ UNCHANGED <<factVars, startRow, decision, orders, workerVars>>

\* run.cancelled: nothing is folded, the cancellation did that.
CancelConfirmed ==
    /\ Reported
    /\ IF Allows(Accepted, "cancel_confirmed")
       THEN End("cancelled") /\ UNCHANGED <<approvals, followupRow>>
       ELSE Converge(approvals)
    /\ UNCHANGED <<factVars, startRow, decision, orders, workerVars>>

\* approval.requested: the row first, then the Run waits for it. Only a Run that
\* runs may be asked to wait.
ApprovalRequested(a) ==
    /\ Reported
    /\ approvals[a] = "absent"
    /\ LET asked == [approvals EXCEPT ![a] = "pending"] IN
       IF Allows(Accepted, "approval_opened")
       THEN /\ approvals' = asked
            /\ status' = "waiting_approval"
            /\ UNCHANGED <<trigger, messages, followupRow>>
       ELSE Converge(asked)
    /\ UNCHANGED <<factVars, startRow, decision, orders, workerVars>>

\* approval.decided: the Node tells what the Approval came to. An answer to the
\* last open Approval lets the Run go on; one to an unknown Approval is a conflict.
ApprovalSettled(a, outcome) ==
    /\ Reported
    /\ IF approvals[a] = "absent" THEN Converge(approvals)
       ELSE /\ approvals' = [approvals EXCEPT ![a] = Settled(@, outcome)]
            /\ IF Accepted = "waiting_approval" /\ Pending \subseteq {a}
               THEN EnterRunning
               ELSE status' = Accepted /\ UNCHANGED <<trigger, messages, followupRow>>
    /\ UNCHANGED <<factVars, startRow, decision, orders, workerVars>>

\* Every other event, and an approval.requested that is already known.
OtherEvent ==
    /\ Reported
    /\ status' = Accepted
    /\ UNCHANGED <<approvals, trigger, messages, factVars, commandVars, workerVars>>

-----------------------------------------------------------------------------
(* The other frames of the Node.                                           *)

\* run.snapshot: an edge that does not exist is a stale projection, ignored.
SnapshotEvent == [running |-> "runtime_ready", completed |-> "completed", failed |-> "failed",
                  cancelled |-> "cancel_confirmed", lost |-> "lease_expired"]
Snapshot(to) ==
    /\ Reported
    /\ Allows(status, SnapshotEvent[to])
    /\ IF to = "running"
       THEN EnterRunning /\ UNCHANGED approvals
       ELSE End(to) /\ approvals' = Folded(approvals) /\ UNCHANGED followupRow
    /\ UNCHANGED <<factVars, startRow, decision, orders, workerVars>>

\* handleCommandAck, run.start: the row is acked unless it was failed before, the
\* message that started the Run is settled, and a Run still queued moves on.
AckStart(s, accepted) ==
    /\ s \in delivered
    /\ startRow[s] = "pending"
    /\ startRow' = [startRow EXCEPT ![s] = "acked"]
    /\ IF status = "queued" /\ ~accepted THEN End("failed")
       ELSE /\ status' = Accepted
            /\ trigger' = Settled(trigger, IF accepted THEN "accepted" ELSE "rejected")
            /\ UNCHANGED messages
    /\ UNCHANGED <<approvals, factVars, followupRow, decision, orders, workerVars>>

\* handleCommandAck, run.followup: settleFollowupAck in the same transaction.
AckFollowup(m, accepted) ==
    /\ m \in attempted
    /\ followupRow[m] = "pending"
    /\ followupRow' = [followupRow EXCEPT ![m] = "acked"]
    /\ messages' = [messages EXCEPT ![m] = Settled(@, IF accepted THEN "accepted" ELSE "rejected")]
    /\ UNCHANGED <<status, approvals, trigger, factVars, startRow, decision, orders, workerVars>>

\* recordRunContextReceipt: the watchdog has nothing to complain about any more.
ContextReceipt ==
    /\ Reported
    /\ receipt' = TRUE
    /\ UNCHANGED <<runVars, overdue, revoked, disabled, valid, commandVars, workerVars>>

\* node.heartbeat lists a Run that is over: convergeTerminalActiveRuns queues a
\* run.cancel, once per process. The memory is written before the transaction
\* commits: when it aborts, the command is not there and the memory stays.
ReleaseZombie ==
    /\ delivered # {}
    /\ status \in RunTerminal
    /\ ~notified
    /\ notified' = TRUE
    /\ orders' \in {orders, orders \union {"release"}}
    /\ UNCHANGED <<runVars, factVars, startRow, followupRow, decision, sentAt, attempted,
                   delivered, hand>>

-----------------------------------------------------------------------------
(* People.                                                                 *)

\* cancelRunInTransaction on a queued Run: every command not yet acked is failed.
\* What the Hub itself cancels (cause admin) goes the same way.
WithdrawQueued ==
    /\ End("cancelled")
    /\ startRow' = [s \in Start |-> Withdrawn(startRow[s])]
    /\ followupRow' = [m \in Message |-> Withdrawn(followupRow[m])]
    /\ UNCHANGED <<approvals, orders>>

\* Mutant: the Run is over at once, without the Node's word.
CancelAtOnce ==
    /\ status' = "cancelled"
    /\ approvals' = Folded(approvals)
    /\ orders' = orders \union {"cancel"}
    /\ UNCHANGED <<trigger, messages, startRow, followupRow>>

CancelActive ==
    /\ status' = "cancel_requested"
    /\ approvals' = Folded(approvals)
    /\ orders' = orders \union {"cancel"}
    /\ UNCHANGED <<trigger, messages, startRow, followupRow>>

Cancel ==
    /\ \/ status = "queued" /\ WithdrawQueued
       \/ status \in {"dispatching", "running", "waiting_approval"} /\ CancelActive
    /\ UNCHANGED <<factVars, decision, workerVars>>

\* An Approval ends with a decision that is sent to the Node while the Run waits;
\* the last one lets the Run go on, in the same transaction.
Close(a, outcome, answer) ==
    /\ approvals' = [approvals EXCEPT ![a] = outcome]
    /\ decision' = IF status = "waiting_approval" THEN [decision EXCEPT ![a] = answer] ELSE decision
    /\ IF status = "waiting_approval" /\ Pending = {a} THEN EnterRunning
       ELSE UNCHANGED <<status, trigger, messages, followupRow>>
    /\ UNCHANGED <<factVars, startRow, orders, workerVars>>

\* decideApproval: the first decision wins, and none is taken after the deadline.
Decide(a, answer) ==
    /\ a \in Pending \ overdue
    /\ Close(a, answer, answer)

\* expireOne: past the deadline the Node is told "rejected".
Expire(a) ==
    /\ a \in Pending \intersect overdue
    /\ Close(a, "expired", "rejected")

\* sendRunFollowup: a command at once when the Run runs, a message that waits when
\* it does not yet, or a message that is refused.
PostFollowup(m) ==
    /\ messages[m] = "absent"
    /\ m \notin Barred
    /\ messages' = [messages EXCEPT ![m] =
          IF status \in RunActive \ {"cancel_requested"} THEN "pending" ELSE "rejected"]
    /\ followupRow' = IF status = "running" THEN [followupRow EXCEPT ![m] = "pending"] ELSE followupRow
    /\ UNCHANGED <<status, approvals, trigger, factVars, startRow, decision, orders, workerVars>>

\* Mutant: only what has a row is withdrawn.
UnclaimedRow(m) == followupRow[m] = "pending" /\ m \notin attempted

\* revokeInstructionRight, rejectUnattemptedFollowups: what no worker has claimed
\* yet is withdrawn and refused; a claimed command may be with the Node.
Unclaimed(m) ==
    \/ followupRow[m] = "absent"
    \/ followupRow[m] = "pending" /\ m \notin attempted

Revoke(m) ==
    /\ revoked' = revoked \union {m}
    /\ IF messages[m] = "pending" /\ Unclaimed(m)
       THEN /\ messages' = [messages EXCEPT ![m] = "rejected"]
            /\ followupRow' = [followupRow EXCEPT ![m] = Withdrawn(@)]
       ELSE UNCHANGED <<messages, followupRow>>
    /\ UNCHANGED <<status, approvals, trigger, overdue, receipt, disabled, valid, startRow,
                   decision, orders, workerVars>>

\* The right is granted again; an account is disabled, which withdraws nothing, or
\* enabled again.
ChangeRights(m) ==
    /\ \/ revoked' = revoked \ {m} /\ UNCHANGED disabled
       \/ disabled' \in {disabled \union {m}, disabled \ {m}} /\ UNCHANGED revoked
    /\ UNCHANGED <<runVars, overdue, receipt, valid, commandVars, workerVars>>

-----------------------------------------------------------------------------
(* Timers of the Hub.                                                      *)

\* expires_at of an Approval passes; it may before the request reaches the Hub.
Deadline(a) ==
    /\ overdue' = overdue \union {a}
    /\ UNCHANGED <<runVars, receipt, revoked, disabled, valid, commandVars, workerVars>>

\* Mutant: rows still pending are not looked for.
ReissueAnyway(s) ==
    /\ status = "queued"
    /\ startRow[s] = "absent"
    /\ startRow' = [startRow EXCEPT ![s] = "pending"]
    /\ UNCHANGED <<runVars, factVars, followupRow, decision, orders, workerVars>>

\* reconcileOne, queued: no run.start is under way, so one is issued under a new id.
\* (Rows are never deleted: the branch for a Run without any row is not reached.)
Reissue(s) ==
    /\ status = "queued"
    /\ \A t \in Start : startRow[t] # "pending"
    /\ startRow[s] = "absent"
    /\ startRow' = [startRow EXCEPT ![s] = "pending"]
    /\ UNCHANGED <<runVars, factVars, followupRow, decision, orders, workerVars>>

\* Mutant: the open Approvals are forgotten.
LeaseExpiredOnly ==
    /\ status \in RunActive \ {"queued"}
    /\ End("lost")
    /\ UNCHANGED <<approvals, factVars, commandVars, workerVars>>

\* reconcileOne, any other active state: the lease of the device has expired, or
\* its heartbeats do not list the Run. (Otherwise a run.status_request is queued,
\* which changes nothing but its own row; its answer is a Snapshot.)
LeaseExpired ==
    /\ status \in RunActive \ {"queued"}
    /\ approvals' = Folded(approvals)
    /\ End("lost")
    /\ UNCHANGED <<factVars, commandVars, workerVars>>

\* failMissingContextReceipts: no first receipt in time; the Node is told to stop.
Watchdog ==
    /\ status \in {"running", "waiting_approval"}
    /\ ~receipt
    /\ End("failed")
    /\ approvals' = Folded(approvals)
    /\ orders' = orders \union {"release"}
    /\ UNCHANGED <<factVars, startRow, followupRow, decision, workerVars>>

-----------------------------------------------------------------------------
(* The outbox worker. A pass takes several transactions per command, and   *)
(* the timer starts passes without waiting for the one before.             *)

Step(w, step) == hand[w] # Idle /\ hand[w].step = step
Proceed(w, step) == hand' = [hand EXCEPT ![w].step = step]
Done(w) == hand' = [hand EXCEPT ![w] = Idle]

\* claimInTransaction; what was sent before is not checked again.
Claim(w, s) ==
    /\ hand[w] = Idle
    /\ startRow[s] = "pending"
    /\ hand' = [hand EXCEPT ![w] = [start |-> s, step |-> IF s \in sentAt THEN "send" ELSE "check"]]
    /\ UNCHANGED <<runVars, factVars, commandVars, sentAt, attempted, delivered, notified>>

\* The claim of a follow-up: from here on it cannot be withdrawn.
ClaimFollowup(m) ==
    /\ followupRow[m] = "pending"
    /\ attempted' = attempted \union {m}
    /\ UNCHANGED <<runVars, factVars, commandVars, sentAt, delivered, hand, notified>>

\* beforeDispatch: the Run is not queued any more and the command is skipped; it may
\* be sent; the mandate of a machine Run is gone; the context of the Run is.
BeforeDispatch(w) ==
    /\ Step(w, "check")
    /\ \/ status # "queued" /\ Proceed(w, "fail") /\ UNCHANGED <<runVars, commandVars>>
       \/ status = "queued" /\ Proceed(w, "send") /\ UNCHANGED <<runVars, commandVars>>
       \/ status = "queued" /\ Proceed(w, "fail") /\ WithdrawQueued /\ UNCHANGED decision
       \/ /\ status = "queued"
          /\ Proceed(w, "fail")
          /\ End("failed")
          /\ startRow' = [startRow EXCEPT ![hand[w].start] = Withdrawn(@)]
          /\ UNCHANGED <<approvals, followupRow, decision, orders>>
    /\ UNCHANGED <<factVars, sentAt, attempted, delivered, notified>>

\* gateway.send: the frame is written or the device is offline; a payload that makes
\* no valid frame is given up.
Send(w) ==
    /\ Step(w, "send")
    /\ \/ valid /\ delivered' = delivered \union {hand[w].start} /\ Proceed(w, "mark")
       \/ valid /\ UNCHANGED delivered /\ Done(w)
       \/ ~valid /\ UNCHANGED delivered /\ Proceed(w, "fail")
    /\ UNCHANGED <<runVars, factVars, commandVars, sentAt, attempted, notified>>

\* markSent: only a row that is still pending; when the statement fails, the error is
\* taken for a transient one of the send.
MarkSent(w) ==
    /\ Step(w, "mark")
    /\ \/ startRow[hand[w].start] = "pending" /\ sentAt' = sentAt \union {hand[w].start}
       \/ UNCHANGED sentAt
    /\ Done(w)
    /\ UNCHANGED <<runVars, factVars, commandVars, attempted, delivered, notified>>

\* outbox.fail, a statement of its own: whatever the row is by now.
Fail(w) ==
    /\ Step(w, "fail")
    /\ startRow' = [startRow EXCEPT ![hand[w].start] = Withdrawn(@)]
    /\ Done(w)
    /\ UNCHANGED <<runVars, factVars, followupRow, decision, orders, sentAt, attempted,
                   delivered, notified>>

\* The Hub process ends and starts again: what is in memory is gone.
HubRestart ==
    /\ hand' = [w \in Worker |-> Idle]
    /\ notified' = FALSE
    /\ UNCHANGED <<runVars, factVars, commandVars, sentAt, attempted, delivered>>

-----------------------------------------------------------------------------
NodeFrame ==
    \/ RuntimeReady \/ CancelConfirmed \/ OtherEvent \/ ContextReceipt \/ ReleaseZombie
    \/ \E to \in {"completed", "failed"} : Verdict(to)
    \/ \E to \in {"running"} \union RunTerminal : Snapshot(to)
    \/ \E a \in Approval : ApprovalRequested(a)
    \/ \E a \in Approval, outcome \in ApprovalDecided : ApprovalSettled(a, outcome)
    \/ \E s \in Start, accepted \in BOOLEAN : AckStart(s, accepted)
    \/ \E m \in Message, accepted \in BOOLEAN : AckFollowup(m, accepted)

User ==
    \/ Cancel
    \/ \E a \in Approval, answer \in {"allowed_once", "rejected"} : Decide(a, answer)
    \/ \E m \in Message : PostFollowup(m) \/ Revoke(m) \/ ChangeRights(m)

Timer ==
    \/ LeaseExpired \/ Watchdog
    \/ \E a \in Approval : Deadline(a) \/ Expire(a)
    \/ \E s \in Start : Reissue(s)

Dispatch ==
    \/ HubRestart
    \/ \E m \in Message : ClaimFollowup(m)
    \/ \E w \in Worker, s \in Start : Claim(w, s)
    \/ \E w \in Worker : BeforeDispatch(w) \/ Send(w) \/ MarkSent(w) \/ Fail(w)

Next == NodeFrame \/ User \/ Timer \/ Dispatch

Spec == Init /\ [][Next]_vars

-----------------------------------------------------------------------------
(* Properties.                                                             *)

\* A Run waits exactly while one of its Approvals is open: none is left open when
\* the Run goes on, is being cancelled or is over, by whatever way it got there
\* (only some of the ways fold the Approvals).
WaitingIffOpen == status = "waiting_approval" <=> Pending # {}

\* No message of a Run that is over is left without an answer.
NoneLeftPending ==
    status \in RunTerminal => /\ trigger # "pending"
                              /\ \A m \in Message : messages[m] # "pending"

\* A follow-up waits unsent only while the Run does not run: five ways lead to
\* running and each must let the queued ones go.
NoneForgotten ==
    status = "running" =>
        \A m \in Message : messages[m] = "pending" => followupRow[m] = "pending"

\* What the Node is told to do with a question is what is on record: an Approval
\* that was cancelled or has expired is never answered with "allowed".
AnswerOnRecord ==
    \A a \in Approval :
        decision[a] # "none" =>
            \/ approvals[a] = decision[a]
            \/ approvals[a] = "expired" /\ decision[a] = "rejected"

\* After the author's right is revoked, a follow-up still without an answer is one
\* that a worker had claimed before.
RevocationHolds ==
    \A m \in revoked : messages[m] = "pending" => m \in attempted

\* The Node is never sent the Run under two ids: a run.start is issued again only
\* when the one before cannot have gone out.
OneIdDelivered == \A s, t \in delivered : s = t

\* What makes the invariants above inductive. A message without an answer still has
\* one coming: its command is not there yet, or nobody has closed it.
FollowupSound ==
    \A m \in Message :
        /\ messages[m] = "pending" => followupRow[m] \in {"absent", "pending"}
        /\ messages[m] = "absent" => followupRow[m] = "absent"

\* A queued Run that can be sent has a run.start under way that no worker is about
\* to give up, and never had another one; what workers handle, and what has gone
\* out, was enqueued.
StartSound ==
    /\ \A s \in delivered : valid /\ startRow[s] # "absent"
    /\ \A w \in Worker : hand[w] # Idle => startRow[hand[w].start] # "absent"
    /\ valid => \A s, t \in Start : startRow[s] # "absent" /\ startRow[t] # "absent" => s = t
    /\ valid /\ status = "queued" => /\ \E s \in Start : startRow[s] = "pending"
                                     /\ \A w \in Worker : ~Step(w, "fail")

\* A Run that is over stays over, in its state, its Approvals and its messages:
\* events, snapshots, acks, timers and decisions that come late change nothing.
TerminalIsFinal ==
    [][(status \in RunTerminal) =>
          /\ UNCHANGED <<status, approvals, trigger>>
          /\ \A m \in Message : messages[m] # "absent" => messages'[m] = messages[m]]_vars

\* The first decision on an Approval, and the first answer to a message, stand.
FirstAnswerStands ==
    [][/\ \A a \in Approval : approvals[a] \in ApprovalDecided => approvals'[a] = approvals[a]
       /\ \A m \in Message : messages[m] \in {"accepted", "rejected"} => messages'[m] = messages[m]
       /\ trigger \in {"accepted", "rejected"} => trigger' = trigger]_vars

\* A Run that ends before its Node has been sent it leaves no run.start behind that
\* would still be claimed (one in the hands of a worker may yet go out).
QueuedEndWithdraws ==
    [][valid /\ delivered = {} /\ status = "queued" /\ status' \in RunTerminal =>
          \A s \in Start : startRow'[s] # "pending"]_vars

\* The Run as clients see it.
Lifecycle == INSTANCE RunLifecycle WITH open <- Pending
ImplementsLifecycle == Lifecycle!Spec
=============================================================================
