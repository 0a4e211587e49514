--------------------------- MODULE RunLedgerProofs ---------------------------
(***************************************************************************)
(* The invariants, the action properties and the refinement of RunLedger,  *)
(* for any number of Approvals, follow-ups, run.start commands and passes  *)
(* of the outbox worker.                                                   *)
(*                                                                         *)
(* Each part of the inductive invariant Inv has a lemma of its own. Step 0 *)
(* of it covers every action that leaves alone what the part speaks of;    *)
(* the other actions follow one by one, by actor.                          *)
(***************************************************************************)
EXTENDS RunLedger, TLAPS

\* Every step keeps every variable in its type.
LEMMA TypeStep == TypeOK /\ [Next]_vars => TypeOK'
<1> SUFFICES ASSUME TypeOK, [Next]_vars PROVE TypeOK'
  OBVIOUS
<1>0. ASSUME UNCHANGED <<vars>> PROVE TypeOK'
  BY <1>0 DEF TypeOK, vars
<1>1. CASE NodeFrame
  <2>1. CASE RuntimeReady
    BY <2>1
       DEF RuntimeReady, EnterRunning, Converge, End, Folded, Settled, Allows, RunNext, TypeOK,
           factVars, workerVars, RunTerminal, RunStatus, ApprovalDecided, ApprovalState,
           RowState, MessageState
  <2>2. CASE CancelConfirmed
    BY <2>2
       DEF CancelConfirmed, Converge, End, Folded, Settled, TypeOK, factVars, workerVars,
           RunTerminal, RunStatus, ApprovalDecided, ApprovalState, MessageState
  <2>3. CASE OtherEvent
    BY <2>3
       DEF OtherEvent, Accepted, TypeOK, factVars, commandVars, workerVars, RunActive, RunStatus
  <2>4. CASE ContextReceipt
    BY <2>4 DEF ContextReceipt, TypeOK, runVars, commandVars, workerVars
  <2>5. CASE ReleaseZombie
    BY <2>5 DEF ReleaseZombie, TypeOK, factVars, runVars
  <2>6. ASSUME NEW to \in {"completed", "failed"}, Verdict(to) PROVE TypeOK'
    BY <2>6
       DEF Verdict, Converge, End, Folded, Settled, TypeOK, factVars, workerVars, RunTerminal,
           RunStatus, ApprovalDecided, ApprovalState, MessageState
  <2>7. ASSUME NEW to \in {"running"} \union RunTerminal, Snapshot(to) PROVE TypeOK'
    BY <2>7
       DEF Snapshot, SnapshotEvent, EnterRunning, End, Folded, Settled, Allows, RunNext, TypeOK,
           factVars, workerVars, RunStatus, ApprovalDecided, ApprovalState, RowState,
           MessageState
  <2>8. ASSUME NEW a \in Approval, ApprovalRequested(a) PROVE TypeOK'
    BY <2>8
       DEF ApprovalRequested, Converge, End, Folded, Settled, Allows, RunNext, TypeOK, factVars,
           workerVars, RunTerminal, RunStatus, ApprovalDecided, ApprovalState, MessageState
  <2>9. ASSUME NEW a \in Approval, NEW outcome \in ApprovalDecided, ApprovalSettled(a, outcome)
        PROVE  TypeOK'
    BY <2>9
       DEF ApprovalSettled, Accepted, EnterRunning, Converge, End, Folded, Settled, TypeOK,
           factVars, workerVars, RunActive, RunTerminal, RunStatus, ApprovalDecided,
           ApprovalState, RowState, MessageState
  <2>10. ASSUME NEW s \in Start, NEW accepted \in BOOLEAN, AckStart(s, accepted) PROVE TypeOK'
    BY <2>10
       DEF AckStart, Accepted, End, Settled, TypeOK, factVars, workerVars, RunActive,
           RunTerminal, RunStatus, RowState, MessageState
  <2>11. ASSUME NEW m \in Message, NEW accepted \in BOOLEAN, AckFollowup(m, accepted)
         PROVE  TypeOK'
    BY <2>11 DEF AckFollowup, Settled, TypeOK, factVars, workerVars, RowState, MessageState
  <2> QED
    BY <1>1, <2>1, <2>2, <2>3, <2>4, <2>5, <2>6, <2>7, <2>8, <2>9, <2>10, <2>11 DEF NodeFrame
<1>2. CASE User
  <2>1. CASE Cancel
    <3>1. CASE WithdrawQueued
      BY <2>1, <3>1
         DEF Cancel, WithdrawQueued, Withdrawn, End, Settled, TypeOK, RunStatus, RunTerminal,
             MessageState, RowState, factVars, workerVars
    <3>2. CASE CancelActive
      BY <2>1, <3>2
         DEF Cancel, CancelActive, Folded, TypeOK, RunStatus, RunActive, ApprovalState,
             ApprovalDecided, factVars, workerVars
    <3> QED
      BY <2>1, <3>1, <3>2 DEF Cancel
  <2>2. ASSUME NEW a \in Approval, NEW answer \in {"allowed_once", "rejected"}, Decide(a, answer)
        PROVE  TypeOK'
    BY <2>2
       DEF Decide, Close, EnterRunning, TypeOK, factVars, workerVars, RunActive, RunStatus,
           ApprovalDecided, ApprovalState, RowState, MessageState
  <2>3. ASSUME NEW m \in Message, PostFollowup(m) PROVE TypeOK'
    BY <2>3 DEF PostFollowup, TypeOK, factVars, workerVars, RowState, MessageState
  <2>4. ASSUME NEW m \in Message, Revoke(m) PROVE TypeOK'
    BY <2>4 DEF Revoke, Withdrawn, TypeOK, workerVars, RowState, MessageState
  <2>5. ASSUME NEW m \in Message, ChangeRights(m) PROVE TypeOK'
    BY <2>5 DEF ChangeRights, TypeOK, runVars, commandVars, workerVars
  <2> QED
    BY <1>2, <2>1, <2>2, <2>3, <2>4, <2>5 DEF User
<1>3. CASE Timer
  <2>1. CASE LeaseExpired
    BY <2>1
       DEF LeaseExpired, End, Folded, Settled, TypeOK, factVars, commandVars, workerVars,
           RunTerminal, RunStatus, ApprovalDecided, ApprovalState, MessageState
  <2>2. CASE Watchdog
    BY <2>2
       DEF Watchdog, End, Folded, Settled, TypeOK, factVars, workerVars, RunTerminal, RunStatus,
           ApprovalDecided, ApprovalState, MessageState
  <2>3. ASSUME NEW a \in Approval, Deadline(a) PROVE TypeOK'
    BY <2>3 DEF Deadline, TypeOK, runVars, commandVars, workerVars
  <2>4. ASSUME NEW a \in Approval, Expire(a) PROVE TypeOK'
    BY <2>4
       DEF Expire, Close, EnterRunning, TypeOK, factVars, workerVars, RunActive, RunStatus,
           ApprovalDecided, ApprovalState, RowState, MessageState
  <2>5. ASSUME NEW s \in Start, Reissue(s) PROVE TypeOK'
    BY <2>5 DEF Reissue, TypeOK, factVars, runVars, workerVars, RowState
  <2> QED
    BY <1>3, <2>1, <2>2, <2>3, <2>4, <2>5 DEF Timer
<1>4. CASE Dispatch
  <2>1. CASE HubRestart
    BY <2>1 DEF HubRestart, TypeOK, factVars, runVars, commandVars
  <2>2. ASSUME NEW m \in Message, ClaimFollowup(m) PROVE TypeOK'
    BY <2>2 DEF ClaimFollowup, TypeOK, factVars, runVars, commandVars
  <2>3. ASSUME NEW w \in Worker, NEW s \in Start, Claim(w, s) PROVE TypeOK'
    BY <2>3 DEF Claim, TypeOK, factVars, runVars, commandVars, InHand
  <2>4. ASSUME NEW w \in Worker, BeforeDispatch(w) PROVE TypeOK'
    BY <2>4
       DEF BeforeDispatch, WithdrawQueued, Withdrawn, End, Settled, Step, Proceed, TypeOK,
           factVars, runVars, commandVars, RunTerminal, RunStatus, RowState, MessageState, InHand
  <2>5. ASSUME NEW w \in Worker, Send(w) PROVE TypeOK'
    BY <2>5 DEF Send, Step, Proceed, Done, TypeOK, factVars, runVars, commandVars, InHand
  <2>6. ASSUME NEW w \in Worker, MarkSent(w) PROVE TypeOK'
    BY <2>6 DEF MarkSent, Step, Done, TypeOK, factVars, runVars, commandVars, InHand
  <2>7. ASSUME NEW w \in Worker, Fail(w) PROVE TypeOK'
    BY <2>7 DEF Fail, Done, Withdrawn, TypeOK, factVars, runVars, RowState
  <2> QED
    BY <1>4, <2>1, <2>2, <2>3, <2>4, <2>5, <2>6, <2>7 DEF Dispatch
<1> QED
  BY <1>0, <1>1, <1>2, <1>3, <1>4 DEF Next, vars

\* No step opens the last question or closes the first one without the Run following.
LEMMA WaitingStep == TypeOK /\ WaitingIffOpen /\ [Next]_vars => WaitingIffOpen'
<1> SUFFICES ASSUME TypeOK, WaitingIffOpen, [Next]_vars PROVE WaitingIffOpen'
  OBVIOUS
<1>0. ASSUME UNCHANGED <<status, approvals>> PROVE WaitingIffOpen'
  BY <1>0 DEF WaitingIffOpen, Pending
<1>1. CASE NodeFrame
  <2>1. CASE RuntimeReady
    BY <2>1
       DEF RuntimeReady, Accepted, EnterRunning, Converge, End, Folded, Allows, RunNext, Pending,
           WaitingIffOpen
  <2>2. CASE CancelConfirmed
    BY <2>2
       DEF CancelConfirmed, Accepted, Converge, End, Folded, Allows, RunNext, Pending,
           WaitingIffOpen
  <2>3. CASE OtherEvent
    BY <2>3 DEF OtherEvent, Accepted, Pending, WaitingIffOpen
  <2>4. ASSUME NEW to \in {"completed", "failed"}, Verdict(to) PROVE WaitingIffOpen'
    BY <2>4 DEF Verdict, Converge, End, Folded, Pending, WaitingIffOpen
  <2>5. ASSUME NEW to \in {"running"} \union RunTerminal, Snapshot(to) PROVE WaitingIffOpen'
    BY <2>5
       DEF Snapshot, SnapshotEvent, EnterRunning, End, Folded, Allows, RunNext, Pending,
           WaitingIffOpen, RunTerminal
  <2>6. ASSUME NEW a \in Approval, ApprovalRequested(a) PROVE WaitingIffOpen'
    BY <2>6 DEF ApprovalRequested, Converge, End, Folded, Pending, WaitingIffOpen, TypeOK
  <2>7. ASSUME NEW a \in Approval, NEW outcome \in ApprovalDecided, ApprovalSettled(a, outcome)
        PROVE  WaitingIffOpen'
    BY <2>7
       DEF ApprovalSettled, Accepted, EnterRunning, Converge, End, Folded, Settled, Pending,
           WaitingIffOpen, ApprovalDecided, TypeOK
  <2>8. ASSUME NEW s \in Start, NEW accepted \in BOOLEAN, AckStart(s, accepted)
        PROVE  WaitingIffOpen'
    BY <2>8 DEF AckStart, Accepted, End, Pending, WaitingIffOpen
  <2> QED
    BY <1>1, <1>0, <2>1, <2>2, <2>3, <2>4, <2>5, <2>6, <2>7, <2>8
       DEF NodeFrame, ContextReceipt, ReleaseZombie, AckFollowup, factVars, runVars, commandVars,
           workerVars
<1>2. CASE User
  <2>1. CASE Cancel
    BY <2>1 DEF Cancel, WithdrawQueued, CancelActive, End, Folded, Pending, WaitingIffOpen
  <2>2. ASSUME NEW a \in Approval, NEW answer \in {"allowed_once", "rejected"}, Decide(a, answer)
        PROVE  WaitingIffOpen'
    BY <2>2 DEF Decide, Close, EnterRunning, Pending, WaitingIffOpen, TypeOK
  <2> QED
    BY <1>2, <1>0, <2>1, <2>2
       DEF User, PostFollowup, Revoke, ChangeRights, factVars, runVars, commandVars, workerVars
<1>3. CASE Timer
  <2>1. CASE LeaseExpired
    BY <2>1 DEF LeaseExpired, End, Folded, Pending, WaitingIffOpen
  <2>2. CASE Watchdog
    BY <2>2 DEF Watchdog, End, Folded, Pending, WaitingIffOpen
  <2>3. ASSUME NEW a \in Approval, Expire(a) PROVE WaitingIffOpen'
    BY <2>3 DEF Expire, Close, EnterRunning, Pending, WaitingIffOpen, TypeOK
  <2> QED
    BY <1>3, <1>0, <2>1, <2>2, <2>3
       DEF Timer, Deadline, Reissue, factVars, runVars, commandVars, workerVars
<1>4. CASE Dispatch
  <2>1. ASSUME NEW w \in Worker, BeforeDispatch(w) PROVE WaitingIffOpen'
    BY <2>1 DEF BeforeDispatch, WithdrawQueued, End, Pending, WaitingIffOpen, runVars
  <2> QED
    BY <1>4, <1>0, <2>1
       DEF Dispatch, HubRestart, ClaimFollowup, Claim, Send, MarkSent, Fail, factVars, runVars,
           commandVars, workerVars
<1> QED
  BY <1>0, <1>1, <1>2, <1>3, <1>4 DEF Next, vars

\* The write of a terminal state settles every message, and none becomes pending after it.
LEMMA NoneLeftStep == TypeOK /\ NoneLeftPending /\ [Next]_vars => NoneLeftPending'
<1> SUFFICES ASSUME TypeOK, NoneLeftPending, [Next]_vars PROVE NoneLeftPending'
  OBVIOUS
<1>0. ASSUME UNCHANGED <<status, trigger, messages>> PROVE NoneLeftPending'
  BY <1>0 DEF NoneLeftPending
<1>1. CASE NodeFrame
  <2>1. CASE RuntimeReady
    BY <2>1 DEF RuntimeReady, EnterRunning, Converge, End, Settled, NoneLeftPending, RunTerminal
  <2>2. CASE CancelConfirmed
    BY <2>2 DEF CancelConfirmed, Converge, End, Settled, NoneLeftPending
  <2>3. CASE OtherEvent
    BY <2>3 DEF OtherEvent, Accepted, NoneLeftPending, RunTerminal
  <2>4. ASSUME NEW to \in {"completed", "failed"}, Verdict(to) PROVE NoneLeftPending'
    BY <2>4 DEF Verdict, Converge, End, Settled, NoneLeftPending
  <2>5. ASSUME NEW to \in {"running"} \union RunTerminal, Snapshot(to) PROVE NoneLeftPending'
    BY <2>5 DEF Snapshot, EnterRunning, End, Settled, NoneLeftPending, RunTerminal
  <2>6. ASSUME NEW a \in Approval, ApprovalRequested(a) PROVE NoneLeftPending'
    BY <2>6 DEF ApprovalRequested, Converge, End, Settled, NoneLeftPending, RunTerminal
  <2>7. ASSUME NEW a \in Approval, NEW outcome \in ApprovalDecided, ApprovalSettled(a, outcome)
        PROVE  NoneLeftPending'
    BY <2>7
       DEF ApprovalSettled, Accepted, EnterRunning, Converge, End, Settled, NoneLeftPending,
           RunTerminal
  <2>8. ASSUME NEW s \in Start, NEW accepted \in BOOLEAN, AckStart(s, accepted)
        PROVE  NoneLeftPending'
    BY <2>8 DEF AckStart, Accepted, End, Settled, NoneLeftPending, RunTerminal
  <2>9. ASSUME NEW m \in Message, NEW accepted \in BOOLEAN, AckFollowup(m, accepted)
        PROVE  NoneLeftPending'
    BY <2>9 DEF AckFollowup, Settled, NoneLeftPending
  <2> QED
    BY <1>1, <1>0, <2>1, <2>2, <2>3, <2>4, <2>5, <2>6, <2>7, <2>8, <2>9
       DEF NodeFrame, ContextReceipt, ReleaseZombie, factVars, runVars, commandVars, workerVars
<1>2. CASE User
  <2>1. CASE Cancel
    BY <2>1 DEF Cancel, WithdrawQueued, CancelActive, End, Settled, NoneLeftPending, RunTerminal
  <2>2. ASSUME NEW a \in Approval, NEW answer \in {"allowed_once", "rejected"}, Decide(a, answer)
        PROVE  NoneLeftPending'
    BY <2>2 DEF Decide, Close, EnterRunning, NoneLeftPending, RunTerminal
  <2>3. ASSUME NEW m \in Message, PostFollowup(m) PROVE NoneLeftPending'
    BY <2>3 DEF PostFollowup, NoneLeftPending, RunActive, RunTerminal
  <2>4. ASSUME NEW m \in Message, Revoke(m) PROVE NoneLeftPending'
    BY <2>4 DEF Revoke, NoneLeftPending
  <2> QED
    BY <1>2, <1>0, <2>1, <2>2, <2>3, <2>4
       DEF User, ChangeRights, factVars, runVars, commandVars, workerVars
<1>3. CASE Timer
  <2>1. CASE LeaseExpired
    BY <2>1 DEF LeaseExpired, End, Settled, NoneLeftPending
  <2>2. CASE Watchdog
    BY <2>2 DEF Watchdog, End, Settled, NoneLeftPending
  <2>3. ASSUME NEW a \in Approval, Expire(a) PROVE NoneLeftPending'
    BY <2>3 DEF Expire, Close, EnterRunning, NoneLeftPending, RunTerminal
  <2> QED
    BY <1>3, <1>0, <2>1, <2>2, <2>3
       DEF Timer, Deadline, Reissue, factVars, runVars, commandVars, workerVars
<1>4. CASE Dispatch
  <2>1. ASSUME NEW w \in Worker, BeforeDispatch(w) PROVE NoneLeftPending'
    BY <2>1 DEF BeforeDispatch, WithdrawQueued, End, Settled, NoneLeftPending, runVars
  <2> QED
    BY <1>4, <1>0, <2>1
       DEF Dispatch, HubRestart, ClaimFollowup, Claim, Send, MarkSent, Fail, factVars, runVars,
           commandVars, workerVars
<1> QED
  BY <1>0, <1>1, <1>2, <1>3, <1>4 DEF Next, vars

\* A command of a follow-up is closed only together with its message.
LEMMA FollowupStep == TypeOK /\ FollowupSound /\ [Next]_vars => FollowupSound'
<1> SUFFICES ASSUME TypeOK, FollowupSound, [Next]_vars PROVE FollowupSound'
  OBVIOUS
<1>0. ASSUME UNCHANGED <<messages, followupRow>> PROVE FollowupSound'
  BY <1>0 DEF FollowupSound
<1>1. CASE NodeFrame
  <2>1. CASE RuntimeReady
    BY <2>1 DEF RuntimeReady, EnterRunning, Converge, End, Settled, Waiting, FollowupSound
  <2>2. CASE CancelConfirmed
    BY <2>2 DEF CancelConfirmed, Converge, End, Settled, FollowupSound
  <2>3. ASSUME NEW to \in {"completed", "failed"}, Verdict(to) PROVE FollowupSound'
    BY <2>3 DEF Verdict, Converge, End, Settled, FollowupSound
  <2>4. ASSUME NEW to \in {"running"} \union RunTerminal, Snapshot(to) PROVE FollowupSound'
    BY <2>4 DEF Snapshot, EnterRunning, End, Settled, Waiting, FollowupSound
  <2>5. ASSUME NEW a \in Approval, ApprovalRequested(a) PROVE FollowupSound'
    BY <2>5 DEF ApprovalRequested, Converge, End, Settled, FollowupSound
  <2>6. ASSUME NEW a \in Approval, NEW outcome \in ApprovalDecided, ApprovalSettled(a, outcome)
        PROVE  FollowupSound'
    BY <2>6 DEF ApprovalSettled, EnterRunning, Converge, End, Settled, Waiting, FollowupSound
  <2>7. ASSUME NEW s \in Start, NEW accepted \in BOOLEAN, AckStart(s, accepted)
        PROVE  FollowupSound'
    BY <2>7 DEF AckStart, End, Settled, FollowupSound
  <2>8. ASSUME NEW m \in Message, NEW accepted \in BOOLEAN, AckFollowup(m, accepted)
        PROVE  FollowupSound'
    BY <2>8 DEF AckFollowup, Settled, FollowupSound, TypeOK
  <2> QED
    BY <1>1, <1>0, <2>1, <2>2, <2>3, <2>4, <2>5, <2>6, <2>7, <2>8
       DEF NodeFrame, OtherEvent, ContextReceipt, ReleaseZombie, factVars, runVars, commandVars,
           workerVars
<1>2. CASE User
  <2>1. CASE Cancel
    BY <2>1 DEF Cancel, WithdrawQueued, Withdrawn, CancelActive, End, Settled, FollowupSound
  <2>2. ASSUME NEW a \in Approval, NEW answer \in {"allowed_once", "rejected"}, Decide(a, answer)
        PROVE  FollowupSound'
    BY <2>2 DEF Decide, Close, EnterRunning, Waiting, FollowupSound
  <2>3. ASSUME NEW m \in Message, PostFollowup(m) PROVE FollowupSound'
    BY <2>3 DEF PostFollowup, FollowupSound, TypeOK
  <2>4. ASSUME NEW m \in Message, Revoke(m) PROVE FollowupSound'
    BY <2>4 DEF Revoke, FollowupSound, TypeOK
  <2> QED
    BY <1>2, <1>0, <2>1, <2>2, <2>3, <2>4
       DEF User, ChangeRights, factVars, runVars, commandVars, workerVars
<1>3. CASE Timer
  <2>1. CASE LeaseExpired
    BY <2>1 DEF LeaseExpired, End, Settled, FollowupSound, commandVars
  <2>2. CASE Watchdog
    BY <2>2 DEF Watchdog, End, Settled, FollowupSound
  <2>3. ASSUME NEW a \in Approval, Expire(a) PROVE FollowupSound'
    BY <2>3 DEF Expire, Close, EnterRunning, Waiting, FollowupSound
  <2> QED
    BY <1>3, <1>0, <2>1, <2>2, <2>3
       DEF Timer, Deadline, Reissue, factVars, runVars, commandVars, workerVars
<1>4. CASE Dispatch
  <2>1. ASSUME NEW w \in Worker, BeforeDispatch(w) PROVE FollowupSound'
    BY <2>1
       DEF BeforeDispatch, WithdrawQueued, Withdrawn, End, Settled, FollowupSound, runVars,
           commandVars
  <2> QED
    BY <1>4, <1>0, <2>1
       DEF Dispatch, HubRestart, ClaimFollowup, Claim, Send, MarkSent, Fail, factVars, runVars,
           commandVars, workerVars
<1> QED
  BY <1>0, <1>1, <1>2, <1>3, <1>4 DEF Next, vars

\* Every way into running lets the queued follow-ups go.
LEMMA ForgottenStep == TypeOK /\ FollowupSound /\ NoneForgotten /\ [Next]_vars => NoneForgotten'
<1> SUFFICES ASSUME TypeOK, FollowupSound, NoneForgotten, [Next]_vars PROVE NoneForgotten'
  OBVIOUS
<1>0. ASSUME UNCHANGED <<status, messages, followupRow>> PROVE NoneForgotten'
  BY <1>0 DEF NoneForgotten
<1>1. CASE NodeFrame
  <2>1. CASE RuntimeReady
    BY <2>1 DEF RuntimeReady, EnterRunning, Converge, End, Waiting, NoneForgotten, FollowupSound
  <2>2. CASE CancelConfirmed
    BY <2>2 DEF CancelConfirmed, Converge, End, NoneForgotten
  <2>3. CASE OtherEvent
    BY <2>3 DEF OtherEvent, Accepted, NoneForgotten, commandVars
  <2>4. ASSUME NEW to \in {"completed", "failed"}, Verdict(to) PROVE NoneForgotten'
    BY <2>4 DEF Verdict, Converge, End, NoneForgotten
  <2>5. ASSUME NEW to \in {"running"} \union RunTerminal, Snapshot(to) PROVE NoneForgotten'
    BY <2>5 DEF Snapshot, EnterRunning, End, Waiting, NoneForgotten, FollowupSound
  <2>6. ASSUME NEW a \in Approval, ApprovalRequested(a) PROVE NoneForgotten'
    BY <2>6 DEF ApprovalRequested, Converge, End, NoneForgotten
  <2>7. ASSUME NEW a \in Approval, NEW outcome \in ApprovalDecided, ApprovalSettled(a, outcome)
        PROVE  NoneForgotten'
    BY <2>7
       DEF ApprovalSettled, Accepted, EnterRunning, Converge, End, Waiting, NoneForgotten,
           FollowupSound
  <2>8. ASSUME NEW s \in Start, NEW accepted \in BOOLEAN, AckStart(s, accepted)
        PROVE  NoneForgotten'
    BY <2>8 DEF AckStart, Accepted, End, NoneForgotten
  <2>9. ASSUME NEW m \in Message, NEW accepted \in BOOLEAN, AckFollowup(m, accepted)
        PROVE  NoneForgotten'
    BY <2>9 DEF AckFollowup, Settled, NoneForgotten, TypeOK
  <2> QED
    BY <1>1, <1>0, <2>1, <2>2, <2>3, <2>4, <2>5, <2>6, <2>7, <2>8, <2>9
       DEF NodeFrame, ContextReceipt, ReleaseZombie, factVars, runVars, commandVars, workerVars
<1>2. CASE User
  <2>1. CASE Cancel
    BY <2>1 DEF Cancel, WithdrawQueued, CancelActive, End, NoneForgotten
  <2>2. ASSUME NEW a \in Approval, NEW answer \in {"allowed_once", "rejected"}, Decide(a, answer)
        PROVE  NoneForgotten'
    BY <2>2 DEF Decide, Close, EnterRunning, Waiting, NoneForgotten, FollowupSound
  <2>3. ASSUME NEW m \in Message, PostFollowup(m) PROVE NoneForgotten'
    BY <2>3 DEF PostFollowup, NoneForgotten, TypeOK
  <2>4. ASSUME NEW m \in Message, Revoke(m) PROVE NoneForgotten'
    BY <2>4 DEF Revoke, NoneForgotten, TypeOK
  <2> QED
    BY <1>2, <1>0, <2>1, <2>2, <2>3, <2>4
       DEF User, ChangeRights, factVars, runVars, commandVars, workerVars
<1>3. CASE Timer
  <2>1. CASE LeaseExpired
    BY <2>1 DEF LeaseExpired, End, NoneForgotten
  <2>2. CASE Watchdog
    BY <2>2 DEF Watchdog, End, NoneForgotten
  <2>3. ASSUME NEW a \in Approval, Expire(a) PROVE NoneForgotten'
    BY <2>3 DEF Expire, Close, EnterRunning, Waiting, NoneForgotten, FollowupSound
  <2> QED
    BY <1>3, <1>0, <2>1, <2>2, <2>3
       DEF Timer, Deadline, Reissue, factVars, runVars, commandVars, workerVars
<1>4. CASE Dispatch
  <2>1. ASSUME NEW w \in Worker, BeforeDispatch(w) PROVE NoneForgotten'
    BY <2>1 DEF BeforeDispatch, WithdrawQueued, End, NoneForgotten, runVars, commandVars
  <2> QED
    BY <1>4, <1>0, <2>1
       DEF Dispatch, HubRestart, ClaimFollowup, Claim, Send, MarkSent, Fail, factVars, runVars,
           commandVars, workerVars
<1> QED
  BY <1>0, <1>1, <1>2, <1>3, <1>4 DEF Next, vars

\* A decision is sent together with the record of it, and the record stands.
LEMMA AnswerStep == TypeOK /\ AnswerOnRecord /\ [Next]_vars => AnswerOnRecord'
<1> SUFFICES ASSUME TypeOK, AnswerOnRecord, [Next]_vars PROVE AnswerOnRecord'
  OBVIOUS
<1>0. ASSUME UNCHANGED <<approvals, decision>> PROVE AnswerOnRecord'
  BY <1>0 DEF AnswerOnRecord
<1>1. CASE NodeFrame
  <2>1. CASE RuntimeReady
    BY <2>1 DEF RuntimeReady, Converge, Folded, AnswerOnRecord, TypeOK
  <2>2. CASE CancelConfirmed
    BY <2>2 DEF CancelConfirmed, Converge, Folded, AnswerOnRecord, TypeOK
  <2>3. ASSUME NEW to \in {"completed", "failed"}, Verdict(to) PROVE AnswerOnRecord'
    BY <2>3 DEF Verdict, Converge, Folded, AnswerOnRecord, TypeOK
  <2>4. ASSUME NEW to \in {"running"} \union RunTerminal, Snapshot(to) PROVE AnswerOnRecord'
    BY <2>4 DEF Snapshot, Folded, AnswerOnRecord, TypeOK
  <2>5. ASSUME NEW a \in Approval, ApprovalRequested(a) PROVE AnswerOnRecord'
    BY <2>5 DEF ApprovalRequested, Converge, Folded, AnswerOnRecord, TypeOK
  <2>6. ASSUME NEW a \in Approval, NEW outcome \in ApprovalDecided, ApprovalSettled(a, outcome)
        PROVE  AnswerOnRecord'
    BY <2>6 DEF ApprovalSettled, Converge, Folded, Settled, AnswerOnRecord, TypeOK
  <2> QED
    BY <1>1, <1>0, <2>1, <2>2, <2>3, <2>4, <2>5, <2>6
       DEF NodeFrame, OtherEvent, ContextReceipt, ReleaseZombie, AckStart, AckFollowup, factVars,
           runVars, commandVars, workerVars
<1>2. CASE User
  <2>1. CASE Cancel
    BY <2>1 DEF Cancel, WithdrawQueued, CancelActive, Folded, AnswerOnRecord, TypeOK
  <2>2. ASSUME NEW a \in Approval, NEW answer \in {"allowed_once", "rejected"}, Decide(a, answer)
        PROVE  AnswerOnRecord'
    BY <2>2 DEF Decide, Close, Pending, AnswerOnRecord, TypeOK
  <2> QED
    BY <1>2, <1>0, <2>1, <2>2
       DEF User, PostFollowup, Revoke, ChangeRights, factVars, runVars, commandVars, workerVars
<1>3. CASE Timer
  <2>1. CASE LeaseExpired
    BY <2>1 DEF LeaseExpired, Folded, AnswerOnRecord, commandVars, TypeOK
  <2>2. CASE Watchdog
    BY <2>2 DEF Watchdog, Folded, AnswerOnRecord, TypeOK
  <2>3. ASSUME NEW a \in Approval, Expire(a) PROVE AnswerOnRecord'
    BY <2>3 DEF Expire, Close, Pending, AnswerOnRecord, TypeOK
  <2> QED
    BY <1>3, <1>0, <2>1, <2>2, <2>3
       DEF Timer, Deadline, Reissue, factVars, runVars, commandVars, workerVars
<1>4. CASE Dispatch
  <2>1. ASSUME NEW w \in Worker, BeforeDispatch(w) PROVE AnswerOnRecord'
    BY <2>1 DEF BeforeDispatch, WithdrawQueued, AnswerOnRecord, runVars, commandVars
  <2> QED
    BY <1>4, <1>0, <2>1
       DEF Dispatch, HubRestart, ClaimFollowup, Claim, Send, MarkSent, Fail, factVars, runVars,
           commandVars, workerVars
<1> QED
  BY <1>0, <1>1, <1>2, <1>3, <1>4 DEF Next, vars

\* Every step that would issue or keep a follow-up looks at the right of its author.
LEMMA RevocationStep == TypeOK /\ FollowupSound /\ RevocationHolds /\ [Next]_vars => RevocationHolds'
<1> SUFFICES ASSUME TypeOK, FollowupSound, RevocationHolds, [Next]_vars PROVE RevocationHolds'
  OBVIOUS
<1>0. ASSUME UNCHANGED <<messages, revoked, attempted>> PROVE RevocationHolds'
  BY <1>0 DEF RevocationHolds
<1>1. CASE NodeFrame
  <2>1. CASE RuntimeReady
    BY <2>1
       DEF RuntimeReady, EnterRunning, Converge, End, Settled, RevocationHolds, factVars,
           workerVars, TypeOK
  <2>2. CASE CancelConfirmed
    BY <2>2 DEF CancelConfirmed, Converge, End, Settled, RevocationHolds, factVars, TypeOK
  <2>3. ASSUME NEW to \in {"completed", "failed"}, Verdict(to) PROVE RevocationHolds'
    BY <2>3 DEF Verdict, Converge, End, Settled, RevocationHolds, factVars, TypeOK
  <2>4. ASSUME NEW to \in {"running"} \union RunTerminal, Snapshot(to) PROVE RevocationHolds'
    BY <2>4
       DEF Snapshot, EnterRunning, End, Settled, RevocationHolds, factVars, workerVars, TypeOK
  <2>5. ASSUME NEW a \in Approval, ApprovalRequested(a) PROVE RevocationHolds'
    BY <2>5
       DEF ApprovalRequested, Converge, End, Settled, RevocationHolds, factVars, workerVars,
           TypeOK
  <2>6. ASSUME NEW a \in Approval, NEW outcome \in ApprovalDecided, ApprovalSettled(a, outcome)
        PROVE  RevocationHolds'
    BY <2>6
       DEF ApprovalSettled, EnterRunning, Converge, End, Settled, RevocationHolds, factVars,
           workerVars, TypeOK
  <2>7. ASSUME NEW s \in Start, NEW accepted \in BOOLEAN, AckStart(s, accepted)
        PROVE  RevocationHolds'
    BY <2>7 DEF AckStart, End, Settled, RevocationHolds, factVars, workerVars, TypeOK
  <2>8. ASSUME NEW m \in Message, NEW accepted \in BOOLEAN, AckFollowup(m, accepted)
        PROVE  RevocationHolds'
    BY <2>8 DEF AckFollowup, RevocationHolds, factVars, workerVars
  <2> QED
    BY <1>1, <1>0, <2>1, <2>2, <2>3, <2>4, <2>5, <2>6, <2>7, <2>8
       DEF NodeFrame, OtherEvent, ContextReceipt, ReleaseZombie, factVars, runVars, commandVars,
           workerVars
<1>2. CASE User
  <2>1. CASE Cancel
    BY <2>1
       DEF Cancel, WithdrawQueued, CancelActive, End, Settled, RevocationHolds, factVars,
           workerVars, TypeOK
  <2>2. ASSUME NEW a \in Approval, NEW answer \in {"allowed_once", "rejected"}, Decide(a, answer)
        PROVE  RevocationHolds'
    BY <2>2 DEF Decide, Close, EnterRunning, RevocationHolds, factVars, workerVars, TypeOK
  <2>3. ASSUME NEW m \in Message, PostFollowup(m) PROVE RevocationHolds'
    BY <2>3 DEF PostFollowup, Barred, RevocationHolds, factVars, workerVars
  <2>4. ASSUME NEW m \in Message, Revoke(m) PROVE RevocationHolds'
    BY <2>4 DEF Revoke, Unclaimed, RevocationHolds, workerVars, TypeOK, FollowupSound
  <2>5. ASSUME NEW m \in Message, ChangeRights(m) PROVE RevocationHolds'
    BY <2>5 DEF ChangeRights, RevocationHolds, runVars, workerVars
  <2> QED
    BY <1>2, <2>1, <2>2, <2>3, <2>4, <2>5 DEF User
<1>3. CASE Timer
  <2>1. CASE LeaseExpired
    BY <2>1 DEF LeaseExpired, End, Settled, RevocationHolds, factVars, TypeOK
  <2>2. CASE Watchdog
    BY <2>2 DEF Watchdog, End, Settled, RevocationHolds, factVars, TypeOK
  <2>3. ASSUME NEW a \in Approval, Expire(a) PROVE RevocationHolds'
    BY <2>3 DEF Expire, Close, EnterRunning, RevocationHolds, factVars, workerVars, TypeOK
  <2> QED
    BY <1>3, <1>0, <2>1, <2>2, <2>3
       DEF Timer, Deadline, Reissue, factVars, runVars, commandVars, workerVars
<1>4. CASE Dispatch
  <2>1. ASSUME NEW m \in Message, ClaimFollowup(m) PROVE RevocationHolds'
    BY <2>1 DEF ClaimFollowup, RevocationHolds, factVars, runVars
  <2>2. ASSUME NEW w \in Worker, BeforeDispatch(w) PROVE RevocationHolds'
    BY <2>2
       DEF BeforeDispatch, WithdrawQueued, End, Settled, RevocationHolds, factVars, runVars,
           TypeOK
  <2> QED
    BY <1>4, <1>0, <2>1, <2>2
       DEF Dispatch, HubRestart, Claim, Send, MarkSent, Fail, factVars, runVars, commandVars,
           workerVars
<1> QED
  BY <1>0, <1>1, <1>2, <1>3, <1>4 DEF Next, vars

\* While the Run is queued its only run.start stays pending; once it is not, no other is issued.
LEMMA StartStep == TypeOK /\ StartSound /\ [Next]_vars => StartSound'
<1> SUFFICES ASSUME TypeOK, StartSound, [Next]_vars PROVE StartSound'
  OBVIOUS
<1>0. ASSUME UNCHANGED <<status, valid, startRow, delivered, hand>> PROVE StartSound'
  BY <1>0 DEF StartSound, Step
<1>1. CASE NodeFrame
  <2>1. CASE RuntimeReady
    BY <2>1 DEF RuntimeReady, EnterRunning, Converge, End, StartSound, factVars, workerVars
  <2>2. CASE CancelConfirmed
    BY <2>2 DEF CancelConfirmed, Converge, End, StartSound, factVars, workerVars
  <2>3. CASE OtherEvent
    BY <2>3 DEF OtherEvent, Accepted, StartSound, factVars, commandVars, workerVars
  <2>4. ASSUME NEW to \in {"completed", "failed"}, Verdict(to) PROVE StartSound'
    BY <2>4 DEF Verdict, Converge, End, StartSound, factVars, workerVars
  <2>5. ASSUME NEW to \in {"running"} \union RunTerminal, Snapshot(to) PROVE StartSound'
    BY <2>5 DEF Snapshot, EnterRunning, End, StartSound, factVars, workerVars, RunTerminal
  <2>6. ASSUME NEW a \in Approval, ApprovalRequested(a) PROVE StartSound'
    BY <2>6 DEF ApprovalRequested, Converge, End, StartSound, factVars, workerVars
  <2>7. ASSUME NEW a \in Approval, NEW outcome \in ApprovalDecided, ApprovalSettled(a, outcome)
        PROVE  StartSound'
    BY <2>7
       DEF ApprovalSettled, Accepted, EnterRunning, Converge, End, StartSound, factVars,
           workerVars
  <2>8. ASSUME NEW s \in Start, NEW accepted \in BOOLEAN, AckStart(s, accepted) PROVE StartSound'
    BY <2>8 DEF AckStart, Accepted, End, StartSound, factVars, workerVars
  <2> QED
    BY <1>1, <1>0, <2>1, <2>2, <2>3, <2>4, <2>5, <2>6, <2>7, <2>8
       DEF NodeFrame, ContextReceipt, ReleaseZombie, AckFollowup, factVars, runVars, commandVars,
           workerVars
<1>2. CASE User
  <2>1. CASE Cancel
    BY <2>1
       DEF Cancel, WithdrawQueued, Withdrawn, CancelActive, End, StartSound, factVars,
           workerVars, InHand, TypeOK
  <2>2. ASSUME NEW a \in Approval, NEW answer \in {"allowed_once", "rejected"}, Decide(a, answer)
        PROVE  StartSound'
    BY <2>2 DEF Decide, Close, EnterRunning, Step, StartSound, factVars, workerVars
  <2> QED
    BY <1>2, <1>0, <2>1, <2>2
       DEF User, PostFollowup, Revoke, ChangeRights, factVars, runVars, commandVars, workerVars
<1>3. CASE Timer
  <2>1. CASE LeaseExpired
    BY <2>1 DEF LeaseExpired, End, StartSound, factVars, commandVars, workerVars
  <2>2. CASE Watchdog
    BY <2>2 DEF Watchdog, End, StartSound, factVars, workerVars
  <2>3. ASSUME NEW a \in Approval, Expire(a) PROVE StartSound'
    BY <2>3 DEF Expire, Close, EnterRunning, Step, StartSound, factVars, workerVars
  <2>4. ASSUME NEW s \in Start, Reissue(s) PROVE StartSound'
    BY <2>4 DEF Reissue, StartSound, factVars, workerVars
  <2> QED
    BY <1>3, <1>0, <2>1, <2>2, <2>3, <2>4
       DEF Timer, Deadline, factVars, runVars, commandVars, workerVars
<1>4. CASE Dispatch
  <2>1. CASE HubRestart
    BY <2>1 DEF HubRestart, Step, StartSound, factVars, runVars, commandVars
  <2>2. ASSUME NEW w \in Worker, NEW s \in Start, Claim(w, s) PROVE StartSound'
    BY <2>2 DEF Claim, Step, StartSound, factVars, runVars, commandVars
  <2>3. ASSUME NEW w \in Worker, BeforeDispatch(w) PROVE StartSound'
    BY <2>3
       DEF BeforeDispatch, WithdrawQueued, Withdrawn, End, Step, Proceed, StartSound, factVars,
           runVars, commandVars, InHand, TypeOK
  <2>4. ASSUME NEW w \in Worker, Send(w) PROVE StartSound'
    BY <2>4
       DEF Send, Step, Proceed, Done, StartSound, factVars, runVars, commandVars, InHand, TypeOK
  <2>5. ASSUME NEW w \in Worker, MarkSent(w) PROVE StartSound'
    BY <2>5 DEF MarkSent, Step, Done, StartSound, factVars, runVars, commandVars
  <2>6. ASSUME NEW w \in Worker, Fail(w) PROVE StartSound'
    BY <2>6 DEF Fail, Done, Withdrawn, StartSound, factVars, runVars
  <2> QED
    BY <1>4, <1>0, <2>1, <2>2, <2>3, <2>4, <2>5, <2>6
       DEF Dispatch, ClaimFollowup, factVars, runVars, commandVars, workerVars
<1> QED
  BY <1>0, <1>1, <1>2, <1>3, <1>4 DEF Next, vars


\* At most one Approval is open: a second question while the Run waits is a conflict.
OneOpen == \A a, b \in Pending : a = b

\* Only a Run that runs, and so has no open question, is asked one.
LEMMA OneOpenStep == TypeOK /\ WaitingIffOpen /\ OneOpen /\ [Next]_vars => OneOpen'
<1> SUFFICES ASSUME TypeOK, WaitingIffOpen, OneOpen, [Next]_vars PROVE OneOpen'
  OBVIOUS
<1>1. ASSUME Pending' \subseteq Pending PROVE OneOpen'
  BY <1>1 DEF OneOpen
<1>2. ASSUME NEW a \in Approval, ApprovalRequested(a) PROVE OneOpen'
  <2>1. CASE Allows(Accepted, "approval_opened")
    <3>1. status = "running"
      BY <1>2, <2>1 DEF ApprovalRequested, Reported, Allows, RunNext, Accepted
    <3>2. Pending = {}
      BY <3>1 DEF WaitingIffOpen
    <3>3. Pending' \subseteq {a}
      BY <1>2, <2>1, <3>2 DEF ApprovalRequested, Pending, TypeOK
    <3> QED
      BY <3>3 DEF OneOpen
  <2>2. CASE ~Allows(Accepted, "approval_opened")
    <3>1. Pending' = {}
      BY <1>2, <2>2 DEF ApprovalRequested, Converge, Folded, Pending
    <3> QED
      BY <1>1, <3>1
  <2> QED
    BY <2>1, <2>2
<1>3. ASSUME NEW a \in Approval, NEW outcome \in ApprovalDecided, ApprovalSettled(a, outcome)
      PROVE  Pending' \subseteq Pending
  BY <1>3 DEF ApprovalSettled, Converge, Folded, Settled, Pending, TypeOK, ApprovalDecided
<1>4. ASSUME NEW a \in Approval, NEW outcome \in {"allowed_once", "rejected", "expired"}, NEW answer,
             Close(a, outcome, answer)
      PROVE  Pending' \subseteq Pending
  BY <1>4 DEF Close, Pending, TypeOK
<1>5. ASSUME UNCHANGED approvals \/ approvals' = Folded(approvals)
      PROVE  Pending' \subseteq Pending
  BY <1>5 DEF Folded, Pending
<1>6. CASE NodeFrame
  BY <1>1, <1>2, <1>3, <1>5, <1>6
     DEF NodeFrame, RuntimeReady, CancelConfirmed, OtherEvent, ContextReceipt, ReleaseZombie,
         Verdict, Snapshot, AckStart, AckFollowup, Converge, runVars
<1>7. CASE User
  BY <1>1, <1>4, <1>5, <1>7
     DEF User, Cancel, WithdrawQueued, CancelActive, Decide, PostFollowup, Revoke, ChangeRights, runVars
<1>8. CASE Timer
  BY <1>1, <1>4, <1>5, <1>8 DEF Timer, LeaseExpired, Watchdog, Deadline, Expire, Reissue, runVars
<1>9. CASE Dispatch
  BY <1>1, <1>5, <1>9
     DEF Dispatch, HubRestart, ClaimFollowup, Claim, BeforeDispatch, WithdrawQueued, Send,
         MarkSent, Fail, runVars
<1>10. CASE UNCHANGED vars
  BY <1>1, <1>5, <1>10 DEF vars
<1> QED
  BY <1>6, <1>7, <1>8, <1>9, <1>10 DEF Next

-----------------------------------------------------------------------------
Inv == /\ TypeOK /\ WaitingIffOpen /\ OneOpen /\ NoneLeftPending /\ FollowupSound
       /\ NoneForgotten /\ AnswerOnRecord /\ RevocationHolds /\ StartSound

\* A new Run satisfies every part.
LEMMA InitSound == Init => Inv
<1> SUFFICES ASSUME Init PROVE Inv
  OBVIOUS
<1>1. TypeOK
  BY DEF Init, TypeOK, RunStatus, RunActive, ApprovalState, MessageState, RowState
<1>2. Pending = {} /\ status = "queued"
  BY DEF Init, Pending
<1>3. WaitingIffOpen /\ OneOpen /\ NoneLeftPending /\ NoneForgotten
  BY <1>2 DEF WaitingIffOpen, OneOpen, NoneLeftPending, NoneForgotten, RunTerminal
<1>4. FollowupSound /\ AnswerOnRecord /\ RevocationHolds
  BY DEF Init, FollowupSound, AnswerOnRecord, RevocationHolds
<1>5. StartSound
  BY DEF Init, StartSound, Step
<1> QED
  BY <1>1, <1>3, <1>4, <1>5 DEF Inv

\* The inductive invariant of the Hub's records.
THEOREM Invariance == Spec => []Inv
<1>1. Inv /\ [Next]_vars => Inv'
  BY TypeStep, WaitingStep, OneOpenStep, NoneLeftStep, FollowupStep, ForgottenStep, AnswerStep,
     RevocationStep, StartStep DEF Inv
<1> QED
  BY <1>1, InitSound, PTL DEF Spec

\* Every variable keeps its type, whatever the Node, people, timers and workers do.
THEOREM TypeCorrect == Spec => []TypeOK
BY Invariance, PTL DEF Inv

\* The Run waits exactly while a question is open: none of the paths out of
\* waiting_approval (run.* events, snapshots, cancel, lease, watchdog) leaves one behind.
THEOREM WaitingTheorem == Spec => []WaitingIffOpen
BY Invariance, PTL DEF Inv

\* setRunStatus leaves no message of a Run that is over without an answer.
THEOREM NoneLeftTheorem == Spec => []NoneLeftPending
BY Invariance, PTL DEF Inv

\* applyRunStatus lets the queued follow-ups go on every way into running.
THEOREM NoneForgottenTheorem == Spec => []NoneForgotten
BY Invariance, PTL DEF Inv

\* The answer sent to the Node is the one on record, in decide, expire, cancel and fold.
THEOREM AnswerTheorem == Spec => []AnswerOnRecord
BY Invariance, PTL DEF Inv

\* A follow-up's command and its message agree: what is out or waiting has a message that
\* is still pending, what has been answered has none (ack of run.followup, withdrawals).
THEOREM FollowupTheorem == Spec => []FollowupSound
BY Invariance, PTL DEF Inv

\* One run.start at most can be claimed, and never beside one the Node has been sent.
THEOREM StartTheorem == Spec => []StartSound
BY Invariance, PTL DEF Inv

\* After revokeInstructionRight only what a worker had claimed can still be accepted.
THEOREM RevocationTheorem == Spec => []RevocationHolds
BY Invariance, PTL DEF Inv

\* reconcileOne never causes a Run to be sent under a second command id.
THEOREM OneIdTheorem == Spec => []OneIdDelivered
<1>1. Inv => OneIdDelivered
  BY DEF Inv, TypeOK, StartSound, OneIdDelivered
<1> QED
  BY <1>1, Invariance, PTL

-----------------------------------------------------------------------------
\* What is over does not change: each handler checks the state under the lock of the row.
LEMMA TerminalStep ==
    ASSUME Inv, [Next]_vars, status \in RunTerminal
    PROVE  /\ UNCHANGED <<status, approvals, trigger>>
           /\ \A m \in Message : messages[m] # "absent" => messages'[m] = messages[m]
<1> DEFINE Final == /\ UNCHANGED <<status, approvals, trigger>>
                    /\ \A m \in Message : messages[m] # "absent" => messages'[m] = messages[m]
<1>0. status \notin RunActive /\ status # "waiting_approval" /\ Pending = {}
  BY DEF Inv, WaitingIffOpen, RunActive, RunTerminal
<1>1. CASE NodeFrame
  <2>1. ASSUME NEW s \in Start, NEW accepted \in BOOLEAN, AckStart(s, accepted) PROVE Final
    BY <1>0, <2>1 DEF AckStart, Accepted, Settled, Inv, NoneLeftPending, RunActive
  <2>2. ASSUME NEW m \in Message, NEW accepted \in BOOLEAN, AckFollowup(m, accepted) PROVE Final
    BY <2>2 DEF AckFollowup, Settled, Inv, TypeOK, NoneLeftPending
  <2> QED
    BY <1>0, <1>1, <2>1, <2>2
       DEF NodeFrame, RuntimeReady, CancelConfirmed, OtherEvent, ContextReceipt, ReleaseZombie,
           Verdict, Snapshot, ApprovalRequested, ApprovalSettled, Reported, runVars
<1>2. CASE User
  <2>1. ASSUME NEW m \in Message, PostFollowup(m) \/ Revoke(m) PROVE Final
    BY <2>1 DEF PostFollowup, Revoke, Inv, TypeOK, NoneLeftPending
  <2> QED
    BY <1>0, <1>2, <2>1 DEF User, Cancel, Decide, ChangeRights, RunActive, runVars
<1>3. CASE Timer
  BY <1>0, <1>3 DEF Timer, LeaseExpired, Watchdog, Deadline, Expire, Reissue, RunActive, runVars
<1>4. CASE Dispatch
  <2>1. ASSUME NEW w \in Worker, BeforeDispatch(w) PROVE Final
    BY <1>0, <2>1 DEF BeforeDispatch, RunActive, runVars
  <2> QED
    BY <1>4, <2>1 DEF Dispatch, HubRestart, ClaimFollowup, Claim, Send, MarkSent, Fail, runVars
<1>5. CASE UNCHANGED vars
  BY <1>5 DEF vars
<1> QED
  BY <1>1, <1>2, <1>3, <1>4, <1>5 DEF Next

\* Late events, acks, decisions and timers change nothing of a Run that is over.
THEOREM TerminalTheorem == Spec => TerminalIsFinal
<1>1. Inv /\ [Next]_vars =>
        [(status \in RunTerminal) =>
           /\ UNCHANGED <<status, approvals, trigger>>
           /\ \A m \in Message : messages[m] # "absent" => messages'[m] = messages[m]]_vars
  BY TerminalStep
<1> QED
  BY <1>1, Invariance, PTL DEF Spec, TerminalIsFinal

\* A Run cancelled, or refused by beforeDispatch, before it was sent leaves no run.start
\* that would still be claimed.
THEOREM QueuedEndTheorem == Spec => QueuedEndWithdraws
<1>1. Inv /\ [Next]_vars =>
        [valid /\ delivered = {} /\ status = "queued" /\ status' \in RunTerminal =>
           \A s \in Start : startRow'[s] # "pending"]_vars
  <2> SUFFICES ASSUME Inv, [Next]_vars, valid, delivered = {}, status = "queued",
                      status' \in RunTerminal, NEW s \in Start
               PROVE  startRow'[s] # "pending"
    OBVIOUS
  <2>1. WithdrawQueued \/ \E w \in Worker : BeforeDispatch(w)
    BY DEF Next, NodeFrame, RuntimeReady, CancelConfirmed, OtherEvent, ContextReceipt,
           ReleaseZombie, Verdict, Snapshot, ApprovalRequested, ApprovalSettled, AckStart,
           AckFollowup, Reported, User, Cancel, Decide, Close, PostFollowup, Revoke,
           ChangeRights, Timer, LeaseExpired, Watchdog, Deadline, Expire, Reissue, Dispatch,
           HubRestart, ClaimFollowup, Claim, Send, MarkSent, Fail, vars, runVars, RunTerminal
  <2>2. CASE WithdrawQueued
    BY <2>2 DEF WithdrawQueued, Withdrawn
  <2>3. ASSUME NEW w \in Worker, BeforeDispatch(w) PROVE startRow'[s] # "pending"
    <3>1. hand[w] # Idle /\ hand[w].start \in Start
      BY <2>3 DEF BeforeDispatch, Step, Inv, TypeOK, InHand
    <3>2. startRow[s] # "absent" => s = hand[w].start
      BY <3>1 DEF Inv, StartSound
    <3> QED
      BY <2>3, <3>1, <3>2
         DEF BeforeDispatch, WithdrawQueued, Withdrawn, Inv, TypeOK, runVars, RunTerminal
  <2> QED
    BY <2>1, <2>2, <2>3
<1> QED
  BY <1>1, Invariance, PTL DEF Spec, QueuedEndWithdraws

\* decideApproval, settleInstruction and the folds write only where nothing is written yet.
LEMMA FirstAnswerStep ==
    ASSUME TypeOK, FollowupSound, [Next]_vars
    PROVE  /\ \A a \in Approval : approvals[a] \in ApprovalDecided => approvals'[a] = approvals[a]
           /\ \A m \in Message : messages[m] \in {"accepted", "rejected"} => messages'[m] = messages[m]
           /\ trigger \in {"accepted", "rejected"} => trigger' = trigger
<1> DEFINE ApprovalsStand == \A a \in Approval : approvals[a] \in ApprovalDecided => approvals'[a] = approvals[a]
           MessagesStand == \A m \in Message : messages[m] \in {"accepted", "rejected"} => messages'[m] = messages[m]
           TriggerStands == trigger \in {"accepted", "rejected"} => trigger' = trigger
           Stand == ApprovalsStand /\ MessagesStand /\ TriggerStands
<1>1. ASSUME approvals' = approvals \/ approvals' = Folded(approvals) PROVE ApprovalsStand
  BY <1>1 DEF Folded, ApprovalDecided
<1>2. ASSUME NEW to, End(to) PROVE MessagesStand /\ TriggerStands
  BY <1>2 DEF End, Settled
<1>3. ASSUME EnterRunning PROVE MessagesStand /\ TriggerStands
  BY <1>3 DEF EnterRunning, Waiting
<1>4. ASSUME UNCHANGED <<trigger, messages>> PROVE MessagesStand /\ TriggerStands
  BY <1>4
<1>5. ASSUME NEW A \in [Approval -> ApprovalState], Converge(A),
             \A a \in Approval : approvals[a] \in ApprovalDecided => A[a] = approvals[a]
      PROVE  Stand
  <2>1. ApprovalsStand
    BY <1>5 DEF Converge, Folded, ApprovalDecided
  <2> QED
    BY <1>2, <1>5, <2>1 DEF Converge
<1>6. ASSUME NEW a \in Pending, NEW outcome, NEW answer, Close(a, outcome, answer) PROVE Stand
  <2>1. ApprovalsStand
    BY <1>6 DEF Close, Pending, ApprovalDecided, TypeOK
  <2> QED
    BY <1>3, <1>4, <1>6, <2>1 DEF Close
<1>7. CASE NodeFrame
  <2>1. CASE RuntimeReady \/ CancelConfirmed \/ OtherEvent \/ ContextReceipt \/ ReleaseZombie
    BY <1>1, <1>2, <1>3, <1>4, <1>5, <2>1
       DEF RuntimeReady, CancelConfirmed, OtherEvent, ContextReceipt, ReleaseZombie, TypeOK, runVars
  <2>2. ASSUME NEW to \in {"completed", "failed"}, Verdict(to) PROVE Stand
    BY <1>1, <1>2, <1>5, <2>2 DEF Verdict, TypeOK
  <2>3. ASSUME NEW to \in {"running"} \union RunTerminal, Snapshot(to) PROVE Stand
    BY <1>1, <1>2, <1>3, <2>3 DEF Snapshot
  <2>4. ASSUME NEW a \in Approval, ApprovalRequested(a) PROVE Stand
    <3> DEFINE asked == [approvals EXCEPT ![a] = "pending"]
    <3>1. /\ asked \in [Approval -> ApprovalState]
          /\ \A b \in Approval : approvals[b] \in ApprovalDecided => asked[b] = approvals[b]
      BY <2>4 DEF ApprovalRequested, TypeOK, ApprovalState, ApprovalDecided
    <3> QED
      BY <1>4, <1>5, <2>4, <3>1 DEF ApprovalRequested
  <2>5. ASSUME NEW a \in Approval, NEW outcome \in ApprovalDecided, ApprovalSettled(a, outcome) PROVE Stand
    <3>1. CASE approvals[a] = "absent"
      BY <1>5, <2>5, <3>1 DEF ApprovalSettled, TypeOK
    <3>2. CASE approvals[a] # "absent"
      <4>1. ApprovalsStand
        BY <2>5, <3>2 DEF ApprovalSettled, Settled, TypeOK, ApprovalDecided
      <4> QED
        BY <1>3, <1>4, <2>5, <3>2, <4>1 DEF ApprovalSettled
    <3> QED
      BY <3>1, <3>2
  <2>6. ASSUME NEW s \in Start, NEW accepted \in BOOLEAN, AckStart(s, accepted) PROVE Stand
    BY <1>1, <1>2, <2>6 DEF AckStart, Settled
  <2>7. ASSUME NEW m \in Message, NEW accepted \in BOOLEAN, AckFollowup(m, accepted) PROVE Stand
    BY <2>7 DEF AckFollowup, Settled, TypeOK
  <2> QED
    BY <1>7, <2>1, <2>2, <2>3, <2>4, <2>5, <2>6, <2>7 DEF NodeFrame
<1>8. CASE User
  <2>1. ASSUME NEW m \in Message, PostFollowup(m) \/ Revoke(m) \/ ChangeRights(m) PROVE Stand
    BY <2>1 DEF PostFollowup, Revoke, ChangeRights, TypeOK, runVars
  <2>2. CASE Cancel
    BY <1>1, <1>2, <1>4, <2>2 DEF Cancel, WithdrawQueued, CancelActive
  <2> QED
    BY <1>6, <1>8, <2>1, <2>2 DEF User, Decide
<1>9. CASE Timer
  BY <1>1, <1>2, <1>4, <1>6, <1>9
     DEF Timer, LeaseExpired, Watchdog, Deadline, Expire, Reissue, runVars
<1>10. CASE Dispatch
  <2>1. ASSUME NEW w \in Worker, BeforeDispatch(w) PROVE Stand
    BY <1>1, <1>2, <1>4, <2>1 DEF BeforeDispatch, WithdrawQueued, runVars
  <2> QED
    BY <1>1, <1>4, <1>10, <2>1
       DEF Dispatch, HubRestart, ClaimFollowup, Claim, Send, MarkSent, Fail, runVars
<1>11. CASE UNCHANGED vars
  BY <1>11 DEF vars
<1> QED
  BY <1>7, <1>8, <1>9, <1>10, <1>11 DEF Next

\* The first decision on an Approval and the first answer to a message stand.
THEOREM FirstAnswerTheorem == Spec => FirstAnswerStands
<1>1. Inv /\ [Next]_vars =>
        [/\ \A a \in Approval : approvals[a] \in ApprovalDecided => approvals'[a] = approvals[a]
         /\ \A m \in Message : messages[m] \in {"accepted", "rejected"} => messages'[m] = messages[m]
         /\ trigger \in {"accepted", "rejected"} => trigger' = trigger]_vars
  BY FirstAnswerStep DEF Inv
<1> QED
  BY <1>1, Invariance, PTL DEF Spec, FirstAnswerStands

-----------------------------------------------------------------------------
(* The Run as clients see it: each step is one of RunLifecycle, or none.   *)

\* The ways to take a step of RunLifecycle, in terms of this module.
LEMMA EdgeRefines ==
    ASSUME NEW event, NEW to, status' = to,
           <<status, event, to>> \in RunNext \/ <<Accepted, event, to>> \in RunNext
    PROVE  Lifecycle!Edge(event, to)
BY DEF Lifecycle!Edge, Lifecycle!Accepted, Accepted, Lifecycle!RunNext, RunNext

\* A Run that ends is a step of the life cycle.
LEMMA EndRefines ==
    ASSUME NEW event \in {"cancel_before_dispatch", "completed", "failed", "lease_expired", "cancel_confirmed"},
           NEW to \in RunTerminal, status' = to, Pending' = {},
           <<status, event, to>> \in RunNext \/ <<Accepted, event, to>> \in RunNext
    PROVE  Lifecycle!Next
BY EdgeRefines DEF Lifecycle!Next, Lifecycle!End, Lifecycle!RunTerminal, RunTerminal

\* So is one whose open questions cannot be answered any more.
LEMMA ConvergeRefines ==
    ASSUME status \in RunActive, status' = "failed", Pending' = {}
    PROVE  Lifecycle!Next
BY DEF Lifecycle!Next, Lifecycle!End, Lifecycle!RunActive, RunActive

\* So is one that starts or becomes ready.
LEMMA AdvanceRefines ==
    ASSUME NEW event \in {"dispatch_acked", "runtime_ready"}, NEW to \in {"dispatching", "running"},
           status' = to, Pending' = Pending,
           <<status, event, to>> \in RunNext \/ <<Accepted, event, to>> \in RunNext
    PROVE  Lifecycle!Next
BY EdgeRefines DEF Lifecycle!Next, Lifecycle!Advance

\* So is one whose last question is answered.
LEMMA AnswerRefines ==
    ASSUME status = "waiting_approval", status' = "running", Pending' = {}
    PROVE  Lifecycle!Next
BY EdgeRefines DEF Lifecycle!Next, Lifecycle!Answer, RunNext

\* So is one whose cancellation is requested.
LEMMA RequestCancelRefines ==
    ASSUME status \in {"dispatching", "running", "waiting_approval"}, status' = "cancel_requested",
           Pending' = {}
    PROVE  Lifecycle!Next
BY EdgeRefines DEF Lifecycle!Next, Lifecycle!RequestCancel, RunNext

\* Every transaction of the Hub is a step of the state diagram, or leaves it alone.
LEMMA LifecycleStep ==
    ASSUME TypeOK, WaitingIffOpen, OneOpen, [Next]_vars
    PROVE  [Lifecycle!Next]_Lifecycle!vars
<1> DEFINE Refines == [Lifecycle!Next]_Lifecycle!vars
<1>1. ASSUME UNCHANGED <<status, approvals>> PROVE Refines
  BY <1>1 DEF Lifecycle!vars, Pending
<1>2. ASSUME approvals' = approvals PROVE Pending' = Pending
  BY <1>2 DEF Pending
<1>3. ASSUME NEW A, approvals' = Folded(A) PROVE Pending' = {}
  BY <1>3 DEF Folded, Pending
<1>4. ASSUME status # "waiting_approval" PROVE Pending = {}
  BY <1>4 DEF WaitingIffOpen
<1>5. ASSUME NEW A, Converge(A), status \in RunActive PROVE Refines
  BY <1>3, <1>5, ConvergeRefines DEF Converge, End
<1>6. ASSUME NEW a \in Pending, NEW outcome \in ApprovalDecided, NEW answer, Close(a, outcome, answer)
      PROVE  Refines
  <2>1. status = "waiting_approval" /\ Pending = {a}
    BY DEF WaitingIffOpen, OneOpen
  <2>2. Pending' = {} /\ status' = "running"
    BY <1>6, <2>1 DEF Close, EnterRunning, Pending, TypeOK, ApprovalDecided
  <2> QED
    BY <2>1, <2>2, AnswerRefines
<1>7. CASE NodeFrame
  <2>1. CASE RuntimeReady
    <3>1. CASE Allows(Accepted, "runtime_ready")
      <4>1. status' = "running" /\ Accepted = "dispatching" /\ Pending' = Pending
        BY <1>2, <2>1, <3>1 DEF RuntimeReady, EnterRunning, Allows, RunNext
      <4> QED
        BY <4>1, AdvanceRefines DEF RunNext
    <3> QED
      BY <1>5, <2>1, <3>1 DEF RuntimeReady, Reported
  <2>2. CASE CancelConfirmed
    <3>1. CASE Allows(Accepted, "cancel_confirmed")
      <4>1. status = "cancel_requested" /\ status' = "cancelled" /\ Pending' = Pending
        BY <1>2, <2>2, <3>1 DEF CancelConfirmed, End, Allows, RunNext, Accepted
      <4> QED
        BY <1>4, <4>1, EndRefines DEF RunNext, RunTerminal
    <3> QED
      BY <1>5, <2>2, <3>1 DEF CancelConfirmed, Reported
  <2>3. CASE OtherEvent
    <3>1. CASE status = "queued"
      BY <1>2, <2>3, <3>1, AdvanceRefines DEF OtherEvent, Accepted, RunNext
    <3> QED
      BY <1>1, <2>3, <3>1 DEF OtherEvent, Accepted
  <2>4. ASSUME NEW to \in {"completed", "failed"}, Verdict(to) PROVE Refines
    <3>1. CASE Allows(Accepted, to)
      <4>1. status' = to /\ Pending' = {} /\ <<Accepted, to, to>> \in RunNext
        BY <1>3, <2>4, <3>1 DEF Verdict, End, Allows, RunNext
      <4> QED
        BY <4>1, EndRefines DEF RunTerminal
    <3> QED
      BY <1>5, <2>4, <3>1 DEF Verdict, Reported
  <2>5. ASSUME NEW to \in {"running"} \union RunTerminal, Snapshot(to) PROVE Refines
    <3>1. CASE to = "running"
      BY <1>2, <2>5, <3>1, AdvanceRefines
         DEF Snapshot, SnapshotEvent, EnterRunning, Allows, RunNext
    <3>2. CASE to # "running"
      <4>1. status' = to /\ Pending' = {} /\ <<status, SnapshotEvent[to], to>> \in RunNext
        BY <1>3, <2>5, <3>2 DEF Snapshot, SnapshotEvent, End, Allows, RunNext, RunTerminal
      <4>2. SnapshotEvent[to] \in {"completed", "failed", "lease_expired", "cancel_confirmed"}
        BY <3>2 DEF SnapshotEvent, RunTerminal
      <4> QED
        BY <3>2, <4>1, <4>2, EndRefines
    <3> QED
      BY <3>1, <3>2
  <2>6. ASSUME NEW a \in Approval, ApprovalRequested(a) PROVE Refines
    <3>1. CASE Allows(Accepted, "approval_opened")
      <4>1. status = "running" /\ status' = "waiting_approval"
        BY <2>6, <3>1 DEF ApprovalRequested, Reported, Allows, RunNext, Accepted
      <4>2. Pending' = {a}
        BY <1>4, <2>6, <3>1, <4>1 DEF ApprovalRequested, Pending, TypeOK
      <4>3. Lifecycle!Ask
        BY <4>1, <4>2, EdgeRefines DEF Lifecycle!Ask, RunNext
      <4> QED
        BY <4>3 DEF Lifecycle!Next
    <3> QED
      BY <1>5, <2>6, <3>1 DEF ApprovalRequested, Reported
  <2>7. ASSUME NEW a \in Approval, NEW outcome \in ApprovalDecided, ApprovalSettled(a, outcome) PROVE Refines
    <3>1. CASE approvals[a] = "absent"
      BY <1>5, <2>7, <3>1 DEF ApprovalSettled, Reported
    <3>2. CASE approvals[a] # "absent" /\ Accepted = "waiting_approval" /\ Pending \subseteq {a}
      <4>1. status = "waiting_approval" /\ status' = "running" /\ Pending' = {}
        BY <2>7, <3>2
           DEF ApprovalSettled, Accepted, EnterRunning, Settled, Pending, TypeOK, ApprovalDecided
      <4> QED
        BY <4>1, AnswerRefines
    <3>3. CASE approvals[a] # "absent" /\ ~(Accepted = "waiting_approval" /\ Pending \subseteq {a})
      <4>1. a \notin Pending
        BY <1>4, <3>3 DEF OneOpen, Accepted
      <4>2. Pending' = Pending /\ status' = Accepted
        BY <2>7, <3>3, <4>1 DEF ApprovalSettled, Settled, Pending, TypeOK, ApprovalDecided
      <4>3. CASE status = "queued"
        BY <4>2, <4>3, AdvanceRefines DEF Accepted, RunNext
      <4> QED
        BY <4>2, <4>3 DEF Accepted, Lifecycle!vars
    <3> QED
      BY <3>1, <3>2, <3>3
  <2>8. ASSUME NEW s \in Start, NEW accepted \in BOOLEAN, AckStart(s, accepted) PROVE Refines
    <3>1. approvals' = approvals
      BY <2>8 DEF AckStart
    <3>2. CASE status = "queued" /\ ~accepted
      BY <1>2, <1>4, <2>8, <3>1, <3>2, EndRefines DEF AckStart, End, RunNext, RunTerminal
    <3>3. CASE status = "queued" /\ accepted
      BY <1>2, <2>8, <3>1, <3>3, AdvanceRefines DEF AckStart, Accepted, RunNext
    <3>4. CASE status # "queued"
      BY <1>1, <2>8, <3>1, <3>4 DEF AckStart, Accepted
    <3> QED
      BY <3>2, <3>3, <3>4
  <2> QED
    BY <1>1, <1>7, <2>1, <2>2, <2>3, <2>4, <2>5, <2>6, <2>7, <2>8
       DEF NodeFrame, ContextReceipt, ReleaseZombie, AckFollowup, runVars
<1>8. ASSUME WithdrawQueued, status = "queued" PROVE Refines
  BY <1>2, <1>4, <1>8, EndRefines DEF WithdrawQueued, End, RunNext, RunTerminal
<1>9. CASE User
  <2>1. CASE Cancel
    BY <1>3, <1>8, <2>1, RequestCancelRefines DEF Cancel, CancelActive
  <2> QED
    BY <1>1, <1>6, <1>9, <2>1
       DEF User, Decide, PostFollowup, Revoke, ChangeRights, runVars, ApprovalDecided
<1>10. CASE Timer
  <2>1. CASE LeaseExpired
    <3>1. status' = "lost" /\ Pending' = {} /\ <<status, "lease_expired", "lost">> \in RunNext
      BY <1>3, <2>1 DEF LeaseExpired, End, RunActive, RunNext
    <3> QED
      BY <3>1, EndRefines DEF RunTerminal
  <2>2. CASE Watchdog
    BY <1>3, <2>2, ConvergeRefines DEF Watchdog, End, RunActive
  <2> QED
    BY <1>1, <1>6, <1>10, <2>1, <2>2 DEF Timer, Deadline, Expire, Reissue, runVars, ApprovalDecided
<1>11. CASE Dispatch
  <2>1. ASSUME NEW w \in Worker, BeforeDispatch(w) PROVE Refines
    <3>1. CASE UNCHANGED runVars
      BY <1>1, <3>1 DEF runVars
    <3>2. CASE status = "queued" /\ WithdrawQueued
      BY <1>8, <3>2
    <3>3. CASE status = "queued" /\ End("failed") /\ approvals' = approvals
      BY <1>2, <1>4, <3>3, ConvergeRefines DEF End, RunActive
    <3> QED
      BY <2>1, <3>1, <3>2, <3>3 DEF BeforeDispatch
  <2> QED
    BY <1>1, <1>11, <2>1
       DEF Dispatch, HubRestart, ClaimFollowup, Claim, Send, MarkSent, Fail, runVars
<1>12. CASE UNCHANGED vars
  BY <1>1, <1>12 DEF vars
<1> QED
  BY <1>7, <1>9, <1>10, <1>11, <1>12 DEF Next

\* The records of the Hub implement the state diagram of the domain model.
THEOREM Refinement == Spec => ImplementsLifecycle
<1>1. Init => Lifecycle!Init
  BY DEF Init, Lifecycle!Init, Pending
<1>2. Inv /\ [Next]_vars => [Lifecycle!Next]_Lifecycle!vars
  BY LifecycleStep DEF Inv
<1> QED
  BY <1>1, <1>2, Invariance, PTL DEF Spec, ImplementsLifecycle, Lifecycle!Spec
=============================================================================
