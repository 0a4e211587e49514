------------------------------- MODULE Handoff -------------------------------
(***************************************************************************)
(* A handoff from one Task to the next: the draft of one finished Run, the *)
(* revisions its owner publishes, their delivery to a downstream Task,     *)
(* what its assignee confirms or adopts, and the Runs that take a          *)
(* confirmed revision as their input.  Hub handoff/drafts and receipts     *)
(* with db repositories/handoff, reassignment in task/commands and         *)
(* run/handoff-input.                                                      *)
(*                                                                         *)
(* What a transaction reads before it holds the row it writes is a step of *)
(* its own, and what it read stays: a call may commit at any later moment, *)
(* several calls may have read the same, and a call that fails or is       *)
(* repeated changes nothing.  A text is the number of the save that made   *)
(* it, 0 the text nobody has saved; a narrative is one that may be         *)
(* published.  The upstream Task has one source Run, keeps its assignee    *)
(* and its agreement; a receipt is named by its revision, as the           *)
(* downstream Task has at most one of each.                                *)
(***************************************************************************)
EXTENDS Integers, Sequences, FiniteSets

CONSTANTS Member,       \* who can be the assignee of the downstream Task
          Nobody,       \* the assignee of a Task that is not there yet
          MaxSave,      \* bound: saves of drafts by their owner
          MaxRevision,  \* bound: published revisions
          MaxDownMove,  \* bound: reassignments of the downstream Task
          MaxDownRun    \* bound: Runs of the downstream Task

ASSUME HandoffAssumption ==
    /\ Nobody \notin Member
    /\ MaxSave \in Nat \ {0} /\ MaxRevision \in Nat \ {0}
    /\ MaxDownMove \in Nat /\ MaxDownRun \in Nat

Revision == 1..MaxRevision
Text     == 0..MaxSave

VARIABLES
    ended,      \* the source Run is terminal
    event,      \* handoff.draft of that Run: due, being ingested, done
    draft,      \* its unpublished draft
    drafts,     \* drafts so far
    saves,      \* saves so far
    starts,     \* <<draft to replace, text>> that a creation has read
    reads,      \* <<draft, text>> that a publication has read
    revisions,  \* published revisions with the row of their draft
    downTask,   \* the downstream Task
    downMoves,  \* reassignments so far
    checked,    \* <<revision, receiver>> that a delivery has checked
    receipts,   \* of each revision at the downstream Task
    decision,   \* of each confirmed receipt, in the facts of the project
    downRuns,   \* of the downstream Task
    downBusy    \* the last of them is active

draftVars == <<ended, event, draft, drafts, saves, starts, reads, revisions>>
downTaskVars  == <<downTask, downMoves>>
receiptVars == <<checked, receipts, decision>>
downRunVars   == <<downRuns, downBusy>>
handoffVars == <<draftVars, downTaskVars, receiptVars, downRunVars>>

NoDraft   == [status |-> "none", id |-> 0, text |-> 0]
NoTask    == [assignee |-> Nobody, assignment |-> "none", status |-> "none"]
NoReceipt == [receiver |-> Nobody, status |-> "none"]

DraftTypes ==
    /\ ended \in BOOLEAN /\ event \in {"due", "seen", "done"}
    /\ draft \in [status : {"none", "ready", "failed"}, id : Nat, text : Text]
    /\ drafts \in Nat /\ saves \in Text
    /\ starts \subseteq Nat \X Text /\ reads \subseteq Nat \X Text
    /\ revisions \in Seq([draft : Nat, text : Text, row : Text])
    /\ Len(revisions) <= MaxRevision

DownTaskTypes ==
    /\ downTask \in [assignee : Member \union {Nobody},
                 assignment : {"none", "pending", "accepted", "rejected"},
                 status : {"none", "open", "finished"}]
    /\ downTask.status # "none" => downTask.assignee \in Member
    /\ downTask.assignment # "none" => downTask.status # "none"
    /\ downMoves \in 0..MaxDownMove

ReceiptTypes ==
    /\ checked \subseteq Revision \X Member
    /\ receipts \in [Revision -> [receiver : Member \union {Nobody},
                                  status : {"none", "pending", "confirmed"}]]
    /\ \A n \in Revision : receipts[n].status = "none" => receipts[n] = NoReceipt
    /\ decision \in [Revision -> {"none", "active", "superseded", "corrected"}]

DownRunTypes ==
    /\ downRuns \in Seq([input : 0..MaxRevision, from : 0..MaxDownRun, owner : Member])
    /\ Len(downRuns) <= MaxDownRun /\ downBusy \in BOOLEAN

HandoffTypeOK == DraftTypes /\ DownTaskTypes /\ ReceiptTypes /\ DownRunTypes

(* The downstream Task is there already, or a delivery will create it.     *)
HandoffInit ==
    /\ ended = FALSE /\ event = "due" /\ draft = NoDraft /\ drafts = 0 /\ saves = 0
    /\ starts = {} /\ reads = {} /\ revisions = <<>>
    /\ downTask \in {NoTask} \union [assignee : Member, assignment : {"pending"}, status : {"open"}]
    /\ downMoves = 0 /\ checked = {}
    /\ receipts = [n \in Revision |-> NoReceipt] /\ decision = [n \in Revision |-> "none"]
    /\ downRuns = <<>> /\ downBusy = FALSE

-----------------------------------------------------------------------------
(* The draft of the source Run                                             *)

(* The transaction that takes an event in holds the row of the Run.        *)
EndSource ==
    /\ ~ended /\ event # "seen"
    /\ ended' = TRUE
    /\ UNCHANGED <<event, draft, drafts, saves, starts, reads, revisions, downTaskVars, receiptVars, downRunVars>>

(* A Run whose handoff was published gets no draft from its late event.    *)
SeeEvent ==
    /\ event = "due"
    /\ event' = IF revisions # <<>> THEN "done" ELSE "seen"
    /\ UNCHANGED <<ended, draft, drafts, saves, starts, reads, revisions, downTaskVars, receiptVars, downRunVars>>

InsertDraft(d) == draft.status = "none"

(* The event made a draft or says why there is none.                       *)
InsertAuto(status) ==
    LET d == [status |-> status, id |-> drafts + 1, text |-> 0] IN
    /\ event = "seen"
    /\ event' = "done"
    /\ IF InsertDraft(d)
       THEN draft' = d /\ drafts' = drafts + 1
       ELSE UNCHANGED <<draft, drafts>>
    /\ UNCHANGED <<ended, saves, starts, reads, revisions, downTaskVars, receiptVars, downRunVars>>

(* A new draft starts from the draft published last.                       *)
Seed == IF revisions = <<>> THEN 0 ELSE revisions[Len(revisions)].row

(* The owner starts a draft, or one in place of a draft that failed: what   *)
(* there is, and the text it begins with, is read without a lock.          *)
ReadForManual ==
    /\ ended /\ draft.status # "ready"
    /\ starts' = starts \union {<<draft.id, Seed>>}
    /\ UNCHANGED <<ended, event, draft, drafts, saves, reads, revisions, downTaskVars, receiptVars, downRunVars>>

(* The insert is for a Run that still has no draft, or the same failed one. *)
CreateManual(d, t) ==
    /\ <<d, t>> \in starts /\ draft.id = d /\ draft.status # "ready"
    /\ draft' = [status |-> "ready", id |-> drafts + 1, text |-> t]
    /\ drafts' = drafts + 1
    /\ UNCHANGED <<ended, event, saves, starts, reads, revisions, downTaskVars, receiptVars, downRunVars>>

(* The owner saves a text over the version of the draft that is there.     *)
Save ==
    /\ draft.status = "ready" /\ saves < MaxSave
    /\ saves' = saves + 1
    /\ draft' = [draft EXCEPT !.text = saves + 1]
    /\ UNCHANGED <<ended, event, drafts, starts, reads, revisions, downTaskVars, receiptVars, downRunVars>>

(* A publication reads the draft and checks the text it will publish.      *)
ReadDraft ==
    /\ draft.status = "ready"
    /\ reads' = reads \union {<<draft.id, draft.text>>}
    /\ UNCHANGED <<ended, event, draft, drafts, saves, starts, revisions, downTaskVars, receiptVars, downRunVars>>

MarkPublished(d) == draft.id = d /\ draft.status = "ready"

(* It then locks the Task for the number and marks the draft.              *)
Publish(d, t) ==
    /\ <<d, t>> \in reads /\ MarkPublished(d) /\ Len(revisions) < MaxRevision
    /\ revisions' = Append(revisions, [draft |-> d, text |-> t,
                                       row |-> draft.text])
    /\ draft' = NoDraft
    /\ UNCHANGED <<ended, event, drafts, saves, starts, reads, downTaskVars, receiptVars, downRunVars>>

-----------------------------------------------------------------------------
(* The downstream Task                                                     *)

HasRevision(n) == n <= Len(revisions)

Accept ==
    /\ downTask.assignment = "pending"
    /\ downTask' = [downTask EXCEPT !.assignment = "accepted"]
    /\ UNCHANGED <<draftVars, downMoves, receiptVars, downRunVars>>

Reject ==
    /\ downTask.assignment = "pending"
    /\ downTask' = [downTask EXCEPT !.assignment = "rejected"]
    /\ UNCHANGED <<draftVars, downMoves, receiptVars, downRunVars>>

Moved(n) == receipts[n].status = "pending"

(* A Task without an active Run goes to another member, who has to accept  *)
(* it, or to an agent of the member who gives it away.                     *)
ReassignDown(m, assignment) ==
    /\ downTask.assignment \in {"accepted", "rejected"} /\ ~downBusy /\ downMoves < MaxDownMove
    /\ downMoves' = downMoves + 1
    /\ downTask' = [downTask EXCEPT !.assignee = m, !.assignment = assignment]
    /\ receipts' = [n \in Revision |->
                      IF Moved(n) THEN [receipts[n] EXCEPT !.receiver = m] ELSE receipts[n]]
    /\ UNCHANGED <<draftVars, checked, decision, downRunVars>>

(* The Task is completed or cancelled; a Run of it may be active still.    *)
Finish ==
    /\ downTask.assignment = "accepted" /\ downTask.status = "open"
    /\ downTask' = [downTask EXCEPT !.status = "finished"]
    /\ UNCHANGED <<draftVars, downMoves, receiptVars, downRunVars>>

-----------------------------------------------------------------------------
(* Deliveries                                                              *)

(* A delivery to the Task that is there checks it outside a transaction.   *)
CheckDelivery(n) ==
    /\ HasRevision(n) /\ downTask.status = "open"
    /\ checked' = checked \union {<<n, downTask.assignee>>}
    /\ UNCHANGED <<draftVars, downTaskVars, receipts, decision, downRunVars>>

(* Or it creates the Task first, in a transaction of its own.              *)
CreateTask(n, m) ==
    /\ HasRevision(n) /\ downTask = NoTask
    /\ downTask' = [assignee |-> m, assignment |-> "pending", status |-> "open"]
    /\ checked' = checked \union {<<n, m>>}
    /\ UNCHANGED <<draftVars, downMoves, receipts, decision, downRunVars>>

(* The receipt is inserted unless the Task has one of this revision.       *)
Deliver(n, m) ==
    /\ <<n, m>> \in checked /\ receipts[n].status = "none"
    /\ receipts' = [receipts EXCEPT ![n] = [receiver |-> m, status |-> "pending"]]
    /\ UNCHANGED <<draftVars, downTaskVars, checked, decision, downRunVars>>

\* Mutant: the Decision that was active before stays active.
ProjectedBeside(n) == [decision EXCEPT ![n] = "active"]

(* The Decision of this pair of Tasks that was active is superseded.       *)
Projected(n) ==
    [k \in Revision |-> IF k = n THEN "active"
                        ELSE IF decision[k] = "active" THEN "superseded" ELSE decision[k]]

\* Mutant: the receiver confirms, whoever the assignee is.
ReceiverMay(n) == TRUE

MayConfirm(n) == receipts[n].receiver = downTask.assignee

(* Under the locks of the Task and of the receipt.                         *)
Confirm(n) ==
    /\ receipts[n].status = "pending" /\ MayConfirm(n)
    /\ receipts' = [receipts EXCEPT ![n].status = "confirmed"]
    /\ decision' = Projected(n)
    /\ UNCHANGED <<draftVars, downTaskVars, checked, downRunVars>>

(* A member corrects the Decision: it is none that counts any more, and the *)
(* next one has nothing to supersede.                                      *)
Correct(n) ==
    /\ decision[n] = "active"
    /\ decision' = [decision EXCEPT ![n] = "corrected"]
    /\ UNCHANGED <<draftVars, downTaskVars, checked, receipts, downRunVars>>

(* The assignee takes the newest revision in place of the one of receipt   *)
(* n; when the newest has a receipt already, that is the answer.           *)
Adopt(n) ==
    LET newest == Len(revisions) IN
    /\ receipts[n].status = "confirmed" /\ newest > n /\ receipts[newest].status = "none"
    /\ receipts' = [receipts EXCEPT ![newest] =
                      [receiver |-> downTask.assignee, status |-> "confirmed"]]
    /\ decision' = Projected(newest)
    /\ UNCHANGED <<draftVars, downTaskVars, checked, downRunVars>>

-----------------------------------------------------------------------------
(* Runs of the downstream Task                                             *)

Usable(n) == receipts[n].status = "confirmed" /\ receipts[n].receiver = downTask.assignee

CreateDownRun(n, from) ==
    /\ downTask.assignment = "accepted" /\ downTask.status = "open" /\ ~downBusy /\ Len(downRuns) < MaxDownRun
    /\ downRuns' = Append(downRuns, [input |-> n, from |-> from, owner |-> downTask.assignee])
    /\ downBusy' = TRUE
    /\ UNCHANGED <<draftVars, downTaskVars, receiptVars>>

(* A new Run names a receipt or takes no handoff.                          *)
NewRun == \E n \in {0} \union {k \in Revision : Usable(k)} : CreateDownRun(n, 0)

(* A Run that repeats or resumes one of this Task copies its input.        *)
RunAgain == \E i \in DOMAIN downRuns : CreateDownRun(downRuns[i].input, i)

EndDownRun ==
    /\ downBusy /\ downBusy' = FALSE
    /\ UNCHANGED <<draftVars, downTaskVars, receiptVars, downRuns>>

HandoffNext ==
    \/ EndSource \/ SeeEvent \/ ReadForManual \/ Save \/ ReadDraft
    \/ \E status \in {"ready", "failed"} : InsertAuto(status)
    \/ \E s \in starts : CreateManual(s[1], s[2])
    \/ \E r \in reads : Publish(r[1], r[2])
    \/ Accept \/ Reject \/ Finish \/ NewRun \/ RunAgain \/ EndDownRun
    \/ \E m \in Member, a \in {"pending", "accepted"} : ReassignDown(m, a)
    \/ \E n \in Revision : CheckDelivery(n) \/ Confirm(n) \/ Adopt(n) \/ Correct(n)
    \/ \E n \in Revision, m \in Member : CreateTask(n, m) \/ Deliver(n, m)

HandoffSpec == HandoffInit /\ [][HandoffNext]_handoffVars

-----------------------------------------------------------------------------
(* Properties                                                              *)

(* A draft is published once, however many publications have read it       *)
(* (publishHandoffDraft reads it before it holds anything).                *)
DraftPublishedOnce ==
    \A i, j \in DOMAIN revisions : revisions[i].draft = revisions[j].draft => i = j

(* What the owner is writing is not lost to the event of the Run, to       *)
(* another draft or to a second publication: a draft that is ready goes on *)
(* until it is the draft of the newest revision (insertHandoffDraftIfAbsent *)
(* and replaceFailedDraft leave it alone).                                 *)
OwnersDraftKept ==
    [][draft.status = "ready" /\ draft'.id # draft.id =>
         /\ Len(revisions') = Len(revisions) + 1
         /\ revisions'[Len(revisions')].draft = draft.id]_handoffVars

(* A confirmation stands: no delivery, adoption or reassignment changes    *)
(* who confirmed a revision (confirmHandoffReceipt and                     *)
(* reassignPendingHandoffReceipts touch pending receipts only).            *)
FirstUnderstandingStands ==
    [][\A n \in Revision : receipts[n].status = "confirmed" => receipts'[n] = receipts[n]]_handoffVars

(* Only the assignee of the moment confirms or adopts: a receiver who lost *)
(* the Task since the delivery cannot (confirmReceipt checks under the     *)
(* locks reassignment takes).                                              *)
ConfirmedByAssignee ==
    [][\A n \in Revision :
         receipts[n].status # "confirmed" /\ receipts'[n].status = "confirmed" =>
             receipts'[n].receiver = downTask.assignee]_handoffVars

(* When the Task changes hands no pending receipt that is on record stays  *)
(* with the member who had it (reassignAssignment).                        *)
PendingMovesAlong ==
    [][downTask.assignee # Nobody /\ downTask'.assignee # downTask.assignee =>
         \A n \in Revision : receipts'[n].status = "pending" =>
                                 receipts'[n].receiver = downTask'.assignee]_handoffVars

(* The facts of the project show one understanding of the pair of Tasks    *)
(* and keep those before it: every confirmed receipt has its Decision, one *)
(* of them is active, and none only after a member corrected one           *)
(* (projectDecision in the same transaction, correctContextEntry).         *)
OneActiveDecision ==
    /\ \A n \in Revision : decision[n] # "none" <=> receipts[n].status = "confirmed"
    /\ \A n, k \in Revision : decision[n] = "active" /\ decision[k] = "active" => n = k
    /\ (\E n \in Revision : receipts[n].status = "confirmed") =>
           \E n \in Revision : decision[n] \in {"active", "corrected"}

(* A Run works from a revision that was confirmed, and one that names a    *)
(* receipt from one its own owner confirmed, whoever has the Task later    *)
(* (snapshotHandoffInput).                                                 *)
InputConfirmed ==
    \A i \in DOMAIN downRuns : downRuns[i].input # 0 =>
        /\ receipts[downRuns[i].input].status = "confirmed"
        /\ downRuns[i].from = 0 => receipts[downRuns[i].input].receiver = downRuns[i].owner
=============================================================================
