---------------------------- MODULE WorkDispatch ----------------------------
(***************************************************************************)
(* One Work of the Hub: its mandate, the waits and the dispatch intents    *)
(* that accepted Router proposals leave behind, and the machine Runs made  *)
(* of the intents.  Hub router/application and schedule, dispatch/service, *)
(* work/commands, work/run-dispatch, the end of a Run in run/run-status    *)
(* and the commands of the Task that reach its Work.  How an evaluation    *)
(* gets its answer is RouterEvaluation; here it is asked for and ends.     *)
(*                                                                         *)
(* An evaluation leads to at most one wait or one intent, and an intent to *)
(* at most one Run, so all three are indexed by their evaluation.  Every   *)
(* change of a mandate is a new row whose version is one higher, and the   *)
(* Work points at the latest.  A command runs in one transaction that      *)
(* locks Task, Work and the row, and is one action.  The outbox worker     *)
(* locks the Run only, and takes a step for each of its transactions.      *)
(***************************************************************************)
EXTENDS Integers, FiniteSets

CONSTANTS Evaluation,   \* numbers from 1, in the order they are used
          Worker,       \* bound: passes of the outbox worker that overlap
          MaxVersion,   \* bound: versions of the mandate
          MaxCrash      \* bound: ends of the Hub process

ASSUME WorkDispatchAssumption ==
    /\ IsFiniteSet(Evaluation) /\ Evaluation \subseteq Nat \ {0}
    /\ MaxVersion \in Nat \ {0} /\ MaxCrash \in Nat

VARIABLES
    work,         \* state and resume condition: who is waited for, and which
    mandate,      \* the row the Work points at
    evaluation,   \* progress of coordination_evaluation and its application
    seen,         \* what the evaluation was computed from, until it is over
    wait,         \* work_wait
    intent,       \* dispatch_intent: status and version of its mandate
    due,          \* the deadline of the wait or the intent is over
    run,          \* machine Run of the intent
    outbox,       \* row of its run.start
    pass,         \* the run.start that a pass of the outbox worker has claimed
    out,          \* Runs whose run.start has been put on the wire
    signalled,    \* times run.mandate_invalidated was put into the outbox
    boundary,     \* work_run_boundary of the Run
    human,        \* a Run of the same Task that a member starts
    callback,     \* onMandateChanged has still to run
    found,        \* what a sweeper has read and not written yet
    crashes

rows == <<evaluation, seen, wait, intent, due>>
runs == <<run, outbox, signalled, boundary, human>>
wire == <<pass, out>>
hub  == <<callback, found, crashes>>
vars == <<work, mandate, rows, runs, wire, hub>>

Sweeper   == {"timer", "callback"}
Ongoing   == {"queued", "dispatching", "running"}
Free      == [state |-> "active", on |-> "none", of |-> 0]
OnOwner   == [state |-> "waiting", on |-> "owner", of |-> 0]
OnRouter(e) == [state |-> "waiting", on |-> "router", of |-> e]
OnRun(e)  == [state |-> "waiting", on |-> "run", of |-> e]
Retired   == [state |-> "retired", on |-> "none", of |-> 0]
NoIntent  == [status |-> "none", version |-> 0]
NoPass    == [of |-> 0, at |-> "none", late |-> FALSE]

TypeOK ==
    /\ work \in {Free, OnOwner, Retired} \union {OnRouter(e) : e \in Evaluation} \union {OnRun(e) : e \in Evaluation}
    /\ mandate \in [version : 1..MaxVersion, status : {"active", "paused", "revoked"}, expired : BOOLEAN]
    /\ evaluation \in [Evaluation -> {"unused", "asked", "ended", "accepted", "applied", "stale"}]
    /\ wait \in [Evaluation -> {"none", "open", "closed"}]
    /\ \A e \in Evaluation :
          /\ intent[e].status \in {"none", "proposed", "approved", "dispatched", "rejected", "expired", "cancelled"}
          /\ intent[e].version \in 0..MaxVersion
    /\ due \in [Evaluation -> BOOLEAN]
    /\ run \in [Evaluation -> {"none", "over"} \union Ongoing]
    /\ outbox \in [Evaluation -> {"none", "pending", "sent", "gone"}]
    /\ pass \in [Worker -> [of : {0} \union Evaluation, at : {"none", "claimed", "passed", "put"}, late : BOOLEAN]]
    /\ out \subseteq Evaluation
    /\ signalled \in [Evaluation -> Nat]
    /\ boundary \in [Evaluation -> {"none", "pending", "enqueued", "skipped"}]
    /\ human \in {"none", "active"}
    /\ callback \in BOOLEAN /\ found \in [Sweeper -> SUBSET Evaluation] /\ crashes \in Nat

Init ==
    /\ work = Free /\ mandate = [version |-> 1, status |-> "active", expired |-> FALSE]
    /\ evaluation = [e \in Evaluation |-> "unused"] /\ seen = [e \in Evaluation |-> <<>>]
    /\ wait = [e \in Evaluation |-> "none"] /\ intent = [e \in Evaluation |-> NoIntent]
    /\ due = [e \in Evaluation |-> FALSE]
    /\ run = [e \in Evaluation |-> "none"] /\ outbox = [e \in Evaluation |-> "none"]
    /\ pass = [w \in Worker |-> NoPass] /\ out = {} /\ signalled = [e \in Evaluation |-> 0]
    /\ boundary = [e \in Evaluation |-> "none"] /\ human = "none"
    /\ callback = FALSE /\ found = [s \in Sweeper |-> {}] /\ crashes = 0

-----------------------------------------------------------------------------
(* Facts *)

Open == {e \in Evaluation : wait[e] = "open"}

ActiveRun == human = "active" \/ \E e \in Evaluation : run[e] \in Ongoing

InForce == mandate.status = "active" /\ ~mandate.expired

\* loadRouterInput: whether the Router may look at the Work w at all.
Authority(w) == w.state # "retired" /\ w.on # "owner" /\ InForce

\* The part of the digest that changes here: the state and the resume mode of
\* the Work, the evaluation of its open wait and the version of the mandate.
Facts(w, ws) == <<w.state, w.on = "owner", {e \in Evaluation : ws[e] = "open"}, mandate.version>>

\* The mandate of the intent is the one the Work points at, and in force.
Current(e) == intent[e].version = mandate.version /\ InForce

WorkAllows(e) == work.state = "active" \/ work = OnRun(e)

\* enqueueInTransaction, if the configuration and the limits let it.
Enqueued(w, ws) ==
    \E e \in Evaluation :
        /\ Authority(w)
        /\ evaluation[e] = "unused" /\ \A p \in Evaluation : evaluation[p] = "unused" => e <= p
        /\ evaluation' = [evaluation EXCEPT ![e] = "asked"]
        /\ seen' = [seen EXCEPT ![e] = Facts(w, ws)]

Refused == UNCHANGED <<evaluation, seen>>

Closed == [e \in Evaluation |-> IF wait[e] = "open" THEN "closed" ELSE wait[e]]

\* What a superseded wait leaves of the Work that waited for it.
Released == IF work.on = "router" THEN Free ELSE work

\* cancelOpenDispatchIntents
Cancelled ==
    [e \in Evaluation |-> IF intent[e].status \in {"proposed", "approved"}
                          THEN [intent[e] EXCEPT !.status = "cancelled"] ELSE intent[e]]

-----------------------------------------------------------------------------
(* Evaluations and what is made of their proposals *)

Ask ==
    /\ Enqueued(work, wait)
    /\ UNCHANGED <<work, mandate, wait, intent, due, runs, wire, hub>>

\* The evaluation ends: its proposal is accepted, which needs the digest to be
\* the same, or there is none.
Conclude(e) ==
    /\ evaluation[e] = "asked"
    /\ \/ /\ Authority(work) /\ seen[e] = Facts(work, wait)
          /\ evaluation' = [evaluation EXCEPT ![e] = "accepted"]
          /\ UNCHANGED seen
       \/ /\ evaluation' = [evaluation EXCEPT ![e] = "ended"]
          /\ seen' = [seen EXCEPT ![e] = <<>>]
    /\ UNCHANGED <<work, mandate, wait, intent, due, runs, wire, hub>>

Apply(e, status) ==
    /\ evaluation[e] = "accepted"
    /\ evaluation' = [evaluation EXCEPT ![e] = status] /\ seen' = [seen EXCEPT ![e] = <<>>]
    /\ UNCHANGED <<mandate, due, runs, wire, hub>>

\* rebuildRouterEvaluation: authority and digest are as they were.
Rebuilt(e) == Authority(work) /\ seen[e] = Facts(work, wait)

\* decide, and the checks of the decisions that come before any write: the
\* input or the authority changed, a deadline too late, a decision unnamed,
\* a Run in the way of a dispatch.
ApplyStale(e) ==
    /\ Apply(e, "stale")
    /\ UNCHANGED <<work, wait, intent>>

\* applyDispatch: the wait the Work is in is released first, and the proposal
\* may still be refused, for its action class, its sources or the Task.
ApplyDispatch(e) ==
    /\ Rebuilt(e) /\ ~ActiveRun
    /\ \/ /\ Apply(e, "stale")
          /\ work' = Released
          /\ wait' = IF work.on = "router" THEN Closed ELSE wait
          /\ UNCHANGED intent
       \/ /\ Apply(e, "applied")
          /\ Released.state = "active"
          /\ work' = Released /\ wait' = Closed
          /\ intent' = [intent EXCEPT ![e] = [status |-> "proposed", version |-> mandate.version]]

\* Mutant: the Work keeps the condition of the wait that is superseded.
WaitKeepsCondition(e) ==
    /\ Rebuilt(e)
    /\ Apply(e, "applied")
    /\ wait' = [Closed EXCEPT ![e] = "open"]
    /\ work' = IF work.state = "active" /\ ~ActiveRun THEN OnRouter(e) ELSE work
    /\ UNCHANGED intent
ApplyWait(e) ==
    /\ Rebuilt(e)
    /\ Apply(e, "applied")
    /\ wait' = [Closed EXCEPT ![e] = "open"]
    /\ work' = IF work.on = "router" \/ (work.state = "active" /\ ~ActiveRun) THEN OnRouter(e) ELSE work
    /\ UNCHANGED intent

\* applyAsk and ignore: the open wait is superseded.
ApplyOther(e) ==
    /\ Rebuilt(e)
    /\ Apply(e, "applied")
    /\ work' = IF Open = {} THEN work ELSE Released
    /\ wait' = Closed
    /\ UNCHANGED intent

\* reevaluateRouterForActor for a wait; a refusal undoes it.
Resume(e) ==
    /\ wait[e] = "open"
    /\ wait' = [wait EXCEPT ![e] = "closed"]
    /\ work' = Released
    /\ Enqueued(work', wait')
    /\ UNCHANGED <<mandate, intent, due, runs, wire, hub>>

Elapse(e) ==
    /\ ~due[e] /\ (wait[e] = "open" \/ intent[e].status \in {"proposed", "approved"})
    /\ due' = [due EXCEPT ![e] = TRUE]
    /\ UNCHANGED <<work, mandate, evaluation, seen, wait, intent, runs, wire, hub>>

\* Mutant: a wait that the Work is not on any more does not expire.
ExpireOwnOnly(e) ==
    /\ wait[e] = "open" /\ due[e] /\ ~ActiveRun /\ work = OnRouter(e)
    /\ wait' = [wait EXCEPT ![e] = "closed"]
    /\ work' = Free
    /\ Enqueued(work', wait') \/ Refused
    /\ UNCHANGED <<mandate, intent, due, runs, wire, hub>>

\* processExpiredWaits
ExpireWait(e) ==
    /\ wait[e] = "open" /\ due[e] /\ ~ActiveRun
    /\ wait' = [wait EXCEPT ![e] = "closed"]
    /\ work' = IF work = OnRouter(e) THEN Free ELSE work
    /\ Enqueued(work', wait') \/ Refused
    /\ UNCHANGED <<mandate, intent, due, runs, wire, hub>>

-----------------------------------------------------------------------------
(* Dispatch intents *)

Decide(e, status) ==
    /\ intent' = [intent EXCEPT ![e].status = status]
    /\ UNCHANGED <<work, mandate, evaluation, seen, wait, due, runs, wire, hub>>

Approve(e) ==
    /\ work.state = "active" /\ intent[e].status = "proposed" /\ ~due[e]
    /\ Decide(e, "approved")

Reject(e) ==
    /\ intent[e].status \in {"proposed", "approved"} /\ ~due[e]
    /\ Decide(e, "rejected")

CreateRun(e) ==
    /\ ~ActiveRun
    /\ intent' = [intent EXCEPT ![e].status = "dispatched"]
    /\ run' = [run EXCEPT ![e] = "queued"]
    /\ outbox' = [outbox EXCEPT ![e] = "pending"]
    /\ work' = OnRun(e)
    /\ UNCHANGED <<mandate, evaluation, seen, wait, due, signalled, boundary, human, wire, hub>>

\* dispatchIntent and autoDispatchProposedIntent of an intent that is out of
\* time, is not bound to the mandate any more, or has no budget left.
Expire(e) == due[e] /\ Decide(e, "expired")
Unbound(e) == ~due[e] /\ Decide(e, "rejected")

Dispatch(e) ==
    /\ intent[e].status = "approved" /\ work.state = "active"
    /\ Expire(e) \/ Unbound(e) \/ (~due[e] /\ Current(e) /\ CreateRun(e))

\* Mutant: the state of the Work is not looked at.
AutoDispatchBlind(e) ==
    /\ intent[e].status = "proposed"
    /\ \/ Expire(e)
       \/ Unbound(e) \/ (~due[e] /\ Current(e) /\ CreateRun(e))
AutoDispatch(e) ==
    /\ intent[e].status = "proposed"
    /\ \/ Expire(e)
       \/ work.state = "active" /\ (Unbound(e) \/ (~due[e] /\ Current(e) /\ CreateRun(e)))

-----------------------------------------------------------------------------
(* Machine Runs *)

\* applyRunStatus to a terminal status; a run.start that waits is given up.
Over(e) ==
    /\ run' = [run EXCEPT ![e] = "over"] /\ boundary' = [boundary EXCEPT ![e] = "pending"]
    /\ outbox' = [outbox EXCEPT ![e] = "gone"]
    /\ work' = IF work = OnRun(e) THEN Free ELSE work
    /\ UNCHANGED <<mandate, rows, signalled, human, out, callback, crashes>>

Stands(e) == Current(e) /\ WorkAllows(e)

\* A pass of the outbox worker.  claim: what has been sent is not checked again,
\* and after a while another pass may claim what this one still has.
Claim(w, e) ==
    /\ pass[w] = NoPass /\ outbox[e] \in {"pending", "sent"}
    /\ pass' = [pass EXCEPT ![w] = [of |-> e, at |-> IF outbox[e] = "sent" THEN "passed" ELSE "claimed",
                                   late |-> outbox[e] = "pending" /\ ~Stands(e)]]
    /\ UNCHANGED <<work, mandate, rows, runs, out, hub>>

\* Mutant: what was claimed is sent as it is.
CheckNothing(w, e) ==
    /\ pass[w].at = "claimed" /\ pass[w].of = e
    /\ pass' = [pass EXCEPT ![w].at = "passed"]
    /\ UNCHANGED <<work, mandate, rows, runs, out, hub>>

\* beforeDispatch holds the Run, and reads mandate and Work without a lock: a
\* Run whose mandate does not stand any more is cancelled.  What has ended stays
\* so, hence one moment for the reads.
Check(w, e) ==
    /\ pass[w].at = "claimed" /\ pass[w].of = e
    /\ \/ /\ run[e] = "queued" /\ Stands(e)
          /\ pass' = [pass EXCEPT ![w].at = "passed"]
          /\ UNCHANGED <<work, mandate, rows, runs, out, hub>>
       \/ /\ run[e] = "queued" /\ ~Stands(e)
          /\ pass' = [pass EXCEPT ![w] = NoPass]
          /\ Over(e) /\ UNCHANGED found
       \/ /\ run[e] # "queued"
          /\ pass' = [pass EXCEPT ![w] = NoPass]
          /\ outbox' = [outbox EXCEPT ![e] = "gone"]
          /\ UNCHANGED <<work, mandate, rows, run, signalled, boundary, human, out, hub>>

\* gateway.send after that transaction, whatever has happened since; the Node
\* may be away.
Put(w, e) ==
    /\ pass[w].at = "passed" /\ pass[w].of = e
    /\ \/ pass' = [pass EXCEPT ![w].at = "put"] /\ out' = out \union {e}
       \/ pass' = [pass EXCEPT ![w] = NoPass] /\ UNCHANGED out
    /\ UNCHANGED <<work, mandate, rows, runs, hub>>

MarkSent(w, e) ==
    /\ pass[w].at = "put" /\ pass[w].of = e
    /\ pass' = [pass EXCEPT ![w] = NoPass]
    /\ outbox' = IF outbox[e] = "pending" THEN [outbox EXCEPT ![e] = "sent"] ELSE outbox
    /\ UNCHANGED <<work, mandate, rows, run, signalled, boundary, human, out, hub>>

\* dispatchOnce
Deliver(e) == \E w \in Worker : Claim(w, e) \/ Check(w, e) \/ Put(w, e) \/ MarkSent(w, e)

\* handleCommandAck: the Node has taken the run.start of a Run that is queued.
Ack(e) ==
    /\ e \in out /\ run[e] = "queued" /\ outbox[e] # "gone"
    /\ run' = [run EXCEPT ![e] = "dispatching"]
    /\ outbox' = [outbox EXCEPT ![e] = "gone"]
    /\ UNCHANGED <<work, mandate, rows, signalled, boundary, human, wire, hub>>

Start(e) ==
    /\ run[e] = "dispatching"
    /\ run' = [run EXCEPT ![e] = "running"]
    /\ UNCHANGED <<work, mandate, rows, outbox, signalled, boundary, human, wire, hub>>

EndRun(e) == run[e] \in Ongoing /\ Over(e) /\ UNCHANGED <<pass, found>>

\* processRunBoundaries
CheckBoundary(e) ==
    /\ boundary[e] = "pending"
    /\ \/ /\ work.state = "active" /\ ~ActiveRun /\ InForce
          /\ Enqueued(work, wait)
          /\ boundary' = [boundary EXCEPT ![e] = "enqueued"]
       \/ /\ boundary' = [boundary EXCEPT ![e] = "skipped"]
          /\ Refused
    /\ UNCHANGED <<work, mandate, wait, intent, due, run, outbox, signalled, human, wire, hub>>

StartHuman ==
    /\ human = "none" /\ ~ActiveRun /\ work.state # "retired"
    /\ human' = "active"
    /\ UNCHANGED <<work, mandate, rows, run, outbox, signalled, boundary, wire, hub>>

EndHuman ==
    /\ human = "active" /\ human' = "none"
    /\ UNCHANGED <<work, mandate, rows, run, outbox, signalled, boundary, wire, hub>>

-----------------------------------------------------------------------------
(* The mandate, the owner and the end of the Work *)

NewVersion(status, expired) ==
    /\ mandate.version < MaxVersion
    /\ mandate' = [version |-> mandate.version + 1, status |-> status, expired |-> expired]
    /\ intent' = Cancelled
    /\ callback' = TRUE
    /\ UNCHANGED <<evaluation, seen, wait, due, runs, wire, found, crashes>>

CreateMandate == work.state = "active" /\ NewVersion("active", FALSE) /\ UNCHANGED work

\* acceptWorkAfterOwnerChange
AcceptWork == work.on = "owner" /\ NewVersion("active", FALSE) /\ work' = Free

\* changeWorkMandateStatus: after a change of the owner only revoke is left.
ChangeStatus ==
    /\ work.state # "retired" /\ ~mandate.expired
    /\ \/ mandate.status = "active" /\ work.on # "owner" /\ NewVersion("paused", FALSE)
       \/ mandate.status = "paused" /\ work.on # "owner" /\ NewVersion("active", FALSE)
       \/ mandate.status # "revoked" /\ NewVersion("revoked", FALSE)
    /\ UNCHANGED work

\* Time: no intent of a mandate outlives it.
ExpireMandate ==
    /\ ~mandate.expired /\ mandate' = [mandate EXCEPT !.expired = TRUE]
    /\ due' = [e \in Evaluation |-> due[e] \/ intent[e].status \in {"proposed", "approved"}]
    /\ UNCHANGED <<work, evaluation, seen, wait, intent, runs, wire, hub>>

\* reassignAssignment to somebody else.
Reassign ==
    /\ work.state # "retired" /\ ~ActiveRun
    /\ work' = OnOwner /\ intent' = Cancelled
    /\ UNCHANGED <<mandate, evaluation, seen, wait, due, runs, wire, hub>>

\* retireWork, and completeTask or cancelTask, which end the Work.
Retire ==
    /\ work.state # "retired" /\ work' = Retired /\ intent' = Cancelled
    /\ UNCHANGED <<mandate, evaluation, seen, wait, due, runs, wire, hub>>

-----------------------------------------------------------------------------
(* A mandate that ends reaches the Runs made under it *)

\* mandateInvalidationReason.  Mutant: a mandate that runs out is not noticed.
InvalidByPointer(e) == run[e] = "running" /\ (~WorkAllows(e) \/ intent[e].version # mandate.version)
Invalid(e) == run[e] = "running" /\ (~WorkAllows(e) \/ ~Current(e))

Read(s) == found' = [found EXCEPT ![s] = {e \in Evaluation : Invalid(e) /\ signalled[e] = 0}]

\* reconcileMandateInvalidation: a timer does not wait for the one before.
Sweep ==
    /\ Read("timer") /\ found' # found
    /\ UNCHANGED <<work, mandate, rows, runs, wire, callback, crashes>>

\* cancelInvalidatedMachineRuns: queued Runs of an older mandate are cancelled,
\* each by a transaction that may fail, then the running ones are read.
Notify ==
    /\ callback /\ callback' = FALSE
    /\ Read("callback")
    /\ UNCHANGED <<work, mandate, rows, runs, wire, crashes>>
CancelSuperseded(e) ==
    /\ callback /\ run[e] = "queued" /\ intent[e].version # mandate.version
    /\ Over(e) /\ UNCHANGED <<pass, found>>

\* invalidateMachineRun: the row is looked at once more.
Mark(s, e) ==
    /\ e \in found[s]
    /\ found' = [found EXCEPT ![s] = @ \ {e}]
    /\ signalled' = IF run[e] = "running" /\ signalled[e] = 0
                    THEN [signalled EXCEPT ![e] = 1] ELSE signalled
    /\ UNCHANGED <<work, mandate, rows, run, outbox, boundary, human, wire, callback, crashes>>

Crash ==
    /\ crashes < MaxCrash /\ crashes' = crashes + 1
    /\ callback' = FALSE /\ found' = [s \in Sweeper |-> {}] /\ pass' = [w \in Worker |-> NoPass]
    /\ UNCHANGED <<work, mandate, rows, runs, out>>

Next ==
    \/ Ask \/ StartHuman \/ EndHuman
    \/ CreateMandate \/ AcceptWork \/ ChangeStatus \/ ExpireMandate \/ Reassign \/ Retire
    \/ Sweep \/ Notify \/ Crash
    \/ \E e \in Evaluation :
          \/ Conclude(e)
          \/ ApplyStale(e) \/ ApplyDispatch(e) \/ ApplyWait(e) \/ ApplyOther(e)
          \/ Resume(e) \/ Elapse(e) \/ ExpireWait(e)
          \/ Approve(e) \/ Reject(e) \/ Dispatch(e) \/ AutoDispatch(e)
          \/ Ack(e) \/ Start(e) \/ EndRun(e) \/ CheckBoundary(e) \/ CancelSuperseded(e)
          \/ Deliver(e)
          \/ \E s \in Sweeper : Mark(s, e)

Spec == Init /\ [][Next]_vars

\* Timers fire, the outbox delivers, the Node answers a run.start, time passes.
\* A Run that is at work need not end, and nobody need decide anything.
Fairness ==
    /\ WF_vars(Sweep)
    /\ \A e \in Evaluation :
          /\ WF_vars(\E w \in Worker : Claim(w, e))
          /\ \A w \in Worker : WF_vars(Check(w, e) \/ Put(w, e) \/ MarkSent(w, e))
          /\ WF_vars(Ack(e)) /\ WF_vars(run[e] = "dispatching" /\ (Start(e) \/ EndRun(e)))
          /\ WF_vars(Mark("timer", e)) /\ WF_vars(CheckBoundary(e))
          /\ WF_vars(Elapse(e)) /\ WF_vars(ExpireWait(e))

FairSpec == Spec /\ Fairness

-----------------------------------------------------------------------------
(* Properties *)

\* A Work that waits is waiting for something that can still wake it: the
\* Router wait of its condition is open, the Run of its condition is at work.
\* (restoreWorkAfterWait, applyWait, reevaluateRouterForActor, applyRunStatus.)
Resumable ==
    /\ work.on = "router" => wait[work.of] = "open"
    /\ work.on = "run" => run[work.of] \in Ongoing

\* A Run is made only while the Work is free, of an intent whose mandate is the
\* one in force at that moment: what was approved earlier does not count.
CreatedUnderCurrent ==
    [][\A e \in Evaluation : run[e] = "none" /\ run'[e] # "none" =>
          work.state = "active" /\ Current(e) /\ ~due[e]]_vars

\* A Run is told at most once that its mandate ended, and only if the Work or
\* the mandate it was made under is gone for good, although the sweepers read
\* without a lock and write later.
SignalledJustly ==
    \A e \in Evaluation :
        /\ signalled[e] <= 1
        /\ signalled[e] > 0 => work.state = "retired" \/ work.on = "owner" \/ ~Current(e)

\* A Run whose mandate has ended is over or told so, whatever was lost in
\* between: the callback after the commit, or a sweep.
EndedMandateReaches ==
    \A e \in Evaluation :
        (run[e] \in Ongoing /\ ~Current(e)) ~> (run[e] = "over" \/ signalled[e] > 0)

\* The run.start of a Run goes out for the first time only in a pass that
\* claimed it before the end of its mandate or Work: a later pass finds out,
\* whichever passes overlap, and no resending without a check comes first.
NoLateStart ==
    [][\A w \in Worker, e \in Evaluation :
          e \in out' \ out /\ pass[w].of = e /\ pass[w] # pass'[w] => ~pass[w].late]_vars

\* A wait of the Router ends, unless a Run is at work on the Task.
WaitEnds == \A e \in Evaluation : wait[e] = "open" ~> (wait[e] = "closed" \/ ActiveRun)
=============================================================================
