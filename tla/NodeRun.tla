------------------------------- MODULE NodeRun -------------------------------
(***************************************************************************)
(* One Run on its Node: the commands that reach it, the Runtime process it *)
(* gets, and what the Node reports of it.                                  *)
(*                                                                         *)
(* apps/node/src/run/run-manager.ts handles the commands and the lines the *)
(* Runtime prints; supervisor/runtime-supervisor.ts owns the processes;    *)
(* spool/command-store.ts and the table active_runtime survive the Node.   *)
(* Handlers run on one event loop and overlap where they await: between    *)
(* the record of a run.start and the spawn (the inputs are downloaded), and*)
(* between the spawn and the registration (ps is asked for the start time).*)
(*                                                                         *)
(* Every delivery of the one run.start is an attempt, numbered in the order*)
(* they arrive; the process it may spawn has its number. Nothing keeps one *)
(* delivery from being handled while another is: frames are handled without*)
(* waiting (cli.ts). What the Node sends is taken down when it is sent:    *)
(* acks and snapshots may be lost, so the Hub may deliver anything again.  *)
(***************************************************************************)
EXTENDS Naturals, Sequences

CONSTANTS
    MaxAttempt,     \* bound: deliveries of run.start
    Followup,       \* run.followup commands
    Cancel,         \* run.cancel commands
    MaxStoreFail,   \* bound: outcomes of a follow-up that cannot be written
    MaxCrash        \* bound: times the Node process ends

ASSUME BoundsAssumption ==
    /\ MaxAttempt \in Nat
    /\ MaxStoreFail \in Nat
    /\ MaxCrash \in Nat

VARIABLES
    (* What survives the Node process. *)
    row,        \* spooled_command of run.start: acked_at is set in "acked"
    outcome,    \* spooled_command of each follow-up, with its outcome
    ordered,    \* the run.cancel commands in spooled_command
    runtimeRow, \* active_runtime: the process registered for the Run, or None
    events,     \* the kinds of events spooled for the Hub
    (* The memory of the Node process. *)
    up,         \* the process runs, orphans are dealt with, the session is open
    handler,    \* how far handleRunStart is with each delivery
    handle,     \* handles: the process in the supervisor's table, or None
    projecting, \* projectors has the Run
    ready,      \* readyFacts has the Run
    final,      \* finalFacts: how the Run ended
    cancel,     \* cancels: how far the cancellation has been escalated
    release,    \* releases: how far the release of the Runtime has come
    (* The Runtime processes. *)
    proc,       \* the state of each process
    told,       \* processes that were given the prompt of the Run
    wrote,      \* how far the output of each process has come
    pipe,       \* the part of its output the Node has still to read
    (* What was sent, and what went wrong. *)
    startAcks,  \* the answers given to run.start
    acks,       \* the answers given to each follow-up
    snapshots,  \* the endings reported in run.snapshot
    written,    \* how often each follow-up was put into a Runtime's stdin
    failures,   \* outcomes that could not be written
    crashes,    \* how often the Node process has ended
    beside      \* history: the deliveries in handling when a delivery was taken up

diskVars == <<row, outcome, ordered, runtimeRow, events>>
memoryVars == <<up, handler, handle, projecting, ready, final, cancel, release>>
procVars == <<proc, told, wrote, pipe>>
sentVars == <<startAcks, acks, snapshots, written, failures, crashes, beside>>
vars == <<row, outcome, ordered, runtimeRow, events,
          up, handler, handle, projecting, ready, final, cancel, release,
          proc, told, wrote, pipe,
          startAcks, acks, snapshots, written, failures, crashes, beside>>

Attempt == 1..MaxAttempt
None == 0

\* failed(RUNTIME_LOST) is told apart from a failure the Runtime reported.
Ending == {"completed", "cancelled", "fatal"}
Final == {"completed", "cancelled", "failed", "runtime_lost", "lost"}
Outcome == {"completed", "cancelled", "failed"}
Answer == {"accepted", "rejected"}

HandlerState == {"unused", "preparing", "spawned", "over"}
ProcState == {"none", "alive", "killed", "dead", "reaped", "missed", "orphan", "gone"}
Escalation == {"none", "requested", "sigterm", "sigkill"}
ReleaseState == {"none", "shutdown", "sigterm"}
Frame == {"ready"} \union Ending
Event == {"ready", "decided"} \union Outcome

TypeOK ==
    /\ row \in {"absent", "recorded", "acked"}
    /\ outcome \in [Followup -> {"absent", "recorded"} \union Answer]
    /\ ordered \in SUBSET Cancel
    /\ runtimeRow \in Attempt \union {None}
    /\ events \in SUBSET Event
    /\ up \in BOOLEAN
    /\ handler \in [Attempt -> HandlerState]
    /\ handle \in Attempt \union {None}
    /\ projecting \in BOOLEAN
    /\ ready \in BOOLEAN
    /\ final \in Final \union {"none"}
    /\ cancel \in Escalation
    /\ release \in ReleaseState
    /\ proc \in [Attempt -> ProcState]
    /\ told \in SUBSET Attempt
    /\ wrote \in [Attempt -> {"nothing"} \union Frame]
    /\ pipe \in [Attempt -> Seq(Frame)]
    /\ startAcks \in SUBSET Answer
    /\ acks \in [Followup -> SUBSET Answer]
    /\ snapshots \in SUBSET Final
    /\ written \in [Followup -> Nat]
    /\ failures \in 0..MaxStoreFail
    /\ crashes \in 0..MaxCrash
    /\ beside \in [Attempt -> SUBSET Attempt]

Init ==
    /\ row = "absent"
    /\ outcome = [f \in Followup |-> "absent"]
    /\ ordered = {}
    /\ runtimeRow = None
    /\ events = {}
    /\ up = TRUE
    /\ handler = [a \in Attempt |-> "unused"]
    /\ handle = None
    /\ projecting = FALSE
    /\ ready = FALSE
    /\ final = "none"
    /\ cancel = "none"
    /\ release = "none"
    /\ proc = [p \in Attempt |-> "none"]
    /\ told = {}
    /\ wrote = [p \in Attempt |-> "nothing"]
    /\ pipe = [p \in Attempt |-> <<>>]
    /\ startAcks = {}
    /\ acks = [f \in Followup |-> {}]
    /\ snapshots = {}
    /\ written = [f \in Followup |-> 0]
    /\ failures = 0
    /\ crashes = 0
    /\ beside = [a \in Attempt |-> {}]

-----------------------------------------------------------------------------
(* What the handlers have in common.                                       *)

\* isActive: the supervisor's table has a process for the Run.
Active == handle # None

\* finalizeRun: the end of the Run is recorded once; the escalation of a
\* cancellation is called off; a Runtime still in the table is asked to shut down.
Finalize(as) ==
    IF final # "none"
    THEN UNCHANGED <<final, projecting, cancel, release>>
    ELSE /\ final' = as
         /\ projecting' = FALSE
         /\ cancel' = "none"
         /\ release' = IF Active THEN "shutdown" ELSE release

\* What buildSnapshot says of the end of the Run: its result if there is one, lost
\* when there is neither a result nor a Runtime. The facts it is built from are in
\* memory or read from the spooled run.start.
EndReported == IF final # "none" THEN {final} ELSE IF Active THEN {} ELSE {"lost"}

\* Mutant: without facts in memory there is no snapshot.
ReportLostIfKnown == Finalize("lost") /\ UNCHANGED snapshots

\* reportLostSnapshot. The snapshot is kept and sent on every reconnect, too.
ReportLost ==
    /\ Finalize("lost")
    /\ snapshots' = snapshots \union {IF final = "none" THEN "lost" ELSE final}

\* SIGKILL to the process group of the process in the table.
Kill == proc' = IF Active /\ proc[handle] = "alive"
                THEN [proc EXCEPT ![handle] = "killed"] ELSE proc

\* finalize of the supervisor: the entry of the Run is deleted, whichever of its
\* processes the entry is for.
Unregister == handle' = None /\ runtimeRow' = None

-----------------------------------------------------------------------------
(* run.start.                                                              *)

InFlight == {a \in Attempt : handler[a] \in {"preparing", "spawned"}}

\* Delivery a arrives at the handler. The Hub delivers again for as long as no
\* ack has reached it, and acks can be lost.
Delivered(a) ==
    /\ up
    /\ handler[a] = "unused"
    /\ \A b \in Attempt : b < a => handler[b] # "unused"

\* Mutant: every delivery is prepared.
PrepareAnyway(a) ==
    /\ Delivered(a)
    /\ row' = "recorded"
    /\ handler' = [handler EXCEPT ![a] = "preparing"]
    /\ beside' = [beside EXCEPT ![a] = InFlight]
    /\ UNCHANGED <<outcome, ordered, runtimeRow, events, up, handle, projecting,
                   ready, final, cancel, release, procVars,
                   startAcks, acks, snapshots, written, failures, crashes>>

\* Mutant: a Run whose Runtime is gone is started again.
PrepareInactive(a) == ~Active /\ PrepareAnyway(a)

\* The command is recorded before anything is done about it; the inputs of the
\* Run are fetched next. A duplicate is prepared anew when no earlier delivery
\* has been answered and no process is registered: the Node may have ended then.
Prepare(a) ==
    /\ Delivered(a)
    /\ row # "acked"
    /\ ~Active
    /\ row' = "recorded"
    /\ handler' = [handler EXCEPT ![a] = "preparing"]
    /\ beside' = [beside EXCEPT ![a] = InFlight]
    /\ UNCHANGED <<outcome, ordered, runtimeRow, events, up, handle, projecting,
                   ready, final, cancel, release, procVars,
                   startAcks, acks, snapshots, written, failures, crashes>>

\* A duplicate while the Runtime is registered: the old answer again.
AnswerAgain(a) ==
    /\ Delivered(a)
    /\ row # "absent"
    /\ Active
    /\ handler' = [handler EXCEPT ![a] = "over"]
    /\ startAcks' = startAcks \union {"accepted"}
    /\ UNCHANGED <<diskVars, up, handle, projecting, ready, final, cancel, release,
                   procVars, acks, snapshots, written, failures, crashes, beside>>

\* A duplicate after the command was dealt with and the Runtime is gone: accepted,
\* whatever the answer was, and the Run is reported lost.
AnswerLost(a) ==
    /\ Delivered(a)
    /\ row = "acked"
    /\ ~Active
    /\ handler' = [handler EXCEPT ![a] = "over"]
    /\ startAcks' = startAcks \union {"accepted"}
    /\ ReportLost
    /\ UNCHANGED <<diskVars, up, handle, ready, procVars, acks, written, failures, crashes, beside>>

\* The catch of handleRunStart: the Run gives up its projector and is refused.
Refuse(a) ==
    /\ handler' = [handler EXCEPT ![a] = "over"]
    /\ projecting' = FALSE
    /\ row' = "acked"
    /\ startAcks' = startAcks \union {"rejected"}

\* An input cannot be fetched, a preflight fails, the Node has no room.
PrepareFails(a) ==
    /\ up
    /\ handler[a] = "preparing"
    /\ Refuse(a)
    /\ UNCHANGED <<outcome, ordered, runtimeRow, events, up, handle, ready, final,
                   cancel, release, procVars, acks, snapshots, written, failures, crashes, beside>>

\* supervisor.start spawns without a look at its table.
Spawn(a) ==
    /\ up
    /\ handler[a] = "preparing"
    /\ handler' = [handler EXCEPT ![a] = "spawned"]
    /\ proc' = [proc EXCEPT ![a] = "alive"]
    /\ UNCHANGED <<diskVars, up, handle, projecting, ready, final, cancel, release,
                   told, wrote, pipe, sentVars>>

\* ps has answered: the process is entered in active_runtime and the table, the
\* start is accepted and the Runtime gets its prompt (which a dead one never reads).
\* Nothing else runs in between; that the Node may end in between is in Crash.
Register(a) ==
    /\ up
    /\ handler[a] = "spawned"
    /\ runtimeRow = None
    /\ runtimeRow' = a
    /\ handle' = a
    /\ handler' = [handler EXCEPT ![a] = "over"]
    /\ projecting' = TRUE
    /\ row' = "acked"
    /\ startAcks' = startAcks \union {"accepted"}
    /\ told' = told \union {a}
    /\ UNCHANGED <<outcome, ordered, events, up, ready, final, cancel, release,
                   proc, wrote, pipe, acks, snapshots, written, failures, crashes, beside>>

\* run_id is the primary key of active_runtime: the second entry throws. The
\* process it was for is not stopped.
RegisterFails(a) ==
    /\ up
    /\ handler[a] = "spawned"
    /\ runtimeRow # None
    /\ Refuse(a)
    /\ UNCHANGED <<outcome, ordered, runtimeRow, events, up, handle, ready, final,
                   cancel, release, procVars, acks, snapshots, written, failures, crashes, beside>>

HandleRunStart(a) ==
    \/ Prepare(a) \/ AnswerAgain(a) \/ AnswerLost(a)
    \/ PrepareFails(a) \/ Spawn(a) \/ Register(a) \/ RegisterFails(a)

-----------------------------------------------------------------------------
(* The Runtime and its output.                                             *)

\* A Runtime that has its prompt prints runtime.ready, and one ending after it;
\* a boot that fails prints runtime.fatal alone.
PrintFrame(p, frame) ==
    /\ proc[p] = "alive"
    /\ p \in told
    /\ \/ wrote[p] = "nothing" /\ frame \in {"ready", "fatal"}
       \/ wrote[p] = "ready" /\ frame \in Ending
    /\ wrote' = [wrote EXCEPT ![p] = frame]
    /\ pipe' = [pipe EXCEPT ![p] = Append(@, frame)]
    /\ UNCHANGED <<diskVars, memoryVars, proc, told, sentVars>>

\* A process ends: by itself, of a signal, or because its stdin was closed.
Exit(p) ==
    /\ proc[p] \in {"alive", "killed"}
    /\ proc' = [proc EXCEPT ![p] = "dead"]
    /\ UNCHANGED <<diskVars, memoryVars, told, wrote, pipe, sentVars>>

OrphanExit(p) ==
    /\ proc[p] = "orphan"
    /\ proc' = [proc EXCEPT ![p] = "gone"]
    /\ UNCHANGED <<diskVars, memoryVars, told, wrote, pipe, sentVars>>

\* The event each ending is projected to; a frame that breaks the protocol
\* fails the Run as well.
Projected(frame) == IF frame = "fatal" THEN "failed" ELSE frame

\* The next line of p can be read. The pipe of a process that has ended is still
\* open, and a line is taken for the Run's whichever of its processes printed it.
CanRead(p) == up /\ proc[p] \in {"alive", "killed", "dead", "reaped", "missed"} /\ pipe[p] # <<>>

\* handleStdoutLine without a projector: the line is dropped.
DropLine(p) ==
    /\ CanRead(p)
    /\ ~projecting
    /\ pipe' = [pipe EXCEPT ![p] = Tail(@)]
    /\ UNCHANGED <<diskVars, memoryVars, proc, told, wrote, sentVars>>

ReadReady(p) ==
    /\ CanRead(p)
    /\ projecting
    /\ Head(pipe[p]) = "ready"
    /\ pipe' = [pipe EXCEPT ![p] = Tail(@)]
    /\ ready' = TRUE
    /\ events' = events \union {"ready"}
    /\ UNCHANGED <<row, outcome, ordered, runtimeRow, up, handler, handle, projecting,
                   final, cancel, release, proc, told, wrote, sentVars>>

\* The ending is spooled first and recorded after (confirmCancel before that is
\* part of what Finalize does). A SIGTERM after a protocol violation may end the
\* process, which it may do anyway.
ReadEnding(p) ==
    /\ CanRead(p)
    /\ projecting
    /\ Head(pipe[p]) \in Ending
    /\ pipe' = [pipe EXCEPT ![p] = Tail(@)]
    /\ events' = events \union {Projected(Head(pipe[p]))}
    /\ Finalize(Projected(Head(pipe[p])))
    /\ UNCHANGED <<row, outcome, ordered, runtimeRow, up, handler, handle, ready,
                   proc, told, wrote, sentVars>>

\* The exit of a child is seen: finalize takes the Run off the table and
\* handleRuntimeExit finds out how it ended. An exit seen before the process was
\* registered finds nothing to take off, and the registration follows ("missed").
\* The supervisor's wall-clock limit adds nothing: it ends a process as SIGTERM may.
SeeExit(p) ==
    /\ up
    /\ proc[p] = "dead"
    /\ proc' = [proc EXCEPT ![p] = IF handler[p] = "spawned" THEN "missed" ELSE "reaped"]
    /\ Unregister
    /\ release' = "none"
    /\ IF final # "none"
       THEN UNCHANGED <<final, projecting, cancel, events>>
       ELSE LET forced == cancel # "none" IN
            /\ final' = IF forced THEN "cancelled" ELSE "runtime_lost"
            /\ projecting' = FALSE
            /\ cancel' = "none"
            /\ events' = IF projecting
                         THEN events \union {IF forced THEN "cancelled" ELSE "failed"}
                         ELSE events
    /\ UNCHANGED <<row, outcome, ordered, up, handler, ready, told, wrote, pipe, sentVars>>

Runtime(p) ==
    \/ \E frame \in Frame : PrintFrame(p, frame)
    \/ Exit(p) \/ OrphanExit(p)
    \/ DropLine(p) \/ ReadReady(p) \/ ReadEnding(p) \/ SeeExit(p)

-----------------------------------------------------------------------------
(* run.cancel, and the timers that end a Runtime.                          *)

\* The Hub sends these once it has taken the Run for started.
Started == "accepted" \in startAcks

\* A cancellation of a Run that is over or not active is acknowledged, no more.
\* A duplicate is acknowledged and changes nothing.
HandleRunCancel(c) ==
    /\ up
    /\ Started
    /\ c \notin ordered
    /\ ordered' = ordered \union {c}
    /\ cancel' = IF final = "none" /\ Active THEN "requested" ELSE cancel
    /\ UNCHANGED <<row, outcome, runtimeRow, events, up, handler, handle, projecting,
                   ready, final, release, procVars, sentVars>>

\* The 15 s for a confirmation are over: SIGTERM, which the Runtime may ignore.
EscalateToSigterm ==
    /\ up
    /\ cancel = "requested"
    /\ cancel' = "sigterm"
    /\ UNCHANGED <<diskVars, up, handler, handle, projecting, ready, final, release,
                   procVars, sentVars>>

\* Mutant: SIGTERM once more.
EscalateToSigtermAgain ==
    /\ up
    /\ cancel = "sigterm"
    /\ cancel' = "sigkill"
    /\ UNCHANGED <<diskVars, up, handler, handle, projecting, ready, final, release,
                   procVars, sentVars>>

EscalateToSigkill ==
    /\ up
    /\ cancel = "sigterm"
    /\ cancel' = "sigkill"
    /\ Kill
    /\ UNCHANGED <<diskVars, up, handler, handle, projecting, ready, final, release,
                   told, wrote, pipe, sentVars>>

\* releaseRuntime: the Runtime has not shut down in time, SIGTERM.
ReleaseBySigterm ==
    /\ up
    /\ release = "shutdown"
    /\ release' = IF Active THEN "sigterm" ELSE "none"
    /\ UNCHANGED <<diskVars, up, handler, handle, projecting, ready, final, cancel,
                   procVars, sentVars>>

\* Mutant: the release is over after SIGTERM.
ReleaseWithoutSigkill ==
    /\ up
    /\ release = "sigterm"
    /\ release' = "none"
    /\ UNCHANGED <<diskVars, up, handler, handle, projecting, ready, final, cancel,
                   procVars, sentVars>>

ReleaseBySigkill ==
    /\ up
    /\ release = "sigterm"
    /\ release' = "none"
    /\ Kill
    /\ UNCHANGED <<diskVars, up, handler, handle, projecting, ready, final, cancel,
                   told, wrote, pipe, sentVars>>

Timer == EscalateToSigterm \/ EscalateToSigkill \/ ReleaseBySigterm \/ ReleaseBySigkill

-----------------------------------------------------------------------------
(* run.followup, approval.decide and run.status_request.                   *)

\* Mutant: a duplicate is accepted, whatever the first answer was.
ReplayAccepted(f) ==
    /\ up
    /\ outcome[f] \in Answer
    /\ acks' = [acks EXCEPT ![f] = @ \union {"accepted"}]
    /\ UNCHANGED <<diskVars, memoryVars, procVars, startAcks, snapshots, written, failures, crashes, beside>>

\* A duplicate with an outcome gets the same answer again.
ReplayFollowup(f) ==
    /\ up
    /\ outcome[f] \in Answer
    /\ acks' = [acks EXCEPT ![f] = @ \union {outcome[f]}]
    /\ UNCHANGED <<diskVars, memoryVars, procVars, startAcks, snapshots, written, failures, crashes, beside>>

\* The Run is running: its prompt is out, the Runtime is ready and in the table.
Acceptable == final = "none" /\ ready /\ Active
Judgement == IF Acceptable THEN "accepted" ELSE "rejected"

\* No outcome has been recorded of the follow-up.
Unjudged(f) == outcome[f] \in {"absent", "recorded"}

\* The first delivery, or one whose handling was cut short: judged by the state
\* of the Run; an accepted one is put into the Runtime's stdin. The ack is sent
\* although the outcome cannot be written.
JudgeFollowup(f) ==
    /\ up
    /\ Started
    /\ Unjudged(f)
    /\ \/ /\ outcome' = [outcome EXCEPT ![f] = Judgement]
          /\ UNCHANGED failures
       \/ /\ failures < MaxStoreFail
          /\ failures' = failures + 1
          /\ outcome' = [outcome EXCEPT ![f] = "recorded"]
    /\ acks' = [acks EXCEPT ![f] = @ \union {Judgement}]
    /\ written' = [written EXCEPT ![f] = IF Acceptable THEN @ + 1 ELSE @]
    /\ UNCHANGED <<row, ordered, runtimeRow, events, memoryVars, procVars, startAcks, snapshots, crashes, beside>>

\* The decision is passed on and echoed to the Hub; nothing is recorded of it.
HandleApprovalDecide ==
    /\ up
    /\ Started
    /\ projecting
    /\ events' = events \union {"decided"}
    /\ UNCHANGED <<row, outcome, ordered, runtimeRow, memoryVars, procVars, sentVars>>

\* answerStatusRequest
AnswerStatusRequest ==
    /\ up
    /\ Started
    /\ snapshots' = snapshots \union EndReported
    /\ UNCHANGED <<diskVars, up, handler, handle, projecting, ready, final, cancel, release,
                   procVars, startAcks, acks, written, failures, crashes, beside>>

-----------------------------------------------------------------------------
(* The Node process ends and starts again.                                 *)

\* Its memory is gone. The Runtimes it leaves behind find their stdin closed.
NodeEnds ==
    /\ up
    /\ crashes < MaxCrash
    /\ crashes' = crashes + 1
    /\ up' = FALSE
    /\ handler' = [a \in Attempt |-> IF handler[a] = "unused" THEN "unused" ELSE "over"]
    /\ handle' = None
    /\ projecting' = FALSE
    /\ ready' = FALSE
    /\ final' = "none"
    /\ cancel' = "none"
    /\ release' = "none"
    /\ proc' = [p \in Attempt |->
                   CASE proc[p] = "alive" -> "orphan"
                     [] proc[p] \in {"killed", "dead", "reaped", "missed"} -> "gone"
                     [] OTHER -> proc[p]]
    /\ UNCHANGED <<ordered, events, told, wrote, pipe, acks, snapshots, failures, beside>>

\* In the middle of a registration: active_runtime has the process, and then the
\* command is acked in its own database, and then the answer is on its way.
CutRegistration(a) ==
    /\ handler[a] = "spawned"
    /\ runtimeRow = None
    /\ runtimeRow' = a
    /\ \/ UNCHANGED <<row, startAcks>>
       \/ row' = "acked" /\ startAcks' \in {startAcks, startAcks \union {"accepted"}}
    /\ UNCHANGED <<outcome, written>>

\* Between a follow-up's way into stdin and the record of it.
CutFollowup(f) ==
    /\ Started
    /\ Unjudged(f)
    /\ Acceptable
    /\ outcome' = [outcome EXCEPT ![f] = "recorded"]
    /\ written' = [written EXCEPT ![f] = @ + 1]
    /\ UNCHANGED <<row, runtimeRow, startAcks>>

\* At any moment.
Crash ==
    /\ NodeEnds
    /\ \/ UNCHANGED <<row, outcome, runtimeRow, startAcks, written>>
       \/ \E a \in Attempt : CutRegistration(a)
       \/ \E f \in Followup : CutFollowup(f)

\* probeOrphan and killProcessGroup: SIGTERM and SIGKILL to the registered process.
KillOrphan == proc' = [proc EXCEPT ![runtimeRow] = "gone"]

\* recoverOrphans, before the session opens: the registered process is killed if
\* it is still the one that was registered, and its Run is reported lost.
Restart ==
    /\ ~up
    /\ up' = TRUE
    /\ IF runtimeRow = None
       THEN UNCHANGED <<runtimeRow, proc, final, projecting, cancel, release, snapshots>>
       ELSE /\ runtimeRow' = None
            /\ KillOrphan
            /\ ReportLost
    /\ UNCHANGED <<row, outcome, ordered, events, handler, handle, ready, told, wrote, pipe,
                   startAcks, acks, written, failures, crashes, beside>>

-----------------------------------------------------------------------------
Next ==
    \/ \E a \in Attempt : HandleRunStart(a) \/ Runtime(a)
    \/ \E c \in Cancel : HandleRunCancel(c)
    \/ \E f \in Followup : ReplayFollowup(f) \/ JudgeFollowup(f)
    \/ HandleApprovalDecide \/ AnswerStatusRequest
    \/ Timer
    \/ Crash \/ Restart

Spec == Init /\ [][Next]_vars

\* Timers fire, SIGKILL kills, the event loop sees exits, and a Node that ended
\* is started again (the service is installed to be). A Runtime that is asked to
\* end, by a frame or by SIGTERM, is not trusted to.
Fairness ==
    /\ WF_vars(EscalateToSigterm)
    /\ WF_vars(EscalateToSigkill)
    /\ WF_vars(ReleaseBySigterm)
    /\ WF_vars(ReleaseBySigkill)
    /\ WF_vars(Restart)
    /\ \A p \in Attempt : WF_vars(proc[p] = "killed" /\ Exit(p)) /\ WF_vars(SeeExit(p))

FairSpec == Spec /\ Fairness

-----------------------------------------------------------------------------
(* Properties.                                                             *)

Running == {p \in Attempt : proc[p] \in {"alive", "killed"}}

\* Two deliveries of the run.start were handled at the same time.
Overlapped == \E a \in Attempt : beside[a] # {}

\* One of two deliveries was taken up while the other was being handled.
Beside(p, q) == p \in beside[q] \/ q \in beside[p]

\* A Node has a second Runtime for a Run only from a delivery taken up while the
\* first one's was being handled: never from a delivery after an answer, a refusal,
\* an exit or a restart, whatever is lost or delivered again (handleRunStart, R7).
\* A Runtime the Node left behind when it ended is not counted, its stdin is closed.
OneRuntime == \A p, q \in Running : p = q \/ Beside(p, q)

\* And only then the prompt of a Run is given to a second Runtime, in the whole life
\* of the Run and over restarts of the Node: tools are not run again (R9).
PromptedOnce == \A p, q \in told : p = q \/ Beside(p, q)

\* The supervisor's table and active_runtime agree, and name no process whose
\* exit was seen after it was registered: such an entry holds a slot of the Node and
\* keeps the Run in the heartbeat for ever. (One whose exit was seen before is named,
\* of a Run that is over.)
ActiveIsAlive ==
    up => /\ handle = runtimeRow
          /\ Active => \/ proc[handle] \in {"alive", "killed", "dead"}
                       \/ proc[handle] = "missed" /\ final # "none"

Endings == events \intersect Outcome

\* A Run that was accepted and has no Runtime any more has its ending on record,
\* as an event or a snapshot: the Hub is not left waiting for it. (Of deliveries that
\* overlap one can take the projector of the other, and the exit goes unreported.)
EndingKnown ==
    up /\ Started /\ ~Active => Overlapped \/ Endings # {} \/ snapshots # {}

\* As long as outcomes can be written: a follow-up gets one answer however often
\* it is delivered, and it is put into a Runtime at most once.
OneAnswer ==
    failures = 0 => \A f \in Followup : acks[f] # Answer /\ written[f] <= 1

\* An accepted follow-up was put into a Runtime, also when outcomes are lost.
AcceptedIsWritten == \A f \in Followup : "accepted" \in acks[f] => written[f] > 0

\* A Runtime with a cancellation under way is gone in the end.
CancelEnds == cancel # "none" ~> ~Active

\* A Runtime in the table when the end of its Run is recorded is told to shut down,
\* and whatever it does, it leaves the table in the end.
EndedIsReleased == release # "none" ~> ~Active
=============================================================================
