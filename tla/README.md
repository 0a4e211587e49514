# Formal models of whalepod

whalepod is a Hub (a Fastify server over PostgreSQL), a Node on every member's
machine (a Node.js daemon over SQLite) and a Runtime (a child process of the Node
that runs one agent for one Run). The Hub decides what should run and keeps the
record; the Node owns the processes; the two are joined by one websocket per Node,
over which commands are repeated until they are acknowledged and events are
spooled until they are acknowledged. What can go wrong here is almost never one
handler taken alone: it is a repeated delivery, a lost answer, a process that dies
between two steps, two passes of one timer, a stale answer that arrives late.

This directory holds TLA+ models of that core, the configurations that check them
with TLC, and proofs that TLAPS checks. `PROJECT.json` lists the components, the
runs, the theorems, the lines of code behind every definition and the hazards.

Paths below are relative to `src/`; `hub/` stands for `apps/hub/src/`, `node/` for
`apps/node/src/`, `db/` for `packages/db/src/`, `domain/` for `packages/domain/src/`.

## 1. Inventory

| Component | State it keeps | Operations | What makes it correct | Modelled in |
|---|---|---|---|---|
| **Event transport** (`node/spool/event-store.ts`, `node/gateway/session.ts`, `hub/modules/device/node-websocket.ts`, `db/repositories/event.ts`) | Node: `run_event_seq`, `spooled_event`. Hub: `run_event`, one promise chain per socket | emit and drain, connect and hello, heartbeat, event ack, `resend_from`, ingest | no event is lost, an ack never passes a gap, events take effect once and in order, everything arrives in the end | EventSpool |
| **Run domain** (`domain/run.ts`, `domain/approval.ts`) | none: the edges of a Run and of an Approval | `RUN_NEXT`, `transition` | the Hub's records follow these edges and no other | RunDomain, RunLifecycle |
| **Run ledger of the Hub** (`hub/modules/run/*`, `hub/modules/context/receipt-watchdog.ts`, `db/outbox.ts`) | the Run, its Approvals, its messages, its outbox commands; the workers' claims | events, snapshots and acks of the Node; cancel, decide, post, revoke; expiry, lease, watchdog, reconciler; the outbox worker | it waits exactly while an Approval is open; every message is answered once; the Node never gets one Run under two ids; an end is final | RunLedger |
| **Run manager and supervisor of the Node** (`node/run/run-manager.ts`, `node/supervisor/*`, `node/spool/command-store.ts`, `node/projection/projector.ts`, `node/runtime-driver.ts`) | SQLite: receipts and outcomes of commands, `active_runtime`, the spool. Memory: handles, projectors, facts, results, timers | `run.start`, `run.followup`, `run.cancel`, `approval.decide`, `run.status_request`; lines and exits; timers; recovery | one Runtime for a Run, prompted once; one answer per command; one ending, on record; a Runtime that should be gone is gone in the end | NodeRun |
| **Terminal cleanup** (`node/run/terminal-cleanup.ts`, parts of `run-manager.ts`) | a queue of removals on disk, facts of sessions, shared homes | schedule, passes, startup, hourly retry | nothing is taken from under a Runtime, a session that may be resumed stays, everything goes in the end | TerminalCleanup |
| **Run context** (`hub/modules/context/*`, `node/context/*`) | Hub: versions of a Run's snapshot. Node: rows, store, `state.json`, copies | withdraw, restore, push, sync, clean, read, receipts | what is acknowledged as withdrawn cannot be read; a removal never reaches a restored copy; a withdrawal lands | RunContext |
| **Coordination and Router** (`hub/modules/router/*`, `node/coordination/*`) | rows with lease, reservation and charge; the Node's journal, homes and results | enqueue, dispatch, heartbeat, result, expiry, retry; spawn, flush, recovery | the model is asked once per attempt, the budget holds, what reached the model is charged, every answer is settled | RouterEvaluation |
| **Work** (`hub/modules/work/*`, `dispatch/*`) | mandates by version, waits, intents, machine Runs; inbox items, places in Runs, receipts | renew, pause, revoke, expire; apply a proposal, create, start, sweep; plan, take, read, settle | no Run under a mandate that ended; a Work that waits can be woken; an item is consumed once and only the newest comes back | WorkDispatch, WorkInbox |
| **Task, review, handoff** (`hub/modules/task/*`, `review/*`, `artifact/commands.ts`, `handoff/*`) | status, assignee, candidates, invitations, comments, rounds, links; drafts, revisions, receipts, decisions | submit, invite, comment, round, resolve, deliver; save, publish, deliver, confirm, adopt, reassign | comments are judged on the version that came back; silence is true; one decision in force, confirmed by the assignee | TaskReview, Handoff |
| Runtime process (`apps/runtime/src/*`) | session, queue of follow-ups, gate of approvals | turns, follow-ups, cancel | an ending is printed once | as NodeRun's environment |
| Source collection | leases of sources to devices | takeover on expiry | one collector at a time | no |
| Plugins, Artifacts | packages and files by content | stage and rename, upload | content is what its digest says | no |
| Devices and pairing; Users, teams and sessions | rows | single transactions | codes and keys used once | no |
| Realtime | numbers of a team's events | replay | no gap at subscription | no |
| Wire formats, Web client, Hub process | none of the system's own | parsing, views, wiring | | no |

How they interact. A user's request writes rows of the Run and an outbox command in
one transaction. The **outbox worker** (a pass every 250 ms, not waiting for the one
before) claims commands, asks `beforeDispatch`, sends them over the socket the Node has
and marks them sent; they are repeated with a back-off until the Node's `command.ack`.
The Node **claims** the command in SQLite, acts, and acknowledges. The Runtime prints
lines, which the **projector** turns into events; they get a number and are **spooled**
in one transaction, then drained. The Hub **appends** and applies each in one
transaction, and acknowledges its watermark. `run.snapshot` answers the Hub's questions
about a Run outside that stream. Next to that, a Work asks the **Router** on a Node what
to do; its accepted proposal becomes a wait or a **dispatch intent**, the intent a machine
Run under the **mandate** in force; the Run takes the **inbox** items it was made with and
the **context** the Hub froze for it, and reports what it has read. A finished Run feeds the
**review** of its Task and the **handoff** to the next; the Node's **cleanup** removes what is left.

What is hard, and where ("hazards" in `PROJECT.json` has each with its line):

- *repetition and loss*: every command, event and receipt is sent again and again, and
  every answer can be lost after its effect (`run-manager.ts:416`, `outbox-worker.ts:83`);
- *crashes between steps*: Hub between send and `sent_at`, Node between journal, spawn
  and registration, between stdin and outcome, between ending and release, between a
  removal and its record;
- *awaits*: preparing a Run, asking `ps`, removing a copy; deliveries, exits and receipts
  come between (`run-manager.ts:432`, `runtime-supervisor.ts:229`, `context/state.ts:206`);
- *overlap*: the chain of a replaced connection runs next to the new one
  (`node-websocket.ts:270`), passes of workers and sweepers overlap (`server.ts:62`);
- *checks outside the transaction that writes*: review, rounds, handoff, sweeps of mandates;
- *races of endings*: user, expiry, Node, lease and watchdog all end a Run, an Approval or a lease;
- *liveness*: a Runtime that will not stop, a wait nobody wakes, a result nobody acknowledges.

## 2. The modules

Every component is a module of its own; `MC...` instantiates it for TLC; `...Proofs` holds
its theorems. Definitions whose comment begins "Mutant:" stand before the definition they change. No
behaviour of a model uses them; each is a plausible mistake which the property it is
paired with in `PROJECT.json` detects. The head of each module says what it takes from the code
and what one step stands for.

| Module | What it is | Proofs |
|---|---|---|
| `EventLog` | abstract: a log that is produced, persisted, and discarded only once persisted, in prefixes | |
| `EventSpool` | the transport of one Run's events; implements `EventLog` (`ImplementsLog`) | `EventSpoolProofs` |
| `RunDomain` | the edges of `domain/run.ts`, `domain/approval.ts` | |
| `RunLifecycle` | abstract: one Run and its Approvals moving along these edges | |
| `RunLedger` | the Hub's records of one Run; implements `RunLifecycle` (`ImplementsLifecycle`) | `RunLedgerProofs` |
| `NodeRun` | one Run on its Node | `NodeRunProofs` |
| `RunContext` | the context of one Run, from the Hub's row to the Runtime's read | `NodeRunProofs` |
| `TerminalCleanup` | what the Node removes after Runs that share homes | `TerminalCleanupProofs` |
| `RouterEvaluation` | the evaluations of one Work, Hub and Node | `RouterEvaluationProofs` |
| `WorkDispatch` | one Work: mandate, waits, intents, machine Runs | `WorkDispatchProofs` |
| `WorkInbox` | one source of a Work's inbox, over its versions and Runs | `WorkInboxProofs` |
| `TaskReview` | one Task: Runs, candidate artifacts, review, revision rounds | `TaskProofs` |
| `Handoff` | one handoff: draft, revisions, receipts, decisions | `TaskProofs` |

**EventSpool.** `nextSeq` and `spool` are the two SQLite tables, `runEvents` is the Hub's
table, `terminal` what the Run's row tells the heartbeat's handler. `up[c]` is connection
c: what is on its way to the Hub together with the chain of frames the Hub has still to
handle; `down` is the way back on the current connection. A drain is a *burst*, a set of
numbers, since frames of one drain leave in ascending order; the Hub takes the lowest.
`owesAck[c]` separates the transaction of an event from the reading of the watermark after
it. `HubFail` is a frame whose handling throws: its socket closes, the frames behind it
are handled.

**RunLedger.** One action per handler of the Hub: each event of the Node, both kinds of
snapshot, the ack of each command, cancel, decide, expire, post a follow-up, revoke a
right, lease expiry, watchdog, reconciler, and the steps of an outbox pass (claim, check,
send, mark), which are separate as the code commits between them. `delivered` is what the Node
has been sent, kept to say what must not happen. The Node is not modelled in it: it may
report anything at any time once it has been sent a start.

**NodeRun.** The disk (`row`, `outcome`, `ordered`, `runtimeRow`, `events`) survives `Crash`;
the memory (`handler`, `handle`, `projecting`, `ready`, `final`, `cancel`, `release`) does not.
A delivery of `run.start` is an attempt with a program counter, `handler[a]`, because `handleRunStart`
awaits: prepare, spawn, register, or refuse. Frames are handled without being waited for (`cli.ts:372`), so a
delivery may be taken up while others are in handling; `beside[a]` is the history of which those
were. The process an attempt spawns has the attempt's name; `pipe` is what it has printed and the
driver has not read. A process may exit before its registration, which then enters it dead
("missed"). Registration writes two databases and a follow-up a database and a stdin: `CutRegistration` and
`CutFollowup` are ends of the Node between the two.

**RunContext.** Digests tie a version of a snapshot to its entries, so a frame, the Node's row
and `state.json` are the *number* of a version, and `hist` says what that version holds. The Node's
operations on one Run are serialised and each is a record with a program counter, since it
awaits after every removal; receipts of the Runtime are handled in between. Reads look at
`state.json` and then at the copy.

**TerminalCleanup.** A pass over the queue awaits nothing and is one step; what it finds
depends on what the database answers in that step (works, refuses writes, locked). The constant
`Source` says which Run a Run resumes, so whose home it works in. `handling[r]` has two slots, since a
delivery of `run.start` may be taken up beside another; `twice` is the history of the Runs it happened to. A Runtime
is in the table (`handles`) or spawned and not in it (`stray`); one of the table is a "child", or "loose" once the entry
was taken away from under it, and when the Node ends the first becomes an "orphan" with its row in `active_runtime`, the
second is "stranded" without one.

**RouterEvaluation.** A retry is a new row with the next attempt, so a row is its lease. On the
Node the journal, the homes and the saved results survive, the broker's process and the
queue do not. The frames from the Node are in order on one connection, which is what the Hub's
rule "no completed answer without a start" rests on.

**WorkDispatch.** An evaluation leads to at most one wait or intent, and an intent to at most one Run, so
all three are indexed by their evaluation. A change of the mandate is a new row with the
next version. Commands lock Task, Work and row and are one action; the sweepers read
without a lock and write later, in an action of their own. A pass of the outbox worker claims a `run.start`,
checks Work and mandate, puts the command on the wire and marks it sent in four steps of a `Worker`, since the code reads
unlocked, commits and sends later; a command marked sent is put on the wire again without a check. `late` is the history
of a pass that began after the mandate or the Work had ended.

**WorkInbox.** One source, whose versions are the items. The Hub's answer to the Node and the copy the Node makes
of it are two steps (`Answer`, `Prepare`): the source may be withdrawn while the answer is on its way. What the
reconciler has listed without a lock is kept until it settles it. A receipt is a read; the Node's outbox keeps it
until its frame has been written to the socket, which is when it can be lost.

**TaskReview, Handoff.** What a call reads before its transaction is an element of `calls`, or of `starts` (a draft
to be made by hand), `reads` (a publication) and `checked` (a delivery), until it writes; any other call may commit in
between. Members are interchangeable. `Correct` is a member's correction of the Decision
(`hub/modules/context/commands.ts:42`), which ends it and puts none in its place.

## 3. The runs

Every bound is a constant or a set in the `.cfg`. Type invariants are proved for every
module and left out of the runs.

| Run | Bounds | Question |
|---|---|---|
| `spool` | 2 events, 2 connections, 2 failing frames; fair | Is an event ever lost? Does the transport implement the log? Does every event arrive and leave the spool? |
| `ledger` | 2 Approvals, 2 command ids, 2 passes of the worker, 1 follow-up (symmetric) | Does the Run wait exactly while a question is open, is the Node ever sent one Run under two ids, is a follow-up forgotten or kept after its author's right is gone? Does it implement the lifecycle? |
| `node_start` | 3 deliveries, 1 crash, processes that exit early | Does a Run get a second Runtime, or its prompt a second time, other than from deliveries in handling together? Is its ending on record? |
| `node_followup` | 2 deliveries of the start, 1 follow-up, 2 cancellations, 1 failing write, 1 crash; fair | Is a follow-up ever accepted without having been written? Is a cancelled or ended Runtime gone in the end? |
| `context` | 1 entry, 2 changes, 1 fault, 1 lost connection, 1 read, 1 frame on its way; fair | Is a withdrawal acknowledged unreadable, does a removal reach a restored copy, does a withdrawal land? |
| `cleanup` | 2 Runs, the second resuming the first; 1 delivery beside another, 1 crash, 1 database fault, 1 stuck copy; fair | Is anything taken too early, is a task done that is not, is everything gone in the end? |
| `router_safety` | 2 evaluations, 1 retry, 2 frames up, 1 down, 1 crash, 1 change of the facts; reservation 2, charge 1 or 3, limit 3 | Is the model asked twice, does the budget hold, is a call free that reached the model, does a broker lose its home? |
| `router_live` | 1 evaluation, 1 lost connection, 1 crash, 1 change; fair | Is every dispatched evaluation settled and every saved result acknowledged? |
| `work_dispatch` | 2 evaluations, 2 versions of the mandate, 1 outbox pass at a time, 1 crash; fair | Can a waiting Work be woken, is a Run made under a mandate that ended, or started by a pass that began after the end, is it told, do waits end? |
| `inbox` | 2 versions, 2 Runs, 2 reads, 1 fault; fair | Is an item consumed twice, does an old one return, does the Hub hand out a source withdrawn, does anything stay unconfirmed? |
| `handoff` | 2 members (symmetric), 1 save, 2 revisions, 2 reassignments, 2 receiving Runs; a view | Is one decision in force, and confirmed by the assignee? |
| `review` | 2 assignees, 1 reviewer (symmetric), 3 Runs, 3 artifacts, 2 rounds, 2 open calls, 1 reassignment | Is silence true, are comments judged on the version that came back? |

Why the bounds are enough. Two connections are the smallest case of an old chain next to a
new one, and two events of a gap. Two Approvals are the smallest number with "not the last
one"; two command ids and two passes are the smallest race of a re-issue. `Workload` in
`MCRunLedger` is an action constraint: a Run meets either two of each or a follow-up next to
one of each; the two together are covered by the theorems. Three deliveries and a crash are two that meet and one that comes after the restart; two crashes are covered by
the theorems. Two changes of an
entry are a withdrawal and its restoration; two evaluations and two versions are a proposal
that outlives its mandate; two versions of a source and two Runs an overtaken delivery; two calls what one
checked and the other changed. A limit between one charge and two reservations makes the budget bind.
`LiveView` in `MCHandoff` leaves out of the states what no guard of receipts and decisions, and neither property of
that run, can still tell apart: readings that can no longer be committed, the text of older revisions, what past Runs took.
The safety properties are proved for all values of these constants as well; the bounds
matter for liveness only.

Deadlock is checked in `spool` and `ledger`. In the others everything may have been used up at the end,
so that nothing is left to do: a Run over, a Task delivered, a queue empty.

### Fairness

- *Transport.* The Node reconnects for ever and sends its hello, handles the acks and
  resends it receives; the Hub works off every chain. No event need be emitted, no heartbeat sent. The
  number of connections is bounded and the last stays up: without that nothing can be delivered.
- *Node.* The four timers fire, SIGKILL kills, the event loop sees an exit, a Node that has ended
  is started again (it is installed as a service). A Runtime asked to end is not trusted to.
- *Context.* The Hub's tick runs and handles what arrives, connections come back, an operation that has
  started goes on. Strong fairness only for the handling of the latest state, of the sync with tasks, and of
  receipts: a frame may be lost with its connection, but not every time.
- *Router.* Frames are handled, connections come back, leases end, rows are settled,
  saved results sent, timers fire or the broker ends, recovery and removal of homes go on.
- *Work.* Sweeps; the steps of an outbox pass, claim to mark; the Node's ack of a start, and that a Run being
  dispatched starts or ends; the timers of waits and mandates. A Run at work need not end, and nobody need decide anything.
- *Inbox.* The confirmation window elapses and the reconciler runs.
- *Cleanup.* A preparation or a Runtime ends (there is a wall-clock limit), the Node is started again and
  reaches the Hub, the hourly pass runs.

## 4. What is proved

TLAPS proves these for every value of the constants. The only assumptions are the named
ASSUMEs of the modules, which TLC evaluates for each configuration (bounds are natural
numbers, model values are not members of the sets beside them), and the hypotheses named here. For every
module the types are part of the inductive invariant. **Every invariant and every safety action property
of the runs, and both refinements, are theorems.**

**EventSpoolProofs**: `NoLoss`, `AckSafe`, `OrderedUnlessFailing`, `Refinement`. The
invariant is `TypeOK`, `AckCoversNoGap`, `NothingLost` and `ProducedSound`. An ack is sound because
the watermark is read from a table that only grows; it then takes from the spool only what the
table has. Order needs that every burst in flight is *closed*: what precedes one of
its events is in it too or at the Hub. That holds as a drain is always the whole spool (`drainRun`).

**RunLedgerProofs**: that the Run waits exactly while an Approval is open, none is left after the end,
follow-ups are never forgotten and withdrawn with their author's right, an answer is on
record, one id is delivered, ends and first answers are final, and that the ledger implements
`RunLifecycle`. `NoneForgotten` is inductive only with `FollowupSound`, `AnswerOnRecord` only
with `WaitingIffOpen`, and both need `OneOpen` (a second question fails the Run): they are proved together.

**NodeRunProofs**, Node: `FollowupHasOneAnswer` and `AcceptedFollowupIsWritten`, from an invariant that ties
the row of the outcome, the answers given and what has been put into stdin; `OneRuntimeAtATime`, `RunIsPromptedOnce`,
`ActiveRuntimeIsAlive` and `EndingOnRecord`, from five parts: where each handler is (`HandlerInv`), what a process may be and
have been told (`ProcInv`), that whatever runs, was prompted or is being started was so side by side (`BesideInv`), that table
and row agree and are true (`TableInv`), and how result, projector, events and snapshots go together when deliveries do
not overlap (`EndInv`). Nothing is assumed about the order of deliveries, of exits or of crashes. What overlap
can break is in the properties themselves: two Runtimes of a Run only from deliveries one of which was taken up
while the other was in handling (`Beside`), an ending not on record only if some overlapped (`Overlapped`).

**NodeRunProofs**, context: `AckedTheorem`, `RestoredTheorem`, `ReadKeptTheorem`. What the Hub counts as
acknowledged is true of the Node (`AcksTrue`), because a copy withdrawn is gone
for good unless a version restores it (`GoneForGood`), because an operation between two awaits
knows which removals it has left (`Operation`), and because the state a read looks at
covers everything acknowledged (`Covered`).

**TerminalCleanupProofs**: `SourceTheorem`, `KeptTheorem`, `DoneTheorem`, for deliveries that meet as they like. A refused Run
takes its home without looking whether it is in use: safe, since the Hub resumes only a Run whose start was
answered (`Resumes`), unless the refused delivery is handled beside the one that was answered, which is what `Apart` is about:
a Run no two deliveries of which have met has no process beside the table. A delivery that has begun has written
the facts and reopened the task (`Begun`), so no task that is done hides a directory; a task that is done was of a Run
whose Runtime was not there, or was not seen (`Seen`).

**RouterEvaluationProofs**: `ModelOnceTheorem`, `FreeTheorem`, `BudgetTheorem`, `HomeTheorem`, `AckedTheorem`,
`StartTheorem`. Whatever names a row has its reservation (`Known`); what the Node
holds of an attempt fits its journal (`Node`); an answer from before the model was asked
is of a process gone for good (`Never`); a completed answer has its start before it
on the way (`Frames`). The budget is a sum over rows: its lemmas say how one row's change moves the sum.

**WorkDispatchProofs**: `ResumableTheorem`, `CreatedTheorem`, `NoLateTheorem`, `SignalTheorem`, `HoldsTheorem`. A Work whose
Run is ongoing waits for that Run or is retired (`RunHolds`), so nothing but the Run's end takes it away, and
what made a sweeper read a Run as invalid stays true until it writes. `NoLateTheorem` rests on `Wired`: a command that
waits in the outbox is of a queued Run, one marked sent has been on the wire, and a pass that claimed one too late finds that
out unless it went out before.

**WorkInboxProofs**: `ConsumedTheorem`, `NewestTheorem`, `NoCopyTheorem`, `OvertakenTheorem`, `ReadTheorem`. The Hub's
records agree among themselves (`Places`, `Undecided`, `Agreed`); receipts meet them only on arrival, so each
side has a part of its own. `NoCopyTheorem` says what the Hub answers, and of a copy that its answer was given before the withdrawal.

**TaskProofs**, review: `SilenceTheorem`, `JudgedTheorem`, `QuietTheorem`, `AssigneeTheorem`, `OneRunTheorem`, `LinkTheorem`, and that links stay and a
finished Task starts nothing. What a call has checked outside its transaction still holds when it writes (`CallsSound`).
Handoff: `OneActiveTheorem`, `ConfirmTheorem`, and that a draft is published once, Runs
take confirmed input only, the owner's draft is kept, a first understanding stands, pending receipts move with the assignee.

*Only model-checked*: `EventuallyDelivered`, `CancelEnds`, `EndedIsReleased`, `WithdrawalLands`, `CleanedInTheEnd`,
`Concludes`, `ResultAcked`, `EndedMandateReaches`, `WaitEnds`, `UnconfirmedSettles`: liveness rests on fairness and ENABLED,
which the prover cannot handle.

## 5. Where the code and what is said of it part

No run is built to fail. These were met while modelling. Where a model does such a thing, the property it would break
names the exception, and the property without it is violated; the other cases are read from the source.

Hub and Node, one Run:

1. *A second question fails the Run.* `RUN_NEXT` has no edge for an Approval opened while one
   is open, so the Run fails (`hub/modules/run/orchestrator.ts:1442`) where the plan counts open
   questions (`02-第一阶段实施计划.md:1439`). `OneOpen` in `RunLedgerProofs` is a consequence.
2. *Overlapping deliveries.* Frames are handled without being waited for (`cli.ts:372`). While inputs are fetched, a second
   delivery of `run.start` is taken for the recovery of a crash (`run-manager.ts:412`, `:432`): a second Runtime is spawned
   and prompted; if its registration fails, the projector of the first is dropped with it and the first one's end goes
   unreported. `OneRuntime` and `PromptedOnce` without `Beside`, `EndingKnown` without `Overlapped` are violated.
3. *Early exit.* A process that exits while the supervisor awaits `ps` is entered in the table after its exit
   was handled, and stays there (`runtime-supervisor.ts:229`, `:266`): `ActiveIsAlive` without its second case is violated.
4. *A refusal is not remembered.* No outcome is recorded for `run.start`: one that was refused is
   accepted when delivered again (`run-manager.ts:420`).
5. *A completed Run is reported lost* when the Node ends between spooling the completion and releasing
   the Runtime (`run-manager.ts:1032` against `03-领域模型与运行协议.md:524`).
6. *Order ends with a failure.* A frame whose handling throws closes the socket, the frames chained behind it are
   handled all the same (`node-websocket.ts:263`). `OrderedUntilFailure` says `failures = 0` for this reason.
7. *A resend is given up.* The Hub ends between sending `run.start` and writing `sent_at`; the
   Node's first event moves the Run on; `beforeDispatch` then refuses the repetition
   and the starting message is answered only when the Run ends (`orchestrator.ts:729`). The Hub then
   does not reconcile what the Node did with it either.
8. *An unread ending.* The driver reports the exit at 'exit', not at 'close': the last line may be unread and the
   Run ends as `runtime_lost` (`runtime-driver.ts:137`). This is `SeeExit` with a line left in `pipe`.

Cleanup and context on the Node:

9. *Two deliveries share one directory.* The refusal or failed download of a `run.start` handled beside another of the same
   Run takes the directory, and its pass the spill, that the other is using (`project-context.ts:175`, `run-manager.ts:2009`-`2033`);
   the exit of a process that never got into the table takes the entry of the one that is there. `KeptWhileUsed` without
   `Undisturbed` is violated. It is about the time after recovery only (`phase = "up"`), because of 10.
10. *A pass does not see a Runtime.* `recoverOrphans` makes `finalizeRun` run a pass that takes another orphan, not killed
    yet, for gone (`run-manager.ts:1405`, against `cli.ts:343`-`345`); a Runtime whose entry was taken away (9) is not seen either. Its task is done under it:
    `DoneIsClean` and `CleanedInTheEnd` except the Runs in `unseen`. A task scheduled from facts kept from before
    `runtime.ready` (`run-manager.ts:2196`) does not know of the session and leaves it: both speak of the home of a
    resumed Run only where the task is `ready`.
11. *Left until the next start.* When the facts cannot be read at the first connection the Node connects all the same
    (`cli.ts:343`-`345`), and makes no tasks from them until it is started again. Nor is there one for a Run whose end was reported before its
    start was delivered again: after a crash between registration and answer the Node reports the Run lost, is given the start again, and the
    second Runtime's end is not finalised as `final` has the Run. `CleanedInTheEnd` except `WaitsForStart`.
12. *A home that seems in use.* The entry of 3 keeps the home of its Run, and of those that share it, until the Node
    is started again: `CleanedInTheEnd` except `Lingers`. An unanswered start the Hub has given up is never reconciled
    (`pendingRunStartReason`), so `CleanedInTheEnd` speaks of Runs that were answered.
13. A Run that resumes a resumed Run is given the direct source's home, which has no session
    (`orchestrator.ts:676` against the comment at `run-manager.ts:541`). A Run that is being started is not
    counted by `isHomeInUse`; that this does no harm, 9 apart, is `KeptWhileUsed`.
14. With two entries, a receipt handled between two removals can come too late: the copy of an entry that was just
    read is removed with the others (`context/state.ts:343`).

Work, Task and handoff:

15. A stale dispatch proposal closes the wait it came from (`router/application.ts:408`) where the design of
    2026-11-04 (line 20) has it left open.
16. *A late start.* `beforeDispatch` reads Work and mandate without a lock, and the command is sent after its transaction
    (`run-dispatch.ts:70`-`143`, `outbox-worker.ts:83`): a mandate that ends in between does not hold it back. One marked sent is sent again
    unchecked (`orchestrator.ts:718`), where the comment at `run-dispatch.ts:66`-`69` says a mandate revoked stops it. A sweep then tells
    the Run (`EndedMandateReaches`). `NoLateStart` is what is left: no pass that began after the end sends the first one.
17. *A late copy.* The bundle is read with a lock that ends with its statement (`run-dispatch.ts:252`-`272`), the answer is
    written later: a source withdrawn in between is copied all the same. `NoCopyAfterRetract` is about what the Hub still hands out.
18. *A draft behind its handoff.* A draft made by hand is seeded from reads outside the transaction that writes it
    (`drafts.ts:305`-`323`): a newer revision may have been published in between. Nothing is claimed of the seed.
19. *Receipts without a decision.* A member's correction sets `correctedAt` (`hub/modules/context/commands.ts:79`) and
    `findActiveDecisionForUpdate` skips such rows: the confirmed receipts stand with no Decision in force, which
    `OneActiveDecision` allows for after a correction only.
20. A receipt of a work input leaves the Node's outbox once it is written to the socket, without the Hub's
    answer (`run-manager.ts:1841`), so it can be lost; the model has it as `lost`.
21. A delivery of a handoff is checked outside its transaction (`handoff/receipts.ts:157` against
    `task/commands.ts:335`): the downstream Task rejected and reassigned in between, the receipt is one nobody may confirm.
22. A comment begun before its author was invited lets "no comment" stand next to it (`review/review.ts:238`);
    `SilenceIsTrue` is about comments written under the lock.
23. Agreement compares `draftVersion`, which starts again at 1 with a new draft: an agreement to the old
    draft fits the new one (`agreement.ts:6`). Not modelled; found by reading.

## 6. What is abstracted, and what is not modelled

- *Data.* Contents of events, prompts, specs, texts and failures; formats of frames; rate and size limits. Digests
  hold: two versions with one digest are one version.
- *Time.* A timer may fire whenever its state is there; the order of two timers of one escalation is
  kept, durations are not.
- *Transactions* are atomic and serialised by the rows they lock. Orders of locking, and what PostgreSQL does when two
  meet (`orchestrator.ts:848`), are not modelled.
- *One of each.* One Run, one Work, one source, one Task and its neighbour. Slots of a Node shared by
  Runs (`runtime-supervisor.ts:193`) and the order of commands between Runs are not modelled.
- *Framing.* NodeRun reads whole lines; the driver splits chunks.
- *The Runtime* is what it prints and how it ends: its turns and its queue of follow-ups follow an agent library
  which is not in the repository.
- *Left out as single transactions or data:* devices and pairing, users, teams and sessions, wire
  formats, plugins, artifacts (their place in a Task is in TaskReview). *Left out as readers:* Realtime and the
  Web client, which change nothing of what is modelled. *Source collection* is a lease with a
  takeover, like RouterEvaluation's with less at stake; it is the first component to add.

What each modelled component leaves out is in its note in `PROJECT.json`.

## 7. What is left to do

1. **HubAndNode**: `RunLedger` and `NodeRun` joined by the command channel, with the release of a Runtime whose Run
   is over at the Hub (and the flag set before its commit, `orchestrator.ts:1545`) and the grace of a Run that heartbeats do not list
   (`reconciler.ts:139`); its invariant from the two proved here.
2. **NodeSlots**: capacity over several Runs, and its bound as a theorem.
3. **RowLocks**: the orders in which transactions lock Run, Approval and outbox rows.
4. **SourceLease**: one collector at a time, no result of a holder that lost its lease.

## 8. Running it

    tlc -workers 2 -config EventSpool_spool.cfg MCEventSpool.tla
    tlc -workers 2 -config NodeRun_start.cfg MCNodeRun.tla
    tlapm RouterEvaluationProofs.tla

Each run takes less than five minutes on two cores, each module of proofs less than ten.
