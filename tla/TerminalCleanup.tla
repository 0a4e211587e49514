--------------------------- MODULE TerminalCleanup ---------------------------
(***************************************************************************)
(* What the Node removes once a Run is over: its runtime-context directory *)
(* and, in the home its Runtime worked in, the spill and - when the Run    *)
(* had context entries - everything else, its session included.  A resumed *)
(* Run works in the home of the Run it resumes.  Node run/terminal-cleanup *)
(* and the parts of run/run-manager that use it, supervisor/runtime-       *)
(* supervisor's table of Runtimes, and the order of cli's start.           *)
(*                                                                         *)
(* A pass over the queue does not await anything, so it is one step; the   *)
(* handling of a run.start awaits, and passes and another delivery of the  *)
(* same run.start come in between: frames are handled without waiting.     *)
(* The database of the queue works, refuses writes or is locked.           *)
(***************************************************************************)
EXTENDS Naturals, FiniteSets

CONSTANTS Run,
          Source,     \* the Run each one resumes, itself when it resumes none
          MaxTwice,   \* bound: Runs of which a delivery is taken up while another is in handling
          MaxCrash,   \* bound: ends of the Node
          MaxFault,   \* bound: steps in which the database of the queue fails
          MaxStuck    \* bound: copies that cannot be removed when it is tried

ASSUME CleanupAssumption ==
    /\ IsFiniteSet(Run) /\ Source \in [Run -> Run]
    /\ MaxTwice \in Nat /\ MaxCrash \in Nat /\ MaxFault \in Nat /\ MaxStuck \in Nat

VARIABLES
    blocked,    \* Runs with context entries
    command,    \* of each run.start in the command store
    known,      \* Runs whose runtime.ready the Hub has heard of
    facts,      \* run_runtime_facts, with session_ready
    task,       \* run_terminal_cleanup, with session_ready
    rows,       \* active_runtime
    runtime,    \* the Runtime of each Run: of this process of the Node or an earlier one,
                \* and with an entry in the table or without
    context,    \* Runs with a runtime-context directory
    session,    \* Runs with a session in their home
    spill,      \* Runs with spilled output in their home
    phase,      \* of the Node's process
    connected,  \* it has been connected once
    handling,   \* how far each delivery of a run.start is: a count of them is startingRuns
    handles,    \* Runs in the supervisor's table
    stray,      \* Runs with a process that was spawned and is not in the table
    projectors, \* of the Runs in it, those whose output is read, and whether ready was
    ready,      \* readyFacts
    final,      \* finalFacts
    kept,       \* unscheduledCleanupFacts, with session_ready
    twice,      \* Runs of which a delivery was taken up while another was in handling
    crashes, faults, stucks,
    unseen,     \* history: Runs whose task was done while their Runtime was there
    reconciled  \* history: the facts could be read and written when it was first connected

hubVars    == <<blocked, known>>
storeVars  == <<command, facts, task, rows>>
diskVars   == <<context, session, spill>>
procVars   == <<phase, connected>>
runVars    == <<handling, handles, stray, projectors>>
factVars   == <<ready, final, kept>>
memoryVars == <<procVars, runVars, factVars>>
boundVars  == <<twice, crashes, faults, stucks>>
pastVars   == <<unseen, reconciled>>
vars == <<hubVars, storeVars, runtime, diskVars, memoryVars, boundVars, pastVars>>

NoTask == [state |-> "none", ready |-> FALSE]
Open   == {"pending", "deferred", "cleanup_pending"}

\* A delivery that was not answered is delivered again: two of them at most are in
\* handling, since whichever ends first answers.
Slot  == {1, 2}
Stage == {"no", "begun", "prepared", "missed", "refused"}
Idle  == [s \in Slot |-> "no"]

Alive == {r \in Run : runtime[r] # "no"}

TypeOK ==
    /\ blocked \subseteq Run /\ known \subseteq Run
    /\ command \in [Run -> {"none", "recorded", "acked"}]
    /\ facts \in [Run -> {"none", "written", "ready"}]
    /\ task \in [Run -> [state : Open \union {"none", "done"}, ready : BOOLEAN]]
    /\ rows \subseteq Run /\ runtime \in [Run -> {"no", "child", "loose", "orphan", "stranded"}]
    /\ context \subseteq Run /\ session \subseteq Run /\ spill \subseteq Run
    /\ phase \in {"down", "recover", "up"} /\ connected \in BOOLEAN
    /\ handling \in [Run -> [Slot -> Stage]]
    /\ handles \subseteq rows /\ stray \subseteq Run
    /\ projectors \in [Run -> {"none", "new", "ready"}]
    /\ ready \subseteq Run /\ final \subseteq Run
    /\ kept \in [Run -> {"no", "unready", "ready"}]
    /\ twice \subseteq Run /\ crashes \in 0..MaxCrash
    /\ faults \in 0..MaxFault /\ stucks \in 0..MaxStuck
    /\ unseen \subseteq Run /\ reconciled \in BOOLEAN

Init ==
    /\ blocked \in SUBSET Run /\ known = {}
    /\ command = [r \in Run |-> "none"] /\ facts = [r \in Run |-> "none"]
    /\ task = [r \in Run |-> NoTask] /\ rows = {} /\ runtime = [r \in Run |-> "no"]
    /\ context = {} /\ session = {} /\ spill = {}
    /\ phase = "up" /\ connected = TRUE
    /\ handling = [r \in Run |-> Idle] /\ handles = {} /\ stray = {}
    /\ projectors = [r \in Run |-> "none"]
    /\ ready = {} /\ final = {} /\ kept = [r \in Run |-> "no"]
    /\ twice = {} /\ crashes = 0 /\ faults = 0 /\ stucks = 0
    /\ unseen = {} /\ reconciled = TRUE

-----------------------------------------------------------------------------
(* The queue                                                               *)

Owns(r)         == Source[r] = r
SameHome(q, r)  == Source[q] = Source[r]
KnownReady(r)   == facts[r] = "ready" \/ r \in ready

\* How the database answers during one step.
Answers == IF faults < MaxFault THEN {"ok", "readonly", "locked"} ELSE {"ok"}
Count(store) == faults' = IF store = "ok" THEN faults ELSE faults + 1

\* schedule: a task that is there, done or not, stays as it is.
Scheduled(T, r, isReady) ==
    IF T[r].state = "none" THEN [T EXCEPT ![r] = [state |-> "pending", ready |-> isReady]] ELSE T

\* scheduleTerminalCleanup: when the row cannot be written the process remembers it.
Registered(q, r, store) ==
    IF store = "ok"
    THEN [task |-> Scheduled(q.task, r, KnownReady(r)), kept |-> [q.kept EXCEPT ![r] = "no"]]
    ELSE [q EXCEPT !.kept[r] = IF KnownReady(r) THEN "ready" ELSE "unready"]

Queue == [task |-> task, kept |-> kept]

\* retryUnscheduledCleanupTasks
Retried(q, shared) ==
    LET R == {r \in Run : q.kept[r] # "no" /\ (shared \/ Owns(r))}
    IN  [task |-> [r \in Run |-> IF r \in R /\ q.task[r].state = "none"
                                 THEN [state |-> "pending", ready |-> q.kept[r] = "ready"]
                                 ELSE q.task[r]],
         kept |-> [r \in Run |-> IF r \in R THEN "no" ELSE q.kept[r]]]

\* isHomeInUse: another Runtime in the table works in this home.
InUse(r, table) == \E q \in table \ {r} : SameHome(q, r)

\* startingRuns: a delivery of its run.start is in handling.
Starting(r) == \E s \in Slot : handling[r][s] # "no"

\* Mutant: that the Run is being started is not looked at.
HeldByRuntime(r, managed, table) == r \in managed \/ InUse(r, table)

\* What a pass leaves for later: the Run is being started, its own Runtime is in the
\* table, or another Runtime there works in its home.
Held(r, managed, table) == Starting(r) \/ r \in managed \/ InUse(r, table)

\* A resumed Run that has never been ready leaves the home alone.
ReachesHome(r, isReady) == Owns(r) \/ isReady

\* Mutant: the session goes with every cleanup.
LosesSession(r) == TRUE

ClearsSession(r) == r \in blocked

\* cleanupRunCopies of the Runs G, of which those in H get to their home; of those in
\* P only the directory could be removed.
Remove(G, H, P) ==
    /\ context' = context \ (G \union P)
    /\ spill' = {q \in spill : \A r \in H : ~SameHome(q, r)}
    /\ session' = {q \in session : \A r \in H : ClearsSession(r) => ~SameHome(q, r)}

\* due, notDone: the tasks never tried, and of the others those put off an hour ago.
Due(t, all, late) == t.state \in Open /\ (all \/ t.state = "pending" \/ late)

\* runTerminalCleanupTick over the queue q: what is due - of what was put off the Runs
\* in late - or everything that is not done; homes of others only when shared.
Pass(q, managed, table, all, late, shared, store) ==
    \/ store = "locked" /\ task' = q.task /\ kept' = q.kept /\ UNCHANGED <<diskVars, stucks>>
    \/ /\ store # "locked"
       /\ \E s \in {IF store = "ok" THEN Retried(q, shared) ELSE q} :
          \E due \in {{r \in Run : Due(s.task[r], all, r \in late) /\ (shared \/ Owns(r))}} :
          \E held \in {{r \in due : Held(r, managed, table)}} :
          \E stuck \in SUBSET (due \ held) :
             /\ stucks' = stucks + Cardinality(stuck) /\ stucks' <= MaxStuck
             /\ \E part \in SUBSET stuck :
                LET gone == due \ (held \union stuck)
                IN  Remove(gone, {r \in gone : ReachesHome(r, s.task[r].ready)}, part)
             /\ kept' = s.kept
             /\ task' = IF store = "ok"
                        THEN [r \in Run |->
                               IF r \notin due THEN s.task[r]
                               ELSE [s.task[r] EXCEPT !.state =
                                       IF r \in held THEN "deferred"
                                       ELSE IF r \in stuck THEN "cleanup_pending" ELSE "done"]]
                        ELSE s.task

\* History: what was done with while its Runtime was there.
Noted ==
    LET new == {r \in Run : task'[r].state = "done" /\ task[r].state # "done"}
    IN  unseen' = (unseen \ new) \union (new \intersect Alive')

\* reconcileCleanupFacts: facts without a task, unless their run.start is to come again.
Forgotten(shared) == {r \in Run : /\ facts[r] # "none" /\ task[r].state = "none"
                                  /\ shared \/ Owns(r)
                                  /\ ~Starting(r) /\ command[r] = "acked"
                                  /\ r \notin handles}

\* Mutant: the queue is taken as it was left.
NotReconciled(shared, store) == Queue

Reconciled(shared, store) ==
    IF store = "ok"
    THEN [Queue EXCEPT !.task = [r \in Run |-> IF r \in Forgotten(shared)
                                               THEN [state |-> "pending", ready |-> facts[r] = "ready"]
                                               ELSE task[r]]]
    ELSE Queue

-----------------------------------------------------------------------------
(* The life of a Run                                                       *)

\* The Hub resumes a Run it holds for over - its lease may have run out while its
\* Runtime is still there - whose session it knows and that had no context entries.
MayStart(r) == Owns(r) \/ (Source[r] \in known /\ Source[r] \notin blocked)

\* Mutant: a task that is done stays.
StaysDone(r) == task

\* reopen
Reopened(r) == IF task[r].state = "done" THEN [task EXCEPT ![r] = NoTask] ELSE task

At(r, s, stage) == handling' = [handling EXCEPT ![r][s] = stage]

\* run.start comes, or comes again without having been answered, perhaps while it is in
\* handling. What cannot be written - the removal of the old task, or the facts -
\* refuses the Run.
Deliver(r, s) ==
    /\ phase = "up" /\ connected /\ MayStart(r)
    /\ command[r] # "acked" /\ r \notin handles
    /\ handling[r][s] = "no" /\ \A t \in Slot : t < s => handling[r][t] # "no"
    /\ twice' = IF Starting(r) THEN twice \union {r} ELSE twice
    /\ Cardinality(twice') <= MaxTwice
    /\ command' = [command EXCEPT ![r] = "recorded"]
    /\ \E store \in Answers :
        /\ Count(store)
        /\ \/ /\ store = "ok"
              /\ task' = Reopened(r)
              /\ facts' = [facts EXCEPT ![r] = IF @ = "none" THEN "written" ELSE @]
              /\ At(r, s, "begun")
           \/ /\ store # "ok"
              /\ task' \in {task, Reopened(r)} /\ UNCHANGED facts
              /\ At(r, s, "refused")
    /\ UNCHANGED <<hubVars, rows, runtime, diskVars, procVars, handles, stray, projectors, factVars,
                   crashes, stucks, pastVars>>

\* The directory is made, and what the Run is given is fetched into it.
Prepare(r, s) ==
    /\ handling[r][s] = "begun" /\ At(r, s, "prepared")
    /\ context' = context \union {r}
    /\ UNCHANGED <<hubVars, storeVars, runtime, session, spill, procVars, handles, stray, projectors,
                   factVars, boundVars, pastVars>>

\* cleanupAbortedRun without a Runtime in the table: the copies go at once, whether
\* another delivery is in handling or not. What cannot be removed is put into the
\* queue, or remembered.
RemoveAtOnce(r) ==
    \/ /\ Remove({r}, {q \in {r} : ReachesHome(q, KnownReady(q))}, {})
       /\ UNCHANGED <<task, kept, faults, stucks>>
    \/ /\ stucks < MaxStuck /\ stucks' = stucks + 1
       /\ context' \in {context, context \ {r}} /\ UNCHANGED <<session, spill>>
       /\ \E store \in Answers :
           LET q == Registered(Queue, r, store)
           IN  /\ Count(store) /\ kept' = q.kept
               /\ task' = IF store = "ok" /\ q.task[r].state # "done"
                          THEN [q.task EXCEPT ![r].state = "cleanup_pending"] ELSE q.task

\* cleanupAbortedRun with a Runtime in the table, and scheduleTerminalCleanup.
PutIntoQueue(r) ==
    \E store \in Answers :
        LET q == Registered(Queue, r, store)
        IN  Count(store) /\ task' = q.task /\ kept' = q.kept

\* The catch of handleRunStart: something cannot be had, there is no room, or the Run
\* has a row in active_runtime. Then a process has been spawned for nothing, which
\* stays if it has not ended yet. A download that fails takes the directory with it,
\* whoever else is using it.
Refuse(r, s) ==
    /\ handling[r][s] \in {"begun", "prepared", "refused"} \/ (handling[r][s] = "missed" /\ r \in rows)
    /\ At(r, s, "no")
    /\ command' = [command EXCEPT ![r] = "acked"]
    /\ projectors' = [projectors EXCEPT ![r] = "none"]
    /\ stray' \in {stray} \union IF handling[r][s] = "prepared" /\ r \in rows THEN {stray \union {r}} ELSE {}
    /\ IF r \in handles
       THEN /\ PutIntoQueue(r)
            /\ context' \in {context} \union IF handling[r][s] = "prepared" THEN {context \ {r}} ELSE {}
            /\ UNCHANGED <<session, spill, stucks>>
       ELSE RemoveAtOnce(r)
    /\ UNCHANGED <<hubVars, facts, rows, runtime, procVars, handles, ready, final, twice, crashes,
                   pastVars>>

\* The process is entered in the table, the start is answered and the Runtime gets its
\* first frames; one that has ended before is entered all the same. When they cannot be
\* given to it the answer is a refusal, and the cleanup is put into the queue.
Register(r, s) ==
    /\ handling[r][s] \in {"prepared", "missed"} /\ r \notin rows
    /\ At(r, s, "no")
    /\ command' = [command EXCEPT ![r] = "acked"]
    /\ handles' = handles \union {r} /\ rows' = rows \union {r}
    /\ runtime' = IF handling[r][s] = "missed" THEN runtime ELSE [runtime EXCEPT ![r] = "child"]
    /\ \/ projectors' = [projectors EXCEPT ![r] = "new"] /\ UNCHANGED <<task, kept, faults>>
       \/ projectors' = [projectors EXCEPT ![r] = "none"] /\ PutIntoQueue(r)
    /\ UNCHANGED <<hubVars, facts, diskVars, procVars, stray, ready, final, twice, crashes, stucks, pastVars>>

\* markSessionReady, on a task that waits.
TaskReady(r) == task' = [task EXCEPT ![r].ready = @ \/ task[r].state \in Open]

\* The Runtime makes or loads its session and spills its tools' output; one whose Node
\* has ended, or that is no longer in the table, goes on.
Work(r) ==
    /\ r \in Alive
    /\ session' = session \union {r} /\ spill' = spill \union {r}
    /\ UNCHANGED <<hubVars, storeVars, runtime, context, memoryVars, boundVars, pastVars>>

\* runtime.ready, once the session is there. Both writes fail or none.
Ready(r) ==
    /\ projectors[r] = "new" /\ runtime[r] \in {"child", "loose"} /\ r \in session
    /\ projectors' = [projectors EXCEPT ![r] = "ready"]
    /\ ready' = ready \union {r} /\ known' = known \union {r}
    /\ \E store \in Answers :
        /\ Count(store)
        /\ \/ /\ store = "ok" /\ TaskReady(r)
              /\ facts' = [facts EXCEPT ![r] = IF @ = "none" THEN @ ELSE "ready"]
           \/ store # "ok" /\ UNCHANGED <<facts, task>>
    /\ UNCHANGED <<blocked, command, rows, runtime, diskVars, procVars, handling, handles, stray, final,
                   kept, twice, crashes, stucks, pastVars>>

\* Its terminal frame: finalizeRun with the Runtime still there.
TerminalFrame(r) ==
    /\ projectors[r] # "none" /\ r \in handles \ final /\ r \in Alive
    /\ final' = final \union {r}
    /\ projectors' = [projectors EXCEPT ![r] = "none"]
    /\ PutIntoQueue(r)
    /\ UNCHANGED <<hubVars, command, facts, rows, runtime, diskVars, procVars, handling, handles, stray,
                   ready, twice, crashes, stucks, pastVars>>

\* finalizeRun without a Runtime, or the exit of one whose end is known: the queue gets
\* the task when it is not there, and a pass over what is due follows.
Conclude(r, managed, table) ==
    /\ final' = final \union {r}
    /\ projectors' = IF r \in final THEN projectors ELSE [projectors EXCEPT ![r] = "none"]
    /\ \E store \in Answers, late \in {{}, Run} :
        /\ Count(store)
        /\ Pass(IF r \in final THEN Queue ELSE Registered(Queue, r, store),
                managed, table, FALSE, late, TRUE, store)
    /\ Noted
    /\ UNCHANGED <<hubVars, command, facts, procVars, ready, twice, crashes, reconciled>>

\* The exit of a process is seen: the Run goes from the table, whichever of its
\* processes it was there for, and handleRuntimeExit ends the Run.
SeeExit(r) ==
    /\ handles' = handles \ {r} /\ rows' = rows \ {r}
    /\ Conclude(r, handles \ {r}, rows \ {r})

Exit(r) ==
    /\ runtime[r] \in {"child", "loose"}
    /\ runtime' = [runtime EXCEPT ![r] = "no"]
    /\ SeeExit(r)
    /\ UNCHANGED <<handling, stray>>

\* What was in the table goes on without being in it.
Loosened(r) == runtime' = IF runtime[r] = "child" THEN [runtime EXCEPT ![r] = "loose"] ELSE runtime

\* A process ends that the table has nothing of.
StrayExit(r) ==
    /\ r \in stray /\ stray' = stray \ {r}
    /\ Loosened(r)
    /\ SeeExit(r)
    /\ UNCHANGED handling

\* A process ends that the table has nothing of yet.
Miss(r, s) ==
    /\ handling[r][s] = "prepared" /\ At(r, s, "missed")
    /\ Loosened(r)
    /\ SeeExit(r)
    /\ UNCHANGED stray

\* run.start comes again after its answer, and its Runtime is gone: reportLostSnapshot.
Repeat(r) ==
    /\ phase = "up" /\ connected
    /\ command[r] = "acked" /\ r \notin handles \union final
    /\ UNCHANGED <<rows, runtime, handling, handles, stray>>
    /\ Conclude(r, handles, rows)

-----------------------------------------------------------------------------
(* The process of the Node                                                 *)

\* The timer of an hour: what was put off then is due by its next pass.
Hourly(late) ==
    /\ phase = "up"
    /\ UNCHANGED <<hubVars, command, facts, rows, runtime, procVars, runVars, ready, final, twice,
                   crashes, reconciled>>
    /\ \E store \in Answers :
        Count(store) /\ Pass(Queue, handles, rows, FALSE, late, connected, store)
    /\ Noted

\* The process ends, perhaps between the entry of a Runtime in active_runtime and the
\* first frame to it; what it has told its Runtimes to do, they do.
Crash ==
    /\ phase # "down" /\ crashes < MaxCrash
    /\ crashes' = crashes + 1
    /\ phase' = "down" /\ connected' = FALSE /\ reconciled' = FALSE
    /\ \/ UNCHANGED <<rows, command>>
       \/ \E r \in Run \ rows : /\ \E s \in Slot : handling[r][s] \in {"prepared", "missed"}
                               /\ rows' = rows \union {r}
                               /\ command' \in {command, [command EXCEPT ![r] = "acked"]}
    /\ runtime' = [r \in Run |-> CASE runtime[r] = "child" -> "orphan"
                                  [] runtime[r] = "loose" -> "stranded"
                                  [] OTHER -> runtime[r]]
    /\ handling' = [r \in Run |-> Idle] /\ handles' = {} /\ stray' = {}
    /\ projectors' = [r \in Run |-> "none"]
    /\ ready' = {} /\ final' = {} /\ kept' = [r \in Run |-> "no"]
    /\ UNCHANGED <<hubVars, facts, task, diskVars, twice, faults, stucks, unseen>>

\* A Runtime ends while no Node watches it.
OrphanExit(r) ==
    /\ runtime[r] \in {"orphan", "stranded"}
    /\ runtime' = [runtime EXCEPT ![r] = "no"]
    /\ UNCHANGED <<hubVars, storeVars, diskVars, memoryVars, boundVars, pastVars>>

Restart ==
    /\ phase = "down" /\ phase' = "recover"
    /\ UNCHANGED <<hubVars, storeVars, runtime, diskVars, connected, runVars, factVars, boundVars, pastVars>>

\* recoverOrphans, one row: the Runtime is ended, its row deleted, its Run lost.
Recover(r) ==
    /\ phase = "recover" /\ r \in rows
    /\ runtime' = IF runtime[r] = "orphan" THEN [runtime EXCEPT ![r] = "no"] ELSE runtime
    /\ rows' = rows \ {r}
    /\ UNCHANGED <<handling, handles, stray>>
    /\ Conclude(r, handles, rows \ {r})

\* startTerminalCleanup: everything that is not done, whether due or not.
CleanAll(shared, store) ==
    /\ Count(store)
    /\ Pass(Reconciled(shared, store), handles, rows, TRUE, {}, shared, store)
    /\ Noted

\* After the orphans, the homes that are not shared.
Startup ==
    /\ phase = "recover" /\ rows = {} /\ phase' = "up"
    /\ UNCHANGED <<hubVars, command, facts, rows, runtime, connected, runVars, ready, final, twice,
                   crashes, reconciled>>
    /\ \E store \in Answers : CleanAll(FALSE, store)

\* The first connection: the ends of lost Runs have been sent, the shared homes follow.
Connect ==
    /\ phase = "up" /\ ~connected /\ connected' = TRUE
    /\ UNCHANGED <<hubVars, command, facts, rows, runtime, phase, runVars, ready, final, twice, crashes>>
    /\ \E store \in Answers : CleanAll(TRUE, store) /\ reconciled' = (store = "ok")

StartStep(r, s) == Prepare(r, s) \/ Refuse(r, s) \/ Register(r, s)
RuntimeStep(r)  == Work(r) \/ Ready(r) \/ TerminalFrame(r)

Next ==
    \/ \E r \in Run, s \in Slot : Deliver(r, s) \/ StartStep(r, s) \/ Miss(r, s)
    \/ \E r \in Run : RuntimeStep(r) \/ Exit(r) \/ StrayExit(r) \/ Repeat(r) \/ OrphanExit(r) \/ Recover(r)
    \/ \E late \in {{}, Run} : Hourly(late)
    \/ Crash \/ Restart \/ Startup \/ Connect

Spec == Init /\ [][Next]_vars

\* A preparation ends or times out; a Runtime is ended by its wall-clock limit at the
\* latest; the Node is started again, and reaches the Hub. None of these is disabled
\* but by one of them, and each can happen only so often.
Progress ==
    \/ \E r \in Run, s \in Slot : StartStep(r, s)
    \/ \E r \in Run : Exit(r) \/ Recover(r)
    \/ Restart \/ Startup \/ Connect

\* The timer fires.
FairSpec == Spec /\ WF_vars(Progress) /\ WF_vars(Hourly(Run))

-----------------------------------------------------------------------------
(* Properties                                                              *)

\* What a Run has left is what the queue can still find: the facts are there and no task
\* that is done hides them. This is so of its directory, whatever is delivered, lost
\* or begun again in between; and of its own home, or one the task knows it got to,
\* unless its Runtime was there, and not seen, when the task was done.
\* (run-manager.ts:435-455 with :2196, terminal-cleanup.ts:257)
DoneIsClean ==
    \A r \in Run :
        /\ r \in context => facts[r] # "none" /\ task[r].state # "done"
        /\ task[r].state = "done" /\ r \notin unseen /\ (Owns(r) \/ task[r].ready) =>
              r \notin spill /\ (r \in blocked => r \notin session)

\* A session without entries is kept for whoever resumes it until a Run with entries
\* has been in the same home. (run-manager.ts:2250)
SourceSessionKept ==
    \A r \in known \ blocked :
        (\A q \in blocked : SameHome(q, r) => q \notin known) => r \in session

\* A delivery of its run.start has its directory.
Fetched(r) == \E s \in Slot : handling[r][s] \in {"prepared", "missed"}

\* No run.start of a Run in its home was taken up while it was in handling.
Undisturbed(r) == \A q \in twice : ~SameHome(q, r)

\* Once the orphans are dealt with nothing takes from a Runtime that is there what it
\* works with, nor from a Run that is being started what was fetched for it: no cleanup,
\* of whatever Run and however it came about. The one exception is a run.start in
\* handling twice, where the refusal of either delivery takes what the other has.
\* (run-manager.ts:2155-2183 and :2006-2075)
KeptWhileUsed ==
    [][\A r \in Run : phase = "up" /\ Undisturbed(r) =>
        /\ r \in Alive /\ r \in Alive' =>
            /\ r \in context => r \in context'
            /\ r \in session => r \in session'
            /\ r \in spill => r \in spill'
        /\ Fetched(r) /\ Fetched(r)' => (r \in context => r \in context')]_vars

Clean(r) ==
    /\ r \notin Alive \union context
    /\ Owns(r) \/ task[r].ready => r \notin spill /\ (r \in blocked => r \notin session)

\* The facts wait for the next start of the Node: there is no task, and the process
\* makes none, as it could not read the facts when it was connected, or has reported
\* the end of the Run before it was started again.
WaitsForStart(r) ==
    task[r].state = "none" /\ kept[r] = "no" /\ (~reconciled \/ r \in final)

\* A Runtime that ended before it was entered in the table stays there.
Lingers(r) == r \in handles \ Alive

\* What a Run that was answered has left is removed in the end, whatever failed on the
\* way: again and again there is nothing of any, or it waits for the next start of the
\* Node, or its home seems in use by a Runtime that ended before it was in the table,
\* or its Runtime was there, and not seen, when its task was done. (run-manager.ts:1898-2079)
CleanedInTheEnd ==
    []<>(\A r \in Run : command[r] = "acked" =>
        \/ Clean(r) \/ WaitsForStart(r) \/ r \in unseen
        \/ \E q \in Run : SameHome(q, r) /\ Lingers(q))
=============================================================================
