----------------------------- MODULE RunContext -----------------------------
(***************************************************************************)
(* The project context of one Run: a snapshot of entries the Hub froze,    *)
(* the copies the Node downloads, and how an entry that is withdrawn while *)
(* the Run goes on becomes unreadable for its Runtime.  Hub context/state  *)
(* and context/receipts, Node context/state, context/state-store,          *)
(* context/project-context and the handlers of run-manager, and the check  *)
(* of the Runtime's read tool.                                             *)
(*                                                                         *)
(* The state of a snapshot is versioned by the Hub, and digests tie every  *)
(* version to its entries: hist[v] is version v, 0 the Node's own initial  *)
(* state in which every entry is frozen.  So a frame, the row of the       *)
(* Node's store and state.json are modelled by their version.  The Node    *)
(* runs the operations on one Run one after the other; an operation awaits *)
(* after each removal and before it writes state.json, and the receipts of *)
(* the Runtime are handled in between.  Generations of an authorization    *)
(* only rise, and the Hub derives no frozen entry below the pinned one, so *)
(* the Node's regression branch is not reached.  Times (60 s freshness of  *)
(* state.json, one hour before a retry) are left out: a read may always    *)
(* not happen, a retry may always be due or not.                           *)
(***************************************************************************)
EXTENDS Integers, Sequences, FiniteSets

CONSTANTS Entry,       \* entries of the snapshot
          MaxChange,   \* bound: changes of the entries' standing
          MaxFault,    \* bound: removals and writes of state.json that fail
          MaxDrop,     \* bound: lost connections
          MaxRead,     \* bound: read receipts of the Runtime
          MaxWire      \* bound: frames on the way to the Hub

ASSUME RunContextAssumption ==
    /\ IsFiniteSet(Entry)
    /\ MaxChange \in Nat /\ MaxFault \in Nat /\ MaxDrop \in Nat
    /\ MaxRead \in Nat /\ MaxWire \in Nat \ {0}

VARIABLES
    truth,      \* what the Hub derives of each entry now
    hist,       \* the versions of the snapshot, the last one is stored
    hub,        \* the Run is active for the Hub, or over
    stateAcks,  \* run_context_state_ack: versions applied, entries that failed
    known,      \* receipts the Hub recorded
    frames,     \* run.context_state commands not acknowledged, by version
    watermark,  \* version of the context.state_sync command, 0: none
    upstream,   \* frames of the Node on the connection
    conn,       \* Node and Hub are connected
    phase,      \* of the Run at the Node
    ver,        \* version in the Node's store, Absent: no row
    paused,     \* ... its paused flag
    read,       \* ... its read_items
    tasks,      \* context_cleanup_task
    copy,       \* entries whose file is in the Run's directory
    file,       \* state.json
    op,         \* the operation of the Run's queue that is under way
    out,        \* receipts in the Node's outbox
    reader,     \* the entry whose state the read tool has just checked
    lines,      \* read receipts on the Runtime's standard output
    changes, faults, drops, receipts

hubVars  == <<truth, hist, hub, stateAcks, known>>
wireVars == <<frames, watermark, upstream, conn>>
storeVars == <<ver, paused, read, tasks>>
copyVars == <<copy, file>>
toolVars == <<reader, lines>>
bounds   == <<changes, faults, drops, receipts>>
contextVars == <<hubVars, wireVars, phase, storeVars, copyVars, op, out, toolVars, bounds>>

Absent == -1
NoFile == [ver |-> Absent, paused |-> TRUE]
Nobody == {}
AllFrozen == [e \in Entry |-> "frozen"]
View(v) == IF v <= 0 THEN AllFrozen ELSE hist[v]
Latest  == Len(hist)
Idle == [kind |-> "none", ver |-> 0, todo |-> {}, failed |-> {}, begun |-> FALSE]

(* The Node holds the prepared copies of the Run.                          *)
Prepared == phase \in {"ready", "running"}

Standing == {"frozen", "lost", "gone"}
Receipts == [seq : Nat \ {0}, e : Entry]
StateAcks == [ver : Nat \ {0}, failed : SUBSET Entry]
Frames == {[kind |-> "hello"], [kind |-> "pull"], [kind |-> "end"]}
          \union [kind : {"ack"}, ack : StateAcks] \union [kind : {"receipt"}, receipt : Receipts]
Operations == [kind : {"none", "state", "init", "drain"}, ver : Nat,
               todo : SUBSET Entry, failed : SUBSET Entry, begun : BOOLEAN]

ContextTypeOK ==
    /\ truth \in [Entry -> Standing] /\ hist \in Seq([Entry -> Standing])
    /\ hub \in {"active", "over"}
    /\ stateAcks \subseteq StateAcks
    /\ known \subseteq Receipts /\ out \subseteq Receipts /\ IsFiniteSet(known \union out)
    /\ frames \subseteq 1..Latest /\ watermark \in 0..Latest
    /\ upstream \in Seq(Frames) /\ conn \in BOOLEAN
    /\ phase \in {"idle", "ordered", "writing", "ready", "running", "gone"}
    /\ ver \in Absent..Latest /\ file \in [ver : Absent..Latest, paused : BOOLEAN]
    /\ paused \in BOOLEAN
    /\ read \subseteq Entry /\ tasks \subseteq Entry /\ copy \subseteq Entry
    /\ op \in Operations
    /\ reader \in {Nobody} \union {{e} : e \in Entry} /\ lines \subseteq Entry
    /\ changes \in 0..MaxChange /\ faults \in 0..MaxFault
    /\ drops \in 0..MaxDrop /\ receipts \in 0..MaxRead

ContextInit ==
    /\ truth = AllFrozen /\ hist = <<>> /\ hub = "active" /\ stateAcks = {} /\ known = {}
    /\ frames = {} /\ watermark = 0 /\ upstream = <<>> /\ conn = TRUE
    /\ phase = "idle"
    /\ ver = Absent /\ paused = FALSE /\ read = {} /\ tasks = {}
    /\ copy = {} /\ file = NoFile
    /\ op = Idle /\ out = {} /\ reader = Nobody /\ lines = {}
    /\ changes = 0 /\ faults = 0 /\ drops = 0 /\ receipts = 0

-----------------------------------------------------------------------------
(* The Hub                                                                 *)

(* Once the Run is over, or has ended at the Node, nothing more is         *)
(* followed of what happens to its entries: a bound of the model.          *)
Observed == hub = "active" /\ phase # "gone"

(* Derive every entry; a new version only if something differs.            *)
Refreshed == IF hist = <<>> \/ hist[Latest] # truth THEN Append(hist, truth) ELSE hist

(* refreshRunContextState and the full state put into the outbox, always   *)
(* (hello, pull) or only when the state changed (correction).              *)
Push(always) ==
    /\ hist' = Refreshed
    /\ frames' = IF hub = "active" /\ (always \/ hist' # hist)
                 THEN frames \union {Len(hist')} ELSE frames

(* A source is paused, denied or unverified, and verified again: no frame  *)
(* follows before the next tick.                                           *)
Lose(e) ==
    /\ Observed /\ truth[e] = "frozen" /\ changes < MaxChange
    /\ truth' = [truth EXCEPT ![e] = "lost"] /\ changes' = changes + 1
    /\ UNCHANGED <<hist, hub, stateAcks, known, wireVars, phase, storeVars, copyVars, op, out, toolVars, faults, drops, receipts>>

Restore(e) ==
    /\ Observed /\ truth[e] = "lost" /\ changes < MaxChange
    /\ truth' = [truth EXCEPT ![e] = "frozen"] /\ changes' = changes + 1
    /\ UNCHANGED <<hist, hub, stateAcks, known, wireVars, phase, storeVars, copyVars, op, out, toolVars, faults, drops, receipts>>

(* A source is revoked: for good.                                          *)
Revoke(e) ==
    /\ Observed /\ truth[e] # "gone" /\ changes < MaxChange
    /\ truth' = [truth EXCEPT ![e] = "gone"] /\ changes' = changes + 1
    /\ UNCHANGED <<hist, hub, stateAcks, known, wireVars, phase, storeVars, copyVars, op, out, toolVars, faults, drops, receipts>>

(* A member corrects the entry: active snapshots in the same transaction.  *)
Correct(e) ==
    /\ Observed /\ truth[e] # "gone" /\ changes < MaxChange
    /\ truth' = [truth EXCEPT ![e] = "gone"] /\ changes' = changes + 1
    /\ hist' = IF hist = <<>> \/ hist[Latest] # truth' THEN Append(hist, truth') ELSE hist
    /\ frames' = IF hist' # hist THEN frames \union {Len(hist')} ELSE frames
    /\ UNCHANGED <<hub, stateAcks, known, watermark, upstream, conn, phase, storeVars, copyVars, op, out, toolVars, faults, drops, receipts>>

\* Mutant: the timer sends changes only, no watermark.
TickChangesOnly ==
    /\ Observed
    /\ Push(FALSE)
    /\ UNCHANGED <<truth, hub, stateAcks, known, watermark, upstream, conn, phase, storeVars, copyVars, op, out, toolVars, bounds>>

(* The timer: a changed state is sent in full, of one that did not change  *)
(* the watermark, unless one is still in the outbox.                       *)
Tick ==
    /\ Observed
    /\ Push(FALSE)
    /\ watermark' = IF hist' = hist /\ watermark = 0 THEN Latest ELSE watermark
    /\ UNCHANGED <<truth, hub, stateAcks, known, upstream, conn, phase, storeVars, copyVars, op, out, toolVars, bounds>>

(* Dispatch derives the entries once more: no Run starts with a withdrawn  *)
(* one.  Otherwise the Run fails.                                          *)
Dispatch ==
    /\ phase = "idle" /\ hub = "active"
    /\ IF truth = AllFrozen THEN phase' = "ordered" /\ UNCHANGED hub ELSE phase' = "gone" /\ hub' = "over"
    /\ UNCHANGED <<truth, hist, stateAcks, known, wireVars, storeVars, copyVars, op, out, toolVars, bounds>>

(* One frame of the Node; the Hub handles them in the order of arrival.    *)
(* A receipt is answered whatever becomes of it, and the Node then removes *)
(* exactly that one.                                                       *)
Upserted(a) == {x \in stateAcks : x.ver # a.ver} \union {a}
Answered(r) == out \ {r}

HandleReceipt(r) ==
    /\ known' = IF hub = "active" THEN known \union {r} ELSE known
    /\ out' = Answered(r)
    /\ UNCHANGED <<hist, hub, stateAcks, frames>>

HandleUp ==
    /\ upstream # <<>> /\ upstream' = Tail(upstream)
    /\ LET f == Head(upstream) IN
         \/ /\ f.kind = "receipt" /\ HandleReceipt(f.receipt)
         \/ /\ f.kind = "hello" \/ (f.kind = "pull" /\ hub = "active")
            /\ IF hub = "active" THEN Push(TRUE) ELSE UNCHANGED <<hist, frames>>
            /\ UNCHANGED <<hub, stateAcks, known, out>>
         \/ /\ f.kind = "pull" /\ hub = "over" /\ UNCHANGED <<hist, hub, stateAcks, known, frames, out>>
         \/ /\ f.kind = "ack" /\ stateAcks' = Upserted(f.ack)
            /\ UNCHANGED <<hist, hub, known, frames, out>>
         \/ /\ f.kind = "end" /\ hub' = "over"
            /\ UNCHANGED <<hist, stateAcks, known, frames, out>>
    /\ UNCHANGED <<truth, watermark, conn, phase, storeVars, copyVars, op, toolVars, bounds>>

-----------------------------------------------------------------------------
(* Frames of the Node                                                      *)

Sent(f) == IF conn THEN Append(upstream, f) ELSE upstream
AckFrame(v, failed) == [kind |-> "ack", ack |-> [ver |-> v, failed |-> failed]]
ReceiptFrame(r) == [kind |-> "receipt", receipt |-> r]

(* An acknowledged command leaves the Hub's outbox; without a connection   *)
(* the command comes again.                                                *)
FrameAcked(v) == frames' = IF conn THEN frames \ {v} ELSE frames
WatermarkAcked == watermark' = IF conn THEN 0 ELSE watermark

-----------------------------------------------------------------------------
(* The Node: start of the Run                                              *)

(* The bundle is derived again by the Hub and refused unless all of it is  *)
(* frozen, now and in the rows; else the copies are written one by one.    *)
(* A request that is refused or fails ends the Run.                        *)
Bundle ==
    /\ phase = "ordered"
    /\ \/ /\ truth = AllFrozen /\ View(Latest) = AllFrozen
          /\ phase' = "writing" /\ UNCHANGED upstream
       \/ phase' = "gone" /\ upstream' = Sent([kind |-> "end"])
    /\ UNCHANGED <<hubVars, frames, watermark, conn, storeVars, copyVars, op, out, toolVars, bounds>>

Written ==
    /\ phase = "writing"
    /\ phase' = "ready" /\ copy' = Entry
    /\ UNCHANGED <<hubVars, wireVars, storeVars, file, op, out, toolVars, bounds>>

(* state.json never goes back to an older version.                         *)
FileAfter(v, p) == IF file.ver > v THEN file ELSE [ver |-> v, paused |-> p]

Unread(v) == {e \in Entry : View(v)[e] # "frozen"} \ read

(* initializePreparedContextState: a state that came before the copies is  *)
(* applied to them; else version 0, in which every entry is frozen.        *)
InitState ==
    /\ phase = "ready" /\ op = Idle
    /\ ver' = IF ver = Absent THEN 0 ELSE ver
    /\ op' = [Idle EXCEPT !.kind = "init", !.todo = Unread(ver')]
    /\ UNCHANGED <<hubVars, wireVars, phase, paused, read, tasks, copyVars, out, toolVars, bounds>>

-----------------------------------------------------------------------------
(* The Node: frames with a state                                           *)

Accepts(v) == v >= ver

(* applyRunContextState up to its first await.  An older version is        *)
(* refused, and its command ends; before the copies are there the version  *)
(* is only stored.                                                         *)
TakeState(v) ==
    /\ Observed /\ conn /\ op = Idle /\ v \in frames /\ Len(upstream) < MaxWire
    /\ IF ~Accepts(v) \/ ~Prepared
       THEN /\ ver' = IF Accepts(v) THEN v ELSE ver
            /\ FrameAcked(v) /\ UNCHANGED op
       ELSE /\ ver' = v
            /\ op' = [Idle EXCEPT !.kind = "state", !.ver = v, !.todo = Unread(v)]
            /\ UNCHANGED frames
    /\ UNCHANGED <<hubVars, watermark, upstream, conn, phase, paused, read, tasks, copyVars, out, toolVars, bounds>>

\* Mutant: an old removal is retried without a look at the current state.
NotRead(e) == e \notin read

(* Retry of the due removals: of an entry that is frozen again, or was     *)
(* read, nothing is removed.                                               *)
StillWithdrawn(e) == View(ver)[e] # "frozen" /\ e \notin read

DrainOf(due) ==
    op' = IF Prepared /\ due # {}
          THEN [Idle EXCEPT !.kind = "drain", !.todo = due, !.begun = TRUE]
          ELSE op

(* The watermark: the same version is written again and due removals are   *)
(* retried; of another one the full state is asked for.                    *)
TakeSync(due) ==
    /\ Observed /\ conn /\ op = Idle /\ watermark # 0 /\ Len(upstream) < MaxWire
    /\ WatermarkAcked
    /\ \/ /\ watermark # ver
          /\ upstream' = Sent([kind |-> "pull"]) /\ UNCHANGED <<file, op, faults>>
       \/ /\ watermark = ver
          /\ IF Prepared THEN file' = FileAfter(ver, paused) ELSE UNCHANGED file
          /\ DrainOf(due) /\ UNCHANGED <<upstream, faults>>
       \/ /\ watermark = ver /\ Prepared /\ faults < MaxFault
          /\ faults' = faults + 1 /\ UNCHANGED <<file, op, upstream>>
    /\ UNCHANGED <<hubVars, frames, conn, phase, storeVars, copy, out, toolVars, changes, drops, receipts>>

\* Mutant: a removal that fails is passed over.
RemovalPassedOver(e) ==
    \/ copy' = copy \ {e} /\ tasks' = tasks \ {e}
       /\ op' = [op EXCEPT !.todo = @ \ {e}, !.begun = TRUE] /\ UNCHANGED faults
    \/ faults < MaxFault /\ faults' = faults + 1
       /\ op' = [op EXCEPT !.todo = @ \ {e}, !.begun = TRUE] /\ UNCHANGED <<copy, tasks>>

(* One entry of the operation: its copy is deleted or moved away, or both  *)
(* fail and the removal is queued.                                         *)
Removal(e) ==
    \/ copy' = copy \ {e} /\ tasks' = tasks \ {e}
       /\ op' = [op EXCEPT !.todo = @ \ {e}, !.begun = TRUE] /\ UNCHANGED faults
    \/ faults < MaxFault /\ faults' = faults + 1
       /\ tasks' = tasks \union {e} /\ UNCHANGED copy
       /\ op' = [op EXCEPT !.todo = @ \ {e}, !.failed = @ \union {e}, !.begun = TRUE]

Clean(e) ==
    /\ op # Idle /\ e \in op.todo
    /\ IF op.kind = "drain" /\ (~Prepared \/ ~StillWithdrawn(e))
       THEN /\ tasks' = IF Prepared THEN tasks \ {e} ELSE tasks
            /\ op' = [op EXCEPT !.todo = @ \ {e}]
            /\ UNCHANGED <<copy, faults>>
       ELSE Removal(e)
    /\ UNCHANGED <<hubVars, wireVars, phase, ver, paused, read, file, out, toolVars, changes, drops, receipts>>

MustPause == op.failed # {} \/ tasks # {}

(* The end of applyRunContextState: paused as long as a removal is to be   *)
(* done, state.json, the answers.                                          *)
FinishState ==
    /\ op.kind = "state" /\ op.todo = {}
    /\ paused' = MustPause /\ op' = Idle /\ FrameAcked(op.ver)
    /\ \/ /\ file' = FileAfter(ver, paused')
          /\ upstream' = Sent(AckFrame(op.ver, op.failed \union tasks)) /\ UNCHANGED faults
       \/ /\ faults < MaxFault /\ faults' = faults + 1
          /\ UNCHANGED <<file, upstream>>
    /\ UNCHANGED <<hubVars, watermark, conn, phase, ver, read, tasks, copy, out, toolVars, changes, drops, receipts>>

(* The end of the initialisation: the Runtime is started, unless writing   *)
(* state.json fails and the start with it.                                 *)
FinishInit ==
    /\ op.kind = "init" /\ op.todo = {}
    /\ paused' = MustPause /\ op' = Idle
    /\ \/ /\ file' = FileAfter(ver, paused') /\ phase' = "running"
          /\ UNCHANGED <<upstream, faults>>
       \/ /\ faults < MaxFault /\ faults' = faults + 1
          /\ phase' = "gone" /\ upstream' = Sent([kind |-> "end"])
          /\ UNCHANGED file
    /\ UNCHANGED <<hubVars, frames, watermark, conn, ver, read, tasks, copy, out, toolVars, changes, drops, receipts>>

(* The end of drainContextCleanupQueue: reading goes on, and the Hub is    *)
(* told, when nothing is left to remove.  A write that fails is logged.    *)
FinishDrain ==
    /\ op.kind = "drain" /\ op.todo = {} /\ op' = Idle
    /\ paused' = IF Prepared THEN tasks # {} ELSE paused
    /\ \/ /\ paused' = paused /\ UNCHANGED <<file, upstream, faults>>
       \/ /\ paused' # paused /\ file' = FileAfter(ver, paused')
          /\ upstream' = IF ~paused' /\ ver >= 1 THEN Sent(AckFrame(ver, {})) ELSE upstream
          /\ UNCHANGED faults
       \/ /\ paused' # paused /\ faults < MaxFault /\ faults' = faults + 1
          /\ UNCHANGED <<file, upstream>>
    /\ UNCHANGED <<hubVars, frames, watermark, conn, phase, ver, read, tasks, copy, out, toolVars, changes, drops, receipts>>

-----------------------------------------------------------------------------
(* The Runtime reads                                                       *)

(* state.json first ...                                                    *)
Readable(e) == phase = "running" /\ file # NoFile /\ ~file.paused /\ View(file.ver)[e] = "frozen" /\ e \in copy

Check(e) ==
    /\ phase = "running" /\ reader = Nobody
    /\ file # NoFile /\ ~file.paused /\ View(file.ver)[e] = "frozen"
    /\ receipts < MaxRead
    /\ reader' = {e} /\ receipts' = receipts + 1
    /\ UNCHANGED <<hubVars, wireVars, phase, storeVars, copyVars, op, out, lines, changes, faults, drops>>

(* ... and then the copy, whatever the file says by now.                   *)
ReadCopy ==
    /\ phase = "running" /\ reader # Nobody /\ reader' = Nobody
    /\ lines' = lines \union (reader \intersect copy)
    /\ UNCHANGED <<hubVars, wireVars, phase, storeVars, copyVars, op, out, bounds>>

(* handleContextReceipt, between two awaits of the operation: the receipt  *)
(* enters the outbox, then the entry is marked as read.  Without prepared  *)
(* copies it is dropped.                                                   *)
Kept(r) == out \union {r}
NextSeq == Cardinality({r.seq : r \in known \union out}) + 1

Receipt(e) ==
    /\ e \in lines /\ lines' = lines \ {e}
    /\ op = Idle \/ op.begun \/ op.todo = {}
    /\ IF Prepared
       THEN LET r == [seq |-> NextSeq, e |-> e] IN
            /\ out' = Kept(r) /\ read' = read \union {e}
            /\ upstream' = Sent(ReceiptFrame(r))
       ELSE UNCHANGED <<out, read, upstream>>
    /\ UNCHANGED <<hubVars, frames, watermark, conn, phase, ver, paused, tasks, copyVars, op, reader, bounds>>

-----------------------------------------------------------------------------
(* The end of the Run, connections                                         *)

(* A terminal fact of the Runtime: the Node forgets the copies and shuts   *)
(* the process down; what it reads in that time is left out.  The end of   *)
(* the Node is this with a lost connection: store and outbox remain.       *)
Terminal ==
    /\ phase = "running" /\ op = Idle
    /\ phase' = "gone" /\ upstream' = Sent([kind |-> "end"])
    /\ reader' = Nobody /\ lines' = {}
    /\ UNCHANGED <<hubVars, frames, watermark, conn, storeVars, copyVars, op, out, bounds>>

Disconnect ==
    /\ conn /\ phase # "gone" /\ drops < MaxDrop
    /\ conn' = FALSE /\ upstream' = <<>> /\ drops' = drops + 1
    /\ UNCHANGED <<hubVars, frames, watermark, phase, storeVars, copyVars, op, out, toolVars, changes, faults, receipts>>

(* In the order of their numbers.                                         *)
InOrder(rs) == {s \in [1..Cardinality(rs) -> {ReceiptFrame(r) : r \in rs}] :
                   /\ \A r \in rs : \E i \in DOMAIN s : s[i] = ReceiptFrame(r)
                   /\ \A i, j \in DOMAIN s : i < j => s[i].receipt.seq < s[j].receipt.seq}

(* hello, then the events not acknowledged yet, then every receipt in the  *)
(* order of its number; due removals are retried.                          *)
Reconnect(due) ==
    /\ ~conn /\ op = Idle
    /\ conn' = TRUE /\ DrainOf(due)
    /\ \E s \in InOrder(out) :
          upstream' = <<[kind |-> "hello"]>>
                      \o (IF phase = "gone" /\ hub = "active" THEN <<[kind |-> "end"]>> ELSE <<>>) \o s
    /\ UNCHANGED <<hubVars, frames, watermark, phase, storeVars, copyVars, out, toolVars, bounds>>

-----------------------------------------------------------------------------
ContextNext ==
    \/ \E e \in Entry : Lose(e) \/ Restore(e) \/ Revoke(e) \/ Correct(e) \/ Clean(e) \/ Check(e) \/ Receipt(e)
    \/ \E v \in frames : TakeState(v)
    \/ \E due \in SUBSET tasks : TakeSync(due) \/ Reconnect(due)
    \/ Tick \/ Dispatch \/ HandleUp
    \/ Bundle \/ Written \/ InitState \/ FinishState \/ FinishInit \/ FinishDrain
    \/ ReadCopy \/ Terminal \/ Disconnect

ContextSpec == ContextInit /\ [][ContextNext]_contextVars

(* The timer of the Hub runs and the Hub handles what has arrived; the     *)
(* outbox repeats a command and the queue of the Run is first in first     *)
(* out, so that every frame has its turn, now and then when all removals   *)
(* are due; an operation goes on, the Node reads the Runtime's output and  *)
(* connects again.  Nothing is assumed of the members, the sources and     *)
(* the model.                                                              *)
ContextFairSpec ==
    /\ ContextSpec
    /\ WF_contextVars(Tick) /\ WF_contextVars(HandleUp) /\ WF_contextVars(Reconnect(tasks))
    /\ SF_contextVars(TakeState(Latest)) /\ SF_contextVars(TakeSync(tasks))
    /\ \A e \in Entry : WF_contextVars(Clean(e)) /\ SF_contextVars(Receipt(e))
    /\ WF_contextVars(InitState) /\ WF_contextVars(FinishState) /\ WF_contextVars(FinishInit) /\ WF_contextVars(FinishDrain)

-----------------------------------------------------------------------------
(* What must hold                                                          *)

(* Once the Hub has recorded that a version was applied, an entry that     *)
(* this version withdraws for good cannot be read from then on, and its    *)
(* copy is gone unless it had been read or the acknowledgement names it:   *)
(* whatever frames are late or repeated, however removals fail.            *)
AckedIsUnreadable ==
    \A a \in stateAcks, e \in Entry :
        hist[a.ver][e] = "gone" => ~Readable(e) /\ (e \in a.failed \/ e \in read \/ e \notin copy)

(* As long as the Run goes on, every entry the Node has marked as read is  *)
(* known to the Hub or has a receipt in the Node's outbox: no lost         *)
(* connection, repetition or answer makes a read disappear.                *)
ReadKept ==
    hub = "active" => \A e \in read : \E r \in known \union out : r.e = e

(* No copy is removed of an entry that is frozen in the version the Node   *)
(* has: an old removal in the queue does not reach an entry restored since.*)
RestoredStays ==
    [][\A e \in copy \ copy' : View(ver)[e] # "frozen"]_contextVars

(* Over lost frames, failed removals and failed writes the Node gets       *)
(* there: in the end no entry withdrawn for good can be read, and a Run    *)
(* that goes on is not left paused by a removal that failed once.          *)
WithdrawalLands ==
    <>[](/\ \A e \in Entry : truth[e] = "gone" => ~Readable(e)
         /\ ~(paused /\ Prepared))
=============================================================================
