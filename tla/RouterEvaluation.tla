-------------------------- MODULE RouterEvaluation --------------------------
(***************************************************************************)
(* One evaluation of a Work by the Router model, from the queue of the     *)
(* Hub to the Node that owns the credential and back: hub router/service   *)
(* and input, db repositories/router, node coordination/manager and store, *)
(* and the broker of runtime-dsh.  All evaluations are of one Work, so     *)
(* of one project.  An evaluation is a row: a retry is a new row whose     *)
(* attempt is one higher, so a row stands for its attempt and its lease.   *)
(* What an evaluation was computed from is its digest: the facts of the    *)
(* moment and the trigger.                                                 *)
(***************************************************************************)
EXTENDS Integers, Sequences, FiniteSets, SequencesExt

CONSTANTS Evaluation,   \* rows, in the order they are used
          Facts,        \* what loadRouterInput may find; NoFacts if it throws
          NoFacts,
          Trigger,      \* what asks for an evaluation
          Reserve,      \* tokens a dispatch reserves: estimate and output limit
          Actual,       \* tokens a sound answer costs
          Over,         \* tokens an answer costs that exceeds the reservation
          Limit,        \* tokens of the budget of the Work
          MaxRetries,   \* cfg.maxRetries
          MaxFrames,    \* bound: frames on the way to the Hub
          MaxDown,      \* bound: frames on the way to the Node
          MaxDrop,      \* bound: connections lost
          MaxCrash,     \* bound: ends of the Node process
          MaxChange     \* bound: changes of the facts

ASSUME RouterAssumption ==
    /\ IsFiniteSet(Evaluation) /\ Evaluation \subseteq Nat /\ NoFacts \notin Facts
    /\ {Reserve, Actual, Over, Limit, MaxRetries, MaxFrames, MaxDown, MaxDrop, MaxCrash, MaxChange} \subseteq Nat
    /\ 0 < Reserve /\ Actual <= Reserve /\ Reserve < Over

VARIABLES
    facts,      \* what the Hub finds now
    row,        \* coordination_evaluation
    settled,    \* coordination_usage_ledger: how a reservation was settled
    spent, held,  \* coordination_budget of the Work: used and reserved tokens
    applied,    \* router_application
    owed,       \* results whose handler has not sent its ack yet
    journal,    \* coordination_attempt of the Node
    memory,     \* Active of the CoordinationManager, gone with the process
    home,       \* private input copies on the Node
    broker,     \* the coordination process
    calls,      \* requests made to the model provider
    up, down,   \* frames on the way to the Hub and to the Node
    online, drops, crashes, changes,
    refused     \* evaluations a heartbeat of which the Hub did not take

hub    == <<facts, row, settled, spent, held, applied, owed>>
node   == <<journal, memory, home, broker, calls>>
bounds == <<drops, crashes, changes>>
vars   == <<hub, node, up, down, online, bounds, refused>>

Active   == {"dispatched", "running"}
Terminal == {"completed", "failed", "stale", "cancelled", "skipped"}
Unused   == [status |-> "unused", facts |-> NoFacts, trigger |-> "none", attempt |-> 0,
             lease |-> FALSE, started |-> FALSE, usage |-> 0, pre |-> FALSE, reason |-> "none"]
NoEntry  == [state |-> "none", started |-> FALSE, result |-> "none", usage |-> 0,
             pid |-> FALSE, cleaned |-> FALSE]
Alive    == {"fresh", "init", "read", "asked", "calling"}

Row   == [status : {"unused", "queued"} \union Active \union Terminal, facts : Facts \union {NoFacts},
          trigger : Trigger \union {"none"}, attempt : 0..(MaxRetries + 1),
          lease : BOOLEAN, started : BOOLEAN, usage : {0, Actual, Over}, pre : BOOLEAN,
          reason : {"none", "input", "queue", "lease", "model_start_missing", "over_budget"}]
Outcome == {"none", "pre", "other", "completed"}
Entry == [state : {"none", "active", "result", "acked"}, started : BOOLEAN, result : Outcome,
          usage : {0, Actual, Over}, pid : BOOLEAN, cleaned : BOOLEAN]
Upstream == [kind : {"heartbeat"}, eval : Evaluation, started : BOOLEAN]
            \union [kind : {"result"}, eval : Evaluation, result : Outcome, usage : {0, Actual, Over}]
Downstream == [kind : {"request", "cancel", "ack"}, eval : Evaluation]

TypeOK ==
    /\ facts \in Facts \union {NoFacts}
    /\ row \in [Evaluation -> Row] /\ journal \in [Evaluation -> Entry]
    /\ settled \in [Evaluation -> {"none", "reserved", "zero", "charged"}]
    /\ spent \in Nat /\ held \in Nat
    /\ applied \in [Evaluation -> {"none", "applied", "stale"}]
    /\ owed \subseteq Evaluation /\ refused \subseteq Evaluation
    /\ memory \in [Evaluation -> {"none", "preparing", "aborted", "spawned", "waitsAck", "running", "finishing"}]
    /\ home \in [Evaluation -> BOOLEAN]
    /\ broker \in [Evaluation -> {"none", "gone"} \union Alive]
    /\ calls \in [Evaluation -> Nat]
    /\ up \in Seq(Upstream) /\ down \in Seq(Downstream) /\ Len(down) <= MaxDown
    /\ online \in BOOLEAN /\ {drops, crashes, changes} \subseteq Nat

Init ==
    /\ facts \in Facts /\ row = [e \in Evaluation |-> Unused]
    /\ settled = [e \in Evaluation |-> "none"] /\ spent = 0 /\ held = 0
    /\ applied = [e \in Evaluation |-> "none"] /\ owed = {}
    /\ journal = [e \in Evaluation |-> NoEntry] /\ memory = [e \in Evaluation |-> "none"]
    /\ home = [e \in Evaluation |-> FALSE] /\ broker = [e \in Evaluation |-> "none"]
    /\ calls = [e \in Evaluation |-> 0]
    /\ up = <<>> /\ down = <<>> /\ online = TRUE
    /\ drops = 0 /\ crashes = 0 /\ changes = 0 /\ refused = {}

-----------------------------------------------------------------------------
(* The Hub *)

\* rebuildRouterEvaluation: the digest of now is the digest of the row.
Rebuilt(e) == row[e].facts = facts

Live(e) == row[e].status \in Active /\ row[e].lease

InFlight == \E e \in Evaluation : row[e].status \in Active

\* Failures that count against the retries: reserved, and not known to have
\* happened before the model was asked.
ChargedFailures ==
    Cardinality({e \in Evaluation : /\ row[e].status \in {"failed", "cancelled", "stale"}
                                    /\ settled[e] # "none" /\ ~row[e].pre})

End(e, status, reason) ==
    row' = [row EXCEPT ![e].status = status, ![e].reason = reason]

\* n is the latest attempt of the digest, 0 if there is none.
SameDigest(t) == {e \in Evaluation : row[e].facts = facts /\ row[e].trigger = t}
LatestAttempt(t, n) ==
    /\ n = 0 \/ \E p \in SameDigest(t) : row[p].attempt = n
    /\ \A p \in SameDigest(t) : row[p].attempt <= n

Enqueue(e, t) ==
    /\ row[e].status = "unused"
    /\ \A p \in Evaluation : row[p].status = "unused" => e <= p
    /\ facts \in Facts
    /\ \E n \in 0..MaxRetries :
          /\ LatestAttempt(t, n)
          /\ \A p \in SameDigest(t) : row[p].attempt = n => row[p].status = "failed"
          /\ row' = [p \in Evaluation |->
                IF p = e THEN [Unused EXCEPT !.status = "queued", !.facts = facts, !.trigger = t,
                                             !.attempt = n + 1]
                ELSE IF row[p].status = "queued" THEN [row[p] EXCEPT !.status = "cancelled"]
                ELSE row[p]]
    /\ UNCHANGED <<facts, settled, spent, held, applied, owed, node, up, down, online, bounds, refused>>

ChangeFacts ==
    /\ changes < MaxChange
    /\ \E f \in (Facts \union {NoFacts}) \ {facts} : facts' = f
    /\ changes' = changes + 1
    /\ UNCHANGED <<row, settled, spent, held, applied, owed, node, up, down, online, drops, crashes, refused>>

\* dispatchQueued that ends the row instead of sending it: its input moved, its
\* time in the queue is over, the retries or the budget are used up.
Exhausted == ChargedFailures > MaxRetries
\* Mutant: what is reserved and not settled yet is not counted.
AffordableSpent == spent + Reserve <= Limit
Affordable == spent + held + Reserve <= Limit

EndQueued(e) ==
    /\ row[e].status = "queued"
    /\ \/ ~Rebuilt(e) /\ End(e, "cancelled", "input")
       \/ Rebuilt(e) /\ ~InFlight /\ End(e, "skipped", "queue")
    /\ UNCHANGED <<facts, settled, spent, held, applied, owed, node, up, down, online, bounds, refused>>

\* dispatchQueued: the reservation and the dispatch commit together.
Dispatch(e) ==
    /\ row[e].status = "queued" /\ Rebuilt(e) /\ ~InFlight
    /\ ~Exhausted /\ online /\ Affordable
    /\ row' = [row EXCEPT ![e].status = "dispatched", ![e].lease = TRUE]
    /\ settled' = [settled EXCEPT ![e] = "reserved"]
    /\ held' = held + Reserve
    /\ UNCHANGED <<facts, spent, applied, owed, node, up, down, online, bounds, refused>>

\* runRouterTick sends the request again until a heartbeat has come.
Resend(e) ==
    /\ row[e].status = "dispatched" /\ Live(e) /\ Rebuilt(e) /\ online
    /\ Len(down) < MaxDown
    /\ down' = Append(down, [kind |-> "request", eval |-> e])
    /\ UNCHANGED <<hub, node, up, online, bounds, refused>>

\* The lease or, at the latest, the deadline is over.
LeaseEnds(e) ==
    /\ Live(e)
    /\ row' = [row EXCEPT ![e].lease = FALSE]
    /\ UNCHANGED <<facts, settled, spent, held, applied, owed, node, up, down, online, bounds, refused>>

\* Mutant: an expired lease is left alone.
EndMovedOnly(e) ==
    /\ row[e].status \in Active /\ ~Rebuilt(e) /\ End(e, "cancelled", "input")
    /\ Len(down) < MaxDown
    /\ down' = IF online THEN Append(down, [kind |-> "cancel", eval |-> e]) ELSE down
    /\ UNCHANGED <<facts, settled, spent, held, applied, owed, node, up, online, bounds, refused>>

\* runRouterTick ends what is no longer live or whose input moved, and tells the Node.
EndActive(e) ==
    /\ row[e].status \in Active
    /\ \/ ~Live(e) /\ End(e, "failed", "lease")
       \/ Live(e) /\ ~Rebuilt(e) /\ End(e, "cancelled", "input")
    /\ Len(down) < MaxDown
    /\ down' = IF online THEN Append(down, [kind |-> "cancel", eval |-> e]) ELSE down
    /\ UNCHANGED <<facts, settled, spent, held, applied, owed, node, up, online, bounds, refused>>

\* acceptRouterHeartbeat
TakeHeartbeat ==
    /\ up # <<>> /\ Head(up).kind = "heartbeat"
    /\ LET e == Head(up).eval IN
          IF Live(e) /\ Rebuilt(e)
          THEN /\ row' = [row EXCEPT ![e].status = "running",
                                     ![e].started = @ \/ Head(up).started]
               /\ UNCHANGED refused
          ELSE refused' = refused \union {e} /\ UNCHANGED row
    /\ up' = Tail(up)
    /\ UNCHANGED <<facts, settled, spent, held, applied, owed, node, down, online, bounds>>

\* acceptRouterResult: the first result for a row that is not over decides it.
\* The ack is sent by the handler once the reservation is settled.
Judge(e, f) ==
    LET rejection == CASE f.result = "completed" /\ ~row[e].started -> "model_start_missing"
                       [] f.usage = Over -> "over_budget"
                       [] ~row[e].lease  -> "lease"
                       [] ~Rebuilt(e)    -> "input"
                       [] OTHER          -> "none"
    IN [row[e] EXCEPT
          !.status = IF rejection # "none" THEN "stale"
                     ELSE IF f.result = "completed" THEN "completed" ELSE "failed",
          !.reason = rejection,
          !.usage  = f.usage,
          !.pre    = rejection = "none" /\ f.result = "pre" /\ ~row[e].started]

TakeResult ==
    /\ up # <<>> /\ Head(up).kind = "result"
    /\ LET e == Head(up).eval IN
          /\ row' = IF row[e].status \in Terminal THEN row
                    ELSE [row EXCEPT ![e] = Judge(e, Head(up))]
          /\ owed' = owed \union {e}
    /\ up' = Tail(up)
    /\ UNCHANGED <<facts, settled, spent, held, applied, node, down, online, bounds, refused>>

\* Mutant: without a start on record nothing is charged.
ChargeIfStarted(e) == IF ~row[e].started THEN 0
                      ELSE IF row[e].usage # 0 THEN row[e].usage ELSE Reserve

\* settleCoordinationUsage, by the handler of the result or by a later tick.
Charge(e) == IF row[e].pre /\ ~row[e].started THEN 0
             ELSE IF row[e].usage # 0 THEN row[e].usage ELSE Reserve

Settle(e) ==
    /\ row[e].status \in Terminal /\ settled[e] = "reserved"
    /\ settled' = [settled EXCEPT ![e] = IF Charge(e) = 0 THEN "zero" ELSE "charged"]
    /\ held' = held - Reserve
    /\ spent' = spent + Charge(e)
    /\ UNCHANGED <<facts, row, applied, owed, node, up, down, online, bounds, refused>>

\* applyRouterEvaluation, by the handler or by a later tick: once for a row.
Apply(e) ==
    /\ row[e].status = "completed" /\ applied[e] = "none"
    /\ applied' = [applied EXCEPT ![e] = IF Rebuilt(e) THEN "applied" ELSE "stale"]
    /\ UNCHANGED <<facts, row, settled, spent, held, owed, node, up, down, online, bounds, refused>>

SendAck(e) ==
    /\ e \in owed /\ settled[e] # "reserved"
    /\ Len(down) < MaxDown
    /\ owed' = owed \ {e}
    /\ down' = IF online THEN Append(down, [kind |-> "ack", eval |-> e]) ELSE down
    /\ UNCHANGED <<facts, row, settled, spent, held, applied, node, up, online, bounds, refused>>

-----------------------------------------------------------------------------
(* The Node *)

Heartbeat(e, j) == [kind |-> "heartbeat", eval |-> e, started |-> j[e].started]
Result(e, j)    == [kind |-> "result", eval |-> e, result |-> j[e].result, usage |-> j[e].usage]

\* flushOne: the heartbeat always, and after it the result if there is one.
Flush(e, j) == IF j[e].state = "result" THEN <<Heartbeat(e, j), Result(e, j)>>
               ELSE <<Heartbeat(e, j)>>

Sends(frames) ==
    /\ Len(up) + Len(frames) <= MaxFrames
    /\ up' = IF online THEN up \o frames ELSE up

\* A heartbeat that could be sent lets a broker that waits for it call the model.
AckStart(e) ==
    IF online /\ memory[e] = "waitsAck" /\ broker[e] = "asked"
    THEN /\ broker' = [broker EXCEPT ![e] = "calling"]
         /\ calls' = [calls EXCEPT ![e] = @ + 1]
    ELSE UNCHANGED <<broker, calls>>

\* finish: the first terminal outcome is saved and sent, then the process is ended.
Finish(e, result, usage) ==
    LET j == IF journal[e].state = "active"
             THEN [journal EXCEPT ![e].state = "result", ![e].result = result, ![e].usage = usage]
             ELSE journal
    IN /\ memory[e] \notin {"none", "finishing"}
       /\ journal' = j
       /\ Sends(Flush(e, j))
       /\ memory' = [memory EXCEPT ![e] = "finishing"]

\* Mutant: a request is known only while it is in memory.
TakeRequestInMemory ==
    /\ down # <<>> /\ Head(down).kind = "request"
    /\ LET e == Head(down).eval IN
          IF memory[e] = "none"
          THEN /\ journal' = [journal EXCEPT ![e].state = "active"]
               /\ memory' = [memory EXCEPT ![e] = "preparing"]
               /\ UNCHANGED <<up, broker, calls>>
          ELSE /\ Sends(Flush(e, journal)) /\ AckStart(e) /\ UNCHANGED <<journal, memory>>
    /\ down' = Tail(down)
    /\ UNCHANGED <<hub, home, online, bounds, refused>>

\* The entry is written before anything can be spawned for it; a repeated
\* request finds it and is answered from it.
TakeRequest ==
    /\ down # <<>> /\ Head(down).kind = "request"
    /\ LET e == Head(down).eval IN
          IF journal[e].state = "none"
          THEN /\ journal' = [journal EXCEPT ![e].state = "active"]
               /\ memory' = [memory EXCEPT ![e] = "preparing"]
               /\ UNCHANGED <<up, broker, calls>>
          ELSE /\ Sends(Flush(e, journal)) /\ AckStart(e)
               /\ memory' = IF online /\ memory[e] = "waitsAck"
                            THEN [memory EXCEPT ![e] = "running"] ELSE memory
               /\ UNCHANGED journal
    /\ down' = Tail(down)
    /\ UNCHANGED <<hub, home, online, bounds, refused>>

TakeCancel ==
    /\ down # <<>> /\ Head(down).kind = "cancel"
    /\ LET e == Head(down).eval IN
          CASE memory[e] \in {"none", "finishing", "aborted"} -> UNCHANGED <<journal, memory, up>>
            [] memory[e] = "preparing" -> /\ memory' = [memory EXCEPT ![e] = "aborted"]
                                          /\ UNCHANGED <<journal, up>>
            [] OTHER -> Finish(e, "other", 0)
    /\ down' = Tail(down)
    /\ UNCHANGED <<hub, home, broker, calls, online, bounds, refused>>

TakeAck ==
    /\ down # <<>> /\ Head(down).kind = "ack"
    /\ LET e == Head(down).eval IN
          journal' = IF journal[e].state = "result"
                     THEN [journal EXCEPT ![e].state = "acked", ![e].result = "none", ![e].usage = 0]
                     ELSE journal
    /\ down' = Tail(down)
    /\ UNCHANGED <<hub, memory, home, broker, calls, up, online, bounds, refused>>

\* start: the credential, the download of the inputs, the spawn.
PrepareFails(e) ==
    /\ memory[e] \in {"preparing", "aborted"}
    /\ \E code \in {"pre", "other"} : (memory[e] = "aborted" => code = "other") /\ Finish(e, code, 0)
    /\ home' \in {home, [home EXCEPT ![e] = TRUE]}
    /\ UNCHANGED <<hub, broker, calls, down, online, bounds, refused>>

\* The inputs are downloaded from a Hub that finds the row live, unchanged.
Spawn(e) ==
    /\ memory[e] = "preparing" /\ Live(e) /\ Rebuilt(e)
    /\ memory' = [memory EXCEPT ![e] = "spawned"]
    /\ home' = [home EXCEPT ![e] = TRUE]
    /\ broker' = [broker EXCEPT ![e] = "fresh"]
    /\ UNCHANGED <<hub, journal, calls, up, down, online, bounds, refused>>

\* Mutant: the process is not on record.
InitializeUnrecorded(e) ==
    /\ memory[e] = "spawned" /\ broker[e] = "fresh" /\ journal[e].state = "active"
    /\ memory' = [memory EXCEPT ![e] = "running"]
    /\ broker' = [broker EXCEPT ![e] = "init"]
    /\ UNCHANGED <<hub, journal, home, calls, up, down, online, bounds, refused>>

\* setProcess before initialize: what may call the model is on record.
Initialize(e) ==
    /\ memory[e] = "spawned" /\ broker[e] = "fresh" /\ journal[e].state = "active"
    /\ memory' = [memory EXCEPT ![e] = "running"]
    /\ journal' = [journal EXCEPT ![e].pid = TRUE]
    /\ broker' = [broker EXCEPT ![e] = "init"]
    /\ UNCHANGED <<hub, home, calls, up, down, online, bounds, refused>>

\* The worker has read the inputs.
InputsRead(e) ==
    /\ broker[e] = "init" /\ memory[e] = "running"
    /\ broker' = [broker EXCEPT ![e] = "read"]
    /\ Sends(Flush(e, journal))
    /\ UNCHANGED <<hub, journal, memory, home, calls, down, online, bounds, refused>>

\* The worker wants the model: the start is on record and is sent; the ack for
\* it is given now or with the flush that can be sent.
AskModel(e) ==
    /\ broker[e] = "read" /\ memory[e] = "running"
    /\ LET j == [journal EXCEPT ![e].started = TRUE] IN journal' = j /\ Sends(Flush(e, j))
    /\ IF online
       THEN /\ broker' = [broker EXCEPT ![e] = "calling"] /\ calls' = [calls EXCEPT ![e] = @ + 1]
            /\ UNCHANGED memory
       ELSE /\ broker' = [broker EXCEPT ![e] = "asked"] /\ memory' = [memory EXCEPT ![e] = "waitsAck"]
            /\ UNCHANGED calls
    /\ UNCHANGED <<hub, home, down, online, bounds, refused>>

\* The broker reports; before the model was asked it may say so.
BrokerReports(e) ==
    /\ broker[e] \in {"init", "read", "asked", "calling"} /\ memory[e] \in {"running", "waitsAck"}
    /\ \E report \in IF broker[e] = "calling"
                     THEN {<<"completed", Actual>>, <<"other", Actual>>, <<"other", Over>>, <<"other", 0>>}
                     ELSE {<<"other", 0>>} \union
                          (IF broker[e] = "asked" THEN {} ELSE {<<"pre", 0>>}) :
          Finish(e, report[1], report[2])
    /\ broker' = [broker EXCEPT ![e] = "gone"]
    /\ UNCHANGED <<hub, home, calls, down, online, bounds, refused>>

\* runtime_lost, and the timer of the deadline.
BrokerDies(e) ==
    /\ memory[e] \in {"spawned", "running", "waitsAck"}
    /\ Finish(e, "other", 0)
    /\ broker' = [broker EXCEPT ![e] = "gone"]
    /\ UNCHANGED <<hub, home, calls, down, online, bounds, refused>>

TimerFires(e) ==
    /\ memory[e] \in {"running", "waitsAck"}
    /\ Finish(e, "other", 0) /\ AckStart(e)
    /\ UNCHANGED <<hub, home, down, online, bounds, refused>>

\* The rest of finish: the process has gone before its home may go.
Release(e) ==
    /\ memory[e] = "finishing"
    /\ memory' = [memory EXCEPT ![e] = "none"]
    /\ broker' = [broker EXCEPT ![e] = IF @ \in Alive THEN "gone" ELSE @]
    /\ journal' = [journal EXCEPT ![e].pid = FALSE]
    /\ UNCHANGED <<hub, home, calls, up, down, online, bounds, refused>>

\* cleanup: a process on record that is still alive is killed first.
Stopped(e) == journal[e].pid => broker[e] \notin Alive

Cleanup(e) ==
    /\ journal[e].state \in {"result", "acked"} /\ ~journal[e].cleaned /\ memory[e] = "none"
    /\ IF Stopped(e)
       THEN /\ home' = [home EXCEPT ![e] = FALSE]
            /\ journal' = [journal EXCEPT ![e].cleaned = TRUE, ![e].pid = FALSE]
            /\ UNCHANGED broker
       ELSE broker' = [broker EXCEPT ![e] = "gone"] /\ UNCHANGED <<home, journal>>
    /\ UNCHANGED <<hub, memory, calls, up, down, online, bounds, refused>>

\* Its standard input ended with the Node that spawned it.
OrphanEnds(e) ==
    /\ memory[e] = "none" /\ broker[e] \in Alive
    /\ broker' = [broker EXCEPT ![e] = "gone"]
    /\ UNCHANGED <<hub, journal, memory, home, calls, up, down, online, bounds, refused>>

-----------------------------------------------------------------------------
(* Connections and restarts *)

Drop ==
    /\ online /\ drops < MaxDrop
    /\ online' = FALSE /\ drops' = drops + 1
    /\ up' \in {<<>>, up} /\ down' = <<>>
    /\ UNCHANGED <<hub, node, crashes, changes, refused>>

Unacked(state) == SetToSeq({e \in Evaluation : journal[e].state = state})

\* Mutant: only what is still active is flushed.
FlushActive == [i \in 1..Len(Unacked("active")) |-> Heartbeat(Unacked("active")[i], journal)]

\* onReconnect flushes what is active, then every result that is not acked.
FlushAll ==
    LET results == Unacked("result")
    IN [i \in 1..Len(Unacked("active")) |-> Heartbeat(Unacked("active")[i], journal)]
       \o [i \in 1..(2 * Len(results)) |-> IF i % 2 = 1 THEN Heartbeat(results[(i + 1) \div 2], journal)
                                           ELSE Result(results[i \div 2], journal)]

Reconnect ==
    /\ ~online /\ up = <<>>
    /\ online' = TRUE
    /\ up' = FlushAll
    /\ broker' = [e \in Evaluation |-> IF memory[e] = "waitsAck" /\ broker[e] = "asked"
                                       THEN "calling" ELSE broker[e]]
    /\ calls' = [e \in Evaluation |-> IF memory[e] = "waitsAck" /\ broker[e] = "asked"
                                      THEN calls[e] + 1 ELSE calls[e]]
    /\ memory' = [e \in Evaluation |-> IF memory[e] = "waitsAck" THEN "running" ELSE memory[e]]
    /\ UNCHANGED <<hub, journal, home, down, bounds, refused>>

\* The Node ends and recovers: an attempt it finds active is reported lost and
\* never run again.
NodeRestarts ==
    /\ crashes < MaxCrash /\ crashes' = crashes + 1
    /\ memory' = [e \in Evaluation |-> "none"]
    /\ journal' = [e \in Evaluation |-> IF journal[e].state = "active"
                                        THEN [journal[e] EXCEPT !.state = "result", !.result = "other"]
                                        ELSE journal[e]]
    /\ online' = FALSE /\ up' \in {<<>>, up} /\ down' = <<>>
    /\ UNCHANGED <<hub, home, broker, calls, drops, changes, refused>>

-----------------------------------------------------------------------------
HubTick(e) == EndQueued(e) \/ Dispatch(e) \/ Resend(e) \/ EndActive(e) \/ Settle(e) \/ Apply(e)
HubFrames  == TakeHeartbeat \/ TakeResult
NodeFrames == TakeRequest \/ TakeCancel \/ TakeAck
NodeStep(e) ==
    \/ PrepareFails(e) \/ Spawn(e) \/ Initialize(e)
    \/ Release(e) \/ Cleanup(e) \/ OrphanEnds(e)
BrokerStep(e) == InputsRead(e) \/ AskModel(e) \/ BrokerReports(e) \/ BrokerDies(e) \/ TimerFires(e)

Next ==
    \/ ChangeFacts \/ HubFrames \/ NodeFrames \/ Drop \/ Reconnect \/ NodeRestarts
    \/ \E e \in Evaluation : \/ \E t \in Trigger : Enqueue(e, t)
                             \/ LeaseEnds(e) \/ SendAck(e)
                             \/ HubTick(e) \/ NodeStep(e) \/ BrokerStep(e)

Spec == Init /\ [][Next]_vars

(* The tick runs every second, a lease ends at its deadline, the handlers    *)
(* run when a frame has come, the Node's timers fire and it reconnects.      *)
Fairness ==
    /\ WF_vars(HubFrames) /\ WF_vars(NodeFrames) /\ WF_vars(Reconnect)
    /\ \A e \in Evaluation :
          /\ WF_vars(LeaseEnds(e)) /\ WF_vars(EndActive(e)) /\ WF_vars(EndQueued(e))
          /\ WF_vars(Settle(e)) /\ WF_vars(Apply(e)) /\ WF_vars(SendAck(e))
          /\ WF_vars(PrepareFails(e)) /\ WF_vars(Initialize(e)) /\ WF_vars(Release(e)) /\ WF_vars(Cleanup(e))
          /\ WF_vars(OrphanEnds(e)) /\ WF_vars(TimerFires(e) \/ BrokerDies(e))
FairSpec == Spec /\ Fairness

-----------------------------------------------------------------------------
(* Properties *)

\* The model is asked at most once for an attempt, however often its request is
\* sent and wherever the Node ends: the journal is written before the spawn.
ModelOnce == \A e \in Evaluation : calls[e] <= 1

\* What is settled without a charge never reached the model, although the Hub
\* may decide it before it hears of a start.
FreeMeansUncalled == \A e \in Evaluation : settled[e] = "zero" => calls[e] = 0

\* The budget of the Work holds across overlapping settlements: only what an
\* answer reports beyond its reservation can exceed it.
Overspent == Cardinality({e \in Evaluation : settled[e] = "charged" /\ row[e].usage = Over})
BudgetHolds ==
    /\ held = Reserve * Cardinality({e \in Evaluation : settled[e] = "reserved"})
    /\ spent + held <= Limit + (Over - Reserve) * Overspent

\* The Node forgets a result only when the Hub has decided and settled the row.
AckedIsSettled ==
    \A e \in Evaluation :
        journal[e].state = "acked" => row[e].status \in Terminal /\ settled[e] \in {"zero", "charged"}

\* A process that was given inputs still has them: the private home is removed
\* only once the process on record has gone, across a restart too.
HomeOutlivesBroker ==
    \A e \in Evaluation : broker[e] \in Alive \ {"fresh"} => home[e]

\* A completed answer is turned down for a missing start only when the Hub itself
\* refused the heartbeat that carried it: the Node never sends the result first.
StartIsKnown ==
    \A e \in Evaluation : row[e].reason = "model_start_missing" => e \in refused

\* What was dispatched is decided and its reservation settled.
Concludes ==
    \A e \in Evaluation :
        row[e].status \in Active ~> (row[e].status \in Terminal /\ settled[e] # "reserved")

\* A result the Node saved is acknowledged in the end.
ResultAcked == \A e \in Evaluation : journal[e].state = "result" ~> journal[e].state = "acked"
=============================================================================
