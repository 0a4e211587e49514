------------------------------ MODULE WorkInbox ------------------------------
(***************************************************************************)
(* The inbox of one Work: how one source (a task message or a context      *)
(* entry) becomes input of a Run, is read there, and how the fact that it  *)
(* was read comes back.  Hub work/inbox, work/run-inputs, work/run-dispatch *)
(* and work/receipts with their repositories, and the receipts of the      *)
(* Node's run-manager and work/receipt-store.                              *)
(*                                                                         *)
(* An item is one version of the source; the rows of two sources do not    *)
(* meet.  Every transaction locks the Work, the Run or the item's row, so  *)
(* it is one action; the reconciler lists without a lock and settles item  *)
(* by item afterwards.  The Task lets one Run be active at a time, so      *)
(* Runs are created in order.  What a receipt says was delivered only sets *)
(* acked_at, so a receipt is a read, with its number.  Digests hold, and   *)
(* the window of 60 s has elapsed or not.  Delivery `duplicate' is told    *)
(* apart by its two reasons, `late' and `overtaken'.  The Work stays       *)
(* active, and copies a waiting Work keeps automatically are left out.     *)
(***************************************************************************)
EXTENDS Integers, Sequences, FiniteSets, SequencesExt

CONSTANTS MaxRun,      \* bound: Runs of the Task
          MaxVersion,  \* bound: versions of the source
          MaxRead,     \* bound: reads of items by the Runtimes of all Runs
          MaxFault     \* bound: lost connections, crashes of the Node, and
                       \* settling transactions that fail

ASSUME WorkInboxAssumption ==
    /\ MaxRun \in Nat \ {0} /\ MaxVersion \in Nat \ {0} /\ MaxRead \in Nat \ {0}
    /\ MaxFault \in Nat

Run     == 1..MaxRun
Version == 1..MaxVersion
Receipts == [run : Run, seq : 1..MaxRead]

VARIABLES
    version,      \* of the source, as loadWorkSource finds it
    item,         \* work_inbox_item of each version
    lapsed,       \* unconfirmed items whose window is over
    listed,       \* items the reconciler found due, with their Run
    state,        \* of each Run at the Hub
    holds,        \* version in the manifest of each Run, 0: no Run
    delivery,     \* work_inbox_delivery of each Run
    consumption,  \* work_input_consumption of each Run
    known,        \* run_work_input_receipt
    node,         \* the Run's inputs at the Node, ordered: run.start went out,
                  \* coming: the Hub has answered with the bundle
    seq,          \* next_seq of the Run's receipts, less one
    outbox,       \* work_input_receipt_outbox
    wire,         \* receipts on the connection
    conn,         \* the connection is up, not yet drained, or down
    lost,         \* receipts that were on a connection when it broke
    faults

hubVars  == <<version, item, lapsed, listed>>
runVars  == <<state, holds, delivery, consumption, known>>
nodeVars == <<node, seq, outbox, wire, conn, lost>>
vars == <<hubVars, runVars, nodeVars, faults>>

None == [status |-> "none", run |-> 0]

TypeOK ==
    /\ version \in Version
    /\ item \in [Version -> [status : {"none", "pending", "aside", "superseded", "retracted",
                                       "delivered", "unconfirmed", "consumed"},
                             run : 0..MaxRun]]
    /\ lapsed \subseteq Version /\ listed \subseteq Version \X Run
    /\ state \in [Run -> {"none", "queued", "started", "ended"}]
    /\ holds \in [Run -> 0..MaxVersion]
    /\ delivery \in [Run -> {"none", "sent", "unconfirmed", "consumed", "late", "overtaken",
                             "returned", "withdrawn"}]
    /\ consumption \in [Run -> {"none", "consumed", "duplicate", "duplicate_consumption"}]
    /\ known \subseteq Receipts /\ outbox \subseteq Receipts /\ lost \subseteq Receipts
    /\ wire \in Seq(Receipts) /\ conn \in {"up", "open", "down"}
    /\ node \in [Run -> {"none", "ordered", "coming", "ready", "gone"}] /\ seq \in [Run -> 0..MaxRead]

Init ==
    /\ version = 1 /\ item = [v \in Version |-> None]
    /\ lapsed = {} /\ listed = {}
    /\ state = [r \in Run |-> "none"] /\ holds = [r \in Run |-> 0]
    /\ delivery = [r \in Run |-> "none"] /\ consumption = [r \in Run |-> "none"]
    /\ known = {} /\ outbox = {} /\ lost = {} /\ wire = <<>> /\ conn = "up"
    /\ node = [r \in Run |-> "none"] /\ seq = [r \in Run |-> 0]
    /\ faults = 0

-----------------------------------------------------------------------------
(* The inbox                                                               *)

With(v, s) == item[v].status \in s
(* The source was withdrawn from this Work: no version of it may follow.   *)
Tombstone == \E v \in Version : With(v, {"retracted"})
Open == {"pending", "delivered", "unconfirmed"}
Unsettled == {"sent", "unconfirmed"}

(* An unconfirmed item that is no longer so has no window.                 *)
StillLapsed == lapsed' = {v \in lapsed : item'[v].status = "unconfirmed"}

Edit ==
    /\ version < MaxVersion
    /\ version' = version + 1
    /\ UNCHANGED <<item, lapsed, listed, runVars, nodeVars, faults>>

(* The current version is put in the inbox and replaces one that waits     *)
(* there; nothing of a source that was withdrawn is.                       *)
Associate ==
    /\ With(version, {"none"}) /\ ~Tombstone
    /\ item' = [v \in Version |->
                  IF v = version THEN [status |-> "pending", run |-> 0]
                  ELSE IF With(v, {"pending"}) THEN [item[v] EXCEPT !.status = "superseded"]
                  ELSE item[v]]
    /\ UNCHANGED <<version, lapsed, listed, runVars, nodeVars, faults>>

(* The assignee returns the item, or lets it expire: it is not open again. *)
PutAside(v) ==
    /\ With(v, {"pending"})
    /\ item' = [item EXCEPT ![v].status = "aside"]
    /\ UNCHANGED <<version, lapsed, listed, runVars, nodeVars, faults>>

\* Mutant: only the item named is retracted.
RetractedAlone(v) == {v}

Retracted(v) == {v} \union {w \in Version : With(w, Open)}

(* The assignee withdraws the source through any of its items; a second    *)
(* time nothing of it is open.                                             *)
Retract(v) ==
    /\ ~With(v, {"none", "consumed"}) /\ ~Tombstone
    /\ item' = [w \in Version |->
                  IF w \in Retracted(v) THEN [status |-> "retracted", run |-> 0] ELSE item[w]]
    /\ delivery' = [r \in Run |->
                      IF holds[r] \in Retracted(v) /\ delivery[r] \in Unsettled
                      THEN "withdrawn" ELSE delivery[r]]
    /\ StillLapsed
    /\ UNCHANGED <<version, listed, state, holds, consumption, known, nodeVars, faults>>

-----------------------------------------------------------------------------
(* Runs at the Hub                                                         *)

(* A Run is created with the pending item: the manifest is frozen.         *)
Create(r) ==
    /\ state[r] = "none" /\ \A q \in Run : q < r => state[q] = "ended"
    /\ With(version, {"pending"}) /\ ~Tombstone
    /\ state' = [state EXCEPT ![r] = "queued"]
    /\ holds' = [holds EXCEPT ![r] = version]
    /\ delivery' = [delivery EXCEPT ![r] = "sent"]
    /\ item' = [item EXCEPT ![version].status = "delivered", ![version].run = r]
    /\ UNCHANGED <<version, lapsed, listed, consumption, known, nodeVars, faults>>

Delivered(r) == item[holds[r]].run = r /\ With(holds[r], {"delivered", "unconfirmed"})

(* setRunStatus, terminal: what was delivered and not read is unconfirmed. *)
Ended(r) ==
    /\ state' = [state EXCEPT ![r] = "ended"]
    /\ item' = [v \in Version |->
                  IF item[v].run = r /\ With(v, {"delivered"})
                  THEN [item[v] EXCEPT !.status = "unconfirmed"] ELSE item[v]]
    /\ delivery' = [delivery EXCEPT ![r] = IF @ = "sent" THEN "unconfirmed" ELSE @]

(* The inputs are checked again before run.start goes out.  The transaction *)
(* is over by then, but what comes between is as if the Node took its time. *)
Dispatch(r) ==
    /\ state[r] = "queued"
    /\ IF Delivered(r) /\ ~Tombstone /\ version = holds[r]
       THEN /\ state' = [state EXCEPT ![r] = "started"]
            /\ node' = [node EXCEPT ![r] = "ordered"]
            /\ UNCHANGED <<item, delivery>>
       ELSE Ended(r) /\ UNCHANGED node
    /\ UNCHANGED <<version, lapsed, listed, holds, consumption, known,
                   seq, outbox, wire, conn, lost, faults>>

(* A result, a cancellation, a lost Run.                                   *)
End(r) ==
    /\ state[r] \in {"queued", "started"}
    /\ Ended(r)
    /\ UNCHANGED <<version, lapsed, listed, holds, consumption, known, nodeVars, faults>>

Lapse(v) ==
    /\ With(v, {"unconfirmed"}) /\ v \notin lapsed
    /\ lapsed' = lapsed \union {v}
    /\ UNCHANGED <<version, item, listed, runVars, nodeVars, faults>>

-----------------------------------------------------------------------------
(* The reconciler                                                          *)

Newer(v) == \E w \in Version : w > v /\ ~With(w, {"none"})

\* Mutant: items of an older version are not listed.
DueNewest == {v \in lapsed : v = version}

(* listDueUnconfirmedWorkInputIds                                          *)
Due == lapsed

(* Two ticks may overlap: what one settled the other may still have listed. *)
ListDue ==
    /\ {<<v, item[v].run>> : v \in Due} \ listed # {}
    /\ listed' = listed \union {<<v, item[v].run>> : v \in Due}
    /\ UNCHANGED <<version, item, lapsed, runVars, nodeVars, faults>>

\* Mutant: the listed item is not looked at again.
DueOnceListed(v, r) == holds[r] = v

(* The item is still the one that was listed: the same window is over.     *)
StillDue(v, r) == v \in lapsed /\ item[v].run = r

\* Mutant: an older version comes back beside a newer one.
BackAlways(v) == "pending"

(* Where an item that nobody read goes: only the newest version returns.   *)
Back(v) == IF Newer(v) THEN "superseded" ELSE "pending"

Settle(v, r) ==
    /\ <<v, r>> \in listed
    /\ \/ /\ StillDue(v, r)
          /\ listed' \in {listed, listed \ {<<v, r>>}}
          /\ item' = [w \in Version |->
                        IF w = v THEN [item[v] EXCEPT !.status = Back(v), !.run = 0]
                        ELSE IF ~Newer(v) /\ With(w, {"pending"}) THEN [item[w] EXCEPT !.status = "superseded"]
                        ELSE item[w]]
          /\ delivery' = [q \in Run |->
                            IF holds[q] = v /\ delivery[q] = "unconfirmed" THEN "returned" ELSE delivery[q]]
          /\ StillLapsed
          /\ UNCHANGED faults
       \/ /\ ~StillDue(v, r)
          /\ listed' = listed \ {<<v, r>>}
          /\ UNCHANGED <<item, delivery, lapsed, faults>>
       \/ /\ faults < MaxFault    \* the transaction aborts, the next tick lists again
          /\ faults' = faults + 1
          /\ listed' = listed \ {<<v, r>>}
          /\ UNCHANGED <<item, delivery, lapsed>>
    /\ UNCHANGED <<version, state, holds, consumption, known, nodeVars>>

-----------------------------------------------------------------------------
(* Receipts at the Hub                                                     *)

Consumed(r, kind) ==
    consumption' = [consumption EXCEPT ![r] = IF @ = "none" THEN kind ELSE @]

Settled(r, s) ==
    delivery' = [delivery EXCEPT ![r] = IF @ \in Unsettled THEN s ELSE @]

(* The item went to a later Run, or back to the inbox.                     *)
ReadByPrevious(r, v) ==
    /\ item[v].run # r
    /\ \/ /\ With(v, {"consumed"})
          /\ Consumed(r, "duplicate_consumption")
          /\ UNCHANGED <<item, delivery>>
       \/ /\ With(v, {"delivered", "unconfirmed"})
          /\ Consumed(r, "duplicate")
          /\ Settled(item[v].run, "overtaken")
          /\ item' = [item EXCEPT ![v].status = "superseded", ![v].run = 0]
       \/ /\ ~With(v, {"consumed", "delivered", "unconfirmed"})
          /\ Consumed(r, "duplicate")
          /\ UNCHANGED <<item, delivery>>

(* The item is still with the Run that read it.                            *)
ReadByHolder(r, v) ==
    /\ item[v].run = r
    /\ \/ /\ With(v, {"consumed"})
          /\ UNCHANGED <<item, delivery, consumption>>
       \/ /\ With(v, {"delivered", "unconfirmed"}) /\ v \notin lapsed
          /\ item' = [item EXCEPT ![v].status = "consumed"]
          /\ Consumed(r, "consumed")
          /\ Settled(r, "consumed")
       \/ /\ v \in lapsed
          /\ Consumed(r, "duplicate")
          /\ Settled(r, "late")
          /\ UNCHANGED item

(* recordRunWorkInputReceipt: the number decides whether it is new.        *)
Receive ==
    /\ wire # <<>>
    /\ wire' = Tail(wire)
    /\ LET r == Head(wire).run IN
       \/ /\ Head(wire) \in known
          /\ UNCHANGED <<item, delivery, consumption, known, lapsed>>
       \/ /\ Head(wire) \notin known
          /\ known' = known \union {Head(wire)}
          /\ ReadByPrevious(r, holds[r]) \/ ReadByHolder(r, holds[r])
          /\ StillLapsed
    /\ UNCHANGED <<version, listed, state, holds, node, seq, outbox, conn, lost, faults>>

-----------------------------------------------------------------------------
(* The Node                                                                *)

(* run.start: the Node asks for the bundle, and the start fails if it does *)
(* not get it.  The Hub looks at the item, whose lock is gone by the time  *)
(* the answer is on its way (buildRunWorkInputBundle).                     *)
Answer(r) ==
    /\ node[r] = "ordered"
    /\ node' = [node EXCEPT ![r] = IF Delivered(r) THEN "coming" ELSE "gone"]
    /\ UNCHANGED <<hubVars, runVars, seq, outbox, wire, conn, lost, faults>>

(* The answer arrives and its copy is written, whatever has become of the  *)
(* item, or it does not.                                                   *)
Prepare(r) ==
    /\ node[r] = "coming"
    /\ node' \in {[node EXCEPT ![r] = s] : s \in {"ready", "gone"}}
    /\ UNCHANGED <<hubVars, runVars, seq, outbox, wire, conn, lost, faults>>

Receipt(r) == [run |-> r, seq |-> seq[r] + 1]

(* The receipts of all reads up to now.                                    *)
Written == {x \in Receipts : x.seq <= seq[x.run]}

MayRead(r) == node[r] = "ready" /\ Cardinality(Written) < MaxRead

(* The Runtime reads the item: number and outbox in one transaction, then  *)
(* the frame is sent; what was sent is not kept.                           *)
Read(r) ==
    /\ MayRead(r)
    /\ seq' = [seq EXCEPT ![r] = @ + 1]
    /\ IF conn = "down" THEN outbox' = outbox \union {Receipt(r)} /\ UNCHANGED wire
       ELSE wire' = Append(wire, Receipt(r)) /\ UNCHANGED outbox
    /\ UNCHANGED <<hubVars, runVars, node, conn, lost, faults>>

(* The Run is finalized at the Node, and its inputs with it.               *)
Cleanup(r) ==
    /\ node[r] = "ready"
    /\ node' = [node EXCEPT ![r] = "gone"]
    /\ UNCHANGED <<hubVars, runVars, seq, outbox, wire, conn, lost, faults>>

(* The connection breaks: what the Hub has not got by then is gone.        *)
Broken(frames) ==
    /\ conn' = "down"
    /\ \E n \in 0..Len(frames) :
          /\ wire' = SubSeq(frames, 1, n)
          /\ lost' = lost \union Range(SubSeq(frames, n + 1, Len(frames)))

Break ==
    /\ conn # "down" /\ faults < MaxFault
    /\ faults' = faults + 1
    /\ Broken(wire)
    /\ UNCHANGED <<hubVars, runVars, node, seq, outbox>>

(* What the outbox holds after a crash.                                    *)
Persisted(q) == q

(* The Node's process ends, and the Runs it executed are over; possibly    *)
(* between the transaction of a read and the removal from the outbox.  A   *)
(* run.start that it was still preparing comes again.                      *)
Crash ==
    /\ faults < MaxFault
    /\ faults' = faults + 1
    /\ node' = [r \in Run |-> CASE node[r] = "ready"  -> "gone"
                                 [] node[r] = "coming" -> "ordered"
                                 [] OTHER              -> node[r]]
    /\ \/ /\ Broken(wire)
          /\ outbox' = Persisted(outbox)
          /\ UNCHANGED seq
       \/ \E r \in Run :
             /\ MayRead(r)
             /\ seq' = [seq EXCEPT ![r] = @ + 1]
             /\ outbox' = Persisted(outbox \union {Receipt(r)})
             /\ Broken(wire) \/ (conn # "down" /\ Broken(Append(wire, Receipt(r))))
    /\ UNCHANGED <<hubVars, runVars>>

Connect ==
    /\ conn = "down"
    /\ conn' = "open"
    /\ UNCHANGED <<hubVars, runVars, node, seq, outbox, wire, lost, faults>>

Before(x, y) == x.run < y.run \/ (x.run = y.run /\ x.seq < y.seq)

InOrder(S) == {s \in [1..Cardinality(S) -> S] :
                  Range(s) = S /\ \A i, j \in DOMAIN s : i < j => Before(s[i], s[j])}

(* onReconnect, once hello went out: every receipt, in the order of its    *)
(* Run and number, behind those sent since the connection opened.          *)
Drain ==
    /\ conn = "open"
    /\ conn' = "up"
    /\ \E s \in InOrder(outbox) : wire' = wire \o s
    /\ outbox' = {}
    /\ UNCHANGED <<hubVars, runVars, node, seq, lost, faults>>

-----------------------------------------------------------------------------
Next ==
    \/ Edit \/ Associate \/ ListDue \/ Receive
    \/ \E v \in Version : PutAside(v) \/ Retract(v) \/ Lapse(v)
    \/ \E r \in Run : Create(r) \/ Dispatch(r) \/ End(r) \/ Answer(r) \/ Prepare(r) \/ Read(r) \/ Cleanup(r)
    \/ \E v \in Version, r \in Run : Settle(v, r)
    \/ Break \/ Crash \/ Connect \/ Drain

Spec == Init /\ [][Next]_vars

(* Time passes; the timer lists what is due and settles all it listed      *)
(* before it lists again.                                                  *)
Elapse    == \E v \in Version : Lapse(v)
Reconcile == ListDue \/ \E v \in Version, r \in Run : Settle(v, r)

FairSpec == Spec /\ WF_vars(Elapse) /\ WF_vars(Reconcile)

-----------------------------------------------------------------------------
(* Properties                                                              *)

(* An item is consumed exactly when one Run, the one it is with, has the   *)
(* consumption and the delivery that say so, whatever receipts came late,  *)
(* twice or from another Run.                                              *)
ConsumedOnce ==
    \A v \in Version :
        LET by == {r \in Run : holds[r] = v /\ consumption[r] = "consumed"} IN
        /\ by = {r \in Run : holds[r] = v /\ delivery[r] = "consumed"}
        /\ by = IF With(v, {"consumed"}) THEN {item[v].run} ELSE {}

(* When the read of an earlier Run overtook a delivery, the item is not in *)
(* the inbox again and with no Run: it is not delivered a third time.      *)
OvertakenNotDelivered ==
    \A r \in Run : delivery[r] = "overtaken" => With(holds[r], {"superseded", "retracted"})

(* Only the newest associated version of a source is ever open for a new   *)
(* Run, also when an older one comes back from a Run that did not read it. *)
OnlyNewestPending ==
    \A v \in Version : With(v, {"pending"}) => ~Newer(v)

(* A source withdrawn from the Work is not handed out any more: no Run     *)
(* gets a copy of any version of it, but for an answer of the Hub that was *)
(* on its way.                                                             *)
NoCopyAfterRetract ==
    [][Tombstone => \A r \in Run :
          node'[r] \in {"coming", "ready"} => node[r] \in {"coming", "ready"}]_vars

(* What a Run did not confirm does not stay so: it is consumed, back in    *)
(* the inbox, replaced or withdrawn.                                       *)
UnconfirmedSettles ==
    \A v \in Version : With(v, {"unconfirmed"}) ~> ~With(v, {"unconfirmed"})

(* A read is never forgotten: its receipt is kept for the next connection, *)
(* on its way, recorded by the Hub, or was on a connection that broke; a   *)
(* crash of the Node between the read and the sending loses none.          *)
ReadKept == Written \subseteq outbox \union Range(wire) \union known \union lost
=============================================================================
