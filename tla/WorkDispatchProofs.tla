------------------------- MODULE WorkDispatchProofs -------------------------
(***************************************************************************)
(* The properties of WorkDispatch for any number of evaluations, versions  *)
(* of the mandate and ends of the Hub process.                             *)
(*                                                                         *)
(* What the safety properties rest on is that a Work whose Run is ongoing  *)
(* waits for that Run, or has been retired (RunHolds): nothing but the end *)
(* of the Run takes the Work away from it, so a second Run never starts    *)
(* and what made a sweeper read a Run as invalid stays true until it       *)
(* writes (Gone is for good).  For the same reason a run.start that was    *)
(* claimed too late does not get past the check, and one that was never    *)
(* sent is not sent without it (Wired).                                    *)
(***************************************************************************)
EXTENDS WorkDispatch, TLAPS

IntentStatus == {"none", "proposed", "approved", "dispatched", "rejected", "expired", "cancelled"}

\* The Work or the mandate that the Run of e was made under is gone for good.
Gone(e) == work.state = "retired" \/ work.on = "owner" \/ ~Current(e)

WorkTypes ==
    work \in {Free, OnOwner, Retired} \union {OnRouter(e) : e \in Evaluation} \union {OnRun(e) : e \in Evaluation}
MandateTypes ==
    mandate \in [version : 1..MaxVersion, status : {"active", "paused", "revoked"}, expired : BOOLEAN]
RowTypes ==
    /\ evaluation \in [Evaluation -> {"unused", "asked", "ended", "accepted", "applied", "stale"}]
    /\ wait \in [Evaluation -> {"none", "open", "closed"}]
    /\ intent \in [Evaluation -> [status : IntentStatus, version : 0..MaxVersion]]
    /\ due \in [Evaluation -> BOOLEAN]
RunTypes ==
    /\ run \in [Evaluation -> {"none", "over"} \union Ongoing]
    /\ outbox \in [Evaluation -> {"none", "pending", "sent", "gone"}]
    /\ signalled \in [Evaluation -> Nat]
    /\ boundary \in [Evaluation -> {"none", "pending", "enqueued", "skipped"}]
    /\ human \in {"none", "active"}
WireTypes ==
    /\ pass \in [Worker -> [of : {0} \union Evaluation, at : {"none", "claimed", "passed", "put"}, late : BOOLEAN]]
    /\ out \subseteq Evaluation
HubTypes ==
    /\ callback \in BOOLEAN /\ found \in [Sweeper -> SUBSET Evaluation] /\ crashes \in Nat

Types == WorkTypes /\ MandateTypes /\ RowTypes /\ RunTypes /\ WireTypes /\ HubTypes

\* An intent comes from an application and a Run from an intent, each once, and
\* no intent is bound to a version of the mandate that is yet to come.
Made ==
    \A e \in Evaluation :
        /\ evaluation[e] \notin {"applied"} => intent[e].status = "none"
        /\ run[e] # "none" => intent[e].status = "dispatched"
        /\ intent[e].version <= mandate.version

\* The Work of an ongoing Run waits for that Run, or has been retired meanwhile.
RunHolds == \A e \in Evaluation : run[e] \in Ongoing => work \in {OnRun(e), Retired}

\* Resumable, condition by condition.
Waits ==
    /\ \A e \in Evaluation : work = OnRouter(e) => wait[e] = "open"
    /\ \A e \in Evaluation : work = OnRun(e) => run[e] \in Ongoing

\* A Run that a sweeper has read has been running.
FoundRan ==
    \A e \in Evaluation :
        signalled[e] > 0 \/ (\E s \in Sweeper : e \in found[s]) => run[e] \in {"running", "over"} /\ Gone(e)

\* No Run is told twice.
ToldOnce == \A e \in Evaluation : signalled[e] <= 1

\* The run.start of a Run that is still queued waits in the outbox.
RowOfQueued == \A e \in Evaluation : outbox[e] \in {"pending", "sent"} => run[e] = "queued"

\* A run.start recorded as sent has gone out.
SentIsOut == \A e \in Evaluation : outbox[e] = "sent" => e \in out

\* What a pass of the outbox worker may have in hand: a run.start that it claimed
\* too late is that of a Run whose end stands, and it has been sent before if it
\* is past the check all the same.
PassOk(p) ==
    /\ p.at # "none" => p.of \in Evaluation /\ run[p.of] # "none"
    /\ p.at = "claimed" /\ p.late => Gone(p.of)
    /\ p.at = "passed" /\ p.of \notin out => ~p.late
    /\ p.at = "put" => p.of \in out

Wired == RowOfQueued /\ SentIsOut /\ \A w \in Worker : PassOk(pass[w])

IInv == Types /\ Made /\ RunHolds /\ Waits /\ FoundRan /\ ToldOnce /\ Wired

-----------------------------------------------------------------------------

\* The initial state satisfies the invariant.
LEMMA InitSound == Init => IInv
<1> SUFFICES ASSUME Init PROVE IInv
  OBVIOUS
<1> USE WorkDispatchAssumption DEF Init
<1>1. WorkTypes /\ MandateTypes
  BY DEF WorkTypes, MandateTypes
<1>2. RowTypes
  BY DEF RowTypes, NoIntent, IntentStatus
<1>3. RunTypes /\ WireTypes /\ HubTypes
  BY DEF RunTypes, WireTypes, NoPass, HubTypes
<1>5. Wired
  BY DEF Wired, RowOfQueued, SentIsOut, PassOk, NoPass
<1>4. Made /\ RunHolds /\ Waits /\ FoundRan /\ ToldOnce
  BY DEF Made, NoIntent, RunHolds, Waits, Free, OnRouter, OnRun, FoundRan, ToldOnce, Ongoing
<1> QED
  BY <1>1, <1>2, <1>3, <1>4, <1>5 DEF IInv, Types

\* A pass of the outbox worker ends a queued Run or leaves all but its row alone.
LEMMA DeliverEffect ==
    ASSUME NEW e \in Evaluation, Deliver(e)
    PROVE  \/ UNCHANGED <<work, mandate, rows, run, signalled, boundary, human, hub>>
           \/ run[e] = "queued" /\ Over(e) /\ UNCHANGED found
BY DEF Deliver, Claim, Check, Put, MarkSent, runs

\* What a Work is waiting for can be read off its fields.
LEMMA WorkForms ==
    ASSUME WorkTypes
    PROVE  /\ work.state = "active" <=> work = Free
           /\ work.state = "retired" <=> work = Retired
           /\ work.on = "owner" <=> work = OnOwner
           /\ work.on = "router" => work.of \in Evaluation /\ work = OnRouter(work.of)
           /\ work.on = "run" => work.of \in Evaluation /\ work = OnRun(work.of)
           /\ \A e \in Evaluation : Free # OnRun(e) /\ Retired # OnRun(e) /\ OnOwner # OnRun(e)
           /\ \A e, f \in Evaluation : OnRouter(e) # OnRun(f) /\ (OnRun(e) = OnRun(f) => e = f)
                                     /\ (OnRouter(e) = OnRouter(f) => e = f)
BY DEF WorkTypes, Free, OnOwner, Retired, OnRouter, OnRun

\* enqueueInTransaction uses the next evaluation and touches no other.
LEMMA EnqueuedAsks ==
    ASSUME RowTypes, Enqueued(work, wait) \/ Enqueued(work', wait') \/ Refused
    PROVE  /\ evaluation' \in [Evaluation -> {"unused", "asked", "ended", "accepted", "applied", "stale"}]
           /\ \A e \in Evaluation : evaluation'[e] = "applied" <=> evaluation[e] = "applied"
BY DEF RowTypes, Enqueued, Refused

\* cancelOpenDispatchIntents cancels what was proposed or approved.
LEMMA CancelledIntents ==
    ASSUME RowTypes
    PROVE  /\ Cancelled \in [Evaluation -> [status : IntentStatus, version : 0..MaxVersion]]
           /\ \A e \in Evaluation :
                 /\ Cancelled[e].version = intent[e].version
                 /\ intent[e].status \in {"none", "dispatched"} => Cancelled[e] = intent[e]
BY DEF RowTypes, Cancelled, IntentStatus

\* supersedeWaits leaves no wait open.
LEMMA ClosedWaits ==
    ASSUME RowTypes
    PROVE  Closed \in [Evaluation -> {"none", "closed"}]
BY DEF RowTypes, Closed

\* Every step keeps every variable in its type.
LEMMA TypeStep == ASSUME Types, [Next]_vars PROVE Types'
<1> USE WorkDispatchAssumption DEF Types
<1> DEFINE SameWork == UNCHANGED <<work, mandate>>
           SameRows == UNCHANGED <<evaluation, wait, intent, due>>
           SameRuns == UNCHANGED <<run, outbox, signalled, boundary, human>>
           SameWire == UNCHANGED <<pass, out>>
           SameHub  == UNCHANGED <<callback, found, crashes>>
<1>1. /\ SameWork => WorkTypes' /\ MandateTypes'
      /\ SameRows => RowTypes'
      /\ SameRuns => RunTypes'
      /\ SameWire => WireTypes'
      /\ SameHub => HubTypes'
  BY DEF WorkTypes, MandateTypes, RowTypes, RunTypes, WireTypes, HubTypes
<1>2. Released \in {Free, work} /\ Free \in {Free, OnOwner, Retired}
  BY DEF Released
<1>3. /\ UNCHANGED work \/ work' \in {Free, Released, OnOwner, Retired} => WorkTypes'
      /\ \A e \in Evaluation : work' \in {OnRouter(e), OnRun(e)} => WorkTypes'
  BY <1>2 DEF WorkTypes
<1>4. CASE UNCHANGED vars
  BY <1>1, <1>4 DEF vars, rows, runs, wire, hub
<1>5. CASE Ask
  <2>1. RowTypes'
    BY <1>5, EnqueuedAsks DEF Ask, RowTypes
  <2> QED
    BY <1>1, <1>5, <2>1 DEF Ask, runs, wire, hub
<1>6. CASE StartHuman \/ EndHuman
  <2>1. RunTypes'
    BY <1>6 DEF StartHuman, EndHuman, RunTypes
  <2> QED
    BY <1>1, <1>6, <2>1 DEF StartHuman, EndHuman, rows, wire, hub
<1>7. ASSUME NEW status \in {"active", "paused", "revoked"}, NewVersion(status, FALSE), WorkTypes' PROVE Types'
  <2>1. MandateTypes'
    BY <1>7 DEF NewVersion, MandateTypes
  <2>2. RowTypes'
    BY <1>7, CancelledIntents DEF NewVersion, RowTypes
  <2>3. RunTypes' /\ WireTypes'
    BY <1>7, <1>1 DEF NewVersion, runs, wire
  <2>4. HubTypes'
    BY <1>7 DEF NewVersion, HubTypes
  <2> QED
    BY <1>7, <2>1, <2>2, <2>3, <2>4
<1>8. CASE CreateMandate \/ AcceptWork \/ ChangeStatus
  BY <1>3, <1>7, <1>8 DEF CreateMandate, AcceptWork, ChangeStatus
<1>9. CASE ExpireMandate
  <2>1. MandateTypes'
    BY <1>9 DEF ExpireMandate, MandateTypes
  <2>2. RowTypes'
    BY <1>9 DEF ExpireMandate, RowTypes
  <2> QED
    BY <1>1, <1>3, <1>9, <2>1, <2>2 DEF ExpireMandate, runs, wire, hub
<1>10. CASE Reassign \/ Retire
  <2>1. RowTypes'
    BY <1>10, CancelledIntents DEF Reassign, Retire, RowTypes
  <2>2. WorkTypes' /\ MandateTypes'
    BY <1>3, <1>10 DEF Reassign, Retire, MandateTypes
  <2> QED
    BY <1>1, <1>10, <2>1, <2>2 DEF Reassign, Retire, runs, wire, hub
<1>11. CASE Sweep \/ Notify \/ Crash
  <2>1. \A s \in Sweeper : Read(s) => found' \in [Sweeper -> SUBSET Evaluation]
    BY DEF Read, HubTypes
  <2>2. found' \in [Sweeper -> SUBSET Evaluation]
    BY <1>11, <2>1 DEF Sweep, Notify, Crash, Sweeper
  <2>3. crashes' \in Nat
    BY <1>11 DEF Sweep, Notify, Crash, HubTypes
  <2>4. callback' \in BOOLEAN
    <3>1. callback' = callback \/ callback' = FALSE
      BY <1>11, Zenon DEF Sweep, Notify, Crash
    <3> QED
      BY <3>1, Zenon DEF HubTypes
  <2>5. HubTypes'
    BY <2>2, <2>3, <2>4 DEF HubTypes
  <2>6. WireTypes'
    <3>1. UNCHANGED wire \/ (pass' = [w \in Worker |-> NoPass] /\ out' = out)
      BY <1>11, Zenon DEF Sweep, Notify, Crash
    <3>2. NoPass \in [of : {0} \union Evaluation, at : {"none", "claimed", "passed", "put"}, late : BOOLEAN]
      BY DEF NoPass
    <3>3. pass' = [w \in Worker |-> NoPass] /\ out' = out => WireTypes'
      BY <3>2 DEF WireTypes
    <3> QED
      BY <1>1, <3>1, <3>3 DEF wire
  <2> QED
    BY <1>1, <1>11, <2>5, <2>6 DEF Sweep, Notify, Crash, rows, runs
<1> SUFFICES ASSUME NEW e \in Evaluation,
                    \/ Conclude(e)
                    \/ ApplyStale(e) \/ ApplyDispatch(e) \/ ApplyWait(e) \/ ApplyOther(e)
                    \/ Resume(e) \/ Elapse(e) \/ ExpireWait(e)
                    \/ Approve(e) \/ Reject(e) \/ Dispatch(e) \/ AutoDispatch(e)
                    \/ Ack(e) \/ Start(e) \/ EndRun(e) \/ CheckBoundary(e) \/ CancelSuperseded(e) \/ Deliver(e)
                    \/ \E s \in Sweeper : Mark(s, e)
             PROVE  Types'
  BY <1>4, <1>5, <1>6, <1>8, <1>9, <1>10, <1>11 DEF Next
<1>12. CASE Conclude(e) \/ Elapse(e)
  <2>1. RowTypes'
    BY <1>12 DEF Conclude, Elapse, RowTypes
  <2> QED
    BY <1>1, <1>12, <2>1 DEF Conclude, Elapse, runs, wire, hub
<1>13. ASSUME Apply(e, "stale") \/ Apply(e, "applied"), WorkTypes',
              wait' \in [Evaluation -> {"none", "open", "closed"}],
              \/ UNCHANGED intent
              \/ intent' = [intent EXCEPT ![e] = [status |-> "proposed", version |-> mandate.version]]
       PROVE  Types'
  <2>1. RowTypes'
    BY <1>13 DEF Apply, RowTypes, MandateTypes, IntentStatus
  <2> QED
    BY <1>1, <1>13, <2>1 DEF Apply, MandateTypes, runs, wire, hub
<1>14. CASE ApplyStale(e) \/ ApplyDispatch(e) \/ ApplyWait(e) \/ ApplyOther(e)
  <2>1. wait' \in [Evaluation -> {"none", "open", "closed"}]
    BY <1>14, ClosedWaits DEF ApplyStale, ApplyDispatch, ApplyWait, ApplyOther, RowTypes
  <2>2. WorkTypes'
    BY <1>2, <1>3, <1>14 DEF ApplyStale, ApplyDispatch, ApplyWait, ApplyOther
  <2> QED
    BY <1>13, <1>14, <2>1, <2>2 DEF ApplyStale, ApplyDispatch, ApplyWait, ApplyOther
<1>15. CASE Resume(e) \/ ExpireWait(e)
  <2>1. RowTypes'
    BY <1>15, EnqueuedAsks DEF Resume, ExpireWait, RowTypes
  <2>2. WorkTypes' /\ MandateTypes'
    BY <1>2, <1>3, <1>15 DEF Resume, ExpireWait, MandateTypes
  <2> QED
    BY <1>1, <1>15, <2>1, <2>2 DEF Resume, ExpireWait, runs, wire, hub
<1>16. ASSUME NEW status \in {"approved", "rejected", "expired"}, Decide(e, status) PROVE Types'
  <2>1. RowTypes'
    BY <1>16 DEF Decide, RowTypes, IntentStatus
  <2> QED
    BY <1>1, <1>16, <2>1 DEF Decide, runs, wire, hub
<1>17. CASE CreateRun(e)
  <2>1. RowTypes' /\ RunTypes'
    BY <1>17 DEF CreateRun, RowTypes, RunTypes, IntentStatus, Ongoing
  <2> QED
    BY <1>1, <1>3, <1>17, <2>1 DEF CreateRun, MandateTypes, wire, hub
<1>18. CASE Approve(e) \/ Reject(e) \/ Dispatch(e) \/ AutoDispatch(e)
  BY <1>16, <1>17, <1>18 DEF Approve, Reject, Dispatch, AutoDispatch, Expire, Unbound
<1>19. ASSUME Over(e), UNCHANGED found, WireTypes' PROVE Types'
  <2>1. RunTypes'
    BY <1>19 DEF Over, RunTypes
  <2> QED
    BY <1>1, <1>3, <1>19, <2>1 DEF Over, rows, HubTypes, MandateTypes
<1>20. CASE Ack(e) \/ Start(e)
  <2>1. RunTypes'
    BY <1>20 DEF Ack, Start, RunTypes, Ongoing
  <2> QED
    BY <1>1, <1>20, <2>1 DEF Ack, Start, rows, wire, hub
<1>21. CASE EndRun(e) \/ CancelSuperseded(e)
  BY <1>1, <1>19, <1>21 DEF EndRun, CancelSuperseded, Over
<1>24. CASE Deliver(e)
  <2>1. PICK w \in Worker : Claim(w, e) \/ Check(w, e) \/ Put(w, e) \/ MarkSent(w, e)
    BY <1>24 DEF Deliver
  <2>2. WireTypes'
    <3>1. /\ \/ \E c \in {"claimed", "passed"}, l \in BOOLEAN : pass' = [pass EXCEPT ![w] = [of |-> e, at |-> c, late |-> l]]
             \/ pass' = [pass EXCEPT ![w].at = "passed"]
             \/ pass' = [pass EXCEPT ![w] = NoPass]
             \/ pass' = [pass EXCEPT ![w].at = "put"]
          /\ out' \in {out, out \union {e}}
      BY <2>1 DEF Claim, Check, Put, MarkSent, Over
    <3> DEFINE Hands == [of : {0} \union Evaluation, at : {"none", "claimed", "passed", "put"}, late : BOOLEAN]
    <3>2. pass \in [Worker -> Hands] /\ out \subseteq Evaluation
      BY DEF WireTypes
    <3>3. NoPass \in Hands /\ \A c \in {"claimed", "passed"}, l \in BOOLEAN : [of |-> e, at |-> c, late |-> l] \in Hands
      BY DEF NoPass
    <3>4. \A c \in {"passed", "put"} : [pass[w] EXCEPT !.at = c] \in Hands
      BY <3>2
    <3>5. \A c \in {"passed", "put"} : pass' = [pass EXCEPT ![w].at = c] => pass' = [pass EXCEPT ![w] = [pass[w] EXCEPT !.at = c]]
      BY <3>2
    <3>6. \A h \in Hands : pass' = [pass EXCEPT ![w] = h] => pass' \in [Worker -> Hands]
      BY <3>2
    <3> HIDE DEF Hands
    <3>7. pass' \in [Worker -> Hands]
      BY <3>1, <3>3, <3>4, <3>5, <3>6
    <3> QED
      BY <3>1, <3>2, <3>7 DEF WireTypes, Hands
  <2>3. CASE Over(e) /\ UNCHANGED found
    BY <1>19, <2>2, <2>3
  <2>4. CASE UNCHANGED <<work, mandate, rows, run, signalled, boundary, human, hub>>
    <3>1. RunTypes'
      BY <2>1, <2>4 DEF Claim, Check, Put, MarkSent, runs, RunTypes, Over
    <3> QED
      BY <1>1, <2>2, <2>4, <3>1 DEF rows, hub
  <2> QED
    BY <1>24, <2>3, <2>4, DeliverEffect
<1>22. CASE CheckBoundary(e)
  <2>1. RowTypes' /\ RunTypes'
    BY <1>22, EnqueuedAsks DEF CheckBoundary, RowTypes, RunTypes
  <2> QED
    BY <1>1, <1>22, <2>1 DEF CheckBoundary, wire, hub
<1>23. CASE \E s \in Sweeper : Mark(s, e)
  <2>1. RunTypes' /\ HubTypes'
    BY <1>23 DEF Mark, RunTypes, HubTypes
  <2> QED
    BY <1>1, <1>23, <2>1 DEF Mark, rows, wire
<1> QED
  BY <1>12, <1>14, <1>15, <1>18, <1>20, <1>21, <1>22, <1>23, <1>24

\* Every step keeps the order in which intents and Runs come about.
LEMMA MadeStep == ASSUME Types, Made, [Next]_vars PROVE Made'
<1> USE WorkDispatchAssumption DEF Types, Made
<1> DEFINE Kept(e) == /\ evaluation'[e] # "applied" => intent'[e].status = "none"
                      /\ run'[e] # "none" => intent'[e].status = "dispatched"
                      /\ intent'[e].version <= mandate'.version
<1>1. CASE UNCHANGED vars
  BY <1>1 DEF vars, rows, runs
<1>2. CASE Ask \/ StartHuman \/ EndHuman \/ Sweep \/ Notify \/ Crash
  <2>1. RowTypes => UNCHANGED <<intent, mandate>> /\ \A e \in Evaluation :
           (evaluation'[e] = "applied" <=> evaluation[e] = "applied") /\ (run'[e] = "none" <=> run[e] = "none")
    BY <1>2, EnqueuedAsks DEF Ask, StartHuman, EndHuman, Sweep, Notify, Crash, rows, runs
  <2> QED
    BY <2>1
<1>3. CASE CreateMandate \/ AcceptWork \/ ChangeStatus \/ ExpireMandate \/ Reassign \/ Retire
  <2>1. intent' \in {intent, Cancelled} /\ UNCHANGED <<evaluation, run>>
    BY <1>3 DEF CreateMandate, AcceptWork, ChangeStatus, NewVersion, ExpireMandate, Reassign, Retire, runs
  <2>2. mandate'.version >= mandate.version
    BY <1>3 DEF CreateMandate, AcceptWork, ChangeStatus, NewVersion, ExpireMandate, Reassign, Retire, MandateTypes
  <2>3. mandate.version \in Nat /\ mandate'.version \in Nat
    BY <1>3, TypeStep DEF MandateTypes
  <2>4. \A e \in Evaluation : intent[e].version \in Nat
    BY DEF RowTypes
  <2> QED
    BY <2>1, <2>2, <2>3, <2>4, CancelledIntents
<1> SUFFICES ASSUME NEW e \in Evaluation,
                    \/ Conclude(e)
                    \/ ApplyStale(e) \/ ApplyDispatch(e) \/ ApplyWait(e) \/ ApplyOther(e)
                    \/ Resume(e) \/ Elapse(e) \/ ExpireWait(e)
                    \/ Approve(e) \/ Reject(e) \/ Dispatch(e) \/ AutoDispatch(e)
                    \/ Ack(e) \/ Start(e) \/ EndRun(e) \/ CheckBoundary(e) \/ CancelSuperseded(e) \/ Deliver(e)
                    \/ \E s \in Sweeper : Mark(s, e),
                    NEW x \in Evaluation
             PROVE  Kept(x)
  BY <1>1, <1>2, <1>3 DEF Next
<1>4. CASE ApplyDispatch(e)
  <2>1. UNCHANGED <<mandate, run>> /\ run[e] = "none" /\ mandate.version \in Nat
    BY <1>4 DEF ApplyDispatch, Apply, MandateTypes, RowTypes, runs
  <2>2. evaluation' \in {[evaluation EXCEPT ![e] = "stale"], [evaluation EXCEPT ![e] = "applied"]}
    BY <1>4 DEF ApplyDispatch, Apply
  <2>3. intent' = intent \/ /\ intent' = [intent EXCEPT ![e] = [status |-> "proposed", version |-> mandate.version]]
                            /\ evaluation'[e] = "applied"
    BY <1>4 DEF ApplyDispatch, Apply, RowTypes
  <2>4. evaluation[e] = "accepted"
    BY <1>4 DEF ApplyDispatch, Apply
  <2> QED
    BY <2>1, <2>2, <2>3, <2>4 DEF RowTypes
<1>5. CASE ApplyStale(e) \/ ApplyWait(e) \/ ApplyOther(e) \/ Conclude(e)
  <2>1. UNCHANGED <<mandate, run, intent>>
    BY <1>5 DEF ApplyStale, ApplyWait, ApplyOther, Apply, Conclude, runs
  <2>2. evaluation[e] \in {"accepted", "asked"} /\ \A y \in Evaluation : y # e => evaluation'[y] = evaluation[y]
    BY <1>5 DEF ApplyStale, ApplyWait, ApplyOther, Apply, Conclude, RowTypes
  <2> QED
    BY <2>1, <2>2
<1>6. CASE Resume(e) \/ ExpireWait(e) \/ CheckBoundary(e) \/ Elapse(e)
  <2>1. UNCHANGED <<mandate, intent, run>> /\ (evaluation'[x] = "applied" <=> evaluation[x] = "applied")
    BY <1>6, EnqueuedAsks DEF Resume, ExpireWait, CheckBoundary, Elapse, runs
  <2> QED
    BY <2>1
<1>7. ASSUME NEW status, Decide(e, status), intent[e].status \in {"proposed", "approved"} PROVE Kept(x)
  BY <1>7 DEF Decide, runs, RowTypes
<1>8. CASE CreateRun(e) /\ intent[e].status \in {"proposed", "approved"}
  BY <1>8 DEF CreateRun, RowTypes, RunTypes
<1>9. CASE Approve(e) \/ Reject(e) \/ Dispatch(e) \/ AutoDispatch(e)
  BY <1>7, <1>8, <1>9 DEF Approve, Reject, Dispatch, AutoDispatch, Expire, Unbound
<1>10. CASE Ack(e) \/ Start(e) \/ EndRun(e) \/ CancelSuperseded(e) \/ Deliver(e) \/ \E s \in Sweeper : Mark(s, e)
  <2>1. UNCHANGED <<mandate, intent, evaluation>>
    BY <1>10, DeliverEffect DEF Ack, Start, EndRun, CancelSuperseded, Mark, Over, rows
  <2>2. run[x] = "none" <=> run'[x] = "none"
    BY <1>10, DeliverEffect DEF Ack, Start, EndRun, CancelSuperseded, Mark, Over, RunTypes, Ongoing
  <2> QED
    BY <2>1, <2>2
<1> QED
  BY <1>4, <1>5, <1>6, <1>9, <1>10

\* The Work waits for no Run and has not ended.
Unbusy == work.on # "run" /\ work.state # "retired"

\* A Run is made or goes on as this says, and nothing else is done to Runs.
LEMMA RunSteps ==
    ASSUME Types, [Next]_vars
    PROVE  \/ /\ run' = run
              /\ work' = work \/ Unbusy \/ work' = Retired \/ Reassign
           \/ \E e \in Evaluation :
                 \/ /\ CreateRun(e) /\ work.state = "active"
                    /\ Current(e) /\ ~due[e] /\ intent[e].status \in {"proposed", "approved"}
                 \/ /\ run[e] \in Ongoing /\ run' = [run EXCEPT ![e] = "over"]
                    /\ work' = IF work = OnRun(e) THEN Free ELSE work
                 \/ /\ run[e] = "queued" /\ run' = [run EXCEPT ![e] = "dispatching"]
                    /\ work' = work
                 \/ /\ run[e] = "dispatching" /\ run' = [run EXCEPT ![e] = "running"]
                    /\ work' = work
<1> USE DEF Types
<1> DEFINE Still == run' = run /\ (work' = work \/ Unbusy \/ work' = Retired \/ Reassign)
<1>0. WorkTypes
  OBVIOUS
<1>1. CASE UNCHANGED vars
  BY <1>1 DEF vars, runs
<1>2. CASE Ask \/ StartHuman \/ EndHuman \/ Sweep \/ Notify \/ Crash \/ ExpireMandate \/ Reassign \/ Retire
  <2>1. Still
    BY <1>2 DEF Ask, StartHuman, EndHuman, Sweep, Notify, Crash, ExpireMandate, Reassign, Retire, runs
  <2> QED
    BY <2>1
<1>3. CASE CreateMandate \/ AcceptWork \/ ChangeStatus
  <2>1. Still
    BY <1>0, <1>3, WorkForms DEF CreateMandate, AcceptWork, ChangeStatus, NewVersion, runs, OnOwner, Unbusy
  <2> QED
    BY <2>1
<1> SUFFICES ASSUME NEW e \in Evaluation,
                    \/ Conclude(e)
                    \/ ApplyStale(e) \/ ApplyDispatch(e) \/ ApplyWait(e) \/ ApplyOther(e)
                    \/ Resume(e) \/ Elapse(e) \/ ExpireWait(e)
                    \/ Approve(e) \/ Reject(e) \/ Dispatch(e) \/ AutoDispatch(e)
                    \/ Ack(e) \/ Start(e) \/ EndRun(e) \/ CheckBoundary(e) \/ CancelSuperseded(e) \/ Deliver(e)
                    \/ \E s \in Sweeper : Mark(s, e)
             PROVE  \/ Still
                    \/ /\ CreateRun(e) /\ work.state = "active"
                       /\ Current(e) /\ ~due[e] /\ intent[e].status \in {"proposed", "approved"}
                    \/ /\ run[e] \in Ongoing /\ run' = [run EXCEPT ![e] = "over"]
                       /\ work' = IF work = OnRun(e) THEN Free ELSE work
                    \/ /\ run[e] = "queued" /\ run' = [run EXCEPT ![e] = "dispatching"]
                       /\ work' = work
                    \/ /\ run[e] = "dispatching" /\ run' = [run EXCEPT ![e] = "running"]
                       /\ work' = work
  BY <1>1, <1>2, <1>3 DEF Next
<1>4. CASE Conclude(e) \/ ApplyStale(e) \/ Elapse(e) \/ Approve(e) \/ Reject(e) \/ CheckBoundary(e)
           \/ \E s \in Sweeper : Mark(s, e)
  BY <1>4 DEF Conclude, ApplyStale, Apply, Elapse, Approve, Reject, Decide, CheckBoundary, Mark, runs
<1>5. CASE ApplyDispatch(e) \/ ApplyWait(e) \/ ApplyOther(e) \/ Resume(e) \/ ExpireWait(e)
  <2>1. Released = work \/ Unbusy
    BY <1>0, WorkForms DEF Released, Unbusy, OnRouter
  <2>2. work.state = "active" \/ work = OnRouter(e) \/ work.on = "router" => Unbusy
    BY <1>0, WorkForms DEF Free, OnRouter, Unbusy
  <2> QED
    BY <1>5, <2>1, <2>2 DEF ApplyDispatch, ApplyWait, ApplyOther, Apply, Resume, ExpireWait, runs
<1>6. CASE Dispatch(e) \/ AutoDispatch(e)
  BY <1>6 DEF Dispatch, AutoDispatch, Expire, Unbound, Decide, runs
<1>7. CASE Ack(e) \/ Start(e) \/ EndRun(e) \/ CancelSuperseded(e) \/ Deliver(e)
  BY <1>7, DeliverEffect DEF Ack, Start, EndRun, CancelSuperseded, Over, Ongoing
<1> QED
  BY <1>4, <1>5, <1>6, <1>7

\* The Work stays with its ongoing Run.
LEMMA RunHoldsStep ==
    ASSUME Types, RunHolds, [Next]_vars PROVE RunHolds'
<1> USE DEF Types
<1>0. WorkTypes
  OBVIOUS
<1>1. SUFFICES ASSUME NEW x \in Evaluation, run'[x] \in Ongoing
               PROVE  work' \in {OnRun(x), Retired}
  BY DEF RunHolds
<1>2. ASSUME run[x] \in Ongoing
      PROVE  work \in {OnRun(x), Retired} /\ ActiveRun /\ ~Unbusy /\ work.state # "active"
  BY <1>0, <1>2, WorkForms DEF RunHolds, ActiveRun, Unbusy, OnRun, Retired
<1>3. CASE run' = run /\ (work' = work \/ Unbusy \/ work' = Retired \/ Reassign)
  BY <1>1, <1>2, <1>3 DEF Reassign
<1>4. ASSUME NEW e \in Evaluation, CreateRun(e), work.state = "active" PROVE work' \in {OnRun(x), Retired}
  <2>1. x = e
    BY <1>1, <1>2, <1>4 DEF CreateRun, RunTypes
  <2> QED
    BY <1>4, <2>1 DEF CreateRun
<1>5. ASSUME NEW e \in Evaluation, run' = [run EXCEPT ![e] = "over"],
             work' = IF work = OnRun(e) THEN Free ELSE work
      PROVE  work' \in {OnRun(x), Retired}
  <2>1. x # e /\ run[x] \in Ongoing
    BY <1>1, <1>5 DEF RunTypes, Ongoing
  <2>2. work # OnRun(e)
    BY <1>0, <1>2, <2>1, WorkForms
  <2> QED
    BY <1>2, <1>5, <2>1, <2>2
<1>6. ASSUME NEW e \in Evaluation, run[e] \in Ongoing, work' = work,
             run' = [run EXCEPT ![e] = "dispatching"] \/ run' = [run EXCEPT ![e] = "running"]
      PROVE  work' \in {OnRun(x), Retired}
  <2>1. run[x] \in Ongoing
    BY <1>1, <1>6 DEF RunTypes
  <2> QED
    BY <1>2, <1>6, <2>1
<1> QED
  BY <1>3, <1>4, <1>5, <1>6, RunSteps DEF Ongoing

\* What a step may do to the Work, to its waits and to its mandate.
LEMMA WorkMoves ==
    ASSUME Types, [Next]_vars
    PROVE  \/ work' = work
           \/ work.state # "retired" /\ work.on # "owner"
           \/ work' = Retired
           \/ mandate'.version = mandate.version + 1
           \/ work' = OnOwner
<1> USE DEF Types
<1>0. WorkTypes
  OBVIOUS
<1> DEFINE Elsewhere == work.state # "retired" /\ work.on # "owner"
<1>1. CASE UNCHANGED vars
  BY <1>1 DEF vars
<1>2. CASE Ask \/ StartHuman \/ EndHuman \/ Sweep \/ Notify \/ Crash \/ ExpireMandate \/ Reassign \/ Retire
           \/ CreateMandate \/ AcceptWork \/ ChangeStatus
  BY <1>2 DEF Ask, StartHuman, EndHuman, Sweep, Notify, Crash, ExpireMandate, Reassign, Retire,
              CreateMandate, AcceptWork, ChangeStatus, NewVersion
<1>3. work.state = "active" \/ work.on = "router" => Elsewhere
  BY <1>0, WorkForms DEF Free, OnRouter
<1>4. \A e \in Evaluation : work = OnRouter(e) \/ work = OnRun(e) => Elsewhere
  BY DEF OnRouter, OnRun
<1>5. Released = work \/ Elsewhere
  BY <1>3 DEF Released
<1> HIDE DEF Elsewhere
<1> SUFFICES ASSUME NEW e \in Evaluation,
                    \/ Conclude(e)
                    \/ ApplyStale(e) \/ ApplyDispatch(e) \/ ApplyWait(e) \/ ApplyOther(e)
                    \/ Resume(e) \/ Elapse(e) \/ ExpireWait(e)
                    \/ Approve(e) \/ Reject(e) \/ Dispatch(e) \/ AutoDispatch(e)
                    \/ Ack(e) \/ Start(e) \/ EndRun(e) \/ CheckBoundary(e) \/ CancelSuperseded(e) \/ Deliver(e)
                    \/ \E s \in Sweeper : Mark(s, e)
             PROVE  work' = work \/ Elsewhere
  BY <1>1, <1>2 DEF Next, Elsewhere
<1>6. CASE Conclude(e) \/ ApplyStale(e) \/ Elapse(e) \/ Approve(e) \/ Reject(e) \/ CheckBoundary(e)
           \/ Start(e) \/ \E s \in Sweeper : Mark(s, e)
  BY <1>6 DEF Conclude, ApplyStale, Elapse, Approve, Reject, Decide, CheckBoundary, Mark, Start
<1>7. CASE ApplyDispatch(e) \/ ApplyWait(e) \/ ApplyOther(e) \/ Resume(e) \/ ExpireWait(e)
  BY <1>3, <1>4, <1>5, <1>7 DEF ApplyDispatch, ApplyWait, ApplyOther, Resume, ExpireWait
<1>8. CASE Dispatch(e) \/ AutoDispatch(e)
  BY <1>3, <1>8 DEF Dispatch, AutoDispatch, Expire, Unbound, Decide
<1>9. CASE Ack(e) \/ EndRun(e) \/ CancelSuperseded(e) \/ Deliver(e)
  BY <1>4, <1>9, DeliverEffect DEF Ack, EndRun, CancelSuperseded, Over
<1> QED
  BY <1>6, <1>7, <1>8, <1>9

\* A step that leaves the Work waiting for a Router wait leaves that wait open.
LEMMA WaitMoves ==
    ASSUME Types, Waits, [Next]_vars, NEW x \in Evaluation, work' = OnRouter(x)
    PROVE  wait'[x] = "open"
<1> USE DEF Types
<1>0. WorkTypes
  OBVIOUS
<1>a. /\ OnRouter(x).on = "router" /\ OnRouter(x).of = x /\ Released # OnRouter(x)
      /\ OnRouter(x) \notin {Free, OnOwner, Retired}
      /\ \A e \in Evaluation : OnRouter(x) # OnRun(e)
  BY DEF OnRouter, Released, Free, OnOwner, Retired, OnRun
<1>1. ASSUME work' = work, wait' = wait PROVE wait'[x] = "open"
  BY <1>1 DEF Waits
<1>2. CASE UNCHANGED vars
  BY <1>1, <1>2 DEF vars, rows
<1>3. CASE Ask \/ StartHuman \/ EndHuman \/ Sweep \/ Notify \/ Crash \/ ExpireMandate \/ Reassign \/ Retire
           \/ CreateMandate \/ AcceptWork \/ ChangeStatus
  BY <1>a, <1>1, <1>3 DEF Ask, StartHuman, EndHuman, Sweep, Notify, Crash, ExpireMandate, Reassign, Retire,
              CreateMandate, AcceptWork, ChangeStatus, NewVersion, rows
<1> SUFFICES ASSUME NEW e \in Evaluation,
                    \/ Conclude(e)
                    \/ ApplyStale(e) \/ ApplyDispatch(e) \/ ApplyWait(e) \/ ApplyOther(e)
                    \/ Resume(e) \/ Elapse(e) \/ ExpireWait(e)
                    \/ Approve(e) \/ Reject(e) \/ Dispatch(e) \/ AutoDispatch(e)
                    \/ Ack(e) \/ Start(e) \/ EndRun(e) \/ CheckBoundary(e) \/ CancelSuperseded(e) \/ Deliver(e)
                    \/ \E s \in Sweeper : Mark(s, e)
             PROVE  wait'[x] = "open"
  BY <1>2, <1>3 DEF Next
<1>4. CASE Conclude(e) \/ ApplyStale(e) \/ Elapse(e) \/ Approve(e) \/ Reject(e) \/ CheckBoundary(e)
           \/ Start(e) \/ \E s \in Sweeper : Mark(s, e)
  BY <1>1, <1>4 DEF Conclude, ApplyStale, Elapse, Approve, Reject, Decide, CheckBoundary, Mark, Start, rows
<1>5. CASE ApplyDispatch(e)
  BY <1>a, <1>5 DEF ApplyDispatch
<1>6. CASE ApplyWait(e)
  <2>1. x = e
    BY <1>a, <1>6 DEF ApplyWait, OnRouter
  <2>2. Closed \in [Evaluation -> {"none", "closed"}]
    BY ClosedWaits
  <2> QED
    BY <1>6, <2>1, <2>2 DEF ApplyWait
<1>7. CASE ApplyOther(e)
  BY <1>a, <1>7 DEF ApplyOther, Open, Waits
<1>8. CASE Resume(e)
  BY <1>a, <1>8 DEF Resume
<1>9. CASE ExpireWait(e)
  <2>1. work' = work /\ x # e
    BY <1>a, <1>9 DEF ExpireWait
  <2> QED
    BY <1>9, <2>1 DEF ExpireWait, Waits, RowTypes
<1>10. CASE Dispatch(e) \/ AutoDispatch(e) \/ Ack(e) \/ EndRun(e) \/ CancelSuperseded(e) \/ Deliver(e)
  <2>1. wait' = wait /\ (work' = work \/ work' = Free \/ work' = OnRun(e))
    BY <1>10, DeliverEffect DEF Dispatch, AutoDispatch, Expire, Unbound, Decide, CreateRun, Ack, EndRun, CancelSuperseded, Over, rows
  <2> QED
    BY <1>a, <1>1, <2>1
<1> QED
  BY <1>4, <1>5, <1>6, <1>7, <1>8, <1>9, <1>10

\* A Work is woken by what it waits for.
LEMMA WaitsStep == ASSUME Types, Waits, RunHolds, [Next]_vars PROVE Waits'
<1> USE DEF Types
<1>0. WorkTypes /\ RunTypes
  OBVIOUS
<1>1. SUFFICES ASSUME NEW x \in Evaluation, work' = OnRun(x) PROVE run'[x] \in Ongoing
  BY WaitMoves DEF Waits, Ongoing
<1>2. work = OnRun(x) => run[x] \in Ongoing
  BY DEF Waits
<1>a. OnRun(x).on = "run" /\ OnRun(x) \notin {Free, OnOwner, Retired}
  BY DEF OnRun, Free, OnOwner, Retired
<1>3. \/ work' = work \/ work' \in {Free, Released, OnOwner, Retired}
      \/ \E e \in Evaluation : work' = OnRouter(e) \/ CreateRun(e)
  <2>1. CASE UNCHANGED vars
    BY <2>1 DEF vars
  <2>2. CASE Ask \/ StartHuman \/ EndHuman \/ Sweep \/ Notify \/ Crash \/ ExpireMandate \/ Reassign \/ Retire
             \/ CreateMandate \/ AcceptWork \/ ChangeStatus
    BY <2>2 DEF Ask, StartHuman, EndHuman, Sweep, Notify, Crash, ExpireMandate, Reassign, Retire,
                CreateMandate, AcceptWork, ChangeStatus, NewVersion
  <2>3. ASSUME NEW e \in Evaluation,
               \/ Conclude(e)
               \/ ApplyStale(e) \/ ApplyDispatch(e) \/ ApplyWait(e) \/ ApplyOther(e)
               \/ Resume(e) \/ Elapse(e) \/ ExpireWait(e)
               \/ Approve(e) \/ Reject(e) \/ Dispatch(e) \/ AutoDispatch(e)
               \/ Ack(e) \/ Start(e) \/ EndRun(e) \/ CheckBoundary(e) \/ CancelSuperseded(e) \/ Deliver(e)
               \/ \E s \in Sweeper : Mark(s, e)
        PROVE  work' = work \/ work' \in {Free, Released} \/ work' = OnRouter(e) \/ CreateRun(e)
    BY <2>3, DeliverEffect DEF Conclude, ApplyStale, ApplyDispatch, ApplyWait, ApplyOther, Resume, Elapse, ExpireWait,
                Approve, Reject, Dispatch, AutoDispatch, Expire, Unbound, Decide, Ack, Start, EndRun,
                CheckBoundary, CancelSuperseded, Over, Mark
  <2> QED
    BY <2>1, <2>2, <2>3 DEF Next
<1>4. CASE work' # work
  <2>1. Released = work \/ Released = Free
    BY DEF Released
  <2>2. PICK e \in Evaluation : CreateRun(e)
    BY <1>0, <1>1, <1>3, <1>4, <1>a, <2>1, WorkForms
  <2> QED
    BY <1>0, <1>1, <2>2, WorkForms DEF CreateRun, RunTypes, Ongoing
<1>5. CASE work' = work
  <2>1. work = OnRun(x) /\ work.on = "run" /\ ~Unbusy /\ run[x] \in Ongoing /\ work.state # "active"
    BY <1>1, <1>2, <1>5, <1>a DEF Unbusy, OnRun
  <2>2. CASE run' = run
    BY <2>1, <2>2
  <2>3. ASSUME NEW e \in Evaluation, run' = [run EXCEPT ![e] = "over"],
               work' = IF work = OnRun(e) THEN Free ELSE work
        PROVE  run'[x] \in Ongoing
    BY <1>1, <1>a, <2>1, <2>3 DEF RunTypes
  <2>4. ASSUME NEW e \in Evaluation,
               run' = [run EXCEPT ![e] = "dispatching"] \/ run' = [run EXCEPT ![e] = "running"]
        PROVE  run'[x] \in Ongoing
    BY <2>1, <2>4 DEF RunTypes, Ongoing
  <2> QED
    BY <2>1, <2>2, <2>3, <2>4, RunSteps
<1> QED
  BY <1>4, <1>5

\* A mandate only gets newer, or runs out.
LEMMA MandateMoves ==
    ASSUME Types, [Next]_vars
    PROVE  \/ mandate' = mandate
           \/ mandate'.version = mandate.version + 1
           \/ mandate'.version = mandate.version /\ mandate'.expired
<1> USE DEF Types
<1>1. CASE UNCHANGED vars
  BY <1>1 DEF vars
<1>2. CASE CreateMandate \/ AcceptWork \/ ChangeStatus
  BY <1>2 DEF CreateMandate, AcceptWork, ChangeStatus, NewVersion
<1>3. CASE ExpireMandate
  BY <1>3 DEF ExpireMandate, MandateTypes
<1>4. CASE Ask \/ StartHuman \/ EndHuman \/ Sweep \/ Notify \/ Crash \/ Reassign \/ Retire
  BY <1>4 DEF Ask, StartHuman, EndHuman, Sweep, Notify, Crash, Reassign, Retire
<1>5. ASSUME NEW e \in Evaluation,
             \/ Conclude(e)
             \/ ApplyStale(e) \/ ApplyDispatch(e) \/ ApplyWait(e) \/ ApplyOther(e)
             \/ Resume(e) \/ Elapse(e) \/ ExpireWait(e)
             \/ Approve(e) \/ Reject(e) \/ Dispatch(e) \/ AutoDispatch(e)
             \/ Ack(e) \/ Start(e) \/ EndRun(e) \/ CheckBoundary(e) \/ CancelSuperseded(e) \/ Deliver(e)
             \/ \E s \in Sweeper : Mark(s, e)
      PROVE  mandate' = mandate
  BY <1>5, DeliverEffect DEF Conclude, ApplyStale, ApplyDispatch, ApplyWait, ApplyOther, Apply, Resume, Elapse, ExpireWait,
              Approve, Reject, Dispatch, AutoDispatch, Expire, Unbound, Decide, CreateRun, Ack, Start, EndRun,
              CheckBoundary, CancelSuperseded, Over, Mark
<1> QED
  BY <1>1, <1>2, <1>3, <1>4, <1>5 DEF Next

\* The intent of a Run is settled, its version included.
LEMMA IntentStands ==
    ASSUME Types, Made, [Next]_vars, NEW x \in Evaluation, run[x] # "none"
    PROVE  intent'[x].version = intent[x].version
<1> USE DEF Types, Made
<1>0. /\ intent[x].status = "dispatched" /\ evaluation[x] = "applied"
      /\ intent \in [Evaluation -> [status : IntentStatus, version : 0..MaxVersion]]
  BY DEF RowTypes
<1>1. CASE UNCHANGED vars
  BY <1>1 DEF vars, rows
<1>2. CASE intent' \in {intent, Cancelled}
  BY <1>0, <1>2, CancelledIntents
<1>3. CASE Ask \/ StartHuman \/ EndHuman \/ Sweep \/ Notify \/ Crash
  BY <1>3 DEF Ask, StartHuman, EndHuman, Sweep, Notify, Crash, rows
<1>4. CASE CreateMandate \/ AcceptWork \/ ChangeStatus \/ ExpireMandate \/ Reassign \/ Retire
  BY <1>2, <1>4 DEF CreateMandate, AcceptWork, ChangeStatus, NewVersion, ExpireMandate, Reassign, Retire
<1> SUFFICES ASSUME NEW e \in Evaluation,
                    \/ Conclude(e)
                    \/ ApplyStale(e) \/ ApplyDispatch(e) \/ ApplyWait(e) \/ ApplyOther(e)
                    \/ Resume(e) \/ Elapse(e) \/ ExpireWait(e)
                    \/ Approve(e) \/ Reject(e) \/ Dispatch(e) \/ AutoDispatch(e)
                    \/ Ack(e) \/ Start(e) \/ EndRun(e) \/ CheckBoundary(e) \/ CancelSuperseded(e) \/ Deliver(e)
                    \/ \E s \in Sweeper : Mark(s, e)
             PROVE  intent'[x].version = intent[x].version
  BY <1>1, <1>3, <1>4 DEF Next
<1>5. CASE ApplyDispatch(e)
  BY <1>0, <1>5 DEF ApplyDispatch, Apply
<1>6. ASSUME NEW status, Decide(e, status) PROVE intent'[x].version = intent[x].version
  BY <1>0, <1>6 DEF Decide
<1>7. CASE CreateRun(e)
  BY <1>0, <1>7 DEF CreateRun
<1>8. CASE Approve(e) \/ Reject(e) \/ Dispatch(e) \/ AutoDispatch(e)
  BY <1>6, <1>7, <1>8 DEF Approve, Reject, Dispatch, AutoDispatch, Expire, Unbound
<1>9. CASE \/ Conclude(e) \/ ApplyStale(e) \/ ApplyWait(e) \/ ApplyOther(e)
           \/ Resume(e) \/ Elapse(e) \/ ExpireWait(e)
           \/ Ack(e) \/ Start(e) \/ EndRun(e) \/ CheckBoundary(e) \/ CancelSuperseded(e) \/ Deliver(e)
           \/ \E s \in Sweeper : Mark(s, e)
  BY <1>9, DeliverEffect DEF Conclude, ApplyStale, ApplyWait, ApplyOther, Resume, Elapse, ExpireWait,
              Ack, Start, EndRun, CheckBoundary, CancelSuperseded, Over, Mark, rows
<1> QED
  BY <1>5, <1>8, <1>9

\* A Run is never made twice, and none comes back.
LEMMA RunsGoOn ==
    ASSUME Types, Made, [Next]_vars, NEW x \in Evaluation, run[x] \in {"running", "over"}
    PROVE  run'[x] \in {"running", "over"}
<1> USE DEF Types, Made
<1>1. \A e \in Evaluation : CreateRun(e) /\ intent[e].status \in {"proposed", "approved"} => x # e
  BY DEF RunTypes
<1>2. \A e \in Evaluation : CreateRun(e) /\ x # e => run'[x] = run[x]
  BY DEF CreateRun, RunTypes
<1>3. \A e \in Evaluation : run[e] \in {"queued", "dispatching"} => x # e
  OBVIOUS
<1>4. run \in [Evaluation -> {"none", "over"} \union Ongoing]
  BY DEF RunTypes
<1> QED
  BY <1>1, <1>2, <1>3, <1>4, RunSteps

\* What ended for a Run has ended for good.
LEMMA GoneStays ==
    ASSUME Types, Made, [Next]_vars, NEW x \in Evaluation, run[x] # "none", Gone(x)
    PROVE  Gone(x)'
<1> USE DEF Types
<1>0. WorkTypes /\ WorkTypes' /\ mandate.version \in Nat /\ mandate'.version \in Nat /\ intent[x].version \in Nat
  BY TypeStep, WorkDispatchAssumption DEF MandateTypes, RowTypes
<1>1. intent'[x].version = intent[x].version /\ intent[x].version <= mandate.version
  BY IntentStands DEF Made
<1>2. mandate'.version = mandate.version + 1 => Gone(x)'
  BY <1>0, <1>1 DEF Gone, Current
<1>3. CASE ~Current(x)
  BY <1>0, <1>1, <1>2, <1>3, MandateMoves DEF Gone, Current, InForce
<1>4. CASE work.state = "retired" \/ work.on = "owner"
  <2>1. work' \in {Retired, OnOwner} => Gone(x)'
    BY DEF Gone, Retired, OnOwner
  <2>2. work' = work => Gone(x)'
    BY <1>4 DEF Gone
  <2> QED
    BY <1>2, <1>4, <2>1, <2>2, WorkMoves
<1> QED
  BY <1>3, <1>4 DEF Gone

\* What a step may do to what the sweepers have read and told.
LEMMA SweepMoves ==
    ASSUME Types, [Next]_vars, NEW x \in Evaluation
    PROVE  /\ \A s \in Sweeper : x \in found'[s] => x \in found[s] \/ Invalid(x)
           /\ \/ signalled'[x] = signalled[x]
              \/ signalled'[x] = 1 /\ \E s \in Sweeper : x \in found[s]
<1> USE DEF Types
<1> DEFINE Still == found' = found /\ signalled' = signalled
<1>0. found \in [Sweeper -> SUBSET Evaluation] /\ signalled \in [Evaluation -> Nat]
  BY DEF HubTypes, RunTypes
<1>1. CASE UNCHANGED vars
  BY <1>1 DEF vars, hub, runs
<1>2. CASE Ask \/ StartHuman \/ EndHuman \/ ExpireMandate \/ Reassign \/ Retire
           \/ CreateMandate \/ AcceptWork \/ ChangeStatus
  BY <1>2 DEF Ask, StartHuman, EndHuman, ExpireMandate, Reassign, Retire,
              CreateMandate, AcceptWork, ChangeStatus, NewVersion, runs, hub
<1>3. CASE Sweep \/ Notify
  <2>1. signalled' = signalled
    BY <1>3 DEF Sweep, Notify, runs
  <2>2. \A s, t \in Sweeper : Read(s) => found'[t] = found[t] \/ \A y \in found'[t] : Invalid(y)
    BY <1>0 DEF Read
  <2>3. Read("timer") \/ Read("callback")
    BY <1>3 DEF Sweep, Notify
  <2>4. \A t \in Sweeper : x \in found'[t] => x \in found[t] \/ Invalid(x)
    BY <2>2, <2>3 DEF Sweeper
  <2> QED
    BY <2>1, <2>4
<1>4. CASE Crash
  BY <1>4 DEF Crash, runs
<1>5. ASSUME NEW e \in Evaluation,
             \/ Conclude(e)
             \/ ApplyStale(e) \/ ApplyDispatch(e) \/ ApplyWait(e) \/ ApplyOther(e)
             \/ Resume(e) \/ Elapse(e) \/ ExpireWait(e)
             \/ Approve(e) \/ Reject(e) \/ Dispatch(e) \/ AutoDispatch(e)
             \/ Ack(e) \/ Start(e) \/ EndRun(e) \/ CheckBoundary(e) \/ CancelSuperseded(e) \/ Deliver(e)
      PROVE  Still
  BY <1>5, DeliverEffect DEF Conclude, ApplyStale, ApplyDispatch, ApplyWait, ApplyOther, Apply, Resume, Elapse, ExpireWait,
              Approve, Reject, Dispatch, AutoDispatch, Expire, Unbound, Decide, CreateRun, Ack, Start, EndRun,
              CheckBoundary, CancelSuperseded, Over, runs, hub
<1>6. ASSUME NEW e \in Evaluation, NEW s \in Sweeper, Mark(s, e)
      PROVE  /\ \A t \in Sweeper : found'[t] \subseteq found[t]
             /\ signalled'[x] = signalled[x] \/ (signalled'[x] = 1 /\ x = e)
  <2>1. found' = [found EXCEPT ![s] = @ \ {e}] /\ signalled' \in {signalled, [signalled EXCEPT ![e] = 1]}
    BY <1>6 DEF Mark
  <2>2. \A t \in Sweeper : found'[t] \subseteq found[t]
    BY <1>0, <2>1
  <2>3. signalled'[x] = signalled[x] \/ (signalled'[x] = 1 /\ x = e)
    <3>1. CASE signalled' = [signalled EXCEPT ![e] = 1]
      BY <1>0, <3>1
    <3> QED
      BY <2>1, <3>1
  <2> QED
    BY <2>2, <2>3
<1>7. CASE \E e \in Evaluation : \E s \in Sweeper : Mark(s, e)
  BY <1>6, <1>7 DEF Mark
<1> QED
  BY <1>1, <1>2, <1>3, <1>4, <1>5, <1>7 DEF Next

\* Nothing but a Run that has been running, and whose mandate or Work is gone, is found or told.
LEMMA FoundStep ==
    ASSUME Types, Made, RunHolds, FoundRan, ToldOnce, [Next]_vars
    PROVE  FoundRan' /\ ToldOnce'
<1> SUFFICES ASSUME NEW x \in Evaluation
             PROVE  /\ signalled'[x] > 0 \/ (\E s \in Sweeper : x \in found'[s]) =>
                          run'[x] \in {"running", "over"} /\ Gone(x)'
                    /\ signalled'[x] <= 1
  BY DEF FoundRan, ToldOnce
<1>1. Invalid(x) => run[x] = "running" /\ Gone(x)
  BY WorkForms DEF Types, Invalid, WorkAllows, RunHolds, Ongoing, Gone, Retired
<1>2. signalled'[x] <= 1
  BY SweepMoves DEF ToldOnce
<1>3. signalled[x] \in Nat /\ signalled'[x] \in Nat
  BY TypeStep DEF Types, RunTypes
<1>4. signalled'[x] > 0 \/ (\E s \in Sweeper : x \in found'[s]) => run[x] \in {"running", "over"} /\ Gone(x)
  BY <1>1, <1>3, SweepMoves DEF FoundRan
<1> QED
  BY <1>2, <1>4, RunsGoOn, GoneStays

\* What a step may do to the commands and to the passes that have them in hand.
LEMMA WireMoves ==
    ASSUME [Next]_vars
    PROVE  \/ UNCHANGED <<run, outbox, pass, out>>
           \/ Crash
           \/ \E e \in Evaluation :
                 \/ CreateRun(e) /\ intent[e].status \in {"proposed", "approved"}
                 \/ Over(e) /\ UNCHANGED pass
                 \/ Ack(e) \/ Start(e) \/ Deliver(e)
<1> DEFINE Still == UNCHANGED <<run, outbox, pass, out>>
<1>1. CASE UNCHANGED vars
  BY <1>1 DEF vars, runs, wire
<1>2. CASE Ask \/ StartHuman \/ EndHuman \/ Sweep \/ Notify \/ ExpireMandate \/ Reassign \/ Retire
           \/ CreateMandate \/ AcceptWork \/ ChangeStatus
  BY <1>2 DEF Ask, StartHuman, EndHuman, Sweep, Notify, ExpireMandate, Reassign, Retire,
              CreateMandate, AcceptWork, ChangeStatus, NewVersion, runs, wire
<1>3. ASSUME NEW e \in Evaluation,
             \/ Conclude(e)
             \/ ApplyStale(e) \/ ApplyDispatch(e) \/ ApplyWait(e) \/ ApplyOther(e)
             \/ Resume(e) \/ Elapse(e) \/ ExpireWait(e)
             \/ Approve(e) \/ Reject(e) \/ CheckBoundary(e)
             \/ \E s \in Sweeper : Mark(s, e)
      PROVE  Still
  BY <1>3 DEF Conclude, ApplyStale, ApplyDispatch, ApplyWait, ApplyOther, Apply, Resume, Elapse, ExpireWait,
              Approve, Reject, Decide, CheckBoundary, Mark, runs, wire
<1>4. ASSUME NEW e \in Evaluation, Dispatch(e) \/ AutoDispatch(e)
      PROVE  Still \/ (CreateRun(e) /\ intent[e].status \in {"proposed", "approved"})
  BY <1>4 DEF Dispatch, AutoDispatch, Expire, Unbound, Decide, runs, wire
<1>5. ASSUME NEW e \in Evaluation, EndRun(e) \/ CancelSuperseded(e) PROVE Over(e) /\ UNCHANGED pass
  BY <1>5 DEF EndRun, CancelSuperseded
<1> QED
  BY <1>1, <1>2, <1>3, <1>4, <1>5 DEF Next

\* What a pass has in hand stays in order while the pass does nothing.
LEMMA PassStays ==
    ASSUME Types, Made, [Next]_vars, NEW w \in Worker, PassOk(pass[w]), pass'[w] = pass[w],
           out \subseteq out', \A x \in Evaluation : run[x] # "none" => run'[x] # "none"
    PROVE  PassOk(pass[w])'
<1>1. CASE pass[w].at = "none"
  BY <1>1 DEF PassOk
<1>2. CASE pass[w].at # "none"
  <2>1. PICK x \in Evaluation : x = pass[w].of /\ run[x] # "none"
    BY <1>2 DEF PassOk
  <2>2. pass[w].at = "claimed" /\ pass[w].late => Gone(x)'
    BY <2>1, GoneStays DEF PassOk
  <2>3. x = pass'[w].of
    BY <2>1
  <2>4. Gone(x)' => Gone(pass[w].of)'
    BY <2>3 DEF Gone, Current
  <2> QED
    BY <2>1, <2>2, <2>3, <2>4 DEF PassOk
<1> QED
  BY <1>1, <1>2

\* Every step of a pass keeps the commands and the passes in order.
LEMMA DeliverStep ==
    ASSUME Types, Made, RunHolds, Wired, [Next]_vars, NEW e \in Evaluation, Deliver(e),
           \A x \in Evaluation : run[x] # "none" => run'[x] # "none"
    PROVE  Wired'
<1> USE DEF Types
<1>1. PICK v \in Worker : Claim(v, e) \/ Check(v, e) \/ Put(v, e) \/ MarkSent(v, e)
  BY DEF Deliver
<1>2. /\ run \in [Evaluation -> {"none", "over"} \union Ongoing]
      /\ outbox \in [Evaluation -> {"none", "pending", "sent", "gone"}]
      /\ pass \in [Worker -> [of : {0} \union Evaluation, at : {"none", "claimed", "passed", "put"}, late : BOOLEAN]]
  BY DEF RunTypes, WireTypes
<1>3. out \subseteq out'
  BY <1>1 DEF Claim, Check, Put, MarkSent, Over
<1>4. RowOfQueued'
  BY <1>1, <1>2 DEF Claim, Check, Put, MarkSent, Over, runs, Wired, RowOfQueued
<1>5. SentIsOut'
  BY <1>1, <1>2, <1>3 DEF Claim, Check, Put, MarkSent, Over, runs, Wired, SentIsOut, PassOk
<1>6. \A w \in Worker : w # v => pass'[w] = pass[w]
  BY <1>1, <1>2 DEF Claim, Check, Put, MarkSent
<1>7. PassOk(pass[v])'
  <2>1. CASE Claim(v, e)
    <3>1. run[e] = "queued" /\ pass'[v].of = e /\ pass'[v].at \in {"claimed", "passed"}
          /\ UNCHANGED <<work, mandate, intent, run, out>>
      BY <1>2, <2>1 DEF Claim, Wired, RowOfQueued, runs, rows
    <3>2. pass'[v].late => ~Stands(e) /\ pass'[v].at = "claimed"
      BY <1>2, <2>1 DEF Claim
    <3>3. ~Stands(e) => Gone(e)
      BY <3>1 DEF Stands, WorkAllows, RunHolds, Ongoing, Gone, Retired
    <3>4. Gone(e) => Gone(pass[v].of)'
      BY <3>1 DEF Gone, Current, InForce
    <3> QED
      BY <3>1, <3>2, <3>3, <3>4 DEF PassOk
  <2>2. CASE Check(v, e)
    <3>1. CASE pass' = [pass EXCEPT ![v] = NoPass]
      BY <1>2, <3>1 DEF PassOk, NoPass
    <3>2. CASE Stands(e) /\ pass' = [pass EXCEPT ![v].at = "passed"]
      <4>1. ~Gone(e)
        BY WorkForms, <3>2 DEF Stands, Gone, WorkAllows, Free, OnRun
      <4>2. pass[v].of = e /\ pass[v].at = "claimed" /\ ~pass[v].late
        BY <2>2, <4>1 DEF Check, Wired, PassOk
      <4> QED
        BY <1>2, <3>2, <4>2 DEF PassOk, Wired
    <3> QED
      BY <2>2, <3>1, <3>2 DEF Check
  <2>3. CASE Put(v, e)
    BY <1>2, <2>3 DEF Put, PassOk, NoPass, Wired, runs
  <2>4. CASE MarkSent(v, e)
    BY <1>2, <2>4 DEF MarkSent, PassOk, NoPass
  <2> QED
    BY <1>1, <2>1, <2>2, <2>3, <2>4
<1>8. \A w \in Worker : PassOk(pass[w])'
  <2> SUFFICES ASSUME NEW w \in Worker PROVE PassOk(pass[w])'
    OBVIOUS
  <2>1. CASE w = v
    BY <1>7, <2>1
  <2>2. CASE w # v
    BY <1>3, <1>6, <2>2, PassStays DEF Wired
  <2> QED
    BY <2>1, <2>2
<1> QED
  BY <1>4, <1>5, <1>8 DEF Wired

\* Every step keeps the commands and the passes in order.
LEMMA WiredStep ==
    ASSUME Types, Made, RunHolds, Wired, [Next]_vars
    PROVE  Wired'
<1> USE DEF Types
<1>1. run \in [Evaluation -> {"none", "over"} \union Ongoing] /\ outbox \in [Evaluation -> {"none", "pending", "sent", "gone"}]
  BY DEF RunTypes
<1>2. ASSUME NEW x \in Evaluation, run[x] # "none" PROVE run'[x] # "none"
  BY <1>1, <1>2, RunSteps DEF CreateRun, Ongoing
<1>3. ASSUME pass' = pass \/ pass' = [w \in Worker |-> NoPass], out' = out
      PROVE  \A w \in Worker : PassOk(pass[w])'
  <2>1. CASE pass' = pass
    BY <1>2, <1>3, <2>1, PassStays DEF Wired
  <2>2. CASE pass' = [w \in Worker |-> NoPass]
    BY <2>2 DEF PassOk, NoPass
  <2> QED
    BY <1>3, <2>1, <2>2
<1>4. CASE UNCHANGED <<run, outbox, pass, out>> \/ Crash
  BY <1>3, <1>4 DEF Crash, runs, Wired, RowOfQueued, SentIsOut
<1>5. ASSUME NEW e \in Evaluation,
             \/ CreateRun(e) /\ intent[e].status \in {"proposed", "approved"}
             \/ Over(e) /\ UNCHANGED pass
             \/ Ack(e) \/ Start(e)
      PROVE  Wired'
  <2>1. UNCHANGED <<pass, out>>
    BY <1>5 DEF CreateRun, Over, Ack, Start, wire
  <2>2. RowOfQueued'
    BY <1>1, <1>5 DEF CreateRun, Over, Ack, Start, Wired, RowOfQueued
  <2>3. SentIsOut'
    BY <1>1, <1>5, <2>1 DEF CreateRun, Over, Ack, Start, Wired, SentIsOut
  <2> QED
    BY <1>3, <2>1, <2>2, <2>3 DEF Wired
<1> QED
  BY <1>2, <1>4, <1>5, DeliverStep, WireMoves

\* Every step keeps the invariant.
LEMMA NextSound == ASSUME IInv, [Next]_vars PROVE IInv'
BY TypeStep, MadeStep, RunHoldsStep, WaitsStep, FoundStep, WiredStep DEF IInv

\* The inductive invariant holds in every state.
THEOREM Invariance == Spec => []IInv
<1>1. IInv /\ [Next]_vars => IInv'
  BY NextSound
<1> QED
  BY <1>1, InitSound, PTL DEF Spec

\* Every variable of the Work, its mandate and its Runs keeps its type.
THEOREM TypeCorrect == Spec => []TypeOK
<1>1. IInv => TypeOK
  BY DEF IInv, Types, WorkTypes, MandateTypes, RowTypes, RunTypes, WireTypes, HubTypes, TypeOK, IntentStatus
<1> QED
  BY <1>1, Invariance, PTL

\* restoreWorkAfterWait, applyWait, reevaluateRouterForActor and applyRunStatus
\* leave no Work waiting for a wait that is closed or a Run that is over.
THEOREM ResumableTheorem == Spec => []Resumable
<1>1. IInv => Resumable
  BY WorkForms DEF IInv, Types, Waits, Resumable
<1> QED
  BY <1>1, Invariance, PTL

\* invalidateMachineRun tells a Run at most once that its mandate ended, and
\* only when it has, although the sweepers read first and write later.
THEOREM SignalTheorem == Spec => []SignalledJustly
<1>1. IInv => SignalledJustly
  BY DEF IInv, ToldOnce, FoundRan, SignalledJustly, Gone
<1> QED
  BY <1>1, Invariance, PTL

\* createRunFromIntent makes a Run of a free Work under the mandate in force.
THEOREM CreatedTheorem == Spec => CreatedUnderCurrent
<1>1. ASSUME IInv, [Next]_vars
      PROVE  \A e \in Evaluation : run[e] = "none" /\ run'[e] # "none" =>
                work.state = "active" /\ Current(e) /\ ~due[e]
  <2> SUFFICES ASSUME NEW x \in Evaluation, run[x] = "none", run'[x] # "none"
               PROVE  work.state = "active" /\ Current(x) /\ ~due[x]
    OBVIOUS
  <2>1. Types /\ run \in [Evaluation -> {"none", "over"} \union Ongoing]
    BY <1>1 DEF IInv, Types, RunTypes
  <2>2. \A e \in Evaluation : CreateRun(e) => x = e
    BY <2>1 DEF CreateRun
  <2> QED
    BY <1>1, <2>1, <2>2, RunSteps DEF Ongoing
<1>2. IInv /\ [Next]_vars => [\A e \in Evaluation : run[e] = "none" /\ run'[e] # "none" =>
                                 work.state = "active" /\ Current(e) /\ ~due[e]]_vars
  BY <1>1
<1> QED
  BY <1>2, Invariance, PTL DEF Spec, CreatedUnderCurrent

\* dispatchOnce puts a run.start on the wire for the first time only if its
\* mandate and Work still stood when it was claimed, however many passes overlap.
THEOREM NoLateTheorem == Spec => NoLateStart
<1>1. ASSUME IInv, [Next]_vars
      PROVE  \A w \in Worker, e \in Evaluation :
                e \in out' \ out /\ pass[w].of = e /\ pass[w] # pass'[w] => ~pass[w].late
  <2> SUFFICES ASSUME NEW w \in Worker, NEW x \in Evaluation,
                      x \in out' \ out, pass[w].of = x, pass[w] # pass'[w]
               PROVE  ~pass[w].late
    OBVIOUS
  <2>1. PICK e \in Evaluation : Deliver(e)
    BY <1>1, WireMoves DEF CreateRun, Over, Ack, Start, Crash, wire
  <2>2. PICK v \in Worker : Put(v, e) /\ pass[v].of = e /\ out' = out \union {e}
    BY <2>1 DEF Deliver, Claim, Check, Put, MarkSent, Over
  <2>3. w = v /\ x = e
    BY <1>1, <2>2 DEF Put, IInv, Types, WireTypes
  <2> QED
    BY <1>1, <2>2, <2>3 DEF Put, IInv, Wired, PassOk
<1>2. IInv /\ [Next]_vars => [\A w \in Worker, e \in Evaluation :
                                 e \in out' \ out /\ pass[w].of = e /\ pass[w] # pass'[w] => ~pass[w].late]_vars
  BY <1>1
<1> QED
  BY <1>2, Invariance, PTL DEF Spec, NoLateStart

\* reassignAssignment, the applications of proposals and the sweeps never take a
\* Work from under its ongoing Run: it waits for that Run, or was retired.
THEOREM HoldsTheorem == Spec => []RunHolds
BY Invariance, PTL DEF IInv
=============================================================================
