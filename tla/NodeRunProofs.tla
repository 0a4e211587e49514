---------------------------- MODULE NodeRunProofs ----------------------------
(***************************************************************************)
(* Invariants of a Run on its Node, for any number of deliveries, of       *)
(* follow-ups, cancellations and crashes, in whatever way the deliveries   *)
(* overlap.                                                                *)
(* The second half is about the project context the Run works from.        *)
(***************************************************************************)
EXTENDS NodeRun, RunContext, FiniteSetTheorems, TLAPS

\* Processes whose exit this Node will see.
Child == {"alive", "killed", "dead"}
Children == {p \in Attempt : proc[p] \in Child}

\* How far a delivery is, and what there is of its process.
HandlerInv ==
    /\ ~up => InFlight = {}
    /\ \A a \in Attempt : handler[a] \in {"unused", "preparing"} => proc[a] = "none" /\ a \notin told
    /\ \A a \in Attempt : handler[a] = "unused" => beside[a] = {}
    /\ \A a \in Attempt : handler[a] = "spawned" => proc[a] \in {"alive", "dead", "missed"} /\ a \notin told

\* A process whose delivery is over, and one with the prompt, are of a run.start
\* that was dealt with, and so of one that is not prepared again.
ProcInv ==
    /\ Children # {} => up
    /\ \A p \in Children : handler[p] = "spawned" \/ row = "acked"
    /\ told # {} => row = "acked"
    /\ \A p \in Attempt : proc[p] = "missed" => final # "none"

\* Whatever runs, was prompted or is being started, was so side by side.
BesideInv ==
    /\ \A p, q \in Children \union InFlight : p = q \/ Beside(p, q)
    /\ \A p, q \in told \union InFlight : p = q \/ Beside(p, q)

\* The table and active_runtime say the same, and it is true.
TableInv ==
    /\ up => handle = runtimeRow
    /\ ~up => handle = None
    /\ runtimeRow # None => handler[runtimeRow] = "over"
    /\ handle # None => handle \in told /\ proc[handle] \in Child \union {"missed"}

\* What is on record of the end of the Run.
OnRecord == Endings # {} \/ snapshots # {}

\* Deliveries that do not overlap: a child is in the table or about to be, the Run
\* has a projector as long as its Runtime is in the table and has not ended it, and
\* an end that is not on record is that of a process that died unregistered.
EndInv ==
    ~Overlapped =>
        /\ \A p \in Children : p = handle \/ handler[p] = "spawned"
        /\ handle # None /\ final = "none" => projecting
        /\ final # "none" =>
              OnRecord \/ \E p \in Attempt : proc[p] = "missed" /\ (p = handle \/ p \in InFlight)
        /\ Started /\ runtimeRow = None => OnRecord

\* A process gets into the table when its run.start is answered.
ActiveIsAnswered == Active => row = "acked"

\* An outcome of "accepted" was preceded by the message in stdin, as was an ack.
FollowupInv ==
    /\ \A f \in Followup : outcome[f] = "accepted" => written[f] > 0
    /\ AcceptedIsWritten

\* The run.start is dealt with and no Runtime will be ready any more.
Spent == row = "acked" /\ InFlight = {} /\ ~ready /\ ~projecting

\* A follow-up that was cut short by a crash finds no Runtime it could go to.
OutcomeInv ==
    failures = 0 =>
        \A f \in Followup :
            /\ written[f] <= 1
            /\ outcome[f] = "absent" => acks[f] = {} /\ written[f] = 0
            /\ outcome[f] = "recorded" => acks[f] = {} /\ Spent
            /\ outcome[f] = "accepted" => acks[f] \subseteq {"accepted"}
            /\ outcome[f] = "rejected" => acks[f] \subseteq {"rejected"}

\* Every step keeps every variable in its type.
LEMMA TypeStep == TypeOK /\ [Next]_vars => TypeOK'
<1> SUFFICES ASSUME TypeOK, [Next]_vars PROVE TypeOK'
  OBVIOUS
<1> USE DEF diskVars, memoryVars, procVars, sentVars
<1>0. CASE UNCHANGED vars
  BY <1>0 DEF TypeOK, vars
<1>a. /\ {"unused", "preparing", "spawned", "over"} \subseteq HandlerState
      /\ {"none", "alive", "killed", "dead", "reaped", "missed", "orphan", "gone"} \subseteq ProcState
      /\ {"none", "requested", "sigterm", "sigkill"} \subseteq Escalation
      /\ {"none", "shutdown", "sigterm"} \subseteq ReleaseState
      /\ {"accepted", "rejected"} \subseteq Answer
      /\ {"cancelled", "runtime_lost", "lost"} \union Outcome \subseteq Final
      /\ {"ready", "decided", "cancelled", "failed"} \union Outcome \subseteq Event
  BY DEF HandlerState, ProcState, Escalation, ReleaseState, Answer, Final, Outcome, Event
<1>f. ASSUME NEW as \in Final, Finalize(as)
      PROVE  /\ final' \in Final \union {"none"} /\ projecting' \in BOOLEAN
             /\ cancel' \in Escalation /\ release' \in ReleaseState
  BY <1>f, <1>a DEF Finalize, TypeOK
<1>l. ASSUME ReportLost
      PROVE  /\ final' \in Final \union {"none"} /\ projecting' \in BOOLEAN
             /\ cancel' \in Escalation /\ release' \in ReleaseState
             /\ snapshots' \in SUBSET Final
  BY <1>l, <1>f, <1>a DEF ReportLost, TypeOK
<1>1. ASSUME NEW a \in Attempt, HandleRunStart(a) PROVE TypeOK'
  <2>1. CASE Prepare(a)
    BY <1>a, <2>1 DEF Prepare, InFlight, TypeOK
  <2>2. CASE AnswerAgain(a)
    BY <1>a, <2>2 DEF AnswerAgain, TypeOK
  <2>3. CASE AnswerLost(a)
    BY <1>a, <1>l, <2>3 DEF AnswerLost, TypeOK
  <2>4. CASE PrepareFails(a)
    BY <1>a, <2>4 DEF PrepareFails, Refuse, TypeOK
  <2>5. CASE Spawn(a)
    BY <1>a, <2>5 DEF Spawn, TypeOK
  <2>6. CASE Register(a)
    BY <1>a, <2>6 DEF Register, TypeOK
  <2>7. CASE RegisterFails(a)
    BY <1>a, <2>7 DEF RegisterFails, Refuse, TypeOK
  <2> QED
    BY <1>1, <2>1, <2>2, <2>3, <2>4, <2>5, <2>6, <2>7 DEF HandleRunStart
<1>2. ASSUME NEW p \in Attempt, Runtime(p) PROVE TypeOK'
  <2>0. /\ pipe[p] \in Seq(Frame)
        /\ pipe[p] # <<>> => Head(pipe[p]) \in Frame /\ Tail(pipe[p]) \in Seq(Frame)
    BY DEF TypeOK
  <2>1. ASSUME NEW frame \in Frame, PrintFrame(p, frame) PROVE TypeOK'
    <3>1. Append(pipe[p], frame) \in Seq(Frame)
      BY <2>0
    <3> QED
      BY <2>1, <3>1 DEF PrintFrame, TypeOK
  <2>2. CASE Exit(p)
    BY <1>a, <2>2 DEF Exit, TypeOK
  <2>3. CASE OrphanExit(p)
    BY <1>a, <2>3 DEF OrphanExit, TypeOK
  <2>4. CASE DropLine(p)
    BY <2>0, <2>4 DEF DropLine, CanRead, TypeOK
  <2>5. CASE ReadReady(p)
    BY <1>a, <2>0, <2>5 DEF ReadReady, CanRead, TypeOK
  <2>6. CASE ReadEnding(p)
    <3>1. Projected(Head(pipe[p])) \in Outcome
      BY <2>6 DEF ReadEnding, Projected, Ending, Outcome
    <3>2. events' \in SUBSET Event
      BY <1>a, <2>6, <3>1 DEF ReadEnding, TypeOK
    <3> QED
      BY <1>a, <1>f, <2>0, <2>6, <3>1, <3>2 DEF ReadEnding, CanRead, TypeOK
  <2>7. CASE SeeExit(p)
    <3>1. proc' \in [Attempt -> ProcState]
      BY <1>a, <2>7 DEF SeeExit, TypeOK
    <3>2. final' \in Final \union {"none"} /\ projecting' \in BOOLEAN /\ cancel' \in Escalation
      BY <1>a, <2>7 DEF SeeExit, TypeOK
    <3>3. events' \in SUBSET Event
      BY <1>a, <2>7 DEF SeeExit, TypeOK
    <3> QED
      BY <1>a, <2>7, <3>1, <3>2, <3>3 DEF SeeExit, Unregister, TypeOK
  <2> QED
    BY <1>2, <2>1, <2>2, <2>3, <2>4, <2>5, <2>6, <2>7 DEF Runtime
<1>3. ASSUME NEW c \in Cancel, HandleRunCancel(c) PROVE TypeOK'
  BY <1>a, <1>3 DEF HandleRunCancel, TypeOK
<1>4. ASSUME NEW f \in Followup, ReplayFollowup(f) \/ JudgeFollowup(f) PROVE TypeOK'
  <2>1. CASE ReplayFollowup(f)
    BY <2>1 DEF ReplayFollowup, TypeOK
  <2>2. CASE JudgeFollowup(f)
    <3>1. Judgement \in Answer
      BY <1>a DEF Judgement
    <3>2. outcome' \in [Followup -> {"absent", "recorded"} \union Answer]
      BY <2>2, <3>1 DEF JudgeFollowup, TypeOK
    <3>3. failures' \in 0..MaxStoreFail
      BY <2>2, BoundsAssumption DEF JudgeFollowup, TypeOK
    <3>4. acks' \in [Followup -> SUBSET Answer]
      BY <2>2, <3>1 DEF JudgeFollowup, TypeOK
    <3>5. written' \in [Followup -> Nat]
      BY <2>2 DEF JudgeFollowup, TypeOK
    <3> QED
      BY <2>2, <3>2, <3>3, <3>4, <3>5 DEF JudgeFollowup, TypeOK
  <2> QED
    BY <1>4, <2>1, <2>2
<1>5. CASE HandleApprovalDecide
  BY <1>a, <1>5 DEF HandleApprovalDecide, TypeOK
<1>6. CASE AnswerStatusRequest
  <2>1. EndReported \subseteq Final
    BY <1>a DEF EndReported, TypeOK
  <2> QED
    BY <1>6, <2>1 DEF AnswerStatusRequest, TypeOK
<1>7. CASE Timer
  <2>1. Kill => proc' \in [Attempt -> ProcState]
    BY <1>a DEF Kill, Active, TypeOK
  <2> QED
    BY <1>a, <1>7, <2>1
       DEF Timer, EscalateToSigterm, EscalateToSigkill, ReleaseBySigterm, ReleaseBySigkill, TypeOK
<1>8. CASE Crash
  <2>1. proc' \in [Attempt -> ProcState]
    BY <1>a, <1>8 DEF Crash, NodeEnds, TypeOK
  <2>2. handler' \in [Attempt -> HandlerState]
    BY <1>a, <1>8 DEF Crash, NodeEnds, TypeOK
  <2>3. /\ outcome' \in [Followup -> {"absent", "recorded"} \union Answer]
        /\ written' \in [Followup -> Nat]
    <3>1. CASE UNCHANGED <<outcome, written>>
      BY <3>1 DEF TypeOK
    <3>2. ASSUME NEW f \in Followup, CutFollowup(f)
          PROVE  /\ outcome' \in [Followup -> {"absent", "recorded"} \union Answer]
                 /\ written' \in [Followup -> Nat]
      BY <3>2 DEF CutFollowup, TypeOK
    <3> QED
      BY <1>8, <3>1, <3>2 DEF Crash, CutRegistration
  <2>4. crashes' \in 0..MaxCrash
    BY <1>8, BoundsAssumption DEF Crash, NodeEnds, TypeOK
  <2>5. row' \in {"absent", "recorded", "acked"} /\ runtimeRow' \in Attempt \union {None}
        /\ startAcks' \in SUBSET Answer
    BY <1>a, <1>8 DEF Crash, CutRegistration, CutFollowup, TypeOK
  <2> QED
    BY <1>a, <1>8, <2>1, <2>2, <2>3, <2>4, <2>5 DEF Crash, NodeEnds, TypeOK
<1>9. CASE Restart
  <2>1. proc' \in [Attempt -> ProcState] /\ runtimeRow' \in Attempt \union {None}
    BY <1>a, <1>9 DEF Restart, KillOrphan, TypeOK
  <2> QED
    BY <1>9, <1>l, <2>1 DEF Restart, TypeOK
<1> QED
  BY <1>0, <1>1, <1>2, <1>3, <1>4, <1>5, <1>6, <1>7, <1>8, <1>9 DEF Next

\* Every variable keeps its type.
THEOREM TypeCorrect == Spec => []TypeOK
<1>1. Init => TypeOK
  <2> SUFFICES ASSUME Init PROVE TypeOK
    OBVIOUS
  <2>1. events \in SUBSET Event /\ pipe \in [Attempt -> Seq(Frame)]
    BY DEF Init
  <2>2. failures \in 0..MaxStoreFail /\ crashes \in 0..MaxCrash
    BY BoundsAssumption DEF Init
  <2>3. /\ acks \in [Followup -> SUBSET Answer]
        /\ startAcks \in SUBSET Answer /\ snapshots \in SUBSET Final
    BY DEF Init
  <2>4. proc \in [Attempt -> ProcState] /\ handler \in [Attempt -> HandlerState]
        /\ wrote \in [Attempt -> {"nothing"} \union Frame]
    BY DEF Init, ProcState, HandlerState
  <2> QED
    BY <2>1, <2>2, <2>3, <2>4 DEF Init, TypeOK, Escalation, ReleaseState
<1> QED
  BY <1>1, TypeStep, PTL DEF Spec
-----------------------------------------------------------------------------
(* What follow-ups are told.                                               *)

\* Only the handler of run.followup, and a crash in it, touch follow-ups.
LEMMA FollowupFrame ==
    ASSUME [Next]_vars
    PROVE  \/ UNCHANGED <<outcome, acks, written, failures>>
           \/ \E f \in Followup : ReplayFollowup(f) \/ JudgeFollowup(f)
           \/ Crash
<1> USE DEF diskVars, memoryVars, procVars, sentVars
<1>1. ASSUME NEW a \in Attempt, HandleRunStart(a) PROVE UNCHANGED <<outcome, acks, written, failures>>
  BY <1>1
     DEF HandleRunStart, Prepare, AnswerAgain, AnswerLost, PrepareFails, Spawn, Register, RegisterFails
<1>2. ASSUME NEW p \in Attempt, Runtime(p) PROVE UNCHANGED <<outcome, acks, written, failures>>
  BY <1>2 DEF Runtime, PrintFrame, Exit, OrphanExit, DropLine, ReadReady, ReadEnding, SeeExit
<1>3. ASSUME NEW c \in Cancel, HandleRunCancel(c) PROVE UNCHANGED <<outcome, acks, written, failures>>
  BY <1>3 DEF HandleRunCancel
<1>4. CASE Timer
  BY <1>4 DEF Timer, EscalateToSigterm, EscalateToSigkill, ReleaseBySigterm, ReleaseBySigkill
<1>5. CASE HandleApprovalDecide \/ AnswerStatusRequest \/ Restart
  BY <1>5 DEF HandleApprovalDecide, AnswerStatusRequest, Restart
<1> QED
  BY <1>1, <1>2, <1>3, <1>4, <1>5 DEF Next, vars

\* A process is in the table only after its run.start was answered.
LEMMA ActiveStep == TypeOK /\ ActiveIsAnswered /\ [Next]_vars => ActiveIsAnswered'
<1> SUFFICES ASSUME TypeOK, ActiveIsAnswered, [Next]_vars PROVE ActiveIsAnswered'
  OBVIOUS
<1> USE DEF diskVars, memoryVars, procVars, sentVars, ActiveIsAnswered, Active
<1>1. ASSUME NEW a \in Attempt, HandleRunStart(a) PROVE ActiveIsAnswered'
  BY <1>1
     DEF HandleRunStart, Prepare, AnswerAgain, AnswerLost, PrepareFails, Spawn, Register,
         RegisterFails, Refuse
<1>2. ASSUME NEW p \in Attempt, Runtime(p) PROVE ActiveIsAnswered'
  BY <1>2 DEF Runtime, PrintFrame, Exit, OrphanExit, DropLine, ReadReady, ReadEnding, SeeExit, Unregister
<1>3. ASSUME NEW c \in Cancel, HandleRunCancel(c) PROVE ActiveIsAnswered'
  BY <1>3 DEF HandleRunCancel
<1>4. ASSUME NEW f \in Followup, ReplayFollowup(f) \/ JudgeFollowup(f) PROVE ActiveIsAnswered'
  BY <1>4 DEF ReplayFollowup, JudgeFollowup
<1>5. CASE Timer
  BY <1>5 DEF Timer, EscalateToSigterm, EscalateToSigkill, ReleaseBySigterm, ReleaseBySigkill
<1>6. CASE HandleApprovalDecide \/ AnswerStatusRequest \/ Restart
  BY <1>6 DEF HandleApprovalDecide, AnswerStatusRequest, Restart
<1>7. CASE Crash
  BY <1>7 DEF Crash, NodeEnds
<1> QED
  BY <1>1, <1>2, <1>3, <1>4, <1>5, <1>6, <1>7 DEF Next, vars

\* Every way to accept a follow-up goes through the stdin of a Runtime.
LEMMA FollowupStep == TypeOK /\ FollowupInv /\ [Next]_vars => FollowupInv'
<1> SUFFICES ASSUME TypeOK, FollowupInv, [Next]_vars PROVE FollowupInv'
  OBVIOUS
<1> USE DEF FollowupInv, AcceptedIsWritten
<1>1. CASE UNCHANGED <<outcome, acks, written, failures>>
  BY <1>1
<1>2. ASSUME NEW f \in Followup, ReplayFollowup(f) PROVE FollowupInv'
  BY <1>2 DEF ReplayFollowup, TypeOK, diskVars
<1>3. ASSUME NEW f \in Followup, JudgeFollowup(f) PROVE FollowupInv'
  BY <1>3 DEF JudgeFollowup, Judgement, TypeOK
<1>4. CASE Crash
  <2>1. UNCHANGED acks
    BY <1>4 DEF Crash, NodeEnds
  <2>2. CASE UNCHANGED <<outcome, written>>
    BY <2>1, <2>2
  <2>3. ASSUME NEW f \in Followup, CutFollowup(f) PROVE FollowupInv'
    BY <2>1, <2>3 DEF CutFollowup, TypeOK
  <2> QED
    BY <1>4, <2>2, <2>3 DEF Crash, CutRegistration
<1> QED
  BY <1>1, <1>2, <1>3, <1>4, FollowupFrame

\* An accepted follow-up was put into a Runtime.
THEOREM AcceptedFollowupIsWritten == Spec => []AcceptedIsWritten
<1>1. Init => FollowupInv
  BY DEF Init, FollowupInv, AcceptedIsWritten
<1>2. FollowupInv => AcceptedIsWritten
  BY DEF FollowupInv
<1> QED
  BY <1>1, <1>2, FollowupStep, TypeCorrect, PTL DEF Spec

\* Once the run.start is answered and no Runtime is ready, none will be.
LEMMA SpentStep == TypeOK /\ Spent /\ [Next]_vars => Spent'
<1> SUFFICES ASSUME TypeOK, Spent, [Next]_vars PROVE Spent'
  OBVIOUS
<1> USE DEF diskVars, memoryVars, procVars, sentVars, Spent, InFlight
<1>1. ASSUME NEW a \in Attempt, HandleRunStart(a) PROVE Spent'
  BY <1>1
     DEF HandleRunStart, Prepare, AnswerAgain, AnswerLost, PrepareFails, Spawn, Register,
         RegisterFails, Refuse, ReportLost, Finalize, TypeOK
<1>2. ASSUME NEW p \in Attempt, Runtime(p) PROVE Spent'
  BY <1>2 DEF Runtime, PrintFrame, Exit, OrphanExit, DropLine, ReadReady, ReadEnding, SeeExit, Unregister
<1>3. ASSUME NEW c \in Cancel, HandleRunCancel(c) PROVE Spent'
  BY <1>3 DEF HandleRunCancel
<1>4. ASSUME NEW f \in Followup, ReplayFollowup(f) \/ JudgeFollowup(f) PROVE Spent'
  BY <1>4 DEF ReplayFollowup, JudgeFollowup
<1>5. CASE Timer
  BY <1>5 DEF Timer, EscalateToSigterm, EscalateToSigkill, ReleaseBySigterm, ReleaseBySigkill
<1>6. CASE HandleApprovalDecide \/ AnswerStatusRequest \/ Restart
  BY <1>6 DEF HandleApprovalDecide, AnswerStatusRequest, Restart, ReportLost, Finalize
<1>7. CASE Crash
  BY <1>7 DEF Crash, NodeEnds, CutRegistration, CutFollowup, TypeOK
<1> QED
  BY <1>1, <1>2, <1>3, <1>4, <1>5, <1>6, <1>7 DEF Next, vars

\* The answer to a follow-up is settled by its outcome, or by a crash in the
\* handling of it, after which it can only be rejected.
LEMMA OutcomeStep == TypeOK /\ ActiveIsAnswered /\ OutcomeInv /\ [Next]_vars => OutcomeInv'
<1> SUFFICES ASSUME TypeOK, ActiveIsAnswered, OutcomeInv, [Next]_vars, failures' = 0
             PROVE  OutcomeInv'
  BY DEF OutcomeInv
<1>1. CASE UNCHANGED <<outcome, acks, written, failures>>
  BY <1>1, SpentStep DEF OutcomeInv
<1>2. ASSUME NEW f \in Followup, ReplayFollowup(f) PROVE OutcomeInv'
  <2>1. UNCHANGED <<outcome, written, failures>> /\ acks' = [acks EXCEPT ![f] = @ \union {outcome[f]}]
        /\ outcome[f] \in {"accepted", "rejected"}
    BY <1>2 DEF ReplayFollowup, diskVars, Answer
  <2> QED
    BY <2>1, SpentStep DEF OutcomeInv, TypeOK
<1>3. ASSUME NEW f \in Followup, JudgeFollowup(f) PROVE OutcomeInv'
  <2>1. failures = 0 /\ outcome' = [outcome EXCEPT ![f] = Judgement]
    BY <1>3, BoundsAssumption DEF JudgeFollowup, TypeOK
  <2>2. acks[f] = {} /\ (Acceptable => written[f] = 0) /\ written[f] <= 1
    BY <1>3, <2>1 DEF JudgeFollowup, Unjudged, Acceptable, OutcomeInv, Spent
  <2>3. acks' = [acks EXCEPT ![f] = {Judgement}]
    BY <1>3, <2>2 DEF JudgeFollowup, TypeOK
  <2>4. written' = [written EXCEPT ![f] = IF Acceptable THEN @ + 1 ELSE @]
    BY <1>3 DEF JudgeFollowup
  <2> QED
    BY <2>1, <2>2, <2>3, <2>4, SpentStep DEF OutcomeInv, Judgement, TypeOK
<1>4. CASE Crash
  <2>1. UNCHANGED <<acks, failures>>
    BY <1>4 DEF Crash, NodeEnds
  <2>2. CASE UNCHANGED <<outcome, written>>
    BY <2>1, <2>2, SpentStep DEF OutcomeInv
  <2>3. ASSUME NEW f \in Followup, CutFollowup(f) PROVE OutcomeInv'
    <3>1. outcome[f] = "absent" /\ acks[f] = {} /\ written[f] = 0
      BY <2>1, <2>3 DEF CutFollowup, Unjudged, Acceptable, OutcomeInv, Spent
    <3>2. Spent'
      BY <1>4, <2>3
         DEF CutFollowup, Crash, NodeEnds, Spent, InFlight, Acceptable, ActiveIsAnswered, TypeOK
    <3> QED
      BY <2>1, <2>3, <3>1, <3>2, SpentStep DEF CutFollowup, OutcomeInv, TypeOK
  <2> QED
    BY <1>4, <2>2, <2>3 DEF Crash, CutRegistration
<1> QED
  BY <1>1, <1>2, <1>3, <1>4, FollowupFrame

\* As long as outcomes can be written, a follow-up gets one answer and is put
\* into a Runtime at most once.
THEOREM FollowupHasOneAnswer == Spec => []OneAnswer
<1>1. Init => ActiveIsAnswered /\ OutcomeInv
  BY DEF Init, ActiveIsAnswered, Active, OutcomeInv
<1>2. TypeOK /\ OutcomeInv => OneAnswer
  BY DEF OutcomeInv, OneAnswer, Answer, TypeOK
<1> QED
  BY <1>1, <1>2, ActiveStep, OutcomeStep, TypeCorrect, PTL DEF Spec
-----------------------------------------------------------------------------
(* The Runtime, however deliveries of run.start overlap.                   *)

\* Every step keeps what is known of the handlers and their processes.
LEMMA HandlerStep ==
    TypeOK /\ TableInv /\ HandlerInv /\ ProcInv /\ [Next]_vars => HandlerInv' /\ ProcInv'
<1> SUFFICES ASSUME TypeOK, TableInv, HandlerInv, ProcInv, [Next]_vars PROVE HandlerInv' /\ ProcInv'
  OBVIOUS
<1> USE DEF diskVars, memoryVars, procVars, sentVars, HandlerInv, ProcInv, InFlight, Children, Child
<1>0. CASE UNCHANGED <<up, row, handler, proc, told, beside, final>>
  BY <1>0
<1>f. ASSUME NEW as \in Final, Finalize(as) PROVE final' = "none" => final = "none"
  BY <1>f DEF Finalize, Final
<1>1. ASSUME NEW a \in Attempt, HandleRunStart(a) PROVE HandlerInv' /\ ProcInv'
  <2>1. CASE Prepare(a)
    BY <2>1 DEF Prepare, Delivered, TypeOK
  <2>2. CASE AnswerAgain(a)
    BY <2>2 DEF AnswerAgain, Delivered, TypeOK
  <2>3. CASE AnswerLost(a)
    BY <2>3 DEF AnswerLost, ReportLost, Finalize, Delivered, TypeOK
  <2>4. CASE PrepareFails(a)
    BY <2>4 DEF PrepareFails, Refuse, TypeOK
  <2>5. CASE Spawn(a)
    BY <2>5 DEF Spawn, TypeOK
  <2>6. CASE Register(a)
    BY <2>6 DEF Register, TypeOK
  <2>7. CASE RegisterFails(a)
    BY <2>7 DEF RegisterFails, Refuse, TypeOK
  <2> QED
    BY <1>1, <2>1, <2>2, <2>3, <2>4, <2>5, <2>6, <2>7 DEF HandleRunStart
<1>2. ASSUME NEW p \in Attempt, Runtime(p) PROVE HandlerInv' /\ ProcInv'
  <2>1. ASSUME NEW frame \in Frame, PrintFrame(p, frame) PROVE HandlerInv' /\ ProcInv'
    BY <1>0, <2>1 DEF PrintFrame
  <2>2. CASE Exit(p)
    BY <2>2 DEF Exit, TypeOK
  <2>3. CASE OrphanExit(p)
    BY <2>3 DEF OrphanExit, TypeOK
  <2>4. CASE DropLine(p) \/ ReadReady(p)
    BY <1>0, <2>4 DEF DropLine, ReadReady
  <2>5. CASE ReadEnding(p)
    BY <2>5 DEF ReadEnding, Finalize, Projected, Ending
  <2>6. CASE SeeExit(p)
    BY <2>6 DEF SeeExit, TypeOK
  <2> QED
    BY <1>2, <2>1, <2>2, <2>3, <2>4, <2>5, <2>6 DEF Runtime
<1>3. ASSUME NEW c \in Cancel, HandleRunCancel(c) PROVE HandlerInv' /\ ProcInv'
  BY <1>0, <1>3 DEF HandleRunCancel
<1>4. ASSUME NEW f \in Followup, ReplayFollowup(f) \/ JudgeFollowup(f) PROVE HandlerInv' /\ ProcInv'
  BY <1>0, <1>4 DEF ReplayFollowup, JudgeFollowup
<1>5. CASE Timer
  <2>1. CASE UNCHANGED proc
    BY <1>0, <1>5, <2>1
       DEF Timer, EscalateToSigterm, EscalateToSigkill, ReleaseBySigterm, ReleaseBySigkill
  <2>2. CASE handle # None /\ proc[handle] = "alive" /\ proc' = [proc EXCEPT ![handle] = "killed"]
    <3>1. handle \in told
      BY <2>2 DEF TableInv
    <3> QED
      BY <1>5, <2>2, <3>1
         DEF Timer, EscalateToSigterm, EscalateToSigkill, ReleaseBySigterm, ReleaseBySigkill, TypeOK
  <2> QED
    BY <1>5, <2>1, <2>2
       DEF Timer, EscalateToSigterm, EscalateToSigkill, ReleaseBySigterm, ReleaseBySigkill, Kill, Active
<1>6. CASE HandleApprovalDecide \/ AnswerStatusRequest
  BY <1>0, <1>6 DEF HandleApprovalDecide, AnswerStatusRequest
<1>7. CASE Crash
  <2>1. told' = told /\ beside' = beside /\ ~up' /\ (row = "acked" => row' = "acked")
    BY <1>7 DEF Crash, NodeEnds, CutRegistration, CutFollowup
  <2>2. \A q \in Attempt : /\ handler'[q] = IF handler[q] = "unused" THEN "unused" ELSE "over"
                           /\ proc'[q] \notin Child \union {"missed"}
                           /\ proc[q] = "none" => proc'[q] = "none"
    BY <1>7 DEF Crash, NodeEnds, TypeOK
  <2> QED
    BY <2>1, <2>2
<1>8. CASE Restart
  <2>1. UNCHANGED <<row, told, handler, beside>> /\ up'
    BY <1>8 DEF Restart
  <2>2. \A q \in Attempt : proc[q] \notin Child /\ handler[q] \notin {"preparing", "spawned"}
    BY <1>8 DEF Restart
  <2>3. CASE runtimeRow = None
    BY <1>8, <2>1, <2>2, <2>3 DEF Restart
  <2>4. CASE runtimeRow # None
    <3>1. final' # "none"
      BY <1>8, <2>4 DEF Restart, ReportLost, Finalize
    <3>2. proc' = [proc EXCEPT ![runtimeRow] = "gone"]
      BY <1>8, <2>4 DEF Restart, KillOrphan
    <3>3. handler[runtimeRow] = "over" /\ runtimeRow \in Attempt
      BY <2>4 DEF TableInv, TypeOK
    <3> QED
      BY <2>1, <2>2, <3>1, <3>2, <3>3 DEF TypeOK
  <2> QED
    BY <2>3, <2>4
<1> QED
  BY <1>0, <1>1, <1>2, <1>3, <1>4, <1>5, <1>6, <1>7, <1>8 DEF Next, vars

\* Every step keeps what is known of deliveries that were handled side by side.
LEMMA BesideStep ==
    TypeOK /\ HandlerInv /\ ProcInv /\ TableInv /\ BesideInv /\ [Next]_vars => BesideInv'
<1> SUFFICES ASSUME TypeOK, HandlerInv, ProcInv, TableInv, BesideInv, [Next]_vars PROVE BesideInv'
  OBVIOUS
<1> USE DEF diskVars, memoryVars, procVars, sentVars, InFlight, Children, Child
\* What was side by side stays so, and no step but these adds to the sets.
<1>0. ASSUME Children' \subseteq Children \union InFlight, told' \subseteq told \union InFlight,
             InFlight' \subseteq InFlight, UNCHANGED beside
      PROVE  BesideInv'
  BY <1>0 DEF BesideInv, Beside
<1>1. ASSUME NEW a \in Attempt, HandleRunStart(a) PROVE BesideInv'
  <2>1. CASE Prepare(a)
    <3>1. row # "acked" /\ handler[a] = "unused" /\ UNCHANGED <<proc, told>>
          /\ handler' = [handler EXCEPT ![a] = "preparing"] /\ beside' = [beside EXCEPT ![a] = InFlight]
      BY <2>1 DEF Prepare, Delivered
    <3>2. told = {} /\ Children \subseteq InFlight
      BY <3>1 DEF ProcInv
    <3>3. InFlight' = InFlight \union {a} /\ a \notin InFlight /\ Children' = Children /\ told' = {}
      BY <3>1, <3>2 DEF TypeOK
    <3>4. \A p \in InFlight : Beside(p, a)'
      BY <3>1 DEF Beside, TypeOK
    <3>5. \A p, q \in InFlight : Beside(p, q) => Beside(p, q)'
      BY <3>1, <3>3 DEF Beside, TypeOK
    <3>6. \A p, q \in InFlight' : p = q \/ Beside(p, q)'
      BY <3>3, <3>4, <3>5 DEF BesideInv, Beside
    <3> QED
      BY <3>2, <3>3, <3>6 DEF BesideInv
  <2>2. CASE AnswerAgain(a) \/ AnswerLost(a) \/ PrepareFails(a) \/ RegisterFails(a)
    BY <1>0, <2>2 DEF AnswerAgain, AnswerLost, PrepareFails, RegisterFails, Refuse, TypeOK
  <2>3. CASE Spawn(a)
    BY <1>0, <2>3 DEF Spawn, TypeOK
  <2>4. CASE Register(a)
    BY <1>0, <2>4 DEF Register, TypeOK
  <2> QED
    BY <1>1, <2>1, <2>2, <2>3, <2>4 DEF HandleRunStart
<1>2. ASSUME NEW p \in Attempt, Runtime(p) PROVE BesideInv'
  BY <1>0, <1>2
     DEF Runtime, PrintFrame, Exit, OrphanExit, DropLine, ReadReady, ReadEnding, SeeExit, TypeOK
<1>3. ASSUME NEW c \in Cancel, HandleRunCancel(c) PROVE BesideInv'
  BY <1>0, <1>3 DEF HandleRunCancel
<1>4. ASSUME NEW f \in Followup, ReplayFollowup(f) \/ JudgeFollowup(f) PROVE BesideInv'
  BY <1>0, <1>4 DEF ReplayFollowup, JudgeFollowup
<1>5. CASE Timer
  <2>1. /\ UNCHANGED <<handler, told, beside>>
        /\ \/ UNCHANGED proc
           \/ proc[handle] = "alive" /\ proc' = [proc EXCEPT ![handle] = "killed"]
    BY <1>5
       DEF Timer, EscalateToSigterm, EscalateToSigkill, ReleaseBySigterm, ReleaseBySigkill, Kill, Active
  <2> QED
    BY <1>0, <2>1 DEF TypeOK
<1>6. CASE HandleApprovalDecide \/ AnswerStatusRequest
  BY <1>0, <1>6 DEF HandleApprovalDecide, AnswerStatusRequest
<1>7. CASE Crash
  BY <1>0, <1>7 DEF Crash, NodeEnds, TypeOK
<1>8. CASE Restart
  BY <1>0, <1>8 DEF Restart, KillOrphan, TypeOK
<1>9. CASE UNCHANGED vars
  BY <1>0, <1>9 DEF vars
<1> QED
  BY <1>1, <1>2, <1>3, <1>4, <1>5, <1>6, <1>7, <1>8, <1>9 DEF Next

\* Every step keeps the table of Runtimes.
LEMMA TableStep == TypeOK /\ HandlerInv /\ TableInv /\ [Next]_vars => TableInv'
<1> SUFFICES ASSUME TypeOK, HandlerInv, TableInv, [Next]_vars PROVE TableInv'
  OBVIOUS
<1> USE DEF diskVars, memoryVars, procVars, sentVars, TableInv, Child
<1>n. None \notin Attempt
  BY DEF None, Attempt
<1>0. CASE UNCHANGED <<up, runtimeRow, handler, handle, proc, told>>
  BY <1>0
<1>1. ASSUME NEW a \in Attempt, HandleRunStart(a) PROVE TableInv'
  <2>1. CASE Prepare(a) \/ AnswerAgain(a) \/ AnswerLost(a)
    BY <1>n, <2>1 DEF Prepare, AnswerAgain, AnswerLost, Delivered, TypeOK
  <2>2. CASE PrepareFails(a) \/ RegisterFails(a)
    BY <1>n, <2>2 DEF PrepareFails, RegisterFails, Refuse, TypeOK
  <2>3. CASE Spawn(a)
    BY <1>n, <2>3 DEF Spawn, HandlerInv, TypeOK
  <2>4. CASE Register(a)
    BY <1>n, <2>4 DEF Register, HandlerInv, TypeOK
  <2> QED
    BY <1>1, <2>1, <2>2, <2>3, <2>4 DEF HandleRunStart
<1>2. ASSUME NEW p \in Attempt, Runtime(p) PROVE TableInv'
  <2>1. ASSUME NEW frame \in Frame, PrintFrame(p, frame) PROVE TableInv'
    BY <1>0, <2>1 DEF PrintFrame
  <2>2. CASE Exit(p) \/ OrphanExit(p)
    BY <1>n, <2>2 DEF Exit, OrphanExit, TypeOK
  <2>3. CASE DropLine(p) \/ ReadReady(p) \/ ReadEnding(p)
    BY <1>0, <2>3 DEF DropLine, ReadReady, ReadEnding
  <2>4. CASE SeeExit(p)
    BY <2>4 DEF SeeExit, Unregister
  <2> QED
    BY <1>2, <2>1, <2>2, <2>3, <2>4 DEF Runtime
<1>3. ASSUME NEW c \in Cancel, HandleRunCancel(c) PROVE TableInv'
  BY <1>0, <1>3 DEF HandleRunCancel
<1>4. ASSUME NEW f \in Followup, ReplayFollowup(f) \/ JudgeFollowup(f) PROVE TableInv'
  BY <1>0, <1>4 DEF ReplayFollowup, JudgeFollowup
<1>5. CASE Timer
  <2>1. /\ UNCHANGED <<up, runtimeRow, handler, handle, told>>
        /\ \/ UNCHANGED proc
           \/ handle # None /\ proc[handle] = "alive" /\ proc' = [proc EXCEPT ![handle] = "killed"]
    BY <1>5
       DEF Timer, EscalateToSigterm, EscalateToSigkill, ReleaseBySigterm, ReleaseBySigkill, Kill, Active
  <2> QED
    BY <2>1 DEF TypeOK
<1>6. CASE HandleApprovalDecide \/ AnswerStatusRequest
  BY <1>0, <1>6 DEF HandleApprovalDecide, AnswerStatusRequest
<1>7. CASE Crash
  <2>1. handle' = None /\ ~up'
    BY <1>7 DEF Crash, NodeEnds
  <2>2. \A a \in Attempt : handler'[a] = IF handler[a] = "unused" THEN "unused" ELSE "over"
    BY <1>7 DEF Crash, NodeEnds
  <2>3. runtimeRow' = runtimeRow \/ \E a \in Attempt : runtimeRow' = a /\ handler[a] = "spawned"
    BY <1>7 DEF Crash, CutRegistration, CutFollowup
  <2>4. runtimeRow' # None => runtimeRow' \in Attempt /\ handler[runtimeRow'] # "unused"
    BY <2>3 DEF TypeOK
  <2> QED
    BY <2>1, <2>2, <2>4
<1>8. CASE Restart
  <2>1. ~up /\ up' /\ handle' = handle /\ runtimeRow' = None
    BY <1>8 DEF Restart
  <2> QED
    BY <2>1
<1> QED
  BY <1>0, <1>1, <1>2, <1>3, <1>4, <1>5, <1>6, <1>7, <1>8 DEF Next, vars

\* Of deliveries that do not overlap, one at a time is in flight, and none beside a
\* Runtime in the table.
LEMMA OneInFlight ==
    ASSUME TypeOK, HandlerInv, BesideInv, TableInv, ~Overlapped, NEW a \in InFlight
    PROVE  /\ handle = None
           /\ \A b \in InFlight : a = b
           /\ Children \subseteq {a}
<1>1. \A p, q \in Attempt : ~Beside(p, q)
  BY DEF Beside, Overlapped
<1>2. InFlight \subseteq Attempt /\ Children \subseteq Attempt /\ told \subseteq Attempt
  BY DEF InFlight, Children, TypeOK
<1>3. told \subseteq {a} /\ \A b \in InFlight : a = b
  BY <1>1, <1>2 DEF BesideInv
<1>4. a \notin told
  BY DEF InFlight, HandlerInv
<1> QED
  BY <1>1, <1>2, <1>3, <1>4 DEF BesideInv, TableInv

\* Every step keeps what is known of the end.
LEMMA EndStep ==
    TypeOK /\ HandlerInv /\ ProcInv /\ BesideInv /\ TableInv /\ EndInv /\ [Next]_vars => EndInv'
<1> SUFFICES ASSUME TypeOK, HandlerInv, ProcInv, BesideInv, TableInv, EndInv, [Next]_vars, ~Overlapped'
             PROVE  EndInv'
  BY DEF EndInv
<1> USE DEF diskVars, memoryVars, procVars, sentVars, EndInv
<1>n. None \notin Attempt
  BY DEF None, Attempt
<1>o. ~Overlapped
  <2>1. CASE UNCHANGED beside
    BY <2>1 DEF Overlapped
  <2>2. ASSUME NEW a \in Attempt, Prepare(a) PROVE ~Overlapped
    BY <2>2 DEF Prepare, Delivered, Overlapped, HandlerInv, TypeOK
  <2> QED
    BY <2>1, <2>2
       DEF Next, vars, HandleRunStart, AnswerAgain, AnswerLost, PrepareFails, Spawn, Register,
           RegisterFails, Runtime, PrintFrame, Exit, OrphanExit, DropLine, ReadReady, ReadEnding,
           SeeExit, HandleRunCancel, ReplayFollowup, JudgeFollowup, HandleApprovalDecide,
           AnswerStatusRequest, Timer, EscalateToSigterm, EscalateToSigkill, ReleaseBySigterm,
           ReleaseBySigkill, Crash, NodeEnds, Restart
<1>r. events \subseteq events' /\ snapshots \subseteq snapshots' /\ OnRecord => OnRecord'
  BY DEF OnRecord, Endings
<1>0. CASE UNCHANGED <<runtimeRow, handler, handle, projecting, final, proc, startAcks>>
           /\ events \subseteq events' /\ snapshots \subseteq snapshots'
  BY <1>0, <1>o, <1>r DEF Children, InFlight, Started
<1>1. ASSUME NEW a \in Attempt, HandleRunStart(a) PROVE EndInv'
  <2>0. UNCHANGED events => Endings' = Endings
    BY DEF Endings
  <2>1. CASE Prepare(a)
    BY <1>o, <2>0, <2>1 DEF Prepare, Delivered, Children, InFlight, Started, OnRecord, TypeOK
  <2>2. CASE AnswerAgain(a)
    <3>1. handler[a] = "unused" /\ handle # None /\ handle = runtimeRow
      BY <2>2 DEF AnswerAgain, Delivered, Active, TableInv
    <3> QED
      BY <1>o, <2>0, <2>2, <3>1 DEF AnswerAgain, Children, InFlight, OnRecord, TypeOK
  <2>3. CASE AnswerLost(a)
    <3>1. handler[a] = "unused" /\ handle = None /\ snapshots' # {}
      BY <2>3 DEF AnswerLost, Delivered, Active, ReportLost
    <3> QED
      BY <1>o, <2>3, <3>1 DEF AnswerLost, Children, OnRecord, TypeOK
  <2>4. CASE PrepareFails(a)
    <3>1. a \in InFlight /\ handler[a] = "preparing"
      BY <2>4 DEF PrepareFails, InFlight
    <3>2. handle = None /\ Children = {} /\ proc[a] = "none"
      BY <1>o, <3>1, OneInFlight DEF HandlerInv, Children, Child
    <3>3. UNCHANGED <<proc, handle, final, runtimeRow, events, snapshots>>
          /\ handler' = [handler EXCEPT ![a] = "over"]
          /\ (Started' => Started)
      BY <2>4 DEF PrepareFails, Refuse, Started
    <3>4. \A p \in Attempt : proc[p] = "missed" /\ p \in InFlight => p \in InFlight'
      BY <3>2, <3>3 DEF InFlight, TypeOK
    <3> QED
      BY <1>o, <2>0, <3>2, <3>3, <3>4 DEF Children, OnRecord
  <2>5. CASE Spawn(a)
    <3>1. a \in InFlight /\ UNCHANGED <<handle, final, runtimeRow, events, snapshots, startAcks, projecting>>
          /\ handler' = [handler EXCEPT ![a] = "spawned"] /\ proc' = [proc EXCEPT ![a] = "alive"]
          /\ proc[a] = "none"
      BY <2>5 DEF Spawn, InFlight, HandlerInv
    <3>2. handle = None
      BY <1>o, <3>1, OneInFlight
    <3>3. \A p \in Attempt : proc[p] = "missed" /\ p \in InFlight => proc'[p] = "missed" /\ p \in InFlight'
      BY <3>1 DEF InFlight, TypeOK
    <3>4. \A p \in Children' : p \in Children \/ p = a
      BY <3>1 DEF Children, TypeOK
    <3>5. \A p \in Children' : handler'[p] = "spawned"
      BY <1>n, <1>o, <3>1, <3>2, <3>4 DEF Children, TypeOK
    <3>6. OnRecord' <=> OnRecord
      BY <2>0, <3>1 DEF OnRecord
    <3> QED
      BY <1>o, <3>1, <3>2, <3>3, <3>5, <3>6 DEF Started
  <2>6. CASE Register(a)
    <3>1. a \in InFlight
      BY <2>6 DEF Register, InFlight
    <3>2. Children \subseteq {a} /\ \A b \in InFlight : b = a
      BY <1>o, <3>1, OneInFlight
    <3>3. UNCHANGED <<proc, final, events, snapshots>> /\ handle' = a /\ runtimeRow' = a /\ projecting'
      BY <2>6 DEF Register
    <3>4. Children' = Children /\ (OnRecord' <=> OnRecord)
      BY <2>0, <3>3 DEF Children, OnRecord
    <3>5. final' # "none" => OnRecord' \/ proc'[a] = "missed"
      BY <1>n, <1>o, <3>1, <3>2, <3>3, <3>4, OneInFlight
    <3> QED
      BY <1>n, <3>2, <3>3, <3>4, <3>5
  <2>7. CASE RegisterFails(a)
    <3>1. a \in InFlight /\ handle # None
      BY <2>7 DEF RegisterFails, InFlight, TableInv
    <3> QED
      BY <1>o, <3>1, OneInFlight
  <2> QED
    BY <1>1, <2>1, <2>2, <2>3, <2>4, <2>5, <2>6, <2>7 DEF HandleRunStart
<1>2. ASSUME NEW p \in Attempt, Runtime(p) PROVE EndInv'
  <2>1. ASSUME NEW frame \in Frame, PrintFrame(p, frame) PROVE EndInv'
    BY <1>0, <2>1 DEF PrintFrame
  <2>2. CASE Exit(p) \/ OrphanExit(p)
    <3>1. UNCHANGED <<runtimeRow, handler, handle, projecting, final, startAcks, events, snapshots>>
      BY <2>2 DEF Exit, OrphanExit
    <3>2. Children' = Children /\ \A q \in Attempt : proc[q] = "missed" => proc'[q] = "missed"
      BY <2>2 DEF Exit, OrphanExit, Children, Child, TypeOK
    <3> QED
      BY <1>o, <1>r, <3>1, <3>2 DEF InFlight, Started
  <2>3. CASE DropLine(p)
    BY <1>0, <2>3 DEF DropLine
  <2>4. CASE ReadReady(p)
    BY <1>0, <2>4 DEF ReadReady
  <2>5. CASE ReadEnding(p)
    <3>1. Projected(Head(pipe[p])) \in Outcome /\ Projected(Head(pipe[p])) \in events'
      BY <2>5 DEF ReadEnding, Projected, Ending, Outcome
    <3>2. OnRecord'
      BY <3>1 DEF OnRecord, Endings
    <3>3. UNCHANGED <<proc, handle, handler>> /\ final' # "none"
      BY <2>5, <3>1 DEF ReadEnding, Finalize, Outcome
    <3> QED
      BY <1>o, <3>2, <3>3 DEF Children
  <2>6. CASE SeeExit(p)
    <3>1. /\ UNCHANGED <<handler, startAcks, snapshots>> /\ handle' = None /\ runtimeRow' = None
          /\ proc[p] = "dead" /\ final' # "none" /\ events \subseteq events' /\ up
          /\ proc' = [proc EXCEPT ![p] = IF handler[p] = "spawned" THEN "missed" ELSE "reaped"]
      BY <2>6 DEF SeeExit, Unregister
    <3>2. OnRecord => OnRecord'
      BY <1>r, <3>1
    <3>3. p \in Children
      BY <3>1 DEF Children, Child
    <3>4. CASE handler[p] = "spawned"
      <4>1. p \in InFlight
        BY <3>4 DEF InFlight
      <4>2. handle = None /\ runtimeRow = None /\ Children \subseteq {p}
        BY <1>o, <3>1, <4>1, OneInFlight DEF TableInv
      <4>3. proc'[p] = "missed" /\ p \in InFlight' /\ Children' = {}
        BY <3>1, <3>4, <4>1, <4>2 DEF InFlight, Children, Child, TypeOK
      <4> QED
        BY <1>o, <3>1, <3>2, <4>2, <4>3 DEF Started
    <3>5. CASE handler[p] # "spawned"
      <4>1. p = handle /\ p # None
        BY <1>n, <1>o, <3>3, <3>5
      <4>2. InFlight = {}
        BY <1>o, <4>1, OneInFlight
      <4>3. OnRecord'
        <5>1. CASE final # "none"
          BY <1>o, <3>1, <3>2, <4>1, <4>2, <5>1
        <5>2. CASE final = "none"
          <6>1. projecting
            BY <1>o, <4>1, <5>2
          <6>2. "cancelled" \in events' \/ "failed" \in events'
            BY <2>6, <5>2, <6>1 DEF SeeExit
          <6> QED
            BY <6>2 DEF OnRecord, Endings, Outcome
        <5> QED
          BY <5>1, <5>2
      <4>4. \A q \in Children' : q \in Children /\ q # p
        BY <3>1, <3>5 DEF Children, Child, TypeOK
      <4>5. Children' = {}
        BY <1>o, <4>1, <4>2, <4>4 DEF InFlight, Children
      <4> QED
        BY <3>1, <4>3, <4>5
    <3> QED
      BY <3>4, <3>5
  <2> QED
    BY <1>2, <2>1, <2>2, <2>3, <2>4, <2>5, <2>6 DEF Runtime
<1>3. ASSUME NEW c \in Cancel, HandleRunCancel(c) PROVE EndInv'
  BY <1>0, <1>3 DEF HandleRunCancel
<1>4. ASSUME NEW f \in Followup, ReplayFollowup(f) \/ JudgeFollowup(f) PROVE EndInv'
  BY <1>0, <1>4 DEF ReplayFollowup, JudgeFollowup
<1>5. CASE Timer
  <2>1. /\ UNCHANGED <<runtimeRow, handler, handle, projecting, final, startAcks, events, snapshots>>
        /\ \/ UNCHANGED proc
           \/ proc[handle] = "alive" /\ proc' = [proc EXCEPT ![handle] = "killed"]
    BY <1>5
       DEF Timer, EscalateToSigterm, EscalateToSigkill, ReleaseBySigterm, ReleaseBySigkill, Kill, Active
  <2>2. Children' = Children /\ \A q \in Attempt : proc[q] = "missed" => proc'[q] = "missed"
    BY <2>1 DEF Children, Child, TypeOK
  <2> QED
    BY <1>o, <1>r, <2>1, <2>2 DEF InFlight, Started
<1>6. CASE HandleApprovalDecide \/ AnswerStatusRequest
  BY <1>0, <1>6 DEF HandleApprovalDecide, AnswerStatusRequest
<1>7. CASE Crash
  <2>1. handle' = None /\ final' = "none" /\ UNCHANGED <<events, snapshots>>
    BY <1>7 DEF Crash, NodeEnds
  <2>2. Children' = {}
    BY <1>7 DEF Crash, NodeEnds, Children, Child, TypeOK
  <2>3. Started' /\ runtimeRow' = None => Started /\ runtimeRow = None
    BY <1>n, <1>7 DEF Crash, CutRegistration, CutFollowup, Started
  <2> QED
    BY <1>o, <1>r, <2>1, <2>2, <2>3
<1>8. CASE Restart
  <2>1. UNCHANGED <<events, handler, handle, startAcks>> /\ ~up
    BY <1>8 DEF Restart
  <2>2. handle' = None /\ Children = {} /\ InFlight = {}
    BY <2>1 DEF TableInv, ProcInv, HandlerInv
  <2>3. Children' = {}
    BY <1>8, <2>2 DEF Restart, KillOrphan, Children, Child, TypeOK
  <2>4. CASE runtimeRow = None
    <3>1. UNCHANGED <<proc, final, snapshots, runtimeRow>>
      BY <1>8, <2>4 DEF Restart
    <3> QED
      BY <1>o, <1>r, <2>1, <2>2, <2>3, <3>1 DEF InFlight, Started
  <2>5. CASE runtimeRow # None
    <3>1. OnRecord'
      BY <1>8, <2>5 DEF Restart, ReportLost, OnRecord
    <3> QED
      BY <2>2, <2>3, <3>1
  <2> QED
    BY <2>4, <2>5
<1> QED
  BY <1>0, <1>1, <1>2, <1>3, <1>4, <1>5, <1>6, <1>7, <1>8 DEF Next, vars

StartInv == HandlerInv /\ ProcInv /\ BesideInv /\ TableInv /\ EndInv

\* The five parts of the invariant hold in every state.
THEOREM StartInvariants == Spec => []StartInv
<1>1. Init => StartInv
  BY DEF Init, StartInv, HandlerInv, ProcInv, BesideInv, TableInv, EndInv, InFlight, Children, Child, Started
<1>2. TypeOK /\ StartInv /\ [Next]_vars => StartInv'
  BY HandlerStep, BesideStep, TableStep, EndStep DEF StartInv
<1> QED
  BY <1>1, <1>2, TypeCorrect, PTL DEF Spec

\* The Node has two Runtimes for one Run only from deliveries handled side by side.
THEOREM OneRuntimeAtATime == Spec => []OneRuntime
<1>1. StartInv => OneRuntime
  BY DEF StartInv, BesideInv, OneRuntime, Running, Children, Child
<1> QED
  BY <1>1, StartInvariants, PTL

\* And only then the prompt is given twice, over redeliveries and restarts.
THEOREM RunIsPromptedOnce == Spec => []PromptedOnce
<1>1. StartInv => PromptedOnce
  BY DEF StartInv, BesideInv, PromptedOnce
<1> QED
  BY <1>1, StartInvariants, PTL

\* The table and active_runtime name the same process; one whose exit was seen is
\* named only when it was seen before the process was registered.
THEOREM ActiveRuntimeIsAlive == Spec => []ActiveIsAlive
<1>1. TypeOK /\ StartInv => ActiveIsAlive
  BY DEF StartInv, TableInv, ProcInv, ActiveIsAlive, Active, Child, TypeOK
<1> QED
  BY <1>1, StartInvariants, TypeCorrect, PTL

\* A Run that was accepted and has no Runtime has its ending on record, unless
\* deliveries overlapped.
THEOREM EndingOnRecord == Spec => []EndingKnown
<1>1. StartInv => EndingKnown
  BY DEF StartInv, TableInv, EndInv, EndingKnown, Active, OnRecord
<1> QED
  BY <1>1, StartInvariants, PTL

(***************************************************************************)
(* The project context of a Run (RunContext): what is acknowledged to the  *)
(* Hub and which copies are removed.  RunContext shares no variable with   *)
(* NodeRun.                                                                *)
(*                                                                         *)
(* The argument: an acknowledgement, recorded or still on the way, speaks  *)
(* of a version that state.json has reached (AcksTrue); versions withdraw  *)
(* for good (GoneForGood); and from the first operation on, every entry    *)
(* the Node's version withdraws was read, is without a copy or has its     *)
(* removal to come (Covered), so that the operation that ends with nothing *)
(* to do can say so.                                                       *)
(***************************************************************************)

\* Versions are kept, and what is withdrawn for good stays so.
GoneForGood ==
    \A i \in 1..Latest, e \in Entry :
        hist[i][e] = "gone" => truth[e] = "gone" /\ \A j \in i..Latest : hist[j][e] = "gone"

\* What an acknowledgement says of a version, recorded or on the way.
TrueAck(a) ==
    /\ a.ver <= Latest /\ a.ver <= file.ver
    /\ \A e \in Entry : hist[a.ver][e] = "gone" => e \in a.failed \/ e \in read \/ e \notin copy

Acknowledged ==
    stateAcks \union {upstream[i].ack : i \in {j \in 1..Len(upstream) : upstream[j].kind = "ack"}}

AcksTrue == \A a \in Acknowledged : TrueAck(a)

\* Before the copies are there nothing is removed and nothing acknowledged.
Unprepared ==
    phase \in {"idle", "ordered", "writing"} =>
        /\ copy = {} /\ tasks = {} /\ stateAcks = {}
        /\ \A i \in 1..Len(upstream) : upstream[i].kind # "ack"

\* The operation of the Run's queue.
Operation ==
    /\ op.kind = "none" => op = Idle
    /\ op # Idle => Prepared
    /\ op.kind = "state" => op.ver = ver /\ ver >= 1
    /\ op.kind \in {"state", "init"} => \A e \in op.todo : View(ver)[e] # "frozen"

\* From the first operation on, an entry that is not frozen in the version of
\* the store was read, is without a copy, or its removal is to be done.
Covered ==
    Prepared /\ (phase = "running" \/ tasks # {} \/ op # Idle) =>
        \A e \in Entry : View(ver)[e] # "frozen" => e \in read \/ e \notin copy \/ e \in tasks \/ e \in op.todo

ContextInv == ContextTypeOK /\ GoneForGood /\ AcksTrue /\ Unprepared /\ Operation /\ Covered

-----------------------------------------------------------------------------
(* What a step changes *)

\* The standing of entries and the versions: an entry withdrawn for good stays
\* so, and at most what is true now is appended.
HubChange ==
    /\ truth' \in [Entry -> Standing]
    /\ \A e \in Entry : truth[e] = "gone" => truth'[e] = "gone"
    /\ hist' = hist \/ hist' = Append(hist, truth')
    /\ frames' \subseteq frames \/ (frames' = frames \union {Len(hist')} /\ Len(hist') >= 1)

\* What the timer, a correction and a pull derive.
LEMMA RefreshedFacts ==
    ASSUME NEW t \in [Entry -> Standing], hist \in Seq([Entry -> Standing]),
           NEW h, h = IF hist = <<>> \/ hist[Latest] # t THEN Append(hist, t) ELSE hist
    PROVE  (h = hist \/ h = Append(hist, t)) /\ Len(h) >= 1
<1>1. CASE hist = <<>>
  BY <1>1
<1>2. CASE hist # <<>>
  <2>1. Len(hist) \in Nat /\ Len(hist) # 0
    BY <1>2
  <2> QED
    BY <2>1
<1> QED
  BY <1>1, <1>2

\* Every step changes standing and versions in this way only.
LEMMA HubStep ==
    ASSUME ContextTypeOK, [ContextNext]_contextVars
    PROVE  HubChange
<1> USE DEF hubVars, wireVars, storeVars, copyVars, toolVars, bounds
<1>t. truth \in [Entry -> Standing] /\ hist \in Seq([Entry -> Standing])
  BY DEF ContextTypeOK
<1>p. ASSUME NEW b \in BOOLEAN, Push(b), UNCHANGED truth PROVE HubChange
  <2>1. (hist' = hist \/ hist' = Append(hist, truth)) /\ Len(hist') >= 1
    BY <1>t, <1>p, RefreshedFacts DEF Push, Refreshed
  <2> QED
    BY <1>t, <1>p, <2>1 DEF Push, HubChange
<1>s. ASSUME UNCHANGED <<truth, hist>>, frames' \subseteq frames PROVE HubChange
  BY <1>t, <1>s DEF HubChange
<1>1. ASSUME NEW e \in Entry, Lose(e) \/ Restore(e) \/ Revoke(e) PROVE HubChange
  <2>1. UNCHANGED <<hist, frames>>
    BY <1>1 DEF Lose, Restore, Revoke
  <2>2. /\ truth' \in [Entry -> Standing]
        /\ \A x \in Entry : truth[x] = "gone" => truth'[x] = "gone"
    BY <1>1, <1>t DEF Lose, Restore, Revoke, Standing
  <2> QED
    BY <2>1, <2>2 DEF HubChange
<1>2. ASSUME NEW e \in Entry, Correct(e) PROVE HubChange
  <2>1. /\ truth' \in [Entry -> Standing]
        /\ \A x \in Entry : truth[x] = "gone" => truth'[x] = "gone"
    BY <1>2, <1>t DEF Correct, Standing
  <2>2. (hist' = hist \/ hist' = Append(hist, truth')) /\ Len(hist') >= 1
    <3> HIDE DEF hubVars, wireVars, storeVars, copyVars, toolVars, bounds
    <3>1. hist' = IF hist = <<>> \/ hist[Latest] # truth' THEN Append(hist, truth') ELSE hist
      BY <1>2 DEF Correct
    <3> QED
      BY <1>t, <2>1, <3>1, RefreshedFacts
  <2>3. frames' \subseteq frames \/ frames' = frames \union {Len(hist')}
    BY <1>2 DEF Correct
  <2> QED
    BY <2>1, <2>2, <2>3 DEF HubChange
<1>3. CASE Tick
  BY <1>3, <1>p DEF Tick
<1>4. CASE HandleUp
  BY <1>4, <1>p, <1>s DEF HandleUp, HandleReceipt
<1>5. CASE Dispatch
  BY <1>5, <1>s DEF Dispatch
<1>6. ASSUME NEW e \in Entry, Clean(e) \/ Check(e) \/ Receipt(e) PROVE HubChange
  BY <1>6, <1>s DEF Clean, Check, Receipt
<1>7. ASSUME NEW v \in frames, TakeState(v) PROVE HubChange
  BY <1>7, <1>s DEF TakeState, FrameAcked
<1>8. ASSUME NEW due \in SUBSET tasks, TakeSync(due) \/ Reconnect(due) PROVE HubChange
  BY <1>8, <1>s DEF TakeSync, Reconnect
<1>9. CASE Bundle \/ Written \/ InitState \/ FinishInit \/ FinishDrain \/ ReadCopy \/ Terminal \/ Disconnect
  BY <1>9, <1>s DEF Bundle, Written, InitState, FinishInit, FinishDrain, ReadCopy, Terminal, Disconnect
<1>10. CASE FinishState
  BY <1>10, <1>s DEF FinishState, FrameAcked
<1>11. CASE UNCHANGED contextVars
  BY <1>11, <1>s DEF contextVars
<1> QED
  BY <1>1, <1>2, <1>3, <1>4, <1>5, <1>6, <1>7, <1>8, <1>9, <1>10, <1>11 DEF ContextNext

\* Versions are only added.
Grown ==
    /\ hist' \in Seq([Entry -> Standing]) /\ Latest \in Nat /\ Latest' \in Nat /\ Latest <= Latest'
    /\ \A i \in 1..Latest : hist'[i] = hist[i]

\* The Hub's versions only grow.
LEMMA GrownStep ==
    ASSUME ContextTypeOK, HubChange
    PROVE  Grown
<1>t. truth' \in [Entry -> Standing] /\ hist \in Seq([Entry -> Standing])
  BY DEF ContextTypeOK, HubChange
<1>1. CASE hist' = hist
  BY <1>1, <1>t DEF Grown, Latest
<1>2. CASE hist' = Append(hist, truth')
  <2>1. /\ hist' \in Seq([Entry -> Standing]) /\ Len(hist') = Len(hist) + 1 /\ Len(hist) \in Nat
        /\ \A i \in 1..Len(hist) : hist'[i] = hist[i]
    BY <1>2, <1>t
  <2> QED
    BY <2>1 DEF Grown, Latest
<1> QED
  BY <1>1, <1>2 DEF HubChange

\* An entry withdrawn for good is so in every later version.
LEMMA GoneStep ==
    ASSUME ContextTypeOK, GoneForGood, HubChange
    PROVE  GoneForGood'
<1>t. truth' \in [Entry -> Standing] /\ hist \in Seq([Entry -> Standing]) /\ Len(hist) \in Nat
  BY DEF ContextTypeOK, HubChange
<1>1. CASE hist' = hist
  BY <1>1 DEF GoneForGood, HubChange, Latest
<1>2. CASE hist' = Append(hist, truth')
  <2>1. /\ Len(hist') = Len(hist) + 1 /\ hist'[Len(hist')] = truth'
        /\ \A i \in 1..Len(hist) : hist'[i] = hist[i]
    BY <1>2, <1>t
  <2> SUFFICES ASSUME NEW i \in 1..Len(hist'), NEW e \in Entry, hist'[i][e] = "gone", NEW j \in i..Len(hist')
               PROVE  truth'[e] = "gone" /\ hist'[j][e] = "gone"
    BY DEF GoneForGood, Latest
  <2>2. CASE i \in 1..Len(hist)
    <3>1. truth'[e] = "gone"
      BY <2>1, <2>2 DEF GoneForGood, HubChange, Latest
    <3>2. CASE j \in 1..Len(hist)
      <4>1. j \in i..Len(hist) /\ hist[i][e] = "gone"
        BY <3>2, <2>1, <2>2
      <4> QED
        BY <2>1, <2>2, <3>1, <3>2, <4>1 DEF GoneForGood, Latest
    <3>3. CASE j = Len(hist')
      BY <2>1, <3>1, <3>3
    <3> QED
      BY <3>2, <3>3, <1>t, <2>1
  <2>3. CASE i = Len(hist')
    BY <2>1, <2>3, <1>t
  <2> QED
    BY <2>2, <2>3, <2>1, <1>t
<1> QED
  BY <1>1, <1>2 DEF HubChange

-----------------------------------------------------------------------------
(* Types *)

\* The receipts on record and on the Node are numbered with positive numbers.
LEMMA NextSeqNat ==
    ASSUME ContextTypeOK
    PROVE  NextSeq \in Nat \ {0}
<1> DEFINE R == known \union out
           S == {r.seq : r \in R}
           g == [r \in R |-> r.seq]
<1>1. g \in Surjection(R, S)
  <2>1. g \in [R -> S]
    OBVIOUS
  <2>2. \A s \in S : \E r \in R : g[r] = s
    OBVIOUS
  <2> QED
    BY <2>1, <2>2 DEF Surjection
<1>2. IsFiniteSet(R)
  BY DEF ContextTypeOK
<1>3. IsFiniteSet(S)
  <2> HIDE DEF R, S, g
  <2> QED
    BY <1>1, <1>2, FS_Surjection
<1>4. Cardinality(S) \in Nat
  BY <1>3, FS_CardinalityType
<1> QED
  BY <1>4 DEF NextSeq

\* After a lost connection every receipt is sent.
LEMMA InOrderType ==
    ASSUME ContextTypeOK, NEW s \in InOrder(out)
    PROVE  s \in Seq(Frames) /\ \A i \in 1..Len(s) : s[i].kind # "ack"
<1>1. IsFiniteSet(out)
  BY FS_Subset DEF ContextTypeOK
<1>2. Cardinality(out) \in Nat
  BY <1>1, FS_CardinalityType
<1>3. {ReceiptFrame(r) : r \in out} \subseteq Frames
  BY DEF ReceiptFrame, Frames, ContextTypeOK
<1>4. s \in [1..Cardinality(out) -> {ReceiptFrame(r) : r \in out}]
  BY DEF InOrder
<1>5. s \in Seq({ReceiptFrame(r) : r \in out}) /\ Len(s) = Cardinality(out)
  BY <1>2, <1>4
<1>6. \A i \in 1..Len(s) : s[i] \in {ReceiptFrame(r) : r \in out}
  BY <1>4, <1>5
<1>7. s \in Seq(Frames)
  BY <1>2, <1>3, <1>4
<1> QED
  BY <1>6, <1>7 DEF ReceiptFrame

\* The acknowledgements the Node may send in this step.
NewAck(f) ==
    \/ FinishState /\ f = AckFrame(op.ver, op.failed \union tasks) /\ file' = FileAfter(ver, paused')
    \/ /\ FinishDrain /\ f = AckFrame(ver, {}) /\ tasks = {} /\ Prepared /\ ver >= 1
       /\ file' = FileAfter(ver, paused')

\* What is on the connection was there before, or is not an acknowledgement, or
\* is one the Node sends in this step.
UpChange ==
    /\ upstream' \in Seq(Frames)
    /\ \A i \in 1..Len(upstream') :
          \/ \E j \in 1..Len(upstream) : upstream'[i] = upstream[j]
          \/ upstream'[i].kind # "ack"
          \/ NewAck(upstream'[i])

\* A frame that is put on the connection, if there is one.
LEMMA SentStep ==
    ASSUME ContextTypeOK, NEW f \in Frames, f.kind # "ack" \/ NewAck(f), upstream' = Sent(f)
    PROVE  UpChange
<1>t. upstream \in Seq(Frames)
  BY DEF ContextTypeOK
<1>1. CASE conn
  <2>1. upstream' = Append(upstream, f)
    BY <1>1 DEF Sent
  <2>2. /\ upstream' \in Seq(Frames) /\ Len(upstream') = Len(upstream) + 1 /\ Len(upstream) \in Nat
        /\ \A i \in 1..Len(upstream) : upstream'[i] = upstream[i]
        /\ upstream'[Len(upstream')] = f
    BY <2>1, <1>t
  <2>3. \A i \in 1..Len(upstream') : i \in 1..Len(upstream) \/ i = Len(upstream')
    BY <2>2
  <2> QED
    BY <2>2, <2>3 DEF UpChange
<1>2. CASE ~conn
  <2>1. upstream' = upstream
    BY <1>2 DEF Sent
  <2> QED
    BY <2>1, <1>t DEF UpChange
<1> QED
  BY <1>1, <1>2

\* Every step changes the frames on the connection in this way only.
LEMMA UpStep ==
    ASSUME ContextTypeOK, Operation, [ContextNext]_contextVars
    PROVE  UpChange
<1> USE DEF hubVars, wireVars, storeVars, copyVars, toolVars, bounds
<1>t. upstream \in Seq(Frames) /\ out \subseteq Receipts
  BY DEF ContextTypeOK
<1>s. ASSUME UNCHANGED upstream PROVE UpChange
  BY <1>t, <1>s DEF UpChange
<1>f. [kind |-> "end"] \in Frames /\ [kind |-> "pull"] \in Frames
  BY DEF Frames
<1>1. ASSUME NEW e \in Entry, Lose(e) \/ Restore(e) \/ Revoke(e) \/ Correct(e) \/ Clean(e) \/ Check(e)
      PROVE  UpChange
  BY <1>1, <1>s DEF Lose, Restore, Revoke, Correct, Clean, Check
<1>2. ASSUME NEW e \in Entry, Receipt(e) PROVE UpChange
  <2> DEFINE r == [seq |-> NextSeq, e |-> e]
  <2>1. ReceiptFrame(r) \in Frames /\ ReceiptFrame(r).kind # "ack"
    BY NextSeqNat DEF ReceiptFrame, Frames, Receipts
  <2>2. upstream' = upstream \/ upstream' = Sent(ReceiptFrame(r))
    BY <1>2 DEF Receipt
  <2> HIDE DEF r
  <2> QED
    BY <2>1, <2>2, <1>s, SentStep
<1>3. ASSUME NEW v \in frames, TakeState(v) PROVE UpChange
  BY <1>3, <1>s DEF TakeState
<1>4. ASSUME NEW due \in SUBSET tasks, TakeSync(due) PROVE UpChange
  BY <1>4, <1>s, <1>f, SentStep DEF TakeSync
<1>5. ASSUME NEW due \in SUBSET tasks, Reconnect(due) PROVE UpChange
  <2> DEFINE a == <<[kind |-> "hello"]>>
             b == IF phase = "gone" /\ hub = "active" THEN <<[kind |-> "end"]>> ELSE <<>>
  <2>1. PICK s \in InOrder(out) : upstream' = a \o b \o s
    BY <1>5 DEF Reconnect
  <2>2. a \in Seq(Frames) /\ \A i \in 1..Len(a) : a[i].kind # "ack"
    BY DEF Frames
  <2>3. b \in Seq(Frames) /\ \A i \in 1..Len(b) : b[i].kind # "ack"
    <3>1. CASE phase = "gone" /\ hub = "active"
      BY <3>1 DEF Frames
    <3>2. CASE ~(phase = "gone" /\ hub = "active")
      BY <3>2
    <3> QED
      BY <3>1, <3>2
  <2>4. s \in Seq(Frames) /\ \A i \in 1..Len(s) : s[i].kind # "ack"
    BY InOrderType
  <2> HIDE DEF a, b
  <2>5. upstream' \in Seq(Frames) /\ \A i \in 1..Len(upstream') : upstream'[i].kind # "ack"
    <3>1. (a \o b) \in Seq(Frames) /\ \A i \in 1..Len(a \o b) : (a \o b)[i].kind # "ack"
      BY <2>2, <2>3
    <3> DEFINE c == a \o b
    <3> HIDE DEF c
    <3>2. c \in Seq(Frames) /\ \A i \in 1..Len(c) : c[i].kind # "ack"
      BY <3>1 DEF c
    <3>3. c \o s \in Seq(Frames) /\ \A i \in 1..Len(c \o s) : (c \o s)[i].kind # "ack"
      BY <2>4, <3>2
    <3> QED
      BY <2>1, <3>3 DEF c
  <2> QED
    BY <2>5 DEF UpChange
<1>6. CASE HandleUp
  <2>1. upstream # <<>> /\ upstream' = Tail(upstream)
    BY <1>6 DEF HandleUp
  <2>2. /\ upstream' \in Seq(Frames) /\ Len(upstream') = Len(upstream) - 1 /\ Len(upstream) \in Nat
        /\ \A i \in 1..Len(upstream') : upstream'[i] = upstream[i + 1]
    BY <2>1, <1>t
  <2>3. \A i \in 1..Len(upstream') : i + 1 \in 1..Len(upstream)
    BY <2>2
  <2> QED
    BY <2>2, <2>3 DEF UpChange
<1>7. CASE Bundle
  BY <1>7, <1>s, <1>f, SentStep DEF Bundle
<1>8. CASE FinishInit
  BY <1>8, <1>s, <1>f, SentStep DEF FinishInit
<1>9. CASE FinishState
  <2>1. CASE UNCHANGED upstream
    BY <2>1, <1>s
  <2>2. CASE upstream' = Sent(AckFrame(op.ver, op.failed \union tasks)) /\ file' = FileAfter(ver, paused')
    <3>1. op.ver \in Nat \ {0}
      BY <1>9 DEF FinishState, Operation, ContextTypeOK, Latest
    <3>2. op.failed \union tasks \in SUBSET Entry
      BY DEF ContextTypeOK, Operations
    <3>3. AckFrame(op.ver, op.failed \union tasks) \in Frames
      BY <3>1, <3>2 DEF AckFrame, Frames, StateAcks
    <3>4. NewAck(AckFrame(op.ver, op.failed \union tasks))
      BY <1>9, <2>2 DEF NewAck
    <3> QED
      BY <2>2, <3>3, <3>4, SentStep
  <2> QED
    BY <1>9, <2>1, <2>2 DEF FinishState
<1>10. CASE FinishDrain
  <2>1. CASE UNCHANGED upstream
    BY <2>1, <1>s
  <2>2. CASE /\ upstream' = Sent(AckFrame(ver, {})) /\ ver >= 1 /\ file' = FileAfter(ver, paused')
             /\ paused' # paused /\ ~paused'
    <3>1. ver \in Nat \ {0}
      BY <2>2 DEF ContextTypeOK, Latest, Absent
    <3>3. AckFrame(ver, {}) \in Frames
      BY <3>1 DEF AckFrame, Frames, StateAcks
    <3>4. Prepared /\ tasks = {}
      BY <1>10, <2>2 DEF FinishDrain
    <3>5. NewAck(AckFrame(ver, {}))
      BY <1>10, <2>2, <3>4 DEF NewAck
    <3> QED
      BY <2>2, <3>3, <3>5, SentStep
  <2> QED
    BY <1>10, <2>1, <2>2 DEF FinishDrain
<1>11. CASE Terminal
  BY <1>11, <1>f, SentStep DEF Terminal
<1>12. CASE Disconnect
  BY <1>12, <1>t DEF Disconnect, UpChange
<1>13. CASE Tick \/ Dispatch \/ Written \/ InitState \/ ReadCopy
  BY <1>13, <1>s DEF Tick, Dispatch, Written, InitState, ReadCopy
<1>14. CASE UNCHANGED contextVars
  BY <1>14, <1>s DEF contextVars
<1> QED
  BY <1>1, <1>2, <1>3, <1>4, <1>5, <1>6, <1>7, <1>8, <1>9, <1>10, <1>11, <1>12, <1>13, <1>14 DEF ContextNext

\* Operations as they begin.
LEMMA OperationFacts ==
    /\ Idle \in Operations
    /\ \A k \in {"state", "init", "drain"}, v \in Nat, t \in SUBSET Entry, b \in BOOLEAN :
          [kind |-> k, ver |-> v, todo |-> t, failed |-> {}, begun |-> b] \in Operations
  BY DEF Operations, Idle

\* The variables of the Node, with bounds that grow with the Hub's versions.
NodeTypes ==
    /\ ver \in Absent..Latest /\ file \in [ver : Absent..Latest, paused : BOOLEAN]
    /\ op \in Operations
    /\ watermark \in 0..Latest

\* A step that leaves the variables of the Node alone keeps their types.
LEMMA NodeTypesKept ==
    ASSUME ContextTypeOK, Grown, UNCHANGED <<ver, file, op, watermark>>
    PROVE  NodeTypes'
<1>1. /\ Latest \in Nat /\ Latest' \in Nat /\ Latest <= Latest'
  BY DEF Grown
<1>2. Absent..Latest \subseteq Absent..Latest' /\ 0..Latest \subseteq 0..Latest'
  BY <1>1 DEF Absent
<1> QED
  BY <1>2 DEF ContextTypeOK, NodeTypes

\* Every step keeps every variable in its type.
LEMMA ContextTypeStep ==
    ASSUME ContextTypeOK, Operation, [ContextNext]_contextVars
    PROVE  ContextTypeOK'
<1> USE DEF hubVars, wireVars, storeVars, copyVars, toolVars, bounds
<1>h. HubChange /\ Grown
  BY HubStep, GrownStep
<1>u. upstream' \in Seq(Frames)
  BY UpStep DEF UpChange
<1>f. frames' \subseteq 1..Latest'
  <2>1. Latest \in Nat /\ Latest' \in Nat /\ Latest <= Latest'
    BY <1>h DEF Grown
  <2>2. frames \subseteq 1..Latest'
    BY <2>1 DEF ContextTypeOK
  <2>3. Len(hist') >= 1 => Len(hist') \in 1..Latest'
    BY <2>1 DEF Latest
  <2> QED
    BY <1>h, <2>2, <2>3 DEF HubChange
<1>g. truth' \in [Entry -> Standing] /\ hist' \in Seq([Entry -> Standing])
  BY <1>h DEF HubChange, Grown
<1>c. MaxChange \in Nat /\ MaxFault \in Nat /\ MaxDrop \in Nat /\ MaxRead \in Nat
  BY RunContextAssumption
<1> DEFINE HubTypes ==
             /\ hub \in {"active", "over"} /\ stateAcks \subseteq StateAcks
             /\ known \subseteq Receipts /\ out \subseteq Receipts /\ IsFiniteSet(known \union out)
           RestTypes ==
             /\ conn \in BOOLEAN
             /\ phase \in {"idle", "ordered", "writing", "ready", "running", "gone"}
             /\ paused \in BOOLEAN
             /\ read \subseteq Entry /\ tasks \subseteq Entry /\ copy \subseteq Entry
             /\ reader \in {Nobody} \union {{e} : e \in Entry} /\ lines \subseteq Entry
             /\ changes \in 0..MaxChange /\ faults \in 0..MaxFault
             /\ drops \in 0..MaxDrop /\ receipts \in 0..MaxRead
<1>a. HubTypes /\ RestTypes /\ NodeTypes
  BY DEF ContextTypeOK, NodeTypes
<1>q. ASSUME HubTypes', RestTypes', NodeTypes' PROVE ContextTypeOK'
  BY <1>q, <1>f, <1>g, <1>u DEF ContextTypeOK, NodeTypes
<1>k. ASSUME UNCHANGED <<hub, stateAcks, known, out>> PROVE HubTypes'
  BY <1>a, <1>k
<1>v. Latest \in Nat /\ Latest' \in Nat /\ Latest <= Latest'
  BY <1>h DEF Grown
<1>1. ASSUME NEW e \in Entry, Lose(e) \/ Restore(e) \/ Revoke(e) \/ Correct(e) PROVE ContextTypeOK'
  <2>1. HubTypes' /\ UNCHANGED <<ver, file, op, watermark>>
    BY <1>1, <1>k DEF Lose, Restore, Revoke, Correct
  <2>2. RestTypes'
    BY <1>1, <1>a, <1>c DEF Lose, Restore, Revoke, Correct
  <2> HIDE DEF HubTypes, RestTypes
  <2> QED
    BY <2>1, <2>2, <1>h, <1>q, NodeTypesKept
<1>2. ASSUME NEW e \in Entry, Clean(e) PROVE ContextTypeOK'
  <2>1. HubTypes' /\ UNCHANGED hist
    BY <1>2, <1>k DEF Clean
  <2>2. RestTypes'
    BY <1>2, <1>a, <1>c DEF Clean, Removal
  <2>3. NodeTypes'
    <3>1. UNCHANGED <<Latest, ver, file, watermark>>
      BY <1>2 DEF Clean, Latest
    <3>2. op' \in Operations
      <4>1. op' \in {[op EXCEPT !.todo = @ \ {e}], [op EXCEPT !.todo = @ \ {e}, !.begun = TRUE],
                     [op EXCEPT !.todo = @ \ {e}, !.failed = @ \union {e}, !.begun = TRUE]}
        BY <1>2 DEF Clean, Removal
      <4>2. op \in Operations
        BY <1>a DEF NodeTypes
      <4>3. op.todo \ {e} \in SUBSET Entry /\ op.failed \union {e} \in SUBSET Entry
        BY <4>2 DEF Operations
      <4>4. /\ [op EXCEPT !.todo = @ \ {e}] \in Operations
            /\ [op EXCEPT !.todo = @ \ {e}, !.begun = TRUE] \in Operations
            /\ [op EXCEPT !.todo = @ \ {e}, !.failed = @ \union {e}, !.begun = TRUE] \in Operations
        BY <4>2, <4>3 DEF Operations
      <4> QED
        BY <4>1, <4>4
    <3> QED
      BY <3>1, <3>2, <1>a DEF NodeTypes
  <2> HIDE DEF HubTypes, RestTypes
  <2> QED
    BY <2>1, <2>2, <2>3, <1>q
<1>3. ASSUME NEW e \in Entry, Check(e) PROVE ContextTypeOK'
  <2>1. HubTypes' /\ UNCHANGED <<ver, file, op, watermark>>
    BY <1>3, <1>k DEF Check
  <2>2. RestTypes'
    BY <1>3, <1>a, <1>c DEF Check
  <2> HIDE DEF HubTypes, RestTypes
  <2> QED
    BY <2>1, <2>2, <1>h, <1>q, NodeTypesKept
<1>4. ASSUME NEW e \in Entry, Receipt(e) PROVE ContextTypeOK'
  <2> DEFINE r == [seq |-> NextSeq, e |-> e]
  <2>r. r \in Receipts
    BY NextSeqNat DEF Receipts
  <2>1. /\ out' = out \/ out' = out \union {r}
        /\ read' \subseteq read \union {e}
        /\ UNCHANGED <<hub, stateAcks, known, ver, file, op, watermark>>
        /\ lines' = lines \ {e} /\ UNCHANGED <<conn, phase, paused, tasks, copy, reader, bounds>>
    BY <1>4 DEF Receipt, Kept
  <2> HIDE DEF r
  <2>2. IsFiniteSet(known' \union out')
    <3>1. known' \union out' = known \union out \/ known' \union out' = (known \union out) \union {r}
      BY <2>1
    <3> QED
      BY <3>1, <1>a, FS_AddElement
  <2>3. HubTypes'
    BY <2>1, <2>2, <2>r, <1>a
  <2>4. RestTypes'
    BY <2>1, <1>a
  <2> HIDE DEF HubTypes, RestTypes
  <2> QED
    BY <2>1, <2>3, <2>4, <1>h, <1>q, NodeTypesKept
<1>5. ASSUME NEW v \in frames, TakeState(v) PROVE ContextTypeOK'
  <2>1. HubTypes' /\ UNCHANGED <<hist, watermark, file>>
    BY <1>5, <1>k DEF TakeState
  <2>2. RestTypes'
    BY <1>5, <1>a DEF TakeState
  <2>3. v \in Absent..Latest /\ v \in Nat
    BY <1>v DEF ContextTypeOK, Absent
  <2>4. Unread(v) \subseteq Entry
    BY DEF Unread
  <2>5. NodeTypes'
    <3>1. ver' \in {v, ver} /\ (op' = op \/ op' = [Idle EXCEPT !.kind = "state", !.ver = v, !.todo = Unread(v)])
      BY <1>5 DEF TakeState
    <3> QED
      <4>1. UNCHANGED <<Latest, watermark, file>> /\ ver' \in Absent..Latest
        BY <3>1, <2>1, <2>3, <1>a DEF Latest, NodeTypes
      <4>2. op' = op \/ op' = [kind |-> "state", ver |-> v, todo |-> Unread(v), failed |-> {}, begun |-> FALSE]
        BY <3>1 DEF Idle
      <4>5. Unread(v) \in SUBSET Entry
        BY <2>4
      <4>6. [kind |-> "state", ver |-> v, todo |-> Unread(v), failed |-> {}, begun |-> FALSE] \in Operations
        BY <4>5, <2>3 DEF Operations
      <4>3. op' \in Operations
        BY <4>2, <4>6, <1>a DEF NodeTypes
      <4> QED
        BY <4>1, <4>3, <1>a DEF NodeTypes
  <2> HIDE DEF HubTypes, RestTypes
  <2> QED
    BY <2>1, <2>2, <2>5, <1>q
<1>6. ASSUME NEW due \in SUBSET tasks, TakeSync(due) PROVE ContextTypeOK'
  <2>1. HubTypes' /\ UNCHANGED <<hist, ver>>
    BY <1>6, <1>k DEF TakeSync
  <2>2. RestTypes'
    BY <1>6, <1>a, <1>c DEF TakeSync
  <2>5. NodeTypes'
    <3>1. /\ watermark' \in {0, watermark} /\ (file' = file \/ file' = FileAfter(ver, paused))
          /\ op' = op \/ op' = [Idle EXCEPT !.kind = "drain", !.todo = due, !.begun = TRUE]
      BY <1>6 DEF TakeSync, WatermarkAcked, DrainOf
    <3>2. due \subseteq Entry
      BY <1>a
    <3>3. UNCHANGED <<Latest, ver>>
      BY <2>1 DEF Latest
    <3>4. op' \in Operations
      <4>2. [kind |-> "drain", ver |-> 0, todo |-> due, failed |-> {}, begun |-> TRUE] \in Operations
        BY <3>2 DEF Operations
      <4>1. op' = op \/ op' = [kind |-> "drain", ver |-> 0, todo |-> due, failed |-> {}, begun |-> TRUE]
        BY <3>1 DEF Idle
      <4> QED
        BY <4>1, <4>2, <1>a DEF NodeTypes
    <3>5. file' \in [ver : Absent..Latest, paused : BOOLEAN] /\ watermark' \in 0..Latest
      BY <3>1, <1>a, <1>v DEF NodeTypes, FileAfter
    <3> QED
      BY <3>3, <3>4, <3>5, <1>a DEF NodeTypes
  <2> HIDE DEF HubTypes, RestTypes
  <2> QED
    BY <2>1, <2>2, <2>5, <1>q
<1>7. ASSUME NEW due \in SUBSET tasks, Reconnect(due) PROVE ContextTypeOK'
  <2>1. HubTypes' /\ UNCHANGED <<hist, ver, file, watermark>>
    BY <1>7, <1>k DEF Reconnect
  <2>2. RestTypes'
    BY <1>7, <1>a DEF Reconnect
  <2>5. NodeTypes'
    <3>1. op' = op \/ op' = [Idle EXCEPT !.kind = "drain", !.todo = due, !.begun = TRUE]
      BY <1>7 DEF Reconnect, DrainOf
    <3>2. due \subseteq Entry
      BY <1>a
    <3>3. UNCHANGED <<Latest, ver, file, watermark>>
      BY <2>1 DEF Latest
    <3>4. op' \in Operations
      <4>2. [kind |-> "drain", ver |-> 0, todo |-> due, failed |-> {}, begun |-> TRUE] \in Operations
        BY <3>2 DEF Operations
      <4>1. op' = op \/ op' = [kind |-> "drain", ver |-> 0, todo |-> due, failed |-> {}, begun |-> TRUE]
        BY <3>1 DEF Idle
      <4> QED
        BY <4>1, <4>2, <1>a DEF NodeTypes
    <3> QED
      BY <3>3, <3>4, <1>a DEF NodeTypes
  <2> HIDE DEF HubTypes, RestTypes
  <2> QED
    BY <2>1, <2>2, <2>5, <1>q
<1>8. CASE HandleUp
  <2>1. UNCHANGED <<ver, file, op, watermark>>
    BY <1>8 DEF HandleUp
  <2>2. RestTypes'
    BY <1>8, <1>a DEF HandleUp
  <2>3. upstream[1] \in Frames /\ Head(upstream) = upstream[1]
    BY <1>8 DEF HandleUp, ContextTypeOK
  <2>4. ASSUME HandleReceipt(upstream[1].receipt), upstream[1].kind = "receipt" PROVE HubTypes'
    <3>1. upstream[1].receipt \in Receipts
      BY <2>3, <2>4 DEF Frames
    <3>2. /\ known' = known \/ known' = known \union {upstream[1].receipt}
          /\ out' \subseteq out /\ UNCHANGED <<hub, stateAcks>>
      BY <2>4 DEF HandleReceipt, Answered
    <3>3. IsFiniteSet((known \union out) \union {upstream[1].receipt})
      BY <1>a, FS_AddElement
    <3>4. IsFiniteSet(known' \union out')
      <4>1. known' \union out' \in SUBSET ((known \union out) \union {upstream[1].receipt})
        BY <3>2
      <4> QED
        BY <3>3, <4>1, FS_Subset
    <3>5. known' \subseteq Receipts /\ out' \subseteq Receipts
      BY <3>1, <3>2, <1>a
    <3> QED
      BY <3>2, <3>4, <3>5, <1>a
  <2>5. ASSUME upstream[1].kind = "ack", stateAcks' = Upserted(upstream[1].ack), UNCHANGED <<hub, known, out>>
        PROVE  HubTypes'
    <3>1. upstream[1].ack \in StateAcks
      BY <2>3, <2>5 DEF Frames
    <3>2. stateAcks' \subseteq StateAcks
      BY <2>5, <3>1, <1>a DEF Upserted
    <3>3. known' \union out' = known \union out
      BY <2>5
    <3> QED
      BY <2>5, <3>2, <3>3, <1>a
  <2>6. ASSUME hub' \in {hub, "over"}, UNCHANGED <<stateAcks, known, out>> PROVE HubTypes'
    <3>1. known' \union out' = known \union out
      BY <2>6
    <3>2. hub' \in {"active", "over"}
      BY <2>6, <1>a
    <3> QED
      BY <2>6, <3>1, <3>2, <1>a
  <2>7. HubTypes'
    <3>1. \/ upstream[1].kind = "receipt" /\ HandleReceipt(upstream[1].receipt)
          \/ upstream[1].kind = "ack" /\ stateAcks' = Upserted(upstream[1].ack) /\ UNCHANGED <<hub, known, out>>
          \/ hub' \in {hub, "over"} /\ UNCHANGED <<stateAcks, known, out>>
      BY <1>8, <2>3 DEF HandleUp
    <3> QED
      BY <3>1, <2>4, <2>5, <2>6
  <2> HIDE DEF HubTypes, RestTypes
  <2> QED
    BY <2>1, <2>2, <2>7, <1>h, <1>q, NodeTypesKept
<1>9. CASE Tick
  <2>1. HubTypes' /\ UNCHANGED <<ver, file, op>>
    BY <1>9, <1>k DEF Tick
  <2>2. RestTypes'
    BY <1>9, <1>a DEF Tick
  <2>3. watermark' \in 0..Latest'
    BY <1>9, <1>a, <1>v DEF Tick, NodeTypes
  <2>4. Absent..Latest \subseteq Absent..Latest' /\ 0..Latest \subseteq 0..Latest'
    BY <1>v DEF Absent
  <2>5. NodeTypes'
    BY <2>1, <2>3, <2>4, <1>a DEF NodeTypes
  <2> HIDE DEF HubTypes, RestTypes
  <2> QED
    BY <2>1, <2>2, <2>5, <1>q
<1>10. CASE Dispatch
  <2>1. HubTypes' /\ RestTypes' /\ UNCHANGED <<ver, file, op, watermark>>
    BY <1>10, <1>a DEF Dispatch
  <2> HIDE DEF HubTypes, RestTypes
  <2> QED
    BY <2>1, <1>h, <1>q, NodeTypesKept
<1>11. CASE Bundle \/ Written \/ ReadCopy \/ Terminal \/ Disconnect
  <2>1. HubTypes' /\ UNCHANGED <<ver, file, op, watermark>>
    BY <1>11, <1>k DEF Bundle, Written, ReadCopy, Terminal, Disconnect
  <2>2. RestTypes'
    <3>1. CASE Bundle \/ Written \/ Terminal
      BY <3>1, <1>a, <1>c DEF Bundle, Written, Terminal
    <3>2. CASE ReadCopy
      BY <3>2, <1>a, <1>c DEF ReadCopy
    <3>3. CASE Disconnect
      <4>1. drops' \in 0..MaxDrop
        BY <3>3, <1>a, <1>c DEF Disconnect
      <4> QED
        BY <3>3, <4>1, <1>a DEF Disconnect
    <3> QED
      BY <1>11, <3>1, <3>2, <3>3
  <2> HIDE DEF HubTypes, RestTypes
  <2> QED
    BY <2>1, <2>2, <1>h, <1>q, NodeTypesKept
<1>12. CASE InitState
  <2>1. HubTypes' /\ RestTypes' /\ UNCHANGED <<hist, file, watermark>>
    BY <1>12, <1>a DEF InitState
  <2>2. Unread(ver') \subseteq Entry
    BY DEF Unread
  <2>3. NodeTypes'
    <3>1. /\ ver' = IF ver = Absent THEN 0 ELSE ver
          /\ op' = [Idle EXCEPT !.kind = "init", !.todo = Unread(ver')]
      BY <1>12 DEF InitState
    <3>2. UNCHANGED <<Latest, file, watermark>>
      BY <2>1 DEF Latest
    <3>3. op' \in Operations
      <4>1. op' = [kind |-> "init", ver |-> 0, todo |-> Unread(ver'), failed |-> {}, begun |-> FALSE]
        BY <3>1 DEF Idle
      <4> QED
        BY <4>1, <2>2, OperationFacts
    <3>4. ver' \in Absent..Latest
      BY <3>1, <1>a, <1>v DEF NodeTypes, Absent
    <3> QED
      BY <3>2, <3>3, <3>4, <1>a DEF NodeTypes
  <2> HIDE DEF HubTypes, RestTypes
  <2> QED
    BY <2>1, <2>3, <1>q
<1>13. CASE FinishState \/ FinishInit \/ FinishDrain
  <2>1. HubTypes' /\ UNCHANGED <<hist, ver, watermark>>
    BY <1>13, <1>k DEF FinishState, FinishInit, FinishDrain
  <2>2. RestTypes'
    <3>1. CASE FinishState
      BY <3>1, <1>a, <1>c DEF FinishState, MustPause
    <3>2. CASE FinishInit
      BY <3>2, <1>a, <1>c DEF FinishInit, MustPause
    <3>3. CASE FinishDrain
      <4>1. faults' \in 0..MaxFault
        BY <3>3, <1>a, <1>c DEF FinishDrain
      <4>2. paused' \in BOOLEAN
        BY <3>3, <1>a DEF FinishDrain
      <4> QED
        BY <3>3, <4>1, <4>2, <1>a DEF FinishDrain
    <3> QED
      BY <1>13, <3>1, <3>2, <3>3
  <2>3. op' = Idle /\ (file' = file \/ file' = FileAfter(ver, paused')) /\ paused' \in BOOLEAN
    BY <1>13, <2>2 DEF FinishState, FinishInit, FinishDrain
  <2>4. NodeTypes'
    <3>1. UNCHANGED <<Latest, ver, watermark>>
      BY <2>1 DEF Latest
    <3>2. file' \in [ver : Absent..Latest, paused : BOOLEAN]
      BY <2>3, <1>a DEF NodeTypes, FileAfter
    <3>3. op' \in Operations
      BY <2>3, <1>v, OperationFacts
    <3> QED
      BY <3>1, <3>2, <3>3, <1>a DEF NodeTypes
  <2> HIDE DEF HubTypes, RestTypes
  <2> QED
    BY <2>1, <2>2, <2>4, <1>q
<1>14. CASE UNCHANGED contextVars
  <2>1. HubTypes' /\ RestTypes' /\ UNCHANGED <<ver, file, op, watermark>>
    BY <1>14, <1>a DEF contextVars
  <2> HIDE DEF HubTypes, RestTypes
  <2> QED
    BY <2>1, <1>h, <1>q, NodeTypesKept
<1> QED
  BY <1>1, <1>2, <1>3, <1>4, <1>5, <1>6, <1>7, <1>8, <1>9, <1>10, <1>11, <1>12, <1>13, <1>14 DEF ContextNext

-----------------------------------------------------------------------------
(* The inductive invariant *)

\* A version that is there is what it was.
LEMMA ViewKept ==
    ASSUME Grown, NEW v, v \in Absent..Latest
    PROVE  (IF v <= 0 THEN AllFrozen ELSE hist'[v]) = View(v)
  BY DEF Grown, View, Absent

\* state.json never gets older, a read is not forgotten, and only the copies of
\* a Run that begins are written.
LEMMA DiskStep ==
    ASSUME ContextTypeOK, [ContextNext]_contextVars
    PROVE  file'.ver >= file.ver /\ read \subseteq read' /\ (copy' \subseteq copy \/ Written)
<1> USE DEF hubVars, wireVars, storeVars, copyVars, toolVars, bounds
<1>t. Latest \in Nat /\ file.ver \in Int /\ ver \in Int
  BY DEF ContextTypeOK, Latest, Absent
<1>v. \A p : FileAfter(ver, p).ver >= file.ver
  BY <1>t DEF FileAfter
<1>1. ASSUME NEW e \in Entry, Lose(e) \/ Restore(e) \/ Revoke(e) \/ Correct(e) \/ Check(e) \/ Receipt(e)
      PROVE  file' = file /\ read \subseteq read' /\ copy' = copy
  BY <1>1 DEF Lose, Restore, Revoke, Correct, Check, Receipt
<1>2. ASSUME NEW e \in Entry, Clean(e) PROVE file' = file /\ read' = read /\ copy' \subseteq copy
  BY <1>2 DEF Clean, Removal
<1>3. ASSUME NEW v \in frames, TakeState(v) PROVE file' = file /\ read' = read /\ copy' = copy
  BY <1>3 DEF TakeState
<1>4. ASSUME NEW due \in SUBSET tasks, TakeSync(due) \/ Reconnect(due)
      PROVE  (file' = file \/ file' = FileAfter(ver, paused)) /\ read' = read /\ copy' = copy
  BY <1>4 DEF TakeSync, Reconnect
<1>5. CASE Tick \/ Dispatch \/ HandleUp \/ Bundle \/ Written \/ InitState \/ ReadCopy \/ Terminal \/ Disconnect
  <2>1. file' = file /\ read' = read /\ (copy' = copy \/ Written)
    BY <1>5 DEF Tick, Dispatch, HandleUp, Bundle, Written, InitState, ReadCopy, Terminal, Disconnect
  <2> QED
    BY <2>1, <1>t
<1>6. CASE FinishState \/ FinishInit \/ FinishDrain
  <2>1. (file' = file \/ file' = FileAfter(ver, paused')) /\ read' = read /\ copy' = copy
    BY <1>6 DEF FinishState, FinishInit, FinishDrain
  <2> QED
    BY <2>1, <1>t, <1>v
<1>7. CASE UNCHANGED contextVars
  <2>1. file' = file /\ read' = read /\ copy' = copy
    BY <1>7 DEF contextVars
  <2> QED
    BY <2>1, <1>t
<1> QED
  BY <1>1, <1>2, <1>3, <1>4, <1>5, <1>6, <1>7, <1>t, <1>v DEF ContextNext

\* The operation of the queue, and what it and the queued removals cover.
QueueInv == Operation /\ Covered

\* Every step keeps what the operation and the queued removals cover.
LEMMA QueueStep ==
    ASSUME ContextTypeOK, QueueInv, Unprepared, [ContextNext]_contextVars
    PROVE  QueueInv'
<1> USE DEF hubVars, wireVars, storeVars, copyVars, toolVars, bounds
<1>h. Grown /\ Latest \in Nat /\ ver \in Absent..Latest
  BY HubStep, GrownStep DEF Grown, ContextTypeOK
<1>w. View(ver) = (IF ver <= 0 THEN AllFrozen ELSE hist'[ver])
  BY <1>h, ViewKept
<1>i. Operation /\ Covered
  BY DEF QueueInv
<1>d. read \subseteq read' /\ (copy' \subseteq copy \/ Written)
  BY DiskStep
<1>k. ASSUME UNCHANGED <<ver, op, tasks>>, phase' = phase, copy' \subseteq copy PROVE QueueInv'
  <2>1. View(ver)' = View(ver)
    BY <1>k, <1>w DEF View
  <2>2. Prepared' = Prepared /\ op' = op /\ tasks' = tasks /\ ver' = ver
    BY <1>k DEF Prepared
  <2>3. Operation'
    BY <2>1, <2>2, <1>i DEF Operation
  <2>4. Covered'
    BY <2>1, <2>2, <1>k, <1>i, <1>d DEF Covered
  <2> QED
    BY <2>3, <2>4 DEF QueueInv
<1>g. ASSUME UNCHANGED <<ver, tasks>>, op = Idle, op' = Idle, ~(Prepared' /\ (phase' = "running" \/ tasks' # {})) PROVE QueueInv'
  BY <1>g DEF QueueInv, Operation, Covered, Idle
<1>1. ASSUME NEW e \in Entry, Lose(e) \/ Restore(e) \/ Revoke(e) \/ Correct(e) \/ Check(e) \/ Receipt(e)
      PROVE  QueueInv'
  <2>1. UNCHANGED <<ver, op, tasks, phase, copy>>
    BY <1>1 DEF Lose, Restore, Revoke, Correct, Check, Receipt
  <2> QED
    BY <2>1, <1>k
<1>2. ASSUME NEW e \in Entry, Clean(e) PROVE QueueInv'
  <2>1. UNCHANGED <<ver, phase, read, hist>> /\ op # Idle /\ e \in op.todo
    BY <1>2 DEF Clean
  <2>2. View(ver)' = View(ver) /\ Prepared' = Prepared /\ Prepared
    BY <2>1, <1>i, <1>w DEF View, Prepared, Operation
  <2>3. /\ op'.kind = op.kind /\ op'.ver = op.ver /\ op'.todo = op.todo \ {e}
    BY <1>2 DEF Clean, Removal, ContextTypeOK, Operations
  <2>4. op.kind # "none"
    BY <2>1, <1>i DEF Operation
  <2>5. Operation'
    BY <2>1, <2>2, <2>3, <2>4, <1>i DEF Operation
  <2>6. \/ copy' = copy \ {e} /\ tasks' = tasks \ {e}
        \/ copy' = copy /\ tasks' = tasks \union {e}
        \/ copy' = copy /\ tasks' = tasks \ {e} /\ ~StillWithdrawn(e)
    BY <1>2, <2>2 DEF Clean, Removal
  <2>7. \A x \in Entry : View(ver)[x] # "frozen" => x \in read \/ x \notin copy \/ x \in tasks \/ x \in op.todo
    BY <2>1, <2>2, <1>i DEF Covered
  <2>8. \A x \in Entry : View(ver)[x] # "frozen" => x \in read \/ x \notin copy' \/ x \in tasks' \/ x \in op'.todo
    BY <2>3, <2>6, <2>7 DEF StillWithdrawn
  <2>9. Covered'
    BY <2>1, <2>2, <2>8 DEF Covered
  <2> QED
    BY <2>5, <2>9 DEF QueueInv
<1>3. ASSUME NEW v \in frames, TakeState(v) PROVE QueueInv'
  <2>1. UNCHANGED <<phase, hist, tasks, read, copy>> /\ op = Idle
    BY <1>3 DEF TakeState
  <2>2. CASE ~Prepared
    <3>1. op' = Idle /\ ~Prepared'
      BY <1>3, <2>1, <2>2 DEF TakeState, Prepared
    <3> QED
      BY <3>1 DEF QueueInv, Operation, Covered, Idle
  <2>3. CASE Prepared /\ ~Accepts(v)
    <3>1. UNCHANGED <<ver, op>>
      BY <1>3, <2>3 DEF TakeState
    <3> QED
      BY <3>1, <2>1, <1>k
  <2>4. CASE Prepared /\ Accepts(v)
    <3>1. ver' = v /\ op' = [kind |-> "state", ver |-> v, todo |-> Unread(v), failed |-> {}, begun |-> FALSE]
      BY <1>3, <2>4 DEF TakeState, Idle
    <3>2. /\ op'.kind = "state" /\ op'.ver = v /\ op'.todo = Unread(v) /\ v >= 1
          /\ Prepared' /\ View(ver)' = View(v)
      BY <3>1, <2>1, <2>4, <1>h DEF ContextTypeOK, Prepared, View
    <3>3. Operation'
      BY <3>1, <3>2 DEF Operation, Unread
    <3>4. Covered'
      BY <3>2, <2>1 DEF Covered, Unread
    <3> QED
      BY <3>3, <3>4 DEF QueueInv
  <2> QED
    BY <2>2, <2>3, <2>4
<1>4. ASSUME NEW due \in SUBSET tasks, TakeSync(due) \/ Reconnect(due) PROVE QueueInv'
  <2>1. UNCHANGED <<phase, hist, ver, tasks, read, copy>> /\ op = Idle
    BY <1>4 DEF TakeSync, Reconnect
  <2>2. CASE op' = op
    BY <2>1, <2>2, <1>k
  <2>3. CASE Prepared /\ due # {} /\ op' = [kind |-> "drain", ver |-> 0, todo |-> due, failed |-> {}, begun |-> TRUE]
    <3>1. op'.kind = "drain" /\ op' # Idle /\ Prepared' /\ Prepared /\ tasks # {} /\ View(ver)' = View(ver)
      BY <2>1, <2>3 DEF Prepared, View, Idle
    <3>2. Operation'
      BY <3>1 DEF Operation
    <3>3. Covered'
      BY <3>1, <2>1, <1>i DEF Covered, Idle
    <3> QED
      BY <3>2, <3>3 DEF QueueInv
  <2> QED
    BY <1>4, <2>2, <2>3 DEF TakeSync, Reconnect, DrainOf, Idle
<1>5. CASE Tick \/ HandleUp \/ ReadCopy \/ Disconnect
  <2>1. UNCHANGED <<ver, op, tasks, phase, copy>>
    BY <1>5 DEF Tick, HandleUp, ReadCopy, Disconnect
  <2> QED
    BY <2>1, <1>k
<1>6. CASE Dispatch \/ Bundle \/ Terminal \/ Written
  <2>1. /\ op = Idle /\ op' = Idle /\ UNCHANGED <<ver, tasks>>
        /\ phase' \in {"ordered", "writing", "gone"} \/ (phase' = "ready" /\ tasks = {})
    BY <1>6, <1>i DEF Dispatch, Bundle, Terminal, Written, Operation, Unprepared, Prepared
  <2> QED
    BY <2>1, <1>g DEF Prepared
<1>7. CASE InitState
  <2>1. /\ op' = [kind |-> "init", ver |-> 0, todo |-> Unread(ver'), failed |-> {}, begun |-> FALSE]
        /\ phase = "ready" /\ UNCHANGED <<phase, hist, read, copy>>
    BY <1>7 DEF InitState, Idle
  <2>2. op'.kind = "init" /\ op'.todo = Unread(ver') /\ Prepared' /\ View(ver)' = View(ver')
    BY <2>1 DEF Prepared, View
  <2>3. Operation'
    BY <2>2 DEF Operation, Unread
  <2>4. Covered'
    BY <2>1, <2>2 DEF Covered, Unread
  <2> QED
    BY <2>3, <2>4 DEF QueueInv
<1>8. CASE FinishState \/ FinishInit \/ FinishDrain
  <2>1. /\ op' = Idle /\ op # Idle /\ op.todo = {}
        /\ UNCHANGED <<ver, hist, read, tasks, copy>>
    BY <1>8 DEF FinishState, FinishInit, FinishDrain, Idle
  <2>2. View(ver)' = View(ver) /\ Prepared
    BY <2>1, <1>i DEF View, Operation
  <2>3. Operation'
    BY <2>1 DEF Operation, Idle
  <2>4. Covered'
    BY <2>1, <2>2, <1>i DEF Covered
  <2> QED
    BY <2>3, <2>4 DEF QueueInv
<1>9. CASE UNCHANGED contextVars
  <2>1. UNCHANGED <<ver, op, tasks, phase, copy>>
    BY <1>9 DEF contextVars
  <2> QED
    BY <2>1, <1>k
<1> QED
  BY <1>1, <1>2, <1>3, <1>4, <1>5, <1>6, <1>7, <1>8, <1>9 DEF ContextNext

\* What the Hub records as acknowledged has come over the connection.
LEMMA AckRecorded ==
    ASSUME ContextTypeOK, [ContextNext]_contextVars
    PROVE  \A a \in stateAcks' : a \in stateAcks \/ (Len(upstream) >= 1 /\ upstream[1].kind = "ack" /\ a = upstream[1].ack)
<1> USE DEF hubVars, wireVars, storeVars, copyVars, toolVars, bounds
<1>1. CASE HandleUp
  <2>1. Head(upstream) = upstream[1] /\ Len(upstream) >= 1
    BY <1>1 DEF HandleUp, ContextTypeOK
  <2> QED
    BY <1>1, <2>1 DEF HandleUp, HandleReceipt, Upserted
<1>2. ASSUME NEW e \in Entry, Lose(e) \/ Restore(e) \/ Revoke(e) \/ Correct(e) \/ Clean(e) \/ Check(e) \/ Receipt(e)
      PROVE  stateAcks' = stateAcks
  BY <1>2 DEF Lose, Restore, Revoke, Correct, Clean, Check, Receipt
<1>3. ASSUME NEW v \in frames, TakeState(v) PROVE stateAcks' = stateAcks
  BY <1>3 DEF TakeState
<1>4. ASSUME NEW due \in SUBSET tasks, TakeSync(due) \/ Reconnect(due) PROVE stateAcks' = stateAcks
  BY <1>4 DEF TakeSync, Reconnect
<1>5. CASE Tick \/ Dispatch \/ Bundle \/ Written \/ InitState \/ ReadCopy \/ Terminal \/ Disconnect
  BY <1>5 DEF Tick, Dispatch, Bundle, Written, InitState, ReadCopy, Terminal, Disconnect
<1>6. CASE FinishState \/ FinishInit \/ FinishDrain
  BY <1>6 DEF FinishState, FinishInit, FinishDrain
<1>7. CASE UNCHANGED contextVars
  BY <1>7 DEF contextVars
<1> QED
  BY <1>1, <1>2, <1>3, <1>4, <1>5, <1>6, <1>7 DEF ContextNext

\* Nothing is removed or acknowledged before the copies are there.
LEMMA UnpreparedStep ==
    ASSUME ContextTypeOK, Operation, Unprepared, [ContextNext]_contextVars
    PROVE  Unprepared'
<1> USE DEF hubVars, wireVars, storeVars, copyVars, toolVars, bounds
<1> SUFFICES ASSUME phase' \in {"idle", "ordered", "writing"}
             PROVE  /\ copy' = {} /\ tasks' = {} /\ stateAcks' = {}
                    /\ \A i \in 1..Len(upstream') : upstream'[i].kind # "ack"
  BY DEF Unprepared
<1>1. /\ phase \in {"idle", "ordered", "writing"} /\ ~Written
      /\ tasks' = tasks \/ op # Idle
  <2>1. ASSUME NEW e \in Entry, Lose(e) \/ Restore(e) \/ Revoke(e) \/ Correct(e) \/ Clean(e) \/ Check(e) \/ Receipt(e)
        PROVE  phase' = phase /\ (tasks' = tasks \/ op # Idle)
    BY <2>1 DEF Lose, Restore, Revoke, Correct, Clean, Check, Receipt
  <2>2. ASSUME NEW v \in frames, TakeState(v) PROVE phase' = phase /\ tasks' = tasks
    BY <2>2 DEF TakeState
  <2>3. ASSUME NEW due \in SUBSET tasks, TakeSync(due) \/ Reconnect(due) PROVE phase' = phase /\ tasks' = tasks
    BY <2>3 DEF TakeSync, Reconnect
  <2>7. Written => phase' = "ready"
    BY DEF Written
  <2>4. CASE Tick \/ HandleUp \/ Bundle \/ InitState \/ ReadCopy \/ Disconnect \/ FinishState \/ FinishDrain
    BY <2>4, <2>7 DEF Tick, HandleUp, Bundle, InitState, ReadCopy, Disconnect, FinishState, FinishDrain
  <2>5. CASE Dispatch \/ Written \/ FinishInit \/ Terminal
    BY <2>5 DEF Dispatch, Written, FinishInit, Terminal
  <2>6. CASE UNCHANGED contextVars
    BY <2>6, <2>7 DEF contextVars
  <2> QED
    BY <2>1, <2>2, <2>3, <2>4, <2>5, <2>6, <2>7 DEF ContextNext
<1>2. /\ copy = {} /\ tasks = {} /\ stateAcks = {} /\ op = Idle /\ ~Prepared
      /\ \A i \in 1..Len(upstream) : upstream[i].kind # "ack"
  BY <1>1 DEF Unprepared, Operation, Prepared
<1>3. copy' = {} /\ tasks' = {}
  BY <1>1, <1>2, DiskStep
<1>4. stateAcks' = {}
  <2>1. Len(upstream) \in Nat
    BY DEF ContextTypeOK
  <2> QED
    BY <1>2, <2>1, AckRecorded
<1>5. ~FinishState /\ ~FinishDrain
  BY <1>2 DEF FinishState, FinishDrain, Idle
<1>6. \A i \in 1..Len(upstream') : upstream'[i].kind # "ack"
  BY <1>2, <1>5, UpStep DEF UpChange, NewAck
<1> QED
  BY <1>3, <1>4, <1>6

\* A version the Node acknowledges is in state.json, and the copies of what it
\* withdraws are dealt with or named.
LEMMA NewAckTrue ==
    ASSUME ContextTypeOK, Operation, Covered, Grown, NEW f, NewAck(f)
    PROVE  TrueAck(f.ack)'
<1>1. CASE FinishState /\ f = AckFrame(op.ver, op.failed \union tasks) /\ file' = FileAfter(ver, paused')
  <2>1. op # Idle /\ op.ver = ver /\ ver >= 1 /\ op.todo = {} /\ Prepared
    BY <1>1 DEF FinishState, Idle, Operation
  <2>2. UNCHANGED <<ver, hist, read, copy>>
    BY <1>1 DEF FinishState, hubVars
  <2>3. ver \in Nat /\ ver <= Latest /\ Latest' = Latest /\ file'.ver >= ver
    BY <1>1, <2>1, <2>2 DEF ContextTypeOK, Latest, FileAfter, Absent
  <2>4. \A e \in Entry : hist[ver][e] = "gone" => e \in tasks \/ e \in read \/ e \notin copy
    BY <2>1, <2>3 DEF Covered, View
  <2>5. f.ack.ver = ver /\ tasks \subseteq f.ack.failed
    BY <1>1, <2>1 DEF AckFrame
  <2> QED
    BY <2>2, <2>3, <2>4, <2>5 DEF TrueAck
<1>2. CASE /\ FinishDrain /\ f = AckFrame(ver, {}) /\ tasks = {} /\ Prepared /\ ver >= 1
           /\ file' = FileAfter(ver, paused')
  <2>1. op # Idle /\ op.todo = {}
    BY <1>2 DEF FinishDrain, Idle
  <2>2. UNCHANGED <<ver, hist, read, copy>>
    BY <1>2 DEF FinishDrain, hubVars
  <2>3. ver \in Nat /\ ver <= Latest /\ Latest' = Latest /\ file'.ver >= ver
    BY <1>2, <2>2 DEF ContextTypeOK, Latest, FileAfter, Absent
  <2>4. \A e \in Entry : hist[ver][e] = "gone" => e \in read \/ e \notin copy
    BY <1>2, <2>1, <2>3 DEF Covered, View
  <2>5. f.ack.ver = ver
    BY <1>2 DEF AckFrame
  <2> QED
    BY <2>2, <2>3, <2>4, <2>5 DEF TrueAck
<1> QED
  BY <1>1, <1>2 DEF NewAck

\* What was acknowledged stays true.
LEMMA AcksStep ==
    ASSUME ContextTypeOK, QueueInv, Unprepared, AcksTrue, [ContextNext]_contextVars
    PROVE  AcksTrue'
<1>i. Operation /\ Covered
  BY DEF QueueInv
<1>h. Grown
  BY HubStep, GrownStep
<1>t. stateAcks \subseteq StateAcks /\ upstream \in Seq(Frames)
  BY DEF ContextTypeOK
<1>v. file.ver \in Int /\ file'.ver \in Int
  BY ContextTypeStep, <1>i DEF ContextTypeOK, Absent
<1>d. file'.ver >= file.ver /\ read \subseteq read' /\ (copy' \subseteq copy \/ Written)
  BY DiskStep
<1>k. ASSUME NEW a \in StateAcks, TrueAck(a), copy' \subseteq copy PROVE TrueAck(a)'
  <2>1. a.ver \in Nat /\ a.ver >= 1
    BY DEF StateAcks
  <2>2. a.ver <= Latest' /\ a.ver <= file'.ver /\ hist'[a.ver] = hist[a.ver]
    BY <1>k, <1>h, <1>d, <1>v, <2>1 DEF TrueAck, Grown
  <2> QED
    BY <1>k, <1>d, <2>2 DEF TrueAck
<1>w. Written => Acknowledged = {}
  BY DEF Written, Unprepared, Acknowledged
<1>s. Acknowledged \subseteq StateAcks
  BY <1>t DEF Acknowledged, Frames
<1> SUFFICES ASSUME NEW a, a \in Acknowledged' PROVE TrueAck(a)'
  BY DEF AcksTrue
<1>n. a \in Acknowledged \/ \E f : NewAck(f) /\ f.ack = a
  <2>1. CASE a \in stateAcks'
    BY <2>1, AckRecorded, <1>t DEF Acknowledged
  <2>2. CASE \E i \in 1..Len(upstream') : upstream'[i].kind = "ack" /\ upstream'[i].ack = a
    <3>1. PICK i \in 1..Len(upstream') : upstream'[i].kind = "ack" /\ upstream'[i].ack = a
      BY <2>2
    <3>2. (\E j \in 1..Len(upstream) : upstream'[i] = upstream[j]) \/ NewAck(upstream'[i])
      BY <3>1, <1>i, UpStep DEF UpChange
    <3> QED
      BY <3>1, <3>2 DEF Acknowledged
  <2> QED
    BY <2>1, <2>2 DEF Acknowledged
<1>1. CASE a \in Acknowledged
  <2>1. a \in StateAcks /\ TrueAck(a) /\ copy' \subseteq copy
    BY <1>1, <1>s, <1>d, <1>w DEF AcksTrue
  <2> QED
    BY <2>1, <1>k
<1>2. ASSUME NEW f, NewAck(f), f.ack = a PROVE TrueAck(a)'
  BY <1>2, <1>i, <1>h, NewAckTrue
<1> QED
  BY <1>n, <1>1, <1>2

-----------------------------------------------------------------------------
(* What holds of every Run's context *)

\* A Run that is not dispatched yet fulfils the invariant.
LEMMA ContextInvInit == ContextInit => ContextInv
<1> SUFFICES ASSUME ContextInit PROVE ContextInv
  OBVIOUS
<1>1. ContextTypeOK
  <2>1. MaxChange \in Nat /\ MaxFault \in Nat /\ MaxDrop \in Nat /\ MaxRead \in Nat
    BY RunContextAssumption
  <2>2. IsFiniteSet(known \union out)
    <3>1. known \union out = {}
      BY DEF ContextInit
    <3> QED
      BY <3>1, FS_EmptySet
  <2>3. hist \in Seq([Entry -> Standing]) /\ Len(hist) = 0 /\ upstream \in Seq(Frames)
    BY DEF ContextInit
  <2>4. truth \in [Entry -> Standing]
    BY DEF ContextInit, AllFrozen, Standing
  <2>5. op \in Operations /\ Absent \in Absent..Latest /\ file \in [ver : Absent..Latest, paused : BOOLEAN]
    BY <2>3, OperationFacts DEF ContextInit, Latest, Absent, NoFile
  <2> QED
    <3>1. Latest = 0
      BY <2>3 DEF Latest
    <3> HIDE DEF Latest
    <3>2. frames \subseteq 1..Latest /\ watermark \in 0..Latest /\ ver \in Absent..Latest
      BY <2>5, <3>1 DEF ContextInit
    <3>3. changes \in 0..MaxChange /\ faults \in 0..MaxFault /\ drops \in 0..MaxDrop /\ receipts \in 0..MaxRead
      BY <2>1 DEF ContextInit
    <3> QED
      BY <2>2, <2>3, <2>4, <2>5, <3>2, <3>3 DEF ContextInit, ContextTypeOK, Nobody
<1>2. Len(hist) = 0 /\ Len(upstream) = 0
  BY DEF ContextInit
<1>3. GoneForGood
  BY <1>2 DEF GoneForGood, Latest
<1>4. AcksTrue
  BY <1>2 DEF ContextInit, AcksTrue, Acknowledged
<1>5. Unprepared
  BY <1>2 DEF ContextInit, Unprepared
<1>6. Operation /\ Covered
  BY DEF ContextInit, Operation, Covered, Idle, Prepared
<1> QED
  BY <1>1, <1>3, <1>4, <1>5, <1>6 DEF ContextInv

\* Every step keeps it.
LEMMA ContextInvStep == ContextInv /\ [ContextNext]_contextVars => ContextInv'
<1> SUFFICES ASSUME ContextInv, [ContextNext]_contextVars PROVE ContextInv'
  OBVIOUS
<1>1. ContextTypeOK /\ GoneForGood /\ AcksTrue /\ Unprepared /\ Operation /\ Covered
  BY DEF ContextInv
<1>2. ContextTypeOK'
  BY <1>1, ContextTypeStep
<1>3. GoneForGood'
  BY <1>1, HubStep, GoneStep
<1>4. QueueInv'
  BY <1>1, QueueStep DEF QueueInv
<1>5. Unprepared'
  BY <1>1, UnpreparedStep
<1>6. AcksTrue'
  BY <1>1, AcksStep DEF QueueInv
<1> QED
  BY <1>2, <1>3, <1>4, <1>5, <1>6 DEF ContextInv, QueueInv

\* The inductive invariant of a Run's context holds in every state, for any
\* entries, any changes of their standing, failures and lost connections.
THEOREM ContextInvariance == ContextSpec => []ContextInv
  BY ContextInvInit, ContextInvStep, PTL DEF ContextSpec

\* Every variable keeps its type.
THEOREM ContextTypeCorrect == ContextSpec => []ContextTypeOK
<1>1. ContextInv => ContextTypeOK
  BY DEF ContextInv
<1> QED
  BY <1>1, ContextInvariance, PTL

\* What the Hub recorded as acknowledged can no longer be read.
THEOREM AckedTheorem == ContextSpec => []AckedIsUnreadable
<1>1. ContextInv => AckedIsUnreadable
  <2> SUFFICES ASSUME ContextInv, NEW a \in stateAcks, NEW e \in Entry, hist[a.ver][e] = "gone"
               PROVE  ~Readable(e) /\ (e \in a.failed \/ e \in read \/ e \notin copy)
    BY DEF AckedIsUnreadable
  <2>1. TrueAck(a) /\ a.ver \in Nat \ {0} /\ file.ver \in Int /\ file.ver <= Latest /\ Latest \in Nat
    BY DEF ContextInv, AcksTrue, Acknowledged, ContextTypeOK, StateAcks, Absent, Latest
  <2>2. a.ver \in 1..Latest /\ file.ver \in a.ver..Latest /\ ~(file.ver <= 0)
    BY <2>1 DEF TrueAck
  <2>3. hist[file.ver][e] = "gone"
    BY <2>2 DEF ContextInv, GoneForGood
  <2>4. View(file.ver)[e] # "frozen"
    BY <2>2, <2>3 DEF View
  <2> QED
    BY <2>1, <2>4 DEF TrueAck, Readable
<1> QED
  BY <1>1, ContextInvariance, PTL

\* Only what is withdrawn in the version the Node has is ever removed.
THEOREM RestoredTheorem == ContextSpec => RestoredStays
<1> DEFINE A == \A e \in copy \ copy' : View(ver)[e] # "frozen"
<1>1. ContextInv /\ [ContextNext]_contextVars => [A]_contextVars
  <2> SUFFICES ASSUME ContextInv, [ContextNext]_contextVars, NEW e \in copy \ copy'
               PROVE  View(ver)[e] # "frozen"
    OBVIOUS
  <2> USE DEF hubVars, wireVars, storeVars, copyVars, toolVars, bounds
  <2>1. PICK x \in Entry : Clean(x)
    <3>1. ASSUME NEW x \in Entry, Lose(x) \/ Restore(x) \/ Revoke(x) \/ Correct(x) \/ Check(x) \/ Receipt(x)
          PROVE  copy' = copy
      BY <3>1 DEF Lose, Restore, Revoke, Correct, Check, Receipt
    <3>2. ASSUME NEW v \in frames, TakeState(v) PROVE copy' = copy
      BY <3>2 DEF TakeState
    <3>3. ASSUME NEW due \in SUBSET tasks, TakeSync(due) \/ Reconnect(due) PROVE copy' = copy
      BY <3>3 DEF TakeSync, Reconnect
    <3>4. CASE Tick \/ Dispatch \/ HandleUp \/ Bundle \/ InitState \/ ReadCopy \/ Terminal \/ Disconnect
      BY <3>4 DEF Tick, Dispatch, HandleUp, Bundle, InitState, ReadCopy, Terminal, Disconnect
    <3>5. CASE FinishState \/ FinishInit \/ FinishDrain
      BY <3>5 DEF FinishState, FinishInit, FinishDrain
    <3>6. CASE Written
      BY <3>6 DEF Written, ContextInv, ContextTypeOK
    <3>7. CASE UNCHANGED contextVars
      BY <3>7 DEF contextVars
    <3> QED
      BY <3>1, <3>2, <3>3, <3>4, <3>5, <3>6, <3>7 DEF ContextNext
  <2>2. e = x /\ x \in op.todo /\ op # Idle /\ (op.kind = "drain" => StillWithdrawn(x))
    BY <2>1 DEF Clean, Removal
  <2>3. op.kind \in {"none", "state", "init", "drain"} /\ op.kind # "none"
    BY <2>2 DEF ContextInv, ContextTypeOK, Operations, Operation
  <2>4. op.kind \in {"state", "init"} => View(ver)[x] # "frozen"
    BY <2>2 DEF ContextInv, Operation
  <2> QED
    BY <2>2, <2>3, <2>4 DEF StillWithdrawn
<1> QED
  BY <1>1, ContextInvariance, PTL DEF ContextSpec, RestoredStays

\* As long as the Run goes on, a read the Node has marked is on record at the
\* Hub or still in the Node's outbox.
THEOREM ReadKeptTheorem == ContextSpec => []ReadKept
<1>1. ContextInit => ReadKept
  BY DEF ContextInit, ReadKept
<1>2. ReadKept /\ [ContextNext]_contextVars => ReadKept'
  <2> SUFFICES ASSUME ReadKept, [ContextNext]_contextVars PROVE ReadKept'
    OBVIOUS
  <2> USE DEF hubVars, wireVars, storeVars, copyVars, toolVars, bounds
  <2>k. ASSUME UNCHANGED <<known, out, read>>, hub' = hub \/ hub' = "over" PROVE ReadKept'
    BY <2>k DEF ReadKept
  <2>1. ASSUME NEW e \in Entry, Receipt(e) PROVE ReadKept'
    <3>1. UNCHANGED <<hub, known>>
      BY <2>1 DEF Receipt
    <3>2. CASE UNCHANGED <<out, read>>
      BY <3>1, <3>2, <2>k
    <3>3. CASE \E r : r.e = e /\ out' = out \union {r} /\ read' = read \union {e}
      BY <3>1, <3>3 DEF ReadKept
    <3> QED
      BY <2>1, <3>2, <3>3 DEF Receipt, Kept
  <2>2. CASE HandleUp
    <3>1. CASE UNCHANGED <<known, out>>
      BY <2>2, <3>1, <2>k DEF HandleUp, HandleReceipt
    <3>2. CASE HandleReceipt(Head(upstream).receipt)
      <4>1. hub = "active" => known' \union out' = (known \union out) \union {Head(upstream).receipt}
        BY <3>2 DEF HandleReceipt, Answered
      <4>2. UNCHANGED <<hub, read>>
        BY <2>2, <3>2 DEF HandleUp, HandleReceipt
      <4> QED
        BY <4>1, <4>2 DEF ReadKept
    <3> QED
      BY <2>2, <3>1, <3>2 DEF HandleUp
  <2>3. ASSUME NEW e \in Entry, Lose(e) \/ Restore(e) \/ Revoke(e) \/ Correct(e) \/ Clean(e) \/ Check(e) PROVE ReadKept'
    BY <2>3, <2>k DEF Lose, Restore, Revoke, Correct, Clean, Check
  <2>4. ASSUME NEW v \in frames, TakeState(v) PROVE ReadKept'
    BY <2>4, <2>k DEF TakeState
  <2>5. ASSUME NEW due \in SUBSET tasks, TakeSync(due) \/ Reconnect(due) PROVE ReadKept'
    BY <2>5, <2>k DEF TakeSync, Reconnect
  <2>6. CASE Tick \/ Dispatch \/ Bundle \/ Written \/ InitState \/ ReadCopy \/ Terminal \/ Disconnect
    BY <2>6, <2>k DEF Tick, Dispatch, Bundle, Written, InitState, ReadCopy, Terminal, Disconnect
  <2>7. CASE FinishState \/ FinishInit \/ FinishDrain
    BY <2>7, <2>k DEF FinishState, FinishInit, FinishDrain
  <2>8. CASE UNCHANGED contextVars
    BY <2>8, <2>k DEF contextVars
  <2> QED
    BY <2>1, <2>2, <2>3, <2>4, <2>5, <2>6, <2>7, <2>8 DEF ContextNext
<1> QED
  BY <1>1, <1>2, PTL DEF ContextSpec
=============================================================================
