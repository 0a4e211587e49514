------------------------------- MODULE TaskProofs -------------------------------
(***************************************************************************)
(* The properties of the two halves of a Task's life.  First TaskReview,   *)
(* for any members and any number of Runs, artifacts, revision rounds and  *)
(* open calls; then Handoff, for any members and any number of drafts,     *)
(* revisions, reassignments and Runs.                                      *)
(*                                                                         *)
(* What a call has checked outside its transaction still holds when it     *)
(* writes (CallsSound): a round keeps the Run it has, an artifact its Run  *)
(* and its publication, and a link stays.  That is what the properties of  *)
(* the rounds rest on.                                                     *)
(***************************************************************************)
EXTENDS TaskReview, Handoff, FiniteSetTheorems, TLAPS

\* A Run works for a round that exists.
RunsNameRounds == \A i \in DOMAIN runs : runs[i].round # 0 => runs[i].round \in DOMAIN rounds

\* A link joins a round that has its Run and an artifact that is there.
LinksNameBoth ==
    \A k \in Round : links[k] # 0 =>
        k \in DOMAIN rounds /\ rounds[k].run # 0 /\ links[k] \in DOMAIN artifacts

\* Only comments of a round that exists have been decided on.
DecisionsNameRounds ==
    \A k \in Round, m \in Reviewer : resolved[k][m] # 0 => k \in DOMAIN rounds

\* What open calls have checked.
CallsSound ==
    /\ IsFiniteSet(calls)
    /\ \A call \in calls :
          /\ call.op = "link" => /\ call.round \in DOMAIN rounds /\ rounds[call.round].run # 0
                                 /\ call.artifact \in DOMAIN artifacts
                                 /\ artifacts[call.artifact].run = rounds[call.round].run
          /\ call.op = "resolve" => /\ call.round \in DOMAIN rounds
                                    /\ call.artifact = links[call.round]
                                    /\ Published(call.artifact)
                                    /\ call.comment \in rounds[call.round].comments

TaskInv  == ReviewIsQuiet /\ ActiveRunIsAssignees
RoundInv == /\ RunsNameRounds /\ LinksNameBoth /\ DecisionsNameRounds /\ CallsSound
            /\ OneRunPerRound /\ LinkedFromItsRun /\ JudgedOnLinked

Inv == TypeOK /\ TaskInv /\ RoundInv /\ SilenceIsTrue

-----------------------------------------------------------------------------

\* The elements of a sequence over a set are in it.
LEMMA Elements ==
    ASSUME NEW S, NEW s \in Seq(S)
    PROVE  /\ Len(s) \in Nat /\ DOMAIN s = 1..Len(s)
           /\ \A i \in DOMAIN s : s[i] \in S
OBVIOUS

\* A sequence over a set that is extended by an element of it.
LEMMA Extended ==
    ASSUME NEW S, NEW s \in Seq(S), NEW e \in S
    PROVE  /\ Append(s, e) \in Seq(S) /\ Len(Append(s, e)) = Len(s) + 1
           /\ DOMAIN Append(s, e) = DOMAIN s \union {Len(s) + 1}
           /\ Append(s, e)[Len(s) + 1] = e
           /\ \A i \in DOMAIN s : i # Len(s) + 1 /\ Append(s, e)[i] = s[i]
OBVIOUS

\* A sequence over a set in which one element is replaced.
LEMMA Replaced ==
    ASSUME NEW S, NEW s \in Seq(S), NEW i \in DOMAIN s, NEW e \in S
    PROVE  /\ [s EXCEPT ![i] = e] \in Seq(S) /\ Len([s EXCEPT ![i] = e]) = Len(s)
           /\ DOMAIN [s EXCEPT ![i] = e] = DOMAIN s
           /\ \A j \in DOMAIN s : [s EXCEPT ![i] = e][j] = IF j = i THEN e ELSE s[j]
OBVIOUS

\* The initial state satisfies the invariant.
LEMMA InitSound == Init => Inv
<1> SUFFICES ASSUME Init PROVE Inv
  OBVIOUS
<1> USE TaskReviewAssumption DEF Init
<1>1. /\ runs = <<>> /\ artifacts = <<>> /\ rounds = <<>>
      /\ DOMAIN runs = {} /\ DOMAIN artifacts = {} /\ DOMAIN rounds = {}
      /\ \A S : <<>> \in Seq(S)
      /\ Len(<<>>) = 0
  OBVIOUS
<1>2. /\ task.status = "open" /\ ~busy /\ calls = {} /\ IsFiniteSet(calls) /\ Cardinality(calls) = 0
  BY FS_EmptySet
<1>3. 0 <= MaxRun /\ 0 <= MaxArtifact /\ 0 <= MaxRound /\ 0 <= MaxCall
  OBVIOUS
<1>4. TaskTypes
  BY DEF TaskTypes
<1>5. RunTypes
  <2>1. Len(runs) <= MaxRun
    BY <1>1, <1>3
  <2>2. busy \in BOOLEAN
    BY Zenon DEF Init
  <2> QED
    BY <1>1, <1>2, <2>1, <2>2, Zenon DEF RunTypes
<1>6. ArtifactTypes
  <2>1. Len(artifacts) <= MaxArtifact
    BY <1>1, <1>3
  <2> QED
    BY <1>1, <2>1, Zenon DEF ArtifactTypes
<1>7. ReviewTypes
  BY DEF ReviewTypes
<1>8. CallTypes
  BY <1>2 DEF CallTypes
<1>9. RoundTypes
  <2>1. Len(rounds) <= MaxRound
    BY <1>1, <1>3
  <2>2. links \in [Round -> 0..MaxArtifact] /\ resolved \in [Round -> [Reviewer -> 0..MaxArtifact]]
    OBVIOUS
  <2> QED
    BY <1>1, <2>1, <2>2, Zenon DEF RoundTypes
<1>10. TaskInv /\ SilenceIsTrue
  BY <1>2 DEF TaskInv, ReviewIsQuiet, ActiveRunIsAssignees, SilenceIsTrue
<1>11. RoundInv
  BY <1>1, <1>2
     DEF RoundInv, RunsNameRounds, LinksNameBoth, DecisionsNameRounds, CallsSound,
         OneRunPerRound, LinkedFromItsRun, JudgedOnLinked
<1> QED
  BY <1>4, <1>5, <1>6, <1>7, <1>8, <1>9, <1>10, <1>11 DEF Inv, TypeOK

-----------------------------------------------------------------------------
(* Types                                                                   *)

\* A call that is added or removed leaves the calls as they should be.
LEMMA CallsTyped ==
    ASSUME CallTypes, IsFiniteSet(calls)
    PROVE  /\ \A call \in FrameCall \union LinkCall \union ResolveCall :
                 Check(call) => CallTypes' /\ IsFiniteSet(calls')
           /\ \A call : calls' = calls \ {call} => CallTypes' /\ IsFiniteSet(calls')
<1> USE TaskReviewAssumption
<1>1. ASSUME NEW call \in FrameCall \union LinkCall \union ResolveCall, Check(call)
      PROVE  CallTypes' /\ IsFiniteSet(calls')
  BY <1>1, FS_AddElement DEF Check, CallTypes, FrameCall, LinkCall, ResolveCall
<1>2. ASSUME NEW call, calls' = calls \ {call} PROVE CallTypes' /\ IsFiniteSet(calls')
  <2>1. IsFiniteSet(calls') /\ Cardinality(calls') <= Cardinality(calls)
    BY <1>2, FS_Subset
  <2>2. Cardinality(calls) \in Nat /\ Cardinality(calls') \in Nat
    BY <2>1, FS_CardinalityType
  <2> QED
    BY <1>2, <2>1, <2>2 DEF CallTypes, FrameCall, LinkCall, ResolveCall
<1> QED
  BY <1>1, <1>2

\* Every step keeps every variable in its type.
LEMMA TypeStep ==
    ASSUME TypeOK, RoundInv, [Next]_vars
    PROVE  TypeOK' /\ IsFiniteSet(calls')
<1> USE TaskReviewAssumption DEF taskVars, runVars, reviewVars, roundVars
<1>f. IsFiniteSet(calls)
  BY DEF RoundInv, CallsSound
<1>1. /\ UNCHANGED <<task, moves>> => TaskTypes'
      /\ UNCHANGED <<runs, busy>> => RunTypes'
      /\ UNCHANGED artifacts => ArtifactTypes'
      /\ UNCHANGED <<writing, comments, invited>> => ReviewTypes'
      /\ UNCHANGED calls => CallTypes' /\ IsFiniteSet(calls')
      /\ UNCHANGED <<rounds, links, resolved>> => RoundTypes'
  BY <1>f DEF TypeOK, TaskTypes, RunTypes, ArtifactTypes, ReviewTypes, CallTypes, RoundTypes,
              FrameCall, LinkCall, ResolveCall
<1> DEFINE Run   == [owner : Assignee, round : 0..MaxRound]
           Art   == [run : 1..MaxRun, status : {"candidate", "published"}]
           Entry == [comments : SUBSET Reviewer, run : 0..MaxRun]
<1>2. /\ runs \in Seq(Run) /\ artifacts \in Seq(Art) /\ rounds \in Seq(Entry)
      /\ Len(runs) <= MaxRun /\ Len(artifacts) <= MaxArtifact /\ Len(rounds) <= MaxRound
  BY DEF TypeOK, RunTypes, ArtifactTypes, RoundTypes
<1>3. /\ Len(runs) \in Nat /\ DOMAIN runs = 1..Len(runs) /\ DOMAIN runs \subseteq 1..MaxRun
      /\ DOMAIN artifacts \subseteq 1..MaxArtifact
      /\ \A a \in DOMAIN artifacts : artifacts[a] \in Art
      /\ DOMAIN rounds \subseteq Round /\ DOMAIN rounds \subseteq 1..MaxRound
      /\ \A k \in DOMAIN rounds : rounds[k] \in Entry
  <2> HIDE DEF Run, Art, Entry
  <2> QED
    BY <1>2, Elements DEF Round
<1>4. CASE UNCHANGED vars
  BY <1>1, <1>4 DEF TypeOK, vars
<1>5. ASSUME NEW a \in {"accepted", "rejected"}, Answer(a) PROVE TypeOK' /\ IsFiniteSet(calls')
  <2>1. TaskTypes'
    BY <1>5 DEF Answer, TypeOK, TaskTypes
  <2> QED
    BY <1>1, <1>5, <2>1 DEF Answer, TypeOK
<1>6. ASSUME NEW m \in Assignee, NEW a \in {"pending", "accepted"}, Reassign(m, a)
      PROVE  TypeOK' /\ IsFiniteSet(calls')
  <2>1. task' = [assignee |-> m, assignment |-> a, status |-> task.status]
    <3>1. task' = [task EXCEPT !.assignee = m, !.assignment = a]
      BY <1>6 DEF Reassign
    <3> QED
      BY <3>1 DEF TypeOK, TaskTypes
  <2>2. moves' \in 0..MaxMove
    BY <1>6 DEF Reassign, TypeOK, TaskTypes
  <2>3. TaskTypes'
    BY <2>1, <2>2 DEF TypeOK, TaskTypes
  <2> QED
    BY <1>1, <1>6, <2>3 DEF Reassign, TypeOK
<1>7. CASE SubmitForReview \/ Complete \/ CancelTask
  <2>1. TaskTypes'
    BY <1>7 DEF SubmitForReview, Complete, CancelTask, TypeOK, TaskTypes
  <2>2. UNCHANGED runs /\ (busy' = FALSE \/ busy' = busy)
    BY <1>7 DEF SubmitForReview, Complete, CancelTask
  <2>3. ASSUME busy' = FALSE PROVE RunTypes'
    BY <2>2, <2>3, Zenon DEF TypeOK, RunTypes
  <2>4. ASSUME busy' = busy PROVE RunTypes'
    BY <2>2, <2>4, <1>1
  <2>5. RunTypes'
    BY <2>2, <2>3, <2>4
  <2> QED
    BY <1>1, <1>7, <2>1, <2>5 DEF SubmitForReview, Complete, CancelTask, TypeOK
<1>8. ASSUME NEW k \in 0..MaxRound, CreateRun(k), UNCHANGED moves PROVE TaskTypes' /\ RunTypes'
  <2>1. TaskTypes'
    BY <1>8 DEF CreateRun, TypeOK, TaskTypes
  <2>2. [owner |-> task.assignee, round |-> k] \in Run
    BY DEF TypeOK, TaskTypes
  <2>3. /\ runs' = Append(runs, [owner |-> task.assignee, round |-> k])
        /\ Len(runs) < MaxRun /\ busy' = TRUE
    BY <1>8 DEF CreateRun
  <2> HIDE DEF Run
  <2>4. runs' \in Seq(Run) /\ Len(runs') = Len(runs) + 1
    BY <1>2, <2>2, <2>3, Extended
  <2>5. Len(runs') <= MaxRun /\ runs' # <<>>
    BY <1>3, <2>3, <2>4
  <2> QED
    BY <2>1, <2>3, <2>4, <2>5 DEF RunTypes, Run
<1>9. CASE StartRun
  BY <1>1, <1>8, <1>9 DEF StartRun, TypeOK
<1>10. CASE EndRun
  BY <1>1, <1>10 DEF EndRun, TypeOK, RunTypes
<1>11. ASSUME NEW r \in DOMAIN runs, Upload(r) PROVE TypeOK' /\ IsFiniteSet(calls')
  <2>1. [run |-> r, status |-> "candidate"] \in Art
    BY <1>3
  <2> HIDE DEF Art
  <2>2. artifacts' \in Seq(Art) /\ Len(artifacts') = Len(artifacts) + 1
    BY <1>2, <1>11, <2>1, Extended DEF Upload
  <2>3. Len(artifacts') <= MaxArtifact
    BY <1>2, <1>11, <2>2, Elements DEF Upload
  <2>4. ArtifactTypes'
    BY <2>2, <2>3 DEF ArtifactTypes, Art
  <2> QED
    BY <1>1, <1>11, <2>4 DEF Upload, TypeOK
<1>12. ASSUME NEW a \in DOMAIN artifacts, PublishArtifact(a) PROVE TypeOK' /\ IsFiniteSet(calls')
  <2> DEFINE e == [artifacts[a] EXCEPT !.status = "published"]
  <2>1. e \in Art
    BY <1>3
  <2>2. artifacts' = [artifacts EXCEPT ![a] = e]
    BY <1>12 DEF PublishArtifact
  <2> HIDE DEF Art, e
  <2>3. artifacts' \in Seq(Art) /\ Len(artifacts') = Len(artifacts)
    BY <1>2, <2>1, <2>2, Replaced
  <2>4. ArtifactTypes'
    BY <1>2, <2>3 DEF ArtifactTypes, Art
  <2> QED
    BY <1>1, <1>12, <2>4 DEF PublishArtifact, TypeOK
<1>13. ASSUME NEW m \in Reviewer,
              Invite(m) \/ BeginComment(m) \/ CommitComment(m) \/ Comment(m) \/ SubmitReview(m)
       PROVE  TypeOK' /\ IsFiniteSet(calls')
  <2>1. ReviewTypes'
    BY <1>13
       DEF Invite, BeginComment, CommitComment, Comment, Reopened, SubmitReview, TypeOK, ReviewTypes
  <2> QED
    BY <1>1, <1>13, <2>1
       DEF Invite, BeginComment, CommitComment, Comment, SubmitReview, TypeOK
<1>14. ASSUME NEW call \in FrameCall \union LinkCall \union ResolveCall, Check(call)
       PROVE  TypeOK' /\ IsFiniteSet(calls')
  BY <1>1, <1>f, <1>14, CallsTyped DEF Check, TypeOK
<1>15. ASSUME NEW C \in SUBSET Reviewer, CheckFrame(C) PROVE TypeOK' /\ IsFiniteSet(calls')
  <2>1. [op |-> "frame", comments |-> C] \in FrameCall
    BY DEF FrameCall
  <2> QED
    BY <1>14, <1>15, <2>1 DEF CheckFrame
<1>16. ASSUME NEW k \in DOMAIN rounds, NEW a \in DOMAIN artifacts, CheckLink(k, a)
       PROVE  TypeOK' /\ IsFiniteSet(calls')
  <2>1. [op |-> "link", round |-> k, artifact |-> a] \in LinkCall
    BY <1>3 DEF LinkCall
  <2> QED
    BY <1>14, <1>16, <2>1 DEF CheckLink
<1>17. ASSUME NEW k \in DOMAIN rounds, NEW m \in Reviewer, CheckResolve(k, m)
       PROVE  TypeOK' /\ IsFiniteSet(calls')
  <2>1. links[k] \in 1..MaxArtifact
    BY <1>3, <1>17 DEF CheckResolve, Resolvable, Published
  <2>2. [op |-> "resolve", round |-> k, artifact |-> links[k], comment |-> m] \in ResolveCall
    BY <1>3, <2>1 DEF ResolveCall
  <2> QED
    BY <1>14, <1>17, <2>2 DEF CheckResolve
<1>18. ASSUME NEW call \in calls, CreateRound(call) PROVE TypeOK' /\ IsFiniteSet(calls')
  <2> DEFINE e == [comments |-> call.comments, run |-> 0]
  <2>1. e \in Entry
    BY <1>18 DEF CreateRound, TypeOK, CallTypes, FrameCall, LinkCall, ResolveCall
  <2>2. rounds' = Append(rounds, e) /\ Len(rounds) < MaxRound /\ calls' = calls \ {call}
    BY <1>18 DEF CreateRound
  <2> HIDE DEF e, Entry
  <2>3. rounds' \in Seq(Entry) /\ Len(rounds') = Len(rounds) + 1
    BY <1>2, <2>1, <2>2, Extended
  <2>4. Len(rounds') <= MaxRound
    BY <1>2, <2>2, <2>3, Elements
  <2>5. RoundTypes'
    BY <1>18, <2>3, <2>4 DEF CreateRound, TypeOK, RoundTypes, Entry
  <2>6. CallTypes' /\ IsFiniteSet(calls')
    BY <1>f, <2>2, CallsTyped DEF TypeOK
  <2> QED
    BY <1>1, <1>18, <2>5, <2>6 DEF CreateRound, TypeOK
<1>19. ASSUME NEW call \in calls, Link(call) PROVE TypeOK' /\ IsFiniteSet(calls')
  <2>1. call \in LinkCall
    BY <1>19 DEF Link, TypeOK, CallTypes, FrameCall, LinkCall, ResolveCall
  <2>2. links' \in [Round -> 0..MaxArtifact]
    BY <1>19, <2>1 DEF Link, LinkCall, TypeOK, RoundTypes
  <2>3. RoundTypes'
    BY <1>19, <2>2 DEF Link, TypeOK, RoundTypes
  <2>4. CallTypes' /\ IsFiniteSet(calls')
    BY <1>f, <1>19, CallsTyped DEF Link, TypeOK
  <2> QED
    BY <1>1, <1>19, <2>3, <2>4 DEF Link, TypeOK
<1>20. ASSUME NEW call \in calls, Resolve(call) PROVE TypeOK' /\ IsFiniteSet(calls')
  <2>1. call \in ResolveCall
    BY <1>20 DEF Resolve, TypeOK, CallTypes, FrameCall, LinkCall, ResolveCall
  <2>2. resolved' \in [Round -> [Reviewer -> 0..MaxArtifact]]
    BY <1>20, <2>1 DEF Resolve, ResolveCall, TypeOK, RoundTypes
  <2>3. RoundTypes'
    BY <1>20, <2>2 DEF Resolve, TypeOK, RoundTypes
  <2>4. CallTypes' /\ IsFiniteSet(calls')
    BY <1>f, <1>20, CallsTyped DEF Resolve, TypeOK
  <2> QED
    BY <1>1, <1>20, <2>3, <2>4 DEF Resolve, TypeOK
<1>21. ASSUME NEW k \in DOMAIN rounds, StartRound(k) PROVE TypeOK' /\ IsFiniteSet(calls')
  <2> DEFINE e == [rounds[k] EXCEPT !.run = Len(runs) + 1]
  <2>1. Len(runs) < MaxRun /\ rounds' = [rounds EXCEPT ![k] = e]
    BY <1>21 DEF StartRound, CreateRun
  <2>2. e \in Entry
    BY <1>3, <2>1
  <2> HIDE DEF e, Entry
  <2>3. rounds' \in Seq(Entry) /\ Len(rounds') = Len(rounds)
    BY <1>2, <2>1, <2>2, Replaced
  <2>4. RoundTypes'
    BY <1>2, <1>21, <2>3 DEF StartRound, TypeOK, RoundTypes, Entry
  <2>5. TaskTypes' /\ RunTypes'
    BY <1>3, <1>8, <1>21 DEF StartRound
  <2> QED
    BY <1>1, <1>21, <2>4, <2>5 DEF StartRound, TypeOK
<1> QED
  BY <1>4, <1>5, <1>6, <1>7, <1>9, <1>10, <1>11, <1>12, <1>13, <1>15, <1>16, <1>17, <1>18,
     <1>19, <1>20, <1>21 DEF Next

-----------------------------------------------------------------------------
(* The Task and its review                                                 *)

\* What the sequences do in a step: elements keep their place, and of an artifact only
\* the status changes, of a round only the Run, once.
LEMMA Grows ==
    ASSUME TypeOK, [Next]_vars
    PROVE  /\ DOMAIN artifacts \subseteq DOMAIN artifacts'
           /\ \A a \in DOMAIN artifacts : artifacts'[a].run = artifacts[a].run
           /\ \A a : Published(a) => Published(a)'
           /\ DOMAIN rounds \subseteq DOMAIN rounds'
           /\ \A k \in DOMAIN rounds :
                 /\ rounds'[k].comments = rounds[k].comments
                 /\ rounds[k].run # 0 => rounds'[k].run = rounds[k].run
<1> USE TaskReviewAssumption DEF taskVars, runVars, reviewVars, roundVars
<1> DEFINE Art   == [run : 1..MaxRun, status : {"candidate", "published"}]
           Entry == [comments : SUBSET Reviewer, run : 0..MaxRun]
<1>1. artifacts \in Seq(Art) /\ rounds \in Seq(Entry)
  BY DEF TypeOK, ArtifactTypes, RoundTypes
<1>2. /\ \A a \in DOMAIN artifacts : artifacts[a] \in Art
      /\ \A k \in DOMAIN rounds : rounds[k] \in Entry
  <2> HIDE DEF Art, Entry
  <2> QED
    BY <1>1, Elements
<1> DEFINE ArtifactsGrow == /\ DOMAIN artifacts \subseteq DOMAIN artifacts'
                            /\ \A a \in DOMAIN artifacts : artifacts'[a].run = artifacts[a].run
                            /\ \A a : Published(a) => Published(a)'
           RoundsGrow == /\ DOMAIN rounds \subseteq DOMAIN rounds'
                         /\ \A k \in DOMAIN rounds :
                               /\ rounds'[k].comments = rounds[k].comments
                               /\ rounds[k].run # 0 => rounds'[k].run = rounds[k].run
<1>3. UNCHANGED artifacts => ArtifactsGrow
  BY DEF Published
<1>4. UNCHANGED rounds => RoundsGrow
  OBVIOUS
<1>5. ASSUME NEW r \in DOMAIN runs, Upload(r) PROVE ArtifactsGrow
  <2>1. artifacts' = Append(artifacts, [run |-> r, status |-> "candidate"])
    BY <1>5 DEF Upload
  <2> HIDE DEF Art
  <2>2. DOMAIN artifacts \subseteq DOMAIN artifacts'
        /\ \A a \in DOMAIN artifacts : artifacts'[a] = artifacts[a]
    BY <1>1, <2>1
  <2> QED
    BY <2>2 DEF Published
<1>6. ASSUME NEW b \in DOMAIN artifacts, PublishArtifact(b) PROVE ArtifactsGrow
  <2>1. artifacts' = [artifacts EXCEPT ![b].status = "published"]
    BY <1>6 DEF PublishArtifact
  <2>2. DOMAIN artifacts' = DOMAIN artifacts
        /\ \A a \in DOMAIN artifacts :
              /\ artifacts'[a].run = artifacts[a].run
              /\ artifacts[a].status = "published" => artifacts'[a].status = "published"
    BY <1>2, <2>1
  <2> QED
    BY <2>2 DEF Published
<1>7. ASSUME NEW call \in calls, CreateRound(call) PROVE RoundsGrow
  <2>1. rounds' = Append(rounds, [comments |-> call.comments, run |-> 0])
    BY <1>7 DEF CreateRound
  <2> HIDE DEF Entry
  <2> QED
    BY <1>1, <2>1
<1>8. ASSUME NEW k \in DOMAIN rounds, StartRound(k) PROVE RoundsGrow
  <2>1. rounds' = [rounds EXCEPT ![k].run = Len(runs) + 1] /\ rounds[k].run = 0
    BY <1>8 DEF StartRound, Startable
  <2> QED
    BY <1>2, <2>1
<1> QED
  BY <1>3, <1>4, <1>5, <1>6, <1>7, <1>8
     DEF Next, vars, Answer, Reassign, SubmitForReview, Complete, CancelTask, StartRun, EndRun,
         Upload, PublishArtifact, Invite, BeginComment, CommitComment, Comment, SubmitReview,
         CheckFrame, Check, CreateRound, Link, Resolve, StartRound, CheckLink, CheckResolve

\* A Run is appended, its owner is the assignee; nothing else touches the Runs.
LEMMA RunsGrow ==
    ASSUME TypeOK, [Next]_vars
    PROVE  \/ UNCHANGED runs /\ (busy' => busy)
           \/ \E k \in {0} \union DOMAIN rounds :
                 /\ CreateRun(k) /\ task'.assignee = task.assignee /\ task'.status = "in_progress"
                 /\ DOMAIN runs' = DOMAIN runs \union {Len(runs) + 1} /\ Len(runs') = Len(runs) + 1
                 /\ runs'[Len(runs) + 1] = [owner |-> task.assignee, round |-> k]
                 /\ \A i \in DOMAIN runs : i # Len(runs) + 1 /\ runs'[i] = runs[i]
                 /\ IF k = 0 THEN StartRun ELSE StartRound(k)
<1> DEFINE Run == [owner : Assignee, round : 0..MaxRound]
<1>1. runs \in Seq(Run)
  BY DEF TypeOK, RunTypes
<1>2. ASSUME NEW k, CreateRun(k)
      PROVE  /\ task'.assignee = task.assignee /\ task'.status = "in_progress"
             /\ DOMAIN runs' = DOMAIN runs \union {Len(runs) + 1} /\ Len(runs') = Len(runs) + 1
             /\ runs'[Len(runs) + 1] = [owner |-> task.assignee, round |-> k]
             /\ \A i \in DOMAIN runs : i # Len(runs) + 1 /\ runs'[i] = runs[i]
  <2>1. task' = [task EXCEPT !.status = "in_progress"]
        /\ runs' = Append(runs, [owner |-> task.assignee, round |-> k])
    BY <1>2 DEF CreateRun
  <2>2. task'.assignee = task.assignee /\ task'.status = "in_progress"
    BY <2>1 DEF TypeOK, TaskTypes
  <2> HIDE DEF Run
  <2>3. DOMAIN runs = 1..Len(runs) /\ Len(runs) \in Nat
    BY <1>1, Elements
  <2> QED
    BY <1>1, <2>1, <2>2, <2>3
<1> HIDE DEF Run
<1>3. CASE StartRun
  BY <1>2, <1>3 DEF StartRun
<1>4. ASSUME NEW k \in DOMAIN rounds, StartRound(k)
      PROVE  k # 0 /\ CreateRun(k)
  <2>1. rounds \in Seq([comments : SUBSET Reviewer, run : 0..MaxRun])
    BY DEF TypeOK, RoundTypes
  <2> QED
    BY <1>4, <2>1 DEF StartRound
<1>5. CASE UNCHANGED runs /\ (busy' => busy)
  BY <1>5
<1> QED
  BY <1>2, <1>3, <1>4, <1>5
     DEF Next, vars, taskVars, runVars, reviewVars, roundVars, Answer, Reassign, SubmitForReview,
         Complete, CancelTask, EndRun, Upload, PublishArtifact, Invite, BeginComment,
         CommitComment, Comment, SubmitReview, CheckFrame, Check, CreateRound, Link, Resolve,
         CheckLink, CheckResolve

\* The Task and its Runs: what is handed in is at rest, the active Run is the assignee's.
LEMMA TaskStep == ASSUME TypeOK, TaskInv, [Next]_vars PROVE TaskInv'
<1> USE DEF taskVars, runVars, reviewVars, roundVars
<1>1. \A a : Published(a) => Published(a)'
  BY Grows
<1>2. \A a : Published(a) => a \in DOMAIN artifacts /\ a \in DOMAIN artifacts'
  BY Grows DEF Published
<1>3. ReviewIsQuiet'
  <2>1. CASE task'.status = "in_progress"
    BY <2>1 DEF ReviewIsQuiet
  <2>2. CASE SubmitForReview
    <3>1. ~busy' /\ \E a \in DOMAIN artifacts' : Published(a)'
      BY <1>1, <1>2, <2>2 DEF SubmitForReview, Reviewable
    <3> QED
      BY <3>1 DEF ReviewIsQuiet
  <2>3. CASE /\ UNCHANGED runs /\ (busy' => busy)
             /\ task'.status \in {"in_review", "done"} => task.status \in {"in_review", "done"}
    BY <1>1, <1>2, <2>3 DEF TaskInv, ReviewIsQuiet
  <2>4. ~SubmitForReview =>
           (task'.status \in {"in_review", "done"} => task.status \in {"in_review", "done"})
    BY DEF Next, vars, TypeOK, TaskTypes, Answer, Reassign, Complete, CancelTask, StartRun,
           StartRound, CreateRun, EndRun, Upload, PublishArtifact, Invite, BeginComment,
           CommitComment, Comment, SubmitReview, CheckFrame, Check, CreateRound, Link, Resolve,
           CheckLink, CheckResolve
  <2> QED
    BY <2>1, <2>2, <2>3, <2>4, RunsGrow
<1>4. ActiveRunIsAssignees'
  <2>1. CASE UNCHANGED runs /\ (busy' => busy)
    <3>1. CASE task'.assignee = task.assignee
      BY <2>1, <3>1 DEF TaskInv, ActiveRunIsAssignees
    <3>2. CASE ~busy'
      BY <3>2 DEF ActiveRunIsAssignees
    <3>3. task'.assignee = task.assignee \/ ~busy'
      BY DEF Next, vars, TypeOK, TaskTypes, Answer, Reassign, Movable, SubmitForReview, Complete,
             CancelTask, StartRun, StartRound, CreateRun, EndRun, Upload, PublishArtifact,
             Invite, BeginComment, CommitComment, Comment, SubmitReview, CheckFrame, Check,
             CreateRound, Link, Resolve, CheckLink, CheckResolve
    <3> QED
      BY <3>1, <3>2, <3>3
  <2>2. ASSUME NEW k, task'.assignee = task.assignee, Len(runs') = Len(runs) + 1,
               runs'[Len(runs) + 1] = [owner |-> task.assignee, round |-> k]
        PROVE  ActiveRunIsAssignees'
    BY <2>2 DEF ActiveRunIsAssignees
  <2> QED
    BY <2>1, <2>2, RunsGrow
<1> QED
  BY <1>3, <1>4 DEF TaskInv

\* Nothing starts for a Task that has ended.
LEMMA FinishedStep ==
    ASSUME TypeOK, [Next]_vars, Finished
    PROVE  runs' = runs /\ task'.status = task.status
<1> USE DEF taskVars, runVars, reviewVars, roundVars
<1>1. \A k : ~CreateRun(k)
  BY DEF CreateRun, Runnable
<1>2. runs' = runs
  BY <1>1, RunsGrow
<1>3. task'.status = task.status
  BY <1>1
     DEF Next, vars, TypeOK, TaskTypes, Finished, Answer, Reassign, SubmitForReview, Complete,
         CancelTask, StartRun, StartRound, EndRun, Upload, PublishArtifact, Invite,
         BeginComment, CommitComment, Comment, SubmitReview, CheckFrame, Check, CreateRound,
         Link, Resolve, CheckLink, CheckResolve
<1> QED
  BY <1>2, <1>3

\* A comment and a submission of one member hold the same lock.
LEMMA SilenceStep == ASSUME TypeOK, SilenceIsTrue, [Next]_vars PROVE SilenceIsTrue'
<1> USE DEF taskVars, runVars, reviewVars, roundVars
<1>1. CASE UNCHANGED <<comments, invited>>
  BY <1>1 DEF SilenceIsTrue
<1>2. ASSUME NEW m \in Reviewer,
             Invite(m) \/ CommitComment(m) \/ Comment(m) \/ SubmitReview(m)
      PROVE  SilenceIsTrue'
  BY <1>2
     DEF Invite, CommitComment, Comment, Reopened, SubmitReview, SilenceIsTrue, TypeOK, ReviewTypes
<1> QED
  BY <1>1, <1>2
     DEF Next, vars, Answer, Reassign, SubmitForReview, Complete, CancelTask, StartRun,
         CreateRun, EndRun, Upload, PublishArtifact, BeginComment, CheckFrame, Check,
         CreateRound, Link, Resolve, StartRound, CheckLink, CheckResolve

-----------------------------------------------------------------------------
(* The rounds                                                              *)

\* The rows of rounds, links and decisions have the numbers that models use.
LEMMA Numbers ==
    ASSUME TypeOK
    PROVE  /\ DOMAIN rounds \subseteq Round
           /\ DOMAIN runs \subseteq Nat \ {0} /\ DOMAIN artifacts \subseteq Nat \ {0}
           /\ \A k \in Round : links[k] \in Nat
           /\ Len(runs) \in Nat
<1> USE TaskReviewAssumption
<1> DEFINE Run   == [owner : Assignee, round : 0..MaxRound]
           Art   == [run : 1..MaxRun, status : {"candidate", "published"}]
           Entry == [comments : SUBSET Reviewer, run : 0..MaxRun]
<1>1. /\ runs \in Seq(Run) /\ artifacts \in Seq(Art) /\ rounds \in Seq(Entry)
      /\ Len(rounds) <= MaxRound
  BY DEF TypeOK, RunTypes, ArtifactTypes, RoundTypes
<1>2. \A k \in Round : links[k] \in Nat
  BY DEF TypeOK, RoundTypes
<1> HIDE DEF Run, Art, Entry
<1> QED
  BY <1>1, <1>2, Elements DEF Round

\* A link is made by a call for a round and an artifact that have none, and stays.
LEMMA LinksStand ==
    ASSUME TypeOK, [Next]_vars
    PROVE  \A k \in Round :
              /\ links[k] # 0 => links'[k] = links[k]
              /\ links'[k] # links[k] =>
                    \E call \in calls :
                       /\ call.op = "link" /\ call.round = k /\ links'[k] = call.artifact
                       /\ \A j \in Round : links[j] # call.artifact /\ (j # k => links'[j] = links[j])
<1> USE DEF taskVars, runVars, reviewVars, roundVars
<1>1. CASE UNCHANGED links
  BY <1>1
<1>2. ASSUME NEW call \in calls, Link(call), NEW k \in Round
      PROVE  /\ links[k] # 0 => links'[k] = links[k]
             /\ links'[k] # links[k] =>
                    /\ call.op = "link" /\ call.round = k /\ links'[k] = call.artifact
                    /\ \A j \in Round : links[j] # call.artifact /\ (j # k => links'[j] = links[j])
  BY <1>2 DEF Link, Linkable, TypeOK, RoundTypes
<1> QED
  BY <1>1, <1>2
     DEF Next, vars, Answer, Reassign, SubmitForReview, Complete, CancelTask, StartRun,
         CreateRun, EndRun, Upload, PublishArtifact, Invite, BeginComment, CommitComment,
         Comment, SubmitReview, CheckFrame, Check, CreateRound, Resolve, StartRound, CheckLink,
         CheckResolve

\* A decision is made by a call.
LEMMA DecisionsMade ==
    ASSUME TypeOK, [Next]_vars
    PROVE  \A k \in Round, m \in Reviewer : resolved'[k][m] # resolved[k][m] =>
              \E call \in calls : /\ call.op = "resolve" /\ call.round = k /\ call.comment = m
                                  /\ resolved'[k][m] = call.artifact
<1> USE DEF taskVars, runVars, reviewVars, roundVars
<1>1. CASE UNCHANGED resolved
  BY <1>1
<1>2. ASSUME NEW call \in calls, Resolve(call), NEW k \in Round, NEW m \in Reviewer,
             resolved'[k][m] # resolved[k][m]
      PROVE  /\ call.op = "resolve" /\ call.round = k /\ call.comment = m
             /\ resolved'[k][m] = call.artifact
  <2>1. call.op = "resolve" /\ resolved' = [resolved EXCEPT ![call.round][call.comment] = call.artifact]
    BY <1>2 DEF Resolve
  <2>2. resolved \in [Round -> [Reviewer -> 0..MaxArtifact]]
    BY DEF TypeOK, RoundTypes
  <2>3. resolved'[k] = IF k = call.round
                       THEN [resolved[k] EXCEPT ![call.comment] = call.artifact] ELSE resolved[k]
    BY <2>1, <2>2
  <2>4. k = call.round /\ resolved[k] \in [Reviewer -> 0..MaxArtifact]
    BY <1>2, <2>2, <2>3
  <2> QED
    BY <1>2, <2>1, <2>3, <2>4
<1>3. UNCHANGED resolved \/ \E call \in calls : Resolve(call)
  BY DEF Next, vars, Answer, Reassign, SubmitForReview, Complete, CancelTask, StartRun,
         CreateRun, EndRun, Upload, PublishArtifact, Invite, BeginComment, CommitComment,
         Comment, SubmitReview, CheckFrame, Check, CreateRound, Link, StartRound, CheckLink,
         CheckResolve
<1> QED
  BY <1>1, <1>2, <1>3

\* A new call has just checked.
LEMMA CallsMade ==
    ASSUME [Next]_vars
    PROVE  \A call \in calls' : call \notin calls =>
              \/ call.op = "frame"
              \/ /\ UNCHANGED <<rounds, links, artifacts>>
                 /\ \E k \in DOMAIN rounds, a \in DOMAIN artifacts :
                       /\ rounds[k].run # 0 /\ CandidateOf(k, a)
                       /\ call = [op |-> "link", round |-> k, artifact |-> a]
              \/ /\ UNCHANGED <<rounds, links, artifacts>>
                 /\ \E k \in DOMAIN rounds, m \in Reviewer :
                       /\ Resolvable(k, m)
                       /\ call = [op |-> "resolve", round |-> k, artifact |-> links[k], comment |-> m]
<1> USE DEF taskVars, runVars, reviewVars, roundVars
<1>1. CASE calls' \subseteq calls
  BY <1>1
<1>2. ASSUME NEW C, CheckFrame(C)
      PROVE  \A call \in calls' : call \notin calls => call.op = "frame"
  BY <1>2 DEF CheckFrame, Check
<1>3. ASSUME NEW k \in DOMAIN rounds, NEW a \in DOMAIN artifacts, CheckLink(k, a)
      PROVE  /\ UNCHANGED <<rounds, links, artifacts>> /\ rounds[k].run # 0 /\ CandidateOf(k, a)
             /\ \A call \in calls' : call \notin calls =>
                   call = [op |-> "link", round |-> k, artifact |-> a]
  BY <1>3 DEF CheckLink, Check
<1>4. ASSUME NEW k \in DOMAIN rounds, NEW m \in Reviewer, CheckResolve(k, m)
      PROVE  /\ UNCHANGED <<rounds, links, artifacts>> /\ Resolvable(k, m)
             /\ \A call \in calls' : call \notin calls =>
                   call = [op |-> "resolve", round |-> k, artifact |-> links[k], comment |-> m]
  BY <1>4 DEF CheckResolve, Check
<1> QED
  BY <1>1, <1>2, <1>3, <1>4
     DEF Next, vars, Answer, Reassign, SubmitForReview, Complete, CancelTask, StartRun,
         CreateRun, EndRun, Upload, PublishArtifact, Invite, BeginComment, CommitComment,
         Comment, SubmitReview, CreateRound, Link, Resolve, StartRound

\* RoundInv is kept.
LEMMA RoundStep == ASSUME TypeOK, RoundInv, [Next]_vars PROVE RoundInv'
<1>1. TypeOK' /\ IsFiniteSet(calls')
  BY TypeStep
<1>2. DOMAIN rounds \subseteq DOMAIN rounds' /\ DOMAIN artifacts \subseteq DOMAIN artifacts'
  BY Grows
<1>d. DOMAIN rounds' \subseteq Round
  <2> DEFINE Entry == [comments : SUBSET Reviewer, run : 0..MaxRun]
  <2>1. rounds' \in Seq(Entry) /\ Len(rounds') <= MaxRound
    BY <1>1 DEF TypeOK, RoundTypes
  <2> HIDE DEF Entry
  <2> QED
    BY <2>1, Elements, TaskReviewAssumption DEF Round
<1>3. RunsNameRounds'
  <2>1. CASE UNCHANGED runs
    BY <1>2, <2>1 DEF RoundInv, RunsNameRounds
  <2>2. ASSUME NEW k \in {0} \union DOMAIN rounds,
               DOMAIN runs' = DOMAIN runs \union {Len(runs) + 1},
               runs'[Len(runs) + 1] = [owner |-> task.assignee, round |-> k],
               \A i \in DOMAIN runs : i # Len(runs) + 1 /\ runs'[i] = runs[i]
        PROVE  RunsNameRounds'
    <3> SUFFICES ASSUME NEW i \in DOMAIN runs', runs'[i].round # 0
                 PROVE  runs'[i].round \in DOMAIN rounds'
      BY DEF RunsNameRounds
    <3>1. CASE i \in DOMAIN runs
      BY <1>2, <2>2, <3>1 DEF RoundInv, RunsNameRounds
    <3>2. CASE i = Len(runs) + 1
      BY <1>2, <2>2, <3>2
    <3> QED
      BY <2>2, <3>1, <3>2
  <2> QED
    BY <2>1, <2>2, RunsGrow
<1>4. LinksNameBoth'
  <2> SUFFICES ASSUME NEW k \in Round, links'[k] # 0
               PROVE  k \in DOMAIN rounds' /\ rounds'[k].run # 0 /\ links'[k] \in DOMAIN artifacts'
    BY DEF LinksNameBoth
  <2>1. CASE links'[k] = links[k]
    BY <1>2, <2>1, Grows DEF RoundInv, LinksNameBoth
  <2>2. CASE links'[k] # links[k]
    BY <1>2, <2>2, LinksStand, Grows DEF RoundInv, CallsSound
  <2> QED
    BY <2>1, <2>2
<1>5. DecisionsNameRounds'
  <2> SUFFICES ASSUME NEW k \in Round, NEW m \in Reviewer, resolved'[k][m] # 0
               PROVE  k \in DOMAIN rounds'
    BY DEF DecisionsNameRounds
  <2> QED
    BY <1>2, DecisionsMade DEF RoundInv, DecisionsNameRounds, CallsSound
<1>6. CallsSound'
  <2> DEFINE Sound(call) ==
        /\ call.op = "link" => /\ call.round \in DOMAIN rounds /\ rounds[call.round].run # 0
                               /\ call.artifact \in DOMAIN artifacts
                               /\ artifacts[call.artifact].run = rounds[call.round].run
        /\ call.op = "resolve" => /\ call.round \in DOMAIN rounds
                                  /\ call.artifact = links[call.round]
                                  /\ Published(call.artifact)
                                  /\ call.comment \in rounds[call.round].comments
  <2>1. ASSUME NEW call \in calls PROVE Sound(call)'
    <3>1. Sound(call)
      BY <2>1 DEF RoundInv, CallsSound
    <3>2. CASE call.op = "link"
      BY <1>2, <3>1, <3>2, Grows
    <3>3. CASE call.op = "resolve"
      <4>1. call.round \in Round /\ links[call.round] # 0
        BY <3>1, <3>3, Numbers DEF Published
      <4>2. links'[call.round] = links[call.round]
        BY <4>1, LinksStand
      <4> QED
        BY <1>2, <3>1, <3>3, <4>2, Grows
    <3> QED
      BY <3>2, <3>3
  <2>2. ASSUME NEW call \in calls', call \notin calls PROVE Sound(call)'
    <3>1. CASE call.op = "frame"
      BY <3>1
    <3>2. ASSUME UNCHANGED <<rounds, links, artifacts>>, NEW k \in DOMAIN rounds,
                 NEW a \in DOMAIN artifacts, rounds[k].run # 0, CandidateOf(k, a),
                 call = [op |-> "link", round |-> k, artifact |-> a]
          PROVE  Sound(call)'
      BY <3>2 DEF CandidateOf
    <3>3. ASSUME UNCHANGED <<rounds, links, artifacts>>, NEW k \in DOMAIN rounds,
                 NEW m \in Reviewer, Resolvable(k, m),
                 call = [op |-> "resolve", round |-> k, artifact |-> links[k], comment |-> m]
          PROVE  Sound(call)'
      BY <3>3 DEF Resolvable, Published
    <3> QED
      BY <2>2, <3>1, <3>2, <3>3, CallsMade
  <2> QED
    BY <1>1, <2>1, <2>2 DEF CallsSound
<1>7. OneRunPerRound'
  <2>1. CASE UNCHANGED runs
    BY <2>1, Grows, Numbers DEF RoundInv, RunsNameRounds, OneRunPerRound
  <2>2. ASSUME NEW k \in {0} \union DOMAIN rounds,
               DOMAIN runs' = DOMAIN runs \union {Len(runs) + 1},
               runs'[Len(runs) + 1] = [owner |-> task.assignee, round |-> k],
               \A i \in DOMAIN runs : i # Len(runs) + 1 /\ runs'[i] = runs[i],
               IF k = 0 THEN StartRun ELSE StartRound(k)
        PROVE  OneRunPerRound'
    <3> SUFFICES ASSUME NEW i \in DOMAIN runs', runs'[i].round # 0
                 PROVE  rounds'[runs'[i].round].run = i
      BY DEF OneRunPerRound
    <3>1. CASE i \in DOMAIN runs
      BY <2>2, <3>1, Grows, Numbers DEF RoundInv, RunsNameRounds, OneRunPerRound
    <3>2. CASE i = Len(runs) + 1
      <4>1. k # 0 /\ runs'[i].round = k /\ k \in DOMAIN rounds
        BY <2>2, <3>2
      <4>2. rounds' = [rounds EXCEPT ![k].run = Len(runs) + 1]
        BY <2>2, <4>1 DEF StartRound
      <4>3. rounds'[k].run = Len(runs) + 1
        <5>1. rounds \in Seq([comments : SUBSET Reviewer, run : 0..MaxRun])
          BY DEF TypeOK, RoundTypes
        <5> DEFINE Entry == [comments : SUBSET Reviewer, run : 0..MaxRun]
        <5>2. rounds[k] \in Entry
          <6> HIDE DEF Entry
          <6>1. rounds \in Seq(Entry)
            BY <5>1 DEF Entry
          <6> QED
            BY <4>1, <6>1, Elements
        <5> QED
          BY <4>1, <4>2, <5>1, <5>2
      <4> QED
        BY <3>2, <4>1, <4>3
    <3> QED
      BY <2>2, <3>1, <3>2
  <2> QED
    BY <2>1, <2>2, RunsGrow
<1>8. LinkedFromItsRun'
  <2> SUFFICES ASSUME NEW k \in DOMAIN rounds', links'[k] # 0
               PROVE  /\ artifacts'[links'[k]].run = rounds'[k].run
                      /\ \A j \in DOMAIN rounds' : links'[j] = links'[k] => j = k
    BY DEF LinkedFromItsRun
  <2>1. DOMAIN rounds' \subseteq Round
    BY <1>d
  <2>2. \A j \in Round : links[j] # 0 => /\ j \in DOMAIN rounds /\ rounds[j].run # 0
                                          /\ links[j] \in DOMAIN artifacts
                                          /\ artifacts[links[j]].run = rounds[j].run
    BY DEF RoundInv, LinksNameBoth, LinkedFromItsRun
  <2>3. artifacts'[links'[k]].run = rounds'[k].run
    <3>1. CASE links'[k] = links[k]
      BY <2>1, <2>2, <3>1, Grows
    <3>2. CASE links'[k] # links[k]
      BY <2>1, <3>2, LinksStand, Grows DEF RoundInv, CallsSound
    <3> QED
      BY <3>1, <3>2
  <2>4. ASSUME NEW j \in DOMAIN rounds', links'[j] = links'[k] PROVE j = k
    <3>1. CASE links'[k] = links[k] /\ links'[j] = links[j]
      BY <2>1, <2>2, <2>4, <3>1 DEF RoundInv, LinkedFromItsRun
    <3>2. CASE links'[k] # links[k]
      BY <2>1, <2>4, <3>2, LinksStand
    <3>3. CASE links'[j] # links[j]
      BY <2>1, <2>4, <3>3, LinksStand
    <3> QED
      BY <3>1, <3>2, <3>3
  <2> QED
    BY <2>3, <2>4
<1>9. JudgedOnLinked'
  <2> SUFFICES ASSUME NEW k \in DOMAIN rounds', NEW m \in Reviewer, resolved'[k][m] # 0
               PROVE  /\ m \in rounds'[k].comments
                      /\ resolved'[k][m] = links'[k] /\ Published(links[k])'
    BY DEF JudgedOnLinked
  <2>1. k \in Round
    BY <1>d
  <2>2. /\ k \in DOMAIN rounds /\ m \in rounds[k].comments
        /\ resolved'[k][m] = links[k] /\ Published(links[k])
    <3>1. CASE resolved'[k][m] = resolved[k][m]
      BY <2>1, <3>1 DEF RoundInv, DecisionsNameRounds, JudgedOnLinked
    <3>2. CASE resolved'[k][m] # resolved[k][m]
      BY <2>1, <3>2, DecisionsMade DEF RoundInv, CallsSound
    <3> QED
      BY <3>1, <3>2
  <2>3. links'[k] = links[k]
    BY <2>1, <2>2, LinksStand
  <2>4. Published(links[k])'
    BY <2>2, <2>3, Grows DEF Published
  <2> QED
    BY <2>2, <2>3, <2>4, Grows
<1> QED
  BY <1>3, <1>4, <1>5, <1>6, <1>7, <1>8, <1>9 DEF RoundInv

-----------------------------------------------------------------------------
(* The theorems                                                            *)

\* The invariant holds in every state.
THEOREM Invariance == Spec => []Inv
<1>1. Inv /\ [Next]_vars => Inv'
  BY TypeStep, TaskStep, RoundStep, SilenceStep DEF Inv
<1> QED
  BY <1>1, InitSound, PTL DEF Spec

\* Every variable keeps its type.
THEOREM TypeCorrect == Spec => []TypeOK
BY Invariance, PTL DEF Inv

\* submitTaskForReview and createInTransaction do not meet on one Task.
THEOREM QuietTheorem == Spec => []ReviewIsQuiet
<1>1. Inv => ReviewIsQuiet
  BY DEF Inv, TaskInv
<1> QED
  BY <1>1, Invariance, PTL

\* reassignAssignment never takes a Task from under its active Run.
THEOREM AssigneeTheorem == Spec => []ActiveRunIsAssignees
<1>1. Inv => ActiveRunIsAssignees
  BY DEF Inv, TaskInv
<1> QED
  BY <1>1, Invariance, PTL

\* startRevisionRound gives a round one Run.
THEOREM OneRunTheorem == Spec => []OneRunPerRound
<1>1. Inv => OneRunPerRound
  BY DEF Inv, RoundInv
<1> QED
  BY <1>1, Invariance, PTL

\* linkRevisionCandidate links what the Run of the round has made, to that round alone.
THEOREM LinkTheorem == Spec => []LinkedFromItsRun
<1>1. Inv => LinkedFromItsRun
  BY DEF Inv, RoundInv
<1> QED
  BY <1>1, Invariance, PTL

\* resolveReviewComment decides on the version that is linked and published.
THEOREM JudgedTheorem == Spec => []JudgedOnLinked
<1>1. Inv => JudgedOnLinked
  BY DEF Inv, RoundInv
<1> QED
  BY <1>1, Invariance, PTL

\* submitArtifactReview tells the truth about comments written under the invitation.
THEOREM SilenceTheorem == Spec => []SilenceIsTrue
BY Invariance, PTL DEF Inv

\* The first link of a round stays.
THEOREM FirstLinkTheorem == Spec => FirstLinkStands
<1>1. Inv /\ [Next]_vars => [\A k \in Round : links[k] # 0 => links'[k] = links[k]]_vars
  BY LinksStand DEF Inv
<1> QED
  BY <1>1, Invariance, PTL DEF Spec, FirstLinkStands

\* Nothing starts for a Task that has ended.
THEOREM FinishedTheorem == Spec => FinishedStartsNothing
<1>1. Inv /\ [Next]_vars => [Finished => runs' = runs /\ task'.status = task.status]_vars
  BY FinishedStep DEF Inv
<1> QED
  BY <1>1, Invariance, PTL DEF Spec, FinishedStartsNothing
-----------------------------------------------------------------------------
(***************************************************************************)
(* Handoff, the other half of a Task's life.  Its downstream Task is not   *)
(* the Task above: the two specifications share no variable.               *)
(*                                                                         *)
(* The inductive invariant has two halves that do not meet: drafts with    *)
(* what publications have read and what was published (Drafts), and        *)
(* receipts with their Decisions and the Runs that use them (Receipts).    *)
(***************************************************************************)


\* Drafts are numbered as they come: the one that is there is the newest, and every
\* published one came before it.
DraftsNumbered ==
    /\ \A i \in DOMAIN revisions : revisions[i].draft <= drafts
    /\ draft.status # "none" =>
          /\ draft.id = drafts
          /\ \A i \in DOMAIN revisions : revisions[i].draft < drafts

\* Texts only grow: what was read of a draft, or published, is not newer than its row.
TextsGrow ==
    /\ \A s \in starts : s[2] <= saves
    /\ \A r \in reads : r[1] <= drafts /\ (draft.status # "none" /\ r[1] = drafts => r[2] <= draft.text)
    /\ \A i \in DOMAIN revisions :
          revisions[i].text <= revisions[i].row /\ revisions[i].row <= saves
    /\ draft.text <= saves

Drafts == DraftsNumbered /\ TextsGrow /\ DraftPublishedOnce

Receipts == OneActiveDecision /\ InputConfirmed

HandoffInv == HandoffTypeOK /\ Drafts /\ Receipts

-----------------------------------------------------------------------------

\* The empty sequence and an extended one are sequences over the same set.
LEMMA OneLonger ==
    ASSUME NEW S
    PROVE  /\ <<>> \in Seq(S) /\ Len(<<>>) = 0
           /\ \A s \in Seq(S), e \in S :
                 Append(s, e) \in Seq(S) /\ Len(Append(s, e)) = Len(s) + 1
OBVIOUS

\* The initial state satisfies the invariant.
LEMMA HandoffInitSound == HandoffInit => HandoffInv
<1> SUFFICES ASSUME HandoffInit PROVE HandoffInv
  OBVIOUS
<1> USE HandoffAssumption DEF HandoffInit
<1>1. revisions = <<>> /\ downRuns = <<>> /\ DOMAIN revisions = {} /\ DOMAIN downRuns = {}
  BY DEF Revision
<1>2. HandoffTypeOK
  <2>1. DraftTypes
    <3>1. /\ draft \in [status : {"none", "ready", "failed"}, id : Nat, text : Text]
          /\ saves \in Text
      BY DEF NoDraft, Text
    <3>2. revisions \in Seq([draft : Nat, text : Text, row : Text]) /\ Len(revisions) <= MaxRevision
      BY <1>1
    <3> QED
      BY <3>1, <3>2 DEF DraftTypes
  <2>2. DownTaskTypes
    <3>1. CASE downTask = NoTask
      BY <3>1 DEF DownTaskTypes, NoTask
    <3>2. CASE downTask \in [assignee : Member, assignment : {"pending"}, status : {"open"}]
      BY <3>2 DEF DownTaskTypes
    <3> QED
      BY <3>1, <3>2
  <2>3. ReceiptTypes
    BY DEF ReceiptTypes, NoReceipt
  <2>4. DownRunTypes
    <3> DEFINE Run == [input : 0..MaxRevision, from : 0..MaxDownRun, owner : Member]
    <3>1. downRuns \in Seq(Run) /\ Len(downRuns) = 0
      <4> HIDE DEF Run
      <4> QED
        BY <1>1, OneLonger
    <3>2. downBusy \in BOOLEAN
      BY Zenon DEF HandoffInit
    <3>3. Len(downRuns) <= MaxDownRun
      BY <3>1
    <3> QED
      BY <3>1, <3>2, <3>3, Zenon DEF DownRunTypes
  <2> QED
    BY <2>1, <2>2, <2>3, <2>4 DEF HandoffTypeOK
<1>3. Drafts
  BY <1>1 DEF Drafts, DraftsNumbered, TextsGrow, DraftPublishedOnce, NoDraft
<1>4. Receipts
  BY <1>1 DEF Receipts, OneActiveDecision, InputConfirmed, NoReceipt
<1> QED
  BY <1>2, <1>3, <1>4 DEF HandoffInv

\* Every step keeps every variable in its type.
LEMMA HandoffTypeStep == ASSUME HandoffTypeOK, [HandoffNext]_handoffVars PROVE HandoffTypeOK'
<1> USE HandoffAssumption DEF draftVars, downTaskVars, receiptVars, downRunVars
<1> DEFINE SameDrafts   == UNCHANGED <<ended, event, draft, drafts, saves, starts, reads, revisions>>
           SameTask     == UNCHANGED <<downTask, downMoves>>
           SameReceipts == UNCHANGED <<checked, receipts, decision>>
           SameRuns     == UNCHANGED <<downRuns, downBusy>>
<1>1. /\ SameDrafts => DraftTypes'
      /\ SameTask => DownTaskTypes'
      /\ SameReceipts => ReceiptTypes'
      /\ SameRuns => DownRunTypes'
  BY DEF HandoffTypeOK, DraftTypes, DownTaskTypes, ReceiptTypes, DownRunTypes
<1>2. ASSUME SameTask, SameReceipts, SameRuns, DraftTypes' PROVE HandoffTypeOK'
  BY <1>1, <1>2 DEF HandoffTypeOK
<1>3. ASSUME SameDrafts, SameReceipts, SameRuns, DownTaskTypes' PROVE HandoffTypeOK'
  BY <1>1, <1>3 DEF HandoffTypeOK
<1>4. ASSUME SameDrafts, SameTask, SameRuns, ReceiptTypes' PROVE HandoffTypeOK'
  BY <1>1, <1>4 DEF HandoffTypeOK
<1>5. ASSUME SameDrafts, SameTask, SameReceipts, DownRunTypes' PROVE HandoffTypeOK'
  BY <1>1, <1>5 DEF HandoffTypeOK
<1>6. CASE UNCHANGED handoffVars
  BY <1>1, <1>6 DEF HandoffTypeOK, handoffVars
<1>7. CASE EndSource \/ SeeEvent
  BY <1>2, <1>7 DEF EndSource, SeeEvent, HandoffTypeOK, DraftTypes
<1>8. ASSUME NEW s \in {"ready", "failed"}, InsertAuto(s) PROVE HandoffTypeOK'
  BY <1>2, <1>8 DEF InsertAuto, InsertDraft, HandoffTypeOK, DraftTypes, Text
<1>9. CASE ReadForManual
  <2> DEFINE Rev == [draft : Nat, text : Text, row : Text]
  <2>0. revisions \in Seq(Rev) /\ 0 \in Text
    BY DEF HandoffTypeOK, DraftTypes, Text
  <2>1. Seed \in Text
    <3> HIDE DEF Rev
    <3>1. revisions # <<>> => revisions[Len(revisions)] \in Rev
      BY <2>0, Elements
    <3> QED
      BY <2>0, <3>1 DEF Seed, Rev
  <2> QED
    BY <1>2, <1>9, <2>1 DEF ReadForManual, HandoffTypeOK, DraftTypes
<1>24. ASSUME NEW s \in starts, CreateManual(s[1], s[2]) PROVE HandoffTypeOK'
  <2>2. draft' \in [status : {"none", "ready", "failed"}, id : Nat, text : Text]
    BY <1>24 DEF CreateManual, HandoffTypeOK, DraftTypes
  <2> QED
    BY <1>2, <1>24, <2>2 DEF CreateManual, HandoffTypeOK, DraftTypes
<1>10. CASE Save
  <2>1. saves + 1 \in Text
    BY <1>10 DEF Save, HandoffTypeOK, DraftTypes, Text
  <2>2. draft' \in [status : {"none", "ready", "failed"}, id : Nat, text : Text]
    BY <1>10, <2>1 DEF Save, HandoffTypeOK, DraftTypes
  <2>3. DraftTypes'
    BY <1>10, <2>1, <2>2 DEF Save, HandoffTypeOK, DraftTypes
  <2> QED
    BY <1>2, <1>10, <2>3 DEF Save
<1>11. CASE ReadDraft
  BY <1>2, <1>11 DEF ReadDraft, HandoffTypeOK, DraftTypes
<1>12. ASSUME NEW r \in reads, Publish(r[1], r[2]) PROVE HandoffTypeOK'
  <2> DEFINE rev == [draft |-> r[1], text |-> r[2], row |-> draft.text]
  <2>1. rev \in [draft : Nat, text : Text, row : Text]
    BY DEF HandoffTypeOK, DraftTypes
  <2>2. revisions' = Append(revisions, rev) /\ Len(revisions) < MaxRevision /\ draft' = NoDraft
        /\ UNCHANGED <<ended, event, drafts, saves, starts, reads>> /\ SameTask /\ SameReceipts /\ SameRuns
    BY <1>12 DEF Publish
  <2>3. /\ revisions' \in Seq([draft : Nat, text : Text, row : Text])
        /\ Len(revisions') = Len(revisions) + 1
    BY <2>1, <2>2 DEF HandoffTypeOK, DraftTypes
  <2>4. DraftTypes'
    BY <2>2, <2>3 DEF HandoffTypeOK, DraftTypes, NoDraft, Text
  <2> QED
    BY <1>2, <2>2, <2>4
<1>13. CASE Accept \/ Reject \/ Finish
  <2>1. DownTaskTypes'
    BY <1>13 DEF Accept, Reject, Finish, HandoffTypeOK, DownTaskTypes
  <2> QED
    BY <1>3, <1>13, <2>1 DEF Accept, Reject, Finish
<1>14. ASSUME NEW m \in Member, NEW a \in {"pending", "accepted"}, ReassignDown(m, a) PROVE HandoffTypeOK'
  <2>1. DownTaskTypes'
    <3>0. downMoves' \in 0..MaxDownMove
      BY <1>14 DEF ReassignDown, HandoffTypeOK, DownTaskTypes
    <3>1. downTask' = [assignee |-> m, assignment |-> a, status |-> downTask.status]
      <4>1. downTask' = [downTask EXCEPT !.assignee = m, !.assignment = a]
        BY <1>14 DEF ReassignDown
      <4> QED
        BY <4>1 DEF HandoffTypeOK, DownTaskTypes
    <3>2. downTask.status \in {"none", "open", "finished"} /\ downTask.assignment # "none"
      BY <1>14 DEF ReassignDown, HandoffTypeOK, DownTaskTypes
    <3>3. downTask.status # "none"
      BY <3>2 DEF HandoffTypeOK, DownTaskTypes
    <3> QED
      BY <3>0, <3>1, <3>2, <3>3 DEF DownTaskTypes
  <2>2. ReceiptTypes'
    BY <1>14 DEF ReassignDown, Moved, HandoffTypeOK, ReceiptTypes, NoReceipt
  <2> QED
    BY <1>1, <1>14, <2>1, <2>2 DEF ReassignDown, HandoffTypeOK
<1>15. ASSUME NEW n \in Revision, CheckDelivery(n) PROVE HandoffTypeOK'
  BY <1>4, <1>15 DEF CheckDelivery, HandoffTypeOK, DownTaskTypes, ReceiptTypes
<1>16. ASSUME NEW n \in Revision, NEW m \in Member, CreateTask(n, m) PROVE HandoffTypeOK'
  <2>1. DownTaskTypes' /\ ReceiptTypes'
    BY <1>16 DEF CreateTask, HandoffTypeOK, DownTaskTypes, ReceiptTypes
  <2> QED
    BY <1>1, <1>16, <2>1 DEF CreateTask, HandoffTypeOK
<1>17. ASSUME NEW n \in Revision, NEW m \in Member, Deliver(n, m) PROVE HandoffTypeOK'
  BY <1>4, <1>17 DEF Deliver, HandoffTypeOK, ReceiptTypes, NoReceipt
<1>18. ASSUME NEW n \in Revision, Confirm(n) PROVE HandoffTypeOK'
  BY <1>4, <1>18 DEF Confirm, Projected, HandoffTypeOK, ReceiptTypes, NoReceipt
<1>25. ASSUME NEW n \in Revision, Correct(n) PROVE HandoffTypeOK'
  BY <1>4, <1>25 DEF Correct, HandoffTypeOK, ReceiptTypes
<1>19. ASSUME NEW n \in Revision, Adopt(n) PROVE HandoffTypeOK'
  <2>1. downTask.assignee \in Member \union {Nobody}
    BY DEF HandoffTypeOK, DownTaskTypes
  <2> QED
    BY <1>4, <1>19, <2>1 DEF Adopt, Projected, HandoffTypeOK, ReceiptTypes, NoReceipt, Revision
<1>20. ASSUME NEW n \in 0..MaxRevision, NEW from \in 0..MaxDownRun, CreateDownRun(n, from) PROVE HandoffTypeOK'
  <2> DEFINE run == [input |-> n, from |-> from, owner |-> downTask.assignee]
  <2>1. downTask.assignee \in Member
    BY <1>20 DEF CreateDownRun, HandoffTypeOK, DownTaskTypes
  <2>2. /\ downRuns' = Append(downRuns, run) /\ Len(downRuns) < MaxDownRun
        /\ run \in [input : 0..MaxRevision, from : 0..MaxDownRun, owner : Member]
    BY <1>20, <2>1 DEF CreateDownRun
  <2>3. /\ downRuns' \in Seq([input : 0..MaxRevision, from : 0..MaxDownRun, owner : Member])
        /\ Len(downRuns') = Len(downRuns) + 1
    BY <2>2 DEF HandoffTypeOK, DownRunTypes
  <2> QED
    BY <1>5, <1>20, <2>2, <2>3 DEF CreateDownRun, HandoffTypeOK, DownRunTypes
<1>21. CASE NewRun
  <2>1. 0 \in 0..MaxDownRun /\ {0} \union {k \in Revision : Usable(k)} \subseteq 0..MaxRevision
    BY DEF Revision
  <2> QED
    BY <1>20, <1>21, <2>1 DEF NewRun
<1>22. CASE RunAgain
  <2>1. PICK i \in DOMAIN downRuns : CreateDownRun(downRuns[i].input, i)
    BY <1>22 DEF RunAgain
  <2> DEFINE Run == [input : 0..MaxRevision, from : 0..MaxDownRun, owner : Member]
  <2>2. i \in 0..MaxDownRun /\ downRuns[i] \in Run
    <3> HIDE DEF Run
    <3>1. downRuns \in Seq(Run) /\ Len(downRuns) <= MaxDownRun
      BY DEF HandoffTypeOK, DownRunTypes, Run
    <3> QED
      BY <3>1, Elements
  <2> QED
    BY <1>20, <2>1, <2>2
<1>23. CASE EndDownRun
  BY <1>5, <1>23 DEF EndDownRun, HandoffTypeOK, DownRunTypes
<1> QED
  BY <1>6, <1>7, <1>8, <1>9, <1>10, <1>11, <1>12, <1>13, <1>14, <1>15, <1>16, <1>17, <1>18,
     <1>19, <1>21, <1>22, <1>23, <1>24, <1>25 DEF HandoffNext

-----------------------------------------------------------------------------
(* Drafts                                                                  *)

\* No step of the Task, its receipts or its Runs touches a draft.
LEMMA DraftsAlone ==
    ASSUME [HandoffNext]_handoffVars
    PROVE  \/ UNCHANGED <<draft, drafts, saves, starts, reads, revisions>>
           \/ \E s \in {"ready", "failed"} : InsertAuto(s)
           \/ \E s \in starts : CreateManual(s[1], s[2])
           \/ ReadForManual \/ Save \/ ReadDraft
           \/ \E r \in reads : Publish(r[1], r[2])
BY DEF HandoffNext, handoffVars, draftVars, EndSource, SeeEvent, Accept, Reject, Finish, NewRun,
       RunAgain,
       CreateDownRun, EndDownRun, ReassignDown, CheckDelivery, Confirm, Adopt, Correct, CreateTask, Deliver

\* Drafts is kept.
LEMMA DraftsStep == ASSUME HandoffTypeOK, Drafts, [HandoffNext]_handoffVars PROVE Drafts'
<1> USE HandoffAssumption
<1> DEFINE Rev == [draft : Nat, text : Text, row : Text]
<1>b. /\ revisions \in Seq(Rev)
      /\ drafts \in Nat /\ saves \in Nat /\ draft.id \in Nat /\ draft.text \in Nat
      /\ \A r \in reads : r[1] \in Nat /\ r[2] \in Nat
      /\ \A s \in starts : s[1] \in Nat /\ s[2] \in Nat
  BY DEF HandoffTypeOK, DraftTypes, Text
<1>c. /\ DOMAIN revisions = 1..Len(revisions) /\ Len(revisions) \in Nat
       /\ \A i \in DOMAIN revisions : revisions[i] \in Rev
  <2> HIDE DEF Rev
  <2> QED
    BY <1>b, Elements
<1>d. \A i \in DOMAIN revisions :
          revisions[i].draft \in Nat /\ revisions[i].text \in Nat /\ revisions[i].row \in Nat
  BY <1>c DEF Text
<1> HIDE DEF Rev
<1>1. CASE UNCHANGED <<draft, drafts, saves, starts, reads, revisions>>
  BY <1>1 DEF Drafts, DraftsNumbered, TextsGrow, DraftPublishedOnce
<1>2. ASSUME NEW s \in {"ready", "failed"}, InsertAuto(s) PROVE Drafts'
  BY <1>b, <1>c, <1>d, <1>2
     DEF InsertAuto, InsertDraft, Drafts, DraftsNumbered, TextsGrow, DraftPublishedOnce
<1>7. CASE ReadForManual
  <2>1. Seed \in Nat /\ Seed <= saves
    BY <1>b, <1>c, <1>d DEF Seed, Drafts, TextsGrow
  <2>2. starts' = starts \union {<<draft.id, Seed>>} /\ UNCHANGED <<draft, drafts, saves, reads, revisions>>
    BY <1>7 DEF ReadForManual
  <2> QED
    BY <1>b, <2>1, <2>2 DEF Drafts, DraftsNumbered, TextsGrow, DraftPublishedOnce
<1>3. ASSUME NEW s \in starts, CreateManual(s[1], s[2]) PROVE Drafts'
  <2>1. s[2] \in Nat /\ s[2] <= saves
    BY <1>b DEF Drafts, TextsGrow
  <2>2. /\ draft'.status = "ready" /\ draft'.id = drafts + 1 /\ draft'.text = s[2]
        /\ drafts' = drafts + 1 /\ UNCHANGED <<saves, starts, reads, revisions>>
    BY <1>3 DEF CreateManual
  <2>3. DraftsNumbered'
    BY <1>b, <1>c, <1>d, <2>2 DEF Drafts, DraftsNumbered
  <2>4. TextsGrow'
    BY <1>b, <1>c, <1>d, <2>1, <2>2 DEF Drafts, TextsGrow
  <2>5. DraftPublishedOnce'
    BY <2>2 DEF Drafts, DraftPublishedOnce
  <2> QED
    BY <2>3, <2>4, <2>5 DEF Drafts
<1>4. CASE Save
  <2>1. /\ draft' = [draft EXCEPT !.text = saves + 1] /\ saves' = saves + 1
        /\ UNCHANGED <<drafts, starts, reads, revisions>>
    BY <1>4 DEF Save
  <2>2. /\ draft'.status = draft.status /\ draft'.id = draft.id
        /\ draft'.text = saves + 1
    BY <2>1 DEF HandoffTypeOK, DraftTypes
  <2>3. DraftsNumbered'
    BY <2>1, <2>2 DEF Drafts, DraftsNumbered
  <2>4. TextsGrow'
    BY <1>b, <1>c, <1>d, <2>1, <2>2 DEF Drafts, TextsGrow
  <2>5. DraftPublishedOnce'
    BY <1>b, <1>c, <1>d, <2>1, <2>2
       DEF Drafts, TextsGrow, DraftPublishedOnce
  <2> QED
    BY <2>3, <2>4, <2>5 DEF Drafts
<1>5. CASE ReadDraft
  BY <1>b, <1>c, <1>d, <1>5
     DEF ReadDraft, Drafts, DraftsNumbered, TextsGrow, DraftPublishedOnce
<1>6. ASSUME NEW r \in reads, Publish(r[1], r[2]) PROVE Drafts'
  <2> DEFINE n == Len(revisions) + 1
             rev == [draft |-> r[1], text |-> r[2], row |-> draft.text]
  <2>1. /\ draft.status = "ready" /\ draft.id = r[1]
        /\ revisions' = Append(revisions, rev)
        /\ draft' = NoDraft /\ UNCHANGED <<drafts, saves, starts, reads>>
    BY <1>6 DEF Publish, MarkPublished, draftVars
  <2>2. /\ DOMAIN revisions' = 1..n /\ revisions'[n] = rev
        /\ \A i \in DOMAIN revisions : revisions'[i] = revisions[i]
    BY <1>b, <2>1
  <2>3. r[1] = drafts /\ r[2] <= draft.text
        /\ \A i \in DOMAIN revisions : revisions[i].draft < drafts
    BY <2>1 DEF Drafts, DraftsNumbered, TextsGrow
  <2>4. DraftsNumbered'
    BY <1>b, <1>c, <1>d, <2>1, <2>2, <2>3 DEF DraftsNumbered, NoDraft
  <2>5. TextsGrow'
    BY <1>b, <1>c, <1>d, <2>1, <2>2, <2>3 DEF Drafts, TextsGrow, NoDraft
  <2>6. DraftPublishedOnce'
    BY <1>b, <1>c, <1>d, <2>1, <2>2, <2>3 DEF Drafts, DraftPublishedOnce
  <2> QED
    BY <2>4, <2>5, <2>6 DEF Drafts
<1> QED
  BY <1>1, <1>2, <1>3, <1>4, <1>5, <1>6, <1>7, DraftsAlone

-----------------------------------------------------------------------------
(* Receipts, Decisions and Runs                                            *)

\* No step of a draft touches a receipt or a Run.
LEMMA ReceiptsAlone ==
    ASSUME [HandoffNext]_handoffVars
    PROVE  \/ UNCHANGED <<receipts, decision, downRuns>>
           \/ NewRun \/ RunAgain
           \/ \E m \in Member, a \in {"pending", "accepted"} : ReassignDown(m, a)
           \/ \E n \in Revision : Confirm(n) \/ Adopt(n) \/ Correct(n)
           \/ \E n \in Revision, m \in Member : Deliver(n, m)
BY DEF HandoffNext, handoffVars, draftVars, downTaskVars, receiptVars, downRunVars, EndSource,
       SeeEvent, InsertAuto,
       ReadForManual, CreateManual, Save, ReadDraft, Publish, Accept, Reject, Finish, EndDownRun, CheckDelivery,
       CreateTask

\* What was confirmed stands, and only the assignee of the moment confirms.
LEMMA ConfirmedStep ==
    ASSUME HandoffTypeOK, [HandoffNext]_handoffVars
    PROVE  \A n \in Revision :
              /\ receipts[n].status = "confirmed" => receipts'[n] = receipts[n]
              /\ receipts[n].status # "confirmed" /\ receipts'[n].status = "confirmed" =>
                    receipts'[n].receiver = downTask.assignee
<1> SUFFICES ASSUME NEW n \in Revision
             PROVE  /\ receipts[n].status = "confirmed" => receipts'[n] = receipts[n]
                    /\ receipts[n].status # "confirmed" /\ receipts'[n].status = "confirmed" =>
                          receipts'[n].receiver = downTask.assignee
  OBVIOUS
<1>1. CASE UNCHANGED receipts
  BY <1>1
<1>2. ASSUME NEW m \in Member, NEW a \in {"pending", "accepted"}, ReassignDown(m, a)
      PROVE  /\ receipts[n].status = "confirmed" => receipts'[n] = receipts[n]
             /\ receipts[n].status # "confirmed" => receipts'[n].status # "confirmed"
  BY <1>2 DEF ReassignDown, Moved, HandoffTypeOK, ReceiptTypes
<1>3. ASSUME NEW k \in Revision, Confirm(k)
      PROVE  /\ receipts[n].status = "confirmed" => receipts'[n] = receipts[n]
             /\ receipts[n].status # "confirmed" /\ receipts'[n].status = "confirmed" =>
                   receipts'[n].receiver = downTask.assignee
  BY <1>3 DEF Confirm, MayConfirm, HandoffTypeOK, ReceiptTypes
<1>4. ASSUME NEW k \in Revision, Adopt(k)
      PROVE  /\ receipts[n].status = "confirmed" => receipts'[n] = receipts[n]
             /\ receipts[n].status # "confirmed" /\ receipts'[n].status = "confirmed" =>
                   receipts'[n].receiver = downTask.assignee
  BY <1>4 DEF Adopt, HandoffTypeOK, ReceiptTypes
<1>5. ASSUME NEW k \in Revision, NEW m \in Member, Deliver(k, m)
      PROVE  /\ receipts[n].status = "confirmed" => receipts'[n] = receipts[n]
             /\ receipts[n].status # "confirmed" => receipts'[n].status # "confirmed"
  BY <1>5 DEF Deliver, HandoffTypeOK, ReceiptTypes
<1> QED
  BY <1>1, <1>2, <1>3, <1>4, <1>5, ReceiptsAlone
     DEF NewRun, RunAgain, CreateDownRun, Correct, receiptVars

\* A confirmed receipt gets its Decision, the one that was active is superseded.
LEMMA OneActiveStep == ASSUME HandoffTypeOK, OneActiveDecision, [HandoffNext]_handoffVars PROVE OneActiveDecision'
<1>1. CASE UNCHANGED <<receipts, decision>>
  BY <1>1 DEF OneActiveDecision
<1>2. ASSUME NEW m \in Member, NEW a \in {"pending", "accepted"}, ReassignDown(m, a)
      PROVE  OneActiveDecision'
  <2>1. decision' = decision
        /\ \A n \in Revision : receipts'[n].status = "confirmed" <=> receipts[n].status = "confirmed"
    BY <1>2 DEF ReassignDown, Moved, HandoffTypeOK, ReceiptTypes
  <2> QED
    BY <2>1 DEF OneActiveDecision
<1>3. ASSUME NEW k \in Revision, Confirm(k) PROVE OneActiveDecision'
  <2>1. /\ decision' = Projected(k)
        /\ \A n \in Revision :
              receipts'[n].status = "confirmed" <=> receipts[n].status = "confirmed" \/ n = k
    BY <1>3 DEF Confirm, HandoffTypeOK, ReceiptTypes
  <2> QED
    BY <2>1 DEF OneActiveDecision, Projected, HandoffTypeOK, ReceiptTypes
<1>4. ASSUME NEW n \in Revision, Adopt(n) PROVE OneActiveDecision'
  <2> DEFINE k == Len(revisions)
  <2>1. k \in Revision
    BY <1>4, Elements, HandoffAssumption DEF Adopt, HandoffTypeOK, DraftTypes, Revision
  <2>2. /\ decision' = Projected(k)
        /\ \A i \in Revision :
              receipts'[i].status = "confirmed" <=> receipts[i].status = "confirmed" \/ i = k
    BY <1>4, <2>1 DEF Adopt, HandoffTypeOK, ReceiptTypes
  <2> HIDE DEF k
  <2> QED
    BY <2>1, <2>2 DEF OneActiveDecision, Projected, HandoffTypeOK, ReceiptTypes
<1>5. ASSUME NEW k \in Revision, NEW m \in Member, Deliver(k, m) PROVE OneActiveDecision'
  <2>1. decision' = decision
        /\ \A n \in Revision : receipts'[n].status = "confirmed" <=> receipts[n].status = "confirmed"
    BY <1>5 DEF Deliver, HandoffTypeOK, ReceiptTypes
  <2> QED
    BY <2>1 DEF OneActiveDecision
<1>6. ASSUME NEW k \in Revision, Correct(k) PROVE OneActiveDecision'
  <2>1. /\ UNCHANGED receipts /\ decision[k] = "active" /\ decision'[k] = "corrected"
        /\ \A n \in Revision : n # k => decision'[n] = decision[n]
    BY <1>6 DEF Correct, HandoffTypeOK, ReceiptTypes
  <2> QED
    BY <2>1 DEF OneActiveDecision
<1> QED
  BY <1>1, <1>2, <1>3, <1>4, <1>5, <1>6, ReceiptsAlone
     DEF NewRun, RunAgain, CreateDownRun, receiptVars

\* A Run keeps its input, which stays confirmed by who confirmed it.
LEMMA InputStep == ASSUME HandoffTypeOK, InputConfirmed, [HandoffNext]_handoffVars PROVE InputConfirmed'
<1> USE HandoffAssumption
<1> DEFINE Run == [input : 0..MaxRevision, from : 0..MaxDownRun, owner : Member]
<1>1. /\ Len(downRuns) \in Nat /\ DOMAIN downRuns = 1..Len(downRuns)
      /\ \A i \in DOMAIN downRuns : downRuns[i] \in Run
  <2>1. downRuns \in Seq(Run)
    BY DEF HandoffTypeOK, DownRunTypes
  <2> HIDE DEF Run
  <2> QED
    BY <2>1, Elements
<1>2. \A i \in DOMAIN downRuns : downRuns[i].input # 0 => downRuns[i].input \in Revision
  BY <1>1 DEF Revision
<1> HIDE DEF Run
<1>3. CASE UNCHANGED downRuns
  BY <1>2, <1>3, ConfirmedStep DEF InputConfirmed
<1>4. ASSUME NEW n \in 0..MaxRevision, NEW from, CreateDownRun(n, from),
             n # 0 => /\ receipts[n].status = "confirmed"
                      /\ from = 0 => receipts[n].receiver = downTask.assignee
      PROVE  InputConfirmed'
  <2> DEFINE run == [input |-> n, from |-> from, owner |-> downTask.assignee]
  <2>1. downRuns' = Append(downRuns, run) /\ receipts' = receipts
    BY <1>4 DEF CreateDownRun, receiptVars
  <2>2. /\ DOMAIN downRuns' = DOMAIN downRuns \union {Len(downRuns) + 1}
        /\ downRuns'[Len(downRuns) + 1] = run /\ \A i \in DOMAIN downRuns : downRuns'[i] = downRuns[i]
    BY <1>1, <2>1
  <2> QED
    BY <1>4, <2>1, <2>2 DEF InputConfirmed
<1>5. CASE NewRun
  <2>1. PICK n \in {0} \union {k \in Revision : Usable(k)} : CreateDownRun(n, 0)
    BY <1>5 DEF NewRun
  <2>2. n \in 0..MaxRevision
    BY DEF Revision
  <2> QED
    BY <1>4, <2>1, <2>2 DEF Usable
<1>6. CASE RunAgain
  <2>1. PICK i \in DOMAIN downRuns : CreateDownRun(downRuns[i].input, i)
    BY <1>6 DEF RunAgain
  <2>2. i # 0 /\ downRuns[i].input \in 0..MaxRevision
    BY <1>1, <1>2 DEF Revision
  <2>3. downRuns[i].input # 0 => receipts[downRuns[i].input].status = "confirmed"
    BY DEF InputConfirmed
  <2> QED
    BY <1>4, <2>1, <2>2, <2>3
<1> QED
  BY <1>3, <1>5, <1>6, ReceiptsAlone
     DEF ReassignDown, Confirm, Adopt, Correct, Deliver, downRunVars

-----------------------------------------------------------------------------
(* The theorems                                                            *)

\* The invariant holds in every state.
THEOREM HandoffInvariance == HandoffSpec => []HandoffInv
<1>1. HandoffInv /\ [HandoffNext]_handoffVars => HandoffInv'
  BY HandoffTypeStep, DraftsStep, OneActiveStep, InputStep DEF HandoffInv, Receipts
<1> QED
  BY <1>1, HandoffInitSound, PTL DEF HandoffSpec

\* Every variable keeps its type.
THEOREM HandoffTypeCorrect == HandoffSpec => []HandoffTypeOK
BY HandoffInvariance, PTL DEF HandoffInv

\* publishHandoffDraft publishes a draft once, however many calls have read it.
THEOREM PublishedOnceTheorem == HandoffSpec => []DraftPublishedOnce
<1>1. HandoffInv => DraftPublishedOnce
  BY DEF HandoffInv, Drafts
<1> QED
  BY <1>1, HandoffInvariance, PTL

\* projectDecision leaves at most one active Decision of a pair of Tasks, and none
\* only after a correction.
THEOREM OneActiveTheorem == HandoffSpec => []OneActiveDecision
<1>1. HandoffInv => OneActiveDecision
  BY DEF HandoffInv, Receipts
<1> QED
  BY <1>1, HandoffInvariance, PTL

\* snapshotHandoffInput takes what was confirmed, by the owner of a new Run.
THEOREM InputTheorem == HandoffSpec => []InputConfirmed
<1>1. HandoffInv => InputConfirmed
  BY DEF HandoffInv, Receipts
<1> QED
  BY <1>1, HandoffInvariance, PTL

\* confirmReceipt, adoptReceipt and reassignment leave a confirmation as it is.
THEOREM UnderstandingTheorem == HandoffSpec => FirstUnderstandingStands
<1>1. HandoffInv /\ [HandoffNext]_handoffVars =>
        [\A n \in Revision : receipts[n].status = "confirmed" => receipts'[n] = receipts[n]]_handoffVars
  BY ConfirmedStep DEF HandoffInv
<1> QED
  BY <1>1, HandoffInvariance, PTL DEF HandoffSpec, FirstUnderstandingStands

\* Whoever confirms or adopts has the Task at that moment.
THEOREM ConfirmTheorem == HandoffSpec => ConfirmedByAssignee
<1>1. HandoffInv /\ [HandoffNext]_handoffVars =>
        [\A n \in Revision :
           receipts[n].status # "confirmed" /\ receipts'[n].status = "confirmed" =>
               receipts'[n].receiver = downTask.assignee]_handoffVars
  BY ConfirmedStep DEF HandoffInv
<1> QED
  BY <1>1, HandoffInvariance, PTL DEF HandoffSpec, ConfirmedByAssignee

\* A draft that is ready goes on until it is the newest revision.
THEOREM KeptTheorem == HandoffSpec => OwnersDraftKept
<1>1. HandoffInv /\ [HandoffNext]_handoffVars =>
        [draft.status = "ready" /\ draft'.id # draft.id =>
           /\ Len(revisions') = Len(revisions) + 1
           /\ revisions'[Len(revisions')].draft = draft.id]_handoffVars
  <2> SUFFICES ASSUME HandoffInv, [HandoffNext]_handoffVars, draft.status = "ready", draft'.id # draft.id
               PROVE  /\ Len(revisions') = Len(revisions) + 1
                      /\ revisions'[Len(revisions')].draft = draft.id
    OBVIOUS
  <2> DEFINE Rev == [draft : Nat, text : Text, row : Text]
  <2>1. revisions \in Seq(Rev)
    BY DEF HandoffInv, HandoffTypeOK, DraftTypes
  <2> HIDE DEF Rev
  <2>2. ~UNCHANGED draft /\ (\A s \in starts : ~CreateManual(s[1], s[2])) /\ \A s \in {"ready", "failed"} : ~InsertAuto(s)
    BY DEF CreateManual, InsertAuto, InsertDraft
  <2>3. ~Save
    BY DEF Save, HandoffInv, HandoffTypeOK, DraftTypes
  <2>4. PICK r \in reads : Publish(r[1], r[2])
    BY <2>2, <2>3, DraftsAlone DEF ReadDraft, ReadForManual
  <2>5. draft.id = r[1]
        /\ revisions' = Append(revisions, [draft |-> r[1], text |-> r[2], row |-> draft.text])
    BY <2>4 DEF Publish, MarkPublished
  <2> QED
    BY <2>1, <2>5, Elements
<1> QED
  BY <1>1, HandoffInvariance, PTL DEF HandoffSpec, OwnersDraftKept

\* reassignAssignment takes the pending receipts along.
THEOREM MovesAlongTheorem == HandoffSpec => PendingMovesAlong
<1>1. HandoffInv /\ [HandoffNext]_handoffVars =>
        [downTask.assignee # Nobody /\ downTask'.assignee # downTask.assignee =>
           \A n \in Revision : receipts'[n].status = "pending" =>
                                   receipts'[n].receiver = downTask'.assignee]_handoffVars
  <2> SUFFICES ASSUME HandoffInv, [HandoffNext]_handoffVars, downTask.assignee # Nobody, downTask'.assignee # downTask.assignee
               PROVE  \A n \in Revision : receipts'[n].status = "pending" =>
                                               receipts'[n].receiver = downTask'.assignee
    OBVIOUS
  <2>1. ~UNCHANGED downTask /\ ~Accept /\ ~Reject /\ ~Finish
    BY DEF Accept, Reject, Finish, HandoffInv, HandoffTypeOK, DownTaskTypes
  <2>2. \A n \in Revision, m \in Member : ~CreateTask(n, m)
    BY DEF CreateTask, NoTask
  <2>3. PICK m \in Member, a \in {"pending", "accepted"} : ReassignDown(m, a)
    BY <2>1, <2>2
       DEF HandoffNext, handoffVars, draftVars, downTaskVars, EndSource, SeeEvent, InsertAuto,
           ReadForManual, CreateManual, Save,
           ReadDraft, Publish, NewRun, RunAgain, CreateDownRun, EndDownRun, CheckDelivery, Deliver,
           Confirm, Adopt, Correct
  <2>4. downTask'.assignee = m
    BY <2>3 DEF ReassignDown, HandoffInv, HandoffTypeOK, DownTaskTypes
  <2> QED
    BY <2>3, <2>4 DEF ReassignDown, Moved, HandoffInv, HandoffTypeOK, ReceiptTypes
<1> QED
  BY <1>1, HandoffInvariance, PTL DEF HandoffSpec, PendingMovesAlong
=============================================================================
