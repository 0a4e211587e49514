------------------------------ MODULE TaskReview ------------------------------
(***************************************************************************)
(* A Task from its first Run to its end: the artifacts its Runs deliver,   *)
(* the review of one of them by other members, the revision rounds that    *)
(* send selected comments into a new Run and the check of what came back.  *)
(* Hub task/commands, artifact/commands, review/review and review/rounds   *)
(* with the tables under them.                                             *)
(*                                                                         *)
(* A transaction that holds the row of the Task, of an artifact or of an   *)
(* invitation is one step.  A call that checks first and writes in a       *)
(* transaction of its own is two, with anything in between: what it has    *)
(* read is an element of calls until it writes.  The first artifact is the *)
(* one reviewed and the source of every round; a member is named for the   *)
(* one comment of theirs that a round can take; a comment that has been    *)
(* written while its author had no invitation is unlocked.                 *)
(***************************************************************************)
EXTENDS Integers, Sequences, FiniteSets

CONSTANTS Assignee,     \* members the Task can be given to
          Reviewer,     \* members who comment on its artifact
          MaxMove,      \* bound: reassignments
          MaxRun,       \* bound: Runs of the Task
          MaxArtifact,  \* bound: artifacts of those Runs
          MaxRound,     \* bound: revision rounds
          MaxCall       \* bound: calls between their check and their write

ASSUME TaskReviewAssumption ==
    /\ {MaxMove, MaxRun, MaxArtifact, MaxRound, MaxCall} \subseteq Nat

Source == 1
Round  == 1..MaxRound

VARIABLES
    task,       \* assignee, assignment and status
    moves,      \* reassignments so far
    runs,       \* of the Task: their owner and the round they work for
    busy,       \* the last of them is active
    artifacts,  \* the Run of each and whether it is published
    writing,    \* authors of a comment inserted without a lock, not committed
    comments,   \* of each member on the source
    invited,    \* the review invitation of each member
    calls,      \* what open calls have checked
    rounds,     \* the comments frozen in each and its Run
    links,      \* the new version linked to each round
    resolved    \* of each round and comment: the version it was decided on

taskVars   == <<task, moves>>
runVars    == <<runs, busy>>
reviewVars == <<writing, comments, invited>>
roundVars  == <<rounds, links, resolved>>
vars == <<taskVars, runVars, artifacts, reviewVars, calls, roundVars>>

FrameCall   == [op : {"frame"}, comments : SUBSET Reviewer]
LinkCall    == [op : {"link"}, round : Round, artifact : 1..MaxArtifact]
ResolveCall == [op : {"resolve"}, round : Round, artifact : 1..MaxArtifact, comment : Reviewer]

TaskTypes ==
    /\ task \in [assignee : Assignee, assignment : {"pending", "accepted", "rejected"},
                 status : {"open", "in_progress", "in_review", "done", "cancelled"}]
    /\ moves \in 0..MaxMove

RunTypes ==
    /\ runs \in Seq([owner : Assignee, round : 0..MaxRound]) /\ Len(runs) <= MaxRun
    /\ busy \in BOOLEAN /\ (busy => runs # <<>>)

ArtifactTypes ==
    /\ artifacts \in Seq([run : 1..MaxRun, status : {"candidate", "published"}])
    /\ Len(artifacts) <= MaxArtifact

ReviewTypes ==
    /\ writing \subseteq Reviewer
    /\ comments \in [Reviewer -> {"none", "unlocked", "locked"}]
    /\ invited \in [Reviewer -> {"none", "pending", "submitted", "silent"}]

CallTypes ==
    /\ calls \subseteq FrameCall \union LinkCall \union ResolveCall
    /\ Cardinality(calls) <= MaxCall

RoundTypes ==
    /\ rounds \in Seq([comments : SUBSET Reviewer, run : 0..MaxRun])
    /\ Len(rounds) <= MaxRound
    /\ links \in [Round -> 0..MaxArtifact]
    /\ resolved \in [Round -> [Reviewer -> 0..MaxArtifact]]

TypeOK == /\ TaskTypes /\ RunTypes /\ ArtifactTypes
          /\ ReviewTypes /\ CallTypes /\ RoundTypes

Init ==
    /\ task \in [assignee : Assignee, assignment : {"pending"}, status : {"open"}]
    /\ moves = 0 /\ runs = <<>> /\ busy = FALSE /\ artifacts = <<>>
    /\ writing = {} /\ comments = [m \in Reviewer |-> "none"]
    /\ invited = [m \in Reviewer |-> "none"] /\ calls = {}
    /\ rounds = <<>> /\ links = [k \in Round |-> 0]
    /\ resolved = [k \in Round |-> [m \in Reviewer |-> 0]]

Published(a) == a \in DOMAIN artifacts /\ artifacts[a].status = "published"

Accepted == task.assignment = "accepted"
Finished == task.status \in {"done", "cancelled"}

-----------------------------------------------------------------------------
(* The Task, under the lock of its row                                     *)

Answer(assignment) ==
    /\ task.assignment = "pending"
    /\ task' = [task EXCEPT !.assignment = assignment]
    /\ UNCHANGED <<moves, runVars, artifacts, reviewVars, calls, roundVars>>

Movable == task.assignment \in {"accepted", "rejected"} /\ ~busy

(* To another member, who has to accept, or to an agent of the caller.     *)
Reassign(m, assignment) ==
    /\ Movable /\ moves < MaxMove
    /\ moves' = moves + 1
    /\ task' = [task EXCEPT !.assignee = m, !.assignment = assignment]
    /\ UNCHANGED <<runVars, artifacts, reviewVars, calls, roundVars>>

Reviewable == ~busy /\ \E a \in DOMAIN artifacts : Published(a)

SubmitForReview ==
    /\ Accepted /\ task.status = "in_progress" /\ Reviewable
    /\ task' = [task EXCEPT !.status = "in_review"]
    /\ UNCHANGED <<moves, runVars, artifacts, reviewVars, calls, roundVars>>

Complete ==
    /\ Accepted /\ task.status = "in_review"
    /\ task' = [task EXCEPT !.status = "done"]
    /\ UNCHANGED <<moves, runVars, artifacts, reviewVars, calls, roundVars>>

(* An active Run is over at once or asked to stop.                         *)
CancelTask ==
    /\ Accepted /\ ~Finished
    /\ task' = [task EXCEPT !.status = "cancelled"]
    /\ busy' \in {FALSE, busy}
    /\ UNCHANGED <<moves, runs, artifacts, reviewVars, calls, roundVars>>

-----------------------------------------------------------------------------
(* Runs and artifacts                                                      *)

Runnable == Accepted /\ ~Finished /\ ~busy

(* The first Run, and one after a submission, put the Task in progress.    *)
CreateRun(k) ==
    /\ Runnable /\ Len(runs) < MaxRun
    /\ runs' = Append(runs, [owner |-> task.assignee, round |-> k])
    /\ busy' = TRUE
    /\ task' = [task EXCEPT !.status = "in_progress"]

StartRun ==
    /\ CreateRun(0)
    /\ UNCHANGED <<moves, artifacts, reviewVars, calls, roundVars>>

EndRun ==
    /\ busy /\ busy' = FALSE
    /\ UNCHANGED <<taskVars, runs, artifacts, reviewVars, calls, roundVars>>

(* The device of a Run uploads, whatever has become of Run and Task.       *)
Upload(r) ==
    /\ Len(artifacts) < MaxArtifact
    /\ artifacts' = Append(artifacts, [run |-> r, status |-> "candidate"])
    /\ UNCHANGED <<taskVars, runVars, reviewVars, calls, roundVars>>

(* The owner of the Run, under the lock of the artifact.                   *)
PublishArtifact(a) ==
    /\ artifacts[a].status = "candidate"
    /\ artifacts' = [artifacts EXCEPT ![a].status = "published"]
    /\ UNCHANGED <<taskVars, runVars, reviewVars, calls, roundVars>>

-----------------------------------------------------------------------------
(* The review of the source                                                *)

Invite(m) ==
    /\ Published(Source) /\ invited[m] = "none"
    /\ invited' = [invited EXCEPT ![m] = "pending"]
    /\ UNCHANGED <<taskVars, runVars, artifacts, writing, comments, calls, roundVars>>

(* Without an invitation there is no row to lock: other transactions can   *)
(* commit before this one.                                                 *)
BeginComment(m) ==
    /\ Published(Source) /\ invited[m] = "none" /\ m \notin writing
    /\ writing' = writing \union {m}
    /\ UNCHANGED <<taskVars, runVars, artifacts, comments, invited, calls, roundVars>>

CommitComment(m) ==
    /\ m \in writing
    /\ writing' = writing \ {m}
    /\ comments' = [comments EXCEPT ![m] = IF @ = "none" THEN "unlocked" ELSE @]
    /\ UNCHANGED <<taskVars, runVars, artifacts, invited, calls, roundVars>>

\* Mutant: what was submitted stays submitted.
Kept(status) == status

\* A comment takes back what its author has submitted.
Reopened(status) == "pending"

(* With one, the comment holds its lock until it is committed.             *)
Comment(m) ==
    /\ invited[m] # "none"
    /\ comments' = [comments EXCEPT ![m] = "locked"]
    /\ invited' = [invited EXCEPT ![m] = Reopened(@)]
    /\ UNCHANGED <<taskVars, runVars, artifacts, writing, calls, roundVars>>

(* Under the same lock the comments of the member are counted.             *)
SubmitReview(m) ==
    /\ invited[m] # "none"
    /\ invited' = [invited EXCEPT ![m] = IF comments[m] = "none" THEN "silent" ELSE "submitted"]
    /\ UNCHANGED <<taskVars, runVars, artifacts, writing, comments, calls, roundVars>>

-----------------------------------------------------------------------------
(* Revision rounds                                                         *)

Check(call) ==
    /\ Cardinality(calls \union {call}) <= MaxCall
    /\ calls' = calls \union {call}
    /\ UNCHANGED <<taskVars, runVars, artifacts, reviewVars, roundVars>>

(* The assignee of an open Task selects comments, all read before the      *)
(* transaction.                                                            *)
CheckFrame(C) ==
    /\ Published(Source) /\ ~Finished
    /\ C # {} /\ \A m \in C : comments[m] # "none"
    /\ Check([op |-> "frame", comments |-> C])

CreateRound(call) ==
    /\ call.op = "frame" /\ Len(rounds) < MaxRound
    /\ rounds' = Append(rounds, [comments |-> call.comments, run |-> 0])
    /\ calls' = calls \ {call}
    /\ UNCHANGED <<taskVars, runVars, artifacts, reviewVars, links, resolved>>

Startable(k) == rounds[k].run = 0

(* Under the locks of the Task and of the round; a round that has its Run  *)
(* answers with it.                                                        *)
StartRound(k) ==
    /\ Startable(k) /\ CreateRun(k)
    /\ rounds' = [rounds EXCEPT ![k].run = Len(runs) + 1]
    /\ UNCHANGED <<moves, artifacts, reviewVars, calls, links, resolved>>

CandidateOf(k, a) == artifacts[a].run = rounds[k].run

CheckLink(k, a) ==
    /\ rounds[k].run # 0 /\ CandidateOf(k, a) /\ links[k] = 0
    /\ Check([op |-> "link", round |-> k, artifact |-> a])

\* Neither the round nor the artifact is in the table.
Linkable(k, a) == links[k] = 0 /\ \A j \in Round : links[j] # a

Link(call) ==
    /\ call.op = "link"
    /\ calls' = calls \ {call}
    /\ links' = IF Linkable(call.round, call.artifact)
                THEN [links EXCEPT ![call.round] = call.artifact] ELSE links
    /\ UNCHANGED <<taskVars, runVars, artifacts, reviewVars, rounds, resolved>>

\* Mutant: the new version need not be published.
ResolvableEarly(k, m) == links[k] # 0 /\ m \in rounds[k].comments

Resolvable(k, m) == Published(links[k]) /\ m \in rounds[k].comments

(* The author of a comment, or the assignee for them.                      *)
CheckResolve(k, m) ==
    /\ Resolvable(k, m)
    /\ Check([op |-> "resolve", round |-> k, artifact |-> links[k], comment |-> m])

(* What was decided before is replaced.                                    *)
Resolve(call) ==
    /\ call.op = "resolve"
    /\ calls' = calls \ {call}
    /\ resolved' = [resolved EXCEPT ![call.round][call.comment] = call.artifact]
    /\ UNCHANGED <<taskVars, runVars, artifacts, reviewVars, rounds, links>>

Next ==
    \/ \E a \in {"accepted", "rejected"} : Answer(a)
    \/ \E m \in Assignee, a \in {"pending", "accepted"} : Reassign(m, a)
    \/ SubmitForReview \/ Complete \/ CancelTask \/ StartRun \/ EndRun
    \/ \E r \in DOMAIN runs : Upload(r)
    \/ \E a \in DOMAIN artifacts : PublishArtifact(a)
    \/ \E m \in Reviewer :
          Invite(m) \/ BeginComment(m) \/ CommitComment(m) \/ Comment(m) \/ SubmitReview(m)
    \/ \E C \in SUBSET Reviewer : CheckFrame(C)
    \/ \E call \in calls : CreateRound(call) \/ Link(call) \/ Resolve(call)
    \/ \E k \in DOMAIN rounds :
          \/ StartRound(k)
          \/ \E a \in DOMAIN artifacts : CheckLink(k, a)
          \/ \E m \in Reviewer : CheckResolve(k, m)

Spec == Init /\ [][Next]_vars

-----------------------------------------------------------------------------
(* Properties                                                              *)

(* A Task handed in or done has no Run at work on it and has something to  *)
(* show, although Runs, rounds, publications and submissions are called by *)
(* different members (submitTaskForReview and createInTransaction hold the *)
(* same row).                                                              *)
ReviewIsQuiet ==
    task.status \in {"in_review", "done"} =>
        ~busy /\ \E a \in DOMAIN artifacts : Published(a)

(* The active Run works for the assignee: a Task does not change hands     *)
(* under it (reassignAssignment).                                          *)
ActiveRunIsAssignees == busy => runs[Len(runs)].owner = task.assignee

(* Nothing runs for a Task that has ended, nor for a round that was made   *)
(* of one because its creation had checked the Task too early              *)
(* (createRevisionRound reads the Task outside its transaction).           *)
FinishedStartsNothing ==
    [][Finished => runs' = runs /\ task'.status = task.status]_vars

(* A round has one Run and no two rounds share one, over starts that are   *)
(* repeated or meet each other: every Run made for a round is the one on   *)
(* its record (startRevisionRound).                                        *)
OneRunPerRound ==
    \A i \in DOMAIN runs : runs[i].round # 0 => rounds[runs[i].round].run = i

(* The new version of a round comes from the Run of that round, and one    *)
(* artifact is the new version of one round (linkRevisionCandidate).       *)
LinkedFromItsRun ==
    \A k \in DOMAIN rounds : links[k] # 0 =>
        /\ artifacts[links[k]].run = rounds[k].run
        /\ \A j \in DOMAIN rounds : links[j] = links[k] => j = k

(* The first new version that is linked stays, also when two calls have    *)
(* found none (insertArtifactRevisionLinkIfAbsent).                        *)
FirstLinkStands ==
    [][\A k \in Round : links[k] # 0 => links'[k] = links[k]]_vars

(* What counts as dealt with was in the round, and was judged on the       *)
(* version that is linked and that everyone can read, although the call    *)
(* looked at all three before its transaction (resolveReviewComment).      *)
JudgedOnLinked ==
    \A k \in DOMAIN rounds, m \in Reviewer : resolved[k][m] # 0 =>
        /\ m \in rounds[k].comments
        /\ resolved[k][m] = links[k] /\ Published(links[k])

(* Who has nothing to say has said nothing: no comment written under the   *)
(* lock of the invitation stands next to "no comment this time"            *)
(* (createArtifactComment and submitArtifactReview).                       *)
SilenceIsTrue == \A m \in Reviewer : invited[m] = "silent" => comments[m] # "locked"
=============================================================================
