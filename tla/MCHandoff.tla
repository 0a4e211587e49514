------------------------------ MODULE MCHandoff ------------------------------
(***************************************************************************)
(* Instance of Handoff for TLC: the members are model values.               *)
(***************************************************************************)
EXTENDS Handoff, TLC

MemberSymmetry == Permutations(Member)

(* What the guards of receipts and Decisions can still tell apart: the      *)
(* readings that may yet be committed, the text of the newest revision and  *)
(* how many Runs there were, not what they took.                            *)
LiveView ==
    <<ended, event, draft, saves, Len(revisions), Seed,
      {s \in starts : s[1] \in {0, draft.id}},
      {r \in reads : draft.status = "ready" /\ r[1] = draft.id},
      downTask, downMoves, {c \in checked : receipts[c[1]].status = "none"},
      receipts, decision, Len(downRuns), downBusy>>
=============================================================================
