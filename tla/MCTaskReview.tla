----------------------------- MODULE MCTaskReview -----------------------------
(* Instance of TaskReview for TLC: the members are model values.            *)
EXTENDS TaskReview, TLC

MemberSymmetry == Permutations(Assignee)
=============================================================================
