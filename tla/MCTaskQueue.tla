----------------------------- MODULE MCTaskQueue -----------------------------
(* TaskQueue for TLC: every recurring type has the same interval. *)
EXTENDS TaskQueue

CONSTANTS Period

MCInterval == [ty \in Recurring |-> Period]
=============================================================================
