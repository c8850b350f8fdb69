---------------------------- MODULE LogicalWrite -----------------------------
(***************************************************************************)
(* What executing side effects promises to those who ask for them: a write *)
(* that several attempts may name has one outcome, and the attempts' own   *)
(* answers follow from it.                                                 *)
(*                                                                         *)
(* A write is open until it is done, refused for good, or unknown because  *)
(* nobody heard the provider's answer.  Unknown may turn into done when    *)
(* somebody finds out; nothing else is ever reopened.  An attempt is told  *)
(* ok only of a write that is done; an attempt told error is corrected at  *)
(* most once, at the moment its unknown write turns out to be done.        *)
(***************************************************************************)
CONSTANTS Attempt, Write, WriteOf

VARIABLES
  outcome,  \* per write
  answer    \* per attempt

vars == <<outcome, answer>>

Init ==
  /\ outcome = [w \in Write |-> "open"]
  /\ answer = [a \in Attempt |-> "pending"]

(* outcome may go from o to p *)
Resolves(o, p) ==
  \/ o = "open" /\ p \in {"done", "refused", "unknown"}
  \/ o = "unknown" /\ p = "done"

(* An attempt's answer may go from x to y while its write goes from o to p. *)
Follows(x, y, o, p) ==
  \/ x = "pending" /\ y = "ok" /\ p = "done"
  \/ x = "pending" /\ y = "error"
  \/ x = "error" /\ y = "ok" /\ o = "unknown" /\ p = "done"

(* One write may be resolved, and one attempt may be answered for it. *)
Step(w) ==
  /\ \/ UNCHANGED outcome
     \/ \E p \in {"done", "refused", "unknown"} :
          Resolves(outcome[w], p) /\ outcome' = [outcome EXCEPT ![w] = p]
  /\ \/ UNCHANGED answer
     \/ \E a \in Attempt, y \in {"ok", "error"} :
          /\ WriteOf[a] = w
          /\ Follows(answer[a], y, outcome[w], outcome'[w])
          /\ answer' = [answer EXCEPT ![a] = y]

Next == \E w \in Write : Step(w)

Spec == Init /\ [][Next]_vars
=============================================================================
