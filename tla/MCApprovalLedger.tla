--------------------------- MODULE MCApprovalLedger ---------------------------
(* Instances of ApprovalLedger for TLC. *)
EXTENDS ApprovalLedger, TLC

CONSTANTS mail, event, draft, search, recall, send

(* A mail and an event the user is asked about, a draft that needs no answer, *)
(* a search, a memory.recall, and a message that cannot be taken back.        *)
MCImpact ==
  [a \in Attempt |-> CASE a \in {mail, event, draft} -> "write_reversible"
                       [] a \in {search, recall} -> "read"
                       [] OTHER -> "external_send"]
MCPolicy ==
  [a \in Attempt |->
     IF a \in {mail, event, send} THEN "requires_approval" ELSE "allow_inline"]
MCInline == Attempt \cap {recall}
MCSymmetry == Permutations({mail, event})
MCRecalling == Attempt \cap {recall}
=============================================================================
