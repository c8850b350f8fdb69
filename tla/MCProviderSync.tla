--------------------------- MODULE MCProviderSync ---------------------------
(* ProviderSync for TLC. *)
EXTENDS ProviderSync, TLC

Symmetric == Permutations(Worker)
=============================================================================
