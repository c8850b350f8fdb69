--------------------------- MODULE MCProviderWrite ---------------------------
(***************************************************************************)
(* ProviderWrite for TLC: three families of writes in one instance.        *)
(* Families share no write, so no step of one can disturb another, and     *)
(* nothing is lost by keeping the attempts of a behaviour within one.      *)
(***************************************************************************)
EXTENDS ProviderWrite, TLC

CONSTANTS m1, m2, m3, c1, c2, c3, h1, o1, o2, o3,
          mail, undo, event, host, pr, run, memory

(* Mail: m1 and m2 use one idempotency key, m3 undoes the write.           *)
(* Calendar: c1, c2 and c3 share a key, c3 with other input.  The others   *)
(* are one attempt per write, since the key of these writes contains the   *)
(* attempt: a pull request, an agency run, a memory, a row of Ariel's own. *)
Families == {{m1, m2, m3}, {c1, c2, c3}, {o1}, {o2}, {o3}, {h1}}

MCWriteOf ==
  [a \in Attempt |-> CASE a \in {m1, m2} -> mail
                       [] a = m3 -> undo
                       [] a \in {c1, c2, c3} -> event
                       [] a = h1 -> host
                       [] a = o1 -> pr
                       [] a = o2 -> run
                       [] OTHER -> memory]
MCKind ==
  [w \in Write |-> CASE w = mail -> "email"
                     [] w = undo -> "undo"
                     [] w = event -> "calendar"
                     [] w = host -> "host"
                     [] w = pr -> "request_pr"
                     [] w = run -> "run"
                     [] OTHER -> "memory"]
MCTarget == [w \in Write |-> IF w = undo THEN mail ELSE w]
MCDigest == [a \in Attempt |-> IF a = c3 THEN 2 ELSE 1]

SharedKey == Permutations({m1, m2}) \cup Permutations({c1, c2})

OneFamily ==
  \E family \in Families : {a \in Attempt : status[a] # "proposed"} \subseteq family
=============================================================================
