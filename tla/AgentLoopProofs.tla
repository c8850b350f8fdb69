--------------------------- MODULE AgentLoopProofs ---------------------------
(* Proofs about AgentLoop.  First: while the model is asked, no approval of   *)
(* the turn is pending, whatever the programs stage and however they fail.    *)
(* Then: whatever is appended, rewritten in place, evicted or replaced, the   *)
(* list of messages, the spans and the budget index agree (LoopInv), so that  *)
(* no return loses its call, and no call its return but by an emit_value      *)
(* round whose predecessor was moved.  The lemmas of the second part are      *)
(* about lists of messages msgs, budget positions b, spans and counts of      *)
(* calls; Listed holds of them together.                                      *)
EXTENDS AgentLoop, FiniteSetTheorems, SequenceTheorems, TLAPS

(* The clean end of a program is the only place where an approval may stay:  *)
(* at most the one it staged itself.                                         *)
IInv ==
  /\ pc \in {"top", "answer", "returned", "done"}
  /\ pc \in {"top", "answer"} => pending = {} /\ committed = {}
  /\ pending = {} \/ \E r : pending = {r}

(* The session after a program that ran while nothing was pending.           *)
LEMMA StageAddsOne ==
  ASSUME NEW attempts, pending = {}, Stage(attempts)
  PROVE  /\ pending' = {} \/ \E r : pending' = {r}
         /\ "approval" \notin attempts => pending' = {}
BY DEF Stage

(* A clean program that lets the loop go on staged no approval: one that is   *)
(* awaited is an outcome, unless the message was accepted, which is another.  *)
LEMMA GoingOnStagedNothing ==
  ASSUME NEW p \in Program, OutcomeOf(p) = None
  PROVE  "approval" \notin p.attempts
<1> SUFFICES ASSUME "approval" \in p.attempts PROVE FALSE
  OBVIOUS
<1>1. Mode = "message"
  BY DEF Program, Attempts
<1>2. p.output \in {"none", "message", "silent"}
  BY <1>1 DEF Program
<1>3. None \notin Outcome
  BY LoopAssumption
<1>4. CASE GroundingExhausted(p)
  <2>1. OutcomeOf(p) = "silent"
    BY <1>2, <1>4 DEF OutcomeOf, GroundingExhausted
  <2> QED BY <2>1, <1>3 DEF Outcome
<1>5. CASE ~GroundingExhausted(p) /\ Awaiting(p)
  <2>1. OutcomeOf(p) = "approval"
    BY <1>2, <1>5 DEF OutcomeOf, Awaiting
  <2> QED BY <2>1, <1>3 DEF Outcome
<1>6. CASE ~GroundingExhausted(p) /\ ~Awaiting(p)
  <2>1. p.output = "message" /\ ~Premature(p) /\ ~Ungrounded(p)
    BY <1>6 DEF Awaiting
  <2>2. OutcomeOf(p) = "message"
    BY <2>1, <1>6 DEF OutcomeOf
  <2> QED BY <2>2, <1>3 DEF Outcome
<1> QED BY <1>4, <1>5, <1>6

(* A turn starts with nothing counted and nothing pending. *)
LEMMA InitIInv == Init => IInv
BY DEF Init, IInv

(* Each step keeps what the loop has staged to one round. *)
LEMMA StepIInv == IInv /\ [Next]_vars => IInv'
<1> SUFFICES ASSUME IInv, [Next]_vars PROVE IInv'
  OBVIOUS
<1> USE DEF IInv
<1>1. CASE Elapse
  BY <1>1 DEF Elapse, staged
<1>2. CASE GiveUp
  BY <1>2 DEF GiveUp, Return, staged
<1>3. CASE Ask
  BY <1>3 DEF Ask, staged
<1>4. CASE ModelRetried
  BY <1>4 DEF ModelRetried, Answered, staged
<1>5. CASE ModelFailed
  BY <1>5 DEF ModelFailed, Answered, Return, staged
<1>6. CASE ProtocolFailed
  BY <1>6 DEF ProtocolFailed, Answered, Feedback, staged
<1>7. CASE SameSource
  BY <1>7 DEF SameSource, Answered, Return, staged
<1>8. CASE FailedAgain
  <2>1. PICK attempts \in Attempts : NewSource /\ Stage(attempts) /\ Return("budget_exhausted")
    BY <1>8 DEF FailedAgain
  <2>2. pending' = {} \/ \E r : pending' = {r}
    BY <2>1, StageAddsOne DEF NewSource, Answered
  <2> QED BY <2>1, <2>2 DEF Return
<1>9. CASE Failed
  <2>1. PICK attempts \in Attempts :
          NewSource /\ Feedback(Exchange) /\ StageVoided(attempts) /\ Commit
    BY <1>9 DEF Failed
  <2> QED BY <2>1 DEF NewSource, Answered, Feedback, StageVoided, Commit
<1>10. CASE Finished
  <2>1. PICK p \in Program : Ran(p) /\ Return(OutcomeOf(p))
    BY <1>10 DEF Finished
  <2>2. pending' = {} \/ \E r : pending' = {r}
    BY <2>1, StageAddsOne DEF Ran, NewSource, Answered
  <2> QED BY <2>1, <2>2 DEF Return
<1>11. ASSUME NEW p \in Program, GoesOn(p), pc' = "top" PROVE IInv'
  <2>1. "approval" \notin p.attempts
    BY <1>11, GoingOnStagedNothing DEF GoesOn
  <2>2. pending = {} /\ Stage(p.attempts) /\ Commit
    BY <1>11 DEF GoesOn, Ran, NewSource, Answered
  <2>3. pending' = {}
    BY <2>1, <2>2, StageAddsOne
  <2> QED BY <2>2, <2>3, <1>11 DEF Commit
<1>12. CASE MessageRejected
  BY <1>11, <1>12 DEF MessageRejected, Feedback
<1>13. CASE ValuesEmitted
  BY <1>11, <1>13 DEF ValuesEmitted, ReplaceValues
<1>14. CASE Traced
  BY <1>11, <1>14 DEF Traced, Feedback
<1>15. CASE CallerCommits
  BY <1>15 DEF CallerCommits
<1>16. CASE UNCHANGED vars
  BY <1>16 DEF vars
<1> QED
  BY <1>1, <1>2, <1>3, <1>4, <1>5, <1>6, <1>7, <1>8, <1>9, <1>10, <1>12, <1>13,
     <1>14, <1>15, <1>16 DEF Next, Loop

(* One approval at most is pending for the turn, and none while the model is *)
(* asked (run_agent_loop).                                                   *)
THEOREM OneApprovalEndsTheLoop == Spec => []NothingPendingWhileAsking
<1>1. IInv => NothingPendingWhileAsking
  <2> SUFFICES ASSUME IInv PROVE NothingPendingWhileAsking
    OBVIOUS
  <2>1. Cardinality(pending) <= 1
    <3>1. CASE pending = {}
      BY <3>1, FS_EmptySet
    <3>2. CASE \E r : pending = {r}
      <4>1. PICK r : pending = {r}
        BY <3>2
      <4>2. Cardinality({r}) = 1
        BY FS_Singleton
      <4> QED BY <4>1, <4>2
    <3> QED BY <3>1, <3>2 DEF IInv
  <2> QED BY <2>1 DEF IInv, NothingPendingWhileAsking
<1> QED
  BY InitIInv, StepIInv, <1>1, PTL DEF Spec

-----------------------------------------------------------------------------
(* A span is that of a call and its return, or of a nudge, behind the budget  *)
(* line b.                                                                    *)
IsSpan(msgs, b, span) ==
  /\ b < span[1]
  /\ span[2] <= Len(msgs) + 1
  /\ \/ /\ span[2] = span[1] + 2
        /\ msgs[span[1]].kind = "call"
        /\ msgs[span[1] + 1].kind \in {"return", "values"}
        /\ msgs[span[1] + 1].round = msgs[span[1]].round
     \/ span[2] = span[1] + 1 /\ msgs[span[1]].kind = "nudge"

(* The spans are those of rounds, in their order.                             *)
SpansAreRounds(msgs, b, spans) ==
  /\ \A k \in 1 .. Len(spans) : IsSpan(msgs, b, spans[k])
  /\ \A k, l \in 1 .. Len(spans) : k < l => spans[k][2] <= spans[l][1]

(* No return is in the messages without a span.                               *)
ReturnsHaveSpans(msgs, spans) ==
  \A i \in 1 .. Len(msgs) :
    msgs[i].kind \in {"return", "values"} => \E k \in 1 .. Len(spans) : spans[k][2] = i + 1

(* The prompt stands first, and somewhere behind it the one budget line, b.   *)
PromptAndBudget(msgs, b) ==
  /\ b \in StablePrefix + 1 .. Len(msgs)
  /\ \A i \in 1 .. StablePrefix : msgs[i].kind = "prompt"
  /\ \A i \in 1 .. Len(msgs) : msgs[i].kind = "budget" <=> i = b

Exchanged == {"call", "return", "values"}

(* Rounds stand in their order, none later than calls.                        *)
RoundsInOrder(msgs, calls) ==
  /\ \A i \in 1 .. Len(msgs) : msgs[i].kind \in Exchanged => msgs[i].round <= calls
  /\ \A i, j \in 1 .. Len(msgs) :
       i < j /\ msgs[i].kind \in Exchanged /\ msgs[j].kind \in Exchanged
         => msgs[i].round <= msgs[j].round

Listed(msgs, b, spans, calls) ==
  /\ msgs \in Seq(Message)
  /\ spans \in Seq(Nat \X Nat)
  /\ PromptAndBudget(msgs, b)
  /\ SpansAreRounds(msgs, b, spans)
  /\ ReturnsHaveSpans(msgs, spans)
  /\ RoundsInOrder(msgs, calls)

(* What the loop appends for one round.                                       *)
IsRound(new, calls) ==
  /\ new \in Seq(Message)
  /\ \/ /\ Len(new) = 2
        /\ new[1].kind = "call"
        /\ new[2].kind \in {"return", "values"}
        /\ new[1].round = calls /\ new[2].round = calls
     \/ /\ Len(new) = 1
        /\ new[1].kind = "nudge"
        /\ new[1].round = calls

(* A message has a kind and a round that is a number.                         *)
LEMMA MessageFields ==
  ASSUME NEW m \in Message
  PROVE  m.round \in 0 .. MaxCallsHard + 1 /\ m.round \in Int
BY LoopAssumption DEF Message

(* A span is a pair of numbers. *)
LEMMA SpanFields ==
  ASSUME NEW spans \in Seq(Nat \X Nat), NEW k \in 1 .. Len(spans)
  PROVE  spans[k] \in Nat \X Nat /\ spans[k][1] \in Nat /\ spans[k][2] \in Nat
<1>1. spans[k] \in Nat \X Nat
  BY ElementOfSeq
<1> QED BY <1>1

(* Each return in the messages is the last message of a tracked round.        *)
LEMMA ReturnIsTracked ==
  ASSUME NEW msgs, NEW b, NEW spans, NEW calls, Listed(msgs, b, spans, calls),
         NEW i \in 1 .. Len(msgs), msgs[i].kind \in {"return", "values"}
  PROVE  /\ i > 1
         /\ msgs[i - 1].kind = "call" /\ msgs[i - 1].round = msgs[i].round
         /\ msgs[i - 1] \in Message
         /\ \E k \in 1 .. Len(spans) : msgs[spans[k][1]].round = msgs[i].round
<1> DEFINE n == Len(msgs)
<1>1. n \in Nat /\ msgs \in Seq(Message) /\ spans \in Seq(Nat \X Nat)
  BY LenProperties DEF Listed
<1>2. PICK k \in 1 .. Len(spans) : spans[k][2] = i + 1
  BY DEF Listed, ReturnsHaveSpans
<1> DEFINE lo == spans[k][1]
           hi == spans[k][2]
<1>3. lo \in Nat /\ hi = i + 1
  BY <1>1, <1>2, SpanFields
<1>4. /\ b < lo
      /\ \/ /\ hi = lo + 2
            /\ msgs[lo].kind = "call"
            /\ msgs[lo + 1].kind \in {"return", "values"}
            /\ msgs[lo + 1].round = msgs[lo].round
         \/ hi = lo + 1 /\ msgs[lo].kind = "nudge"
  BY DEF Listed, SpansAreRounds, IsSpan
<1>5. b \in StablePrefix + 1 .. n /\ StablePrefix \in Nat
  BY LoopAssumption DEF Listed, PromptAndBudget
<1> HIDE DEF n, lo, hi
<1>6. i \in Nat /\ b > 0 /\ b \in Nat
  BY <1>1, <1>5 DEF n
<1>7. hi # lo + 1
  <2> SUFFICES ASSUME hi = lo + 1 PROVE FALSE
    OBVIOUS
  <2>1. lo = i /\ msgs[lo].kind = "nudge"
    BY <1>3, <1>4, <1>6
  <2> QED BY <2>1
<1>8. lo = i - 1 /\ lo + 1 = i /\ lo > 0 /\ lo \in 1 .. n
  BY <1>1, <1>3, <1>4, <1>6, <1>7 DEF n
<1>9. msgs[lo] \in Message
  BY <1>1, <1>8, ElementOfSeq DEF n
<1>10. msgs[lo].kind = "call" /\ msgs[lo].round = msgs[i].round
  BY <1>4, <1>7, <1>8
<1>11. i > 1
  BY <1>6, <1>8
<1>12. \E l \in 1 .. Len(spans) : msgs[spans[l][1]].round = msgs[i].round
  BY <1>10 DEF lo
<1> QED BY <1>8, <1>9, <1>10, <1>11, <1>12

(* A list whose open calls were open in another leaves no more calls          *)
(* unanswered.                                                                *)
LEMMA OpenCallsWereOpen ==
  ASSUME NEW old, NEW new, DOMAIN old = 1 .. Len(old), DOMAIN new = 1 .. Len(new),
         \A i \in 1 .. Len(new) : IsOpen(new, i) =>
           \E j \in 1 .. Len(old) : IsOpen(old, j) /\ old[j].round = new[i].round
  PROVE  Unanswered(new) \subseteq Unanswered(old)
<1> SUFFICES ASSUME NEW r \in Unanswered(new) PROVE r \in Unanswered(old)
  OBVIOUS
<1>1. PICK i \in 1 .. Len(new) : IsOpen(new, i) /\ r = new[i].round
  BY DEF Unanswered
<1>2. PICK j \in 1 .. Len(old) : IsOpen(old, j) /\ old[j].round = r
  BY <1>1
<1> QED BY <1>2 DEF Unanswered

(* A round appended: its span is behind the others, and a call it brings is   *)
(* answered in it.                                                            *)
LEMMA RoundAppended ==
  ASSUME NEW msgs, NEW b, NEW spans, NEW calls \in Int, NEW new,
         Listed(msgs, b, spans, calls), IsRound(new, calls)
  PROVE  /\ Len(msgs \o new) = Len(msgs) + Len(new)
         /\ Listed(msgs \o new, b, Append(spans, <<Len(msgs) + 1, Len(msgs \o new) + 1>>), calls)
         /\ Unanswered(msgs \o new) \subseteq Unanswered(msgs)
<1> DEFINE m == msgs \o new
           N == Len(m)
           span == <<Len(msgs) + 1, N + 1>>
           s == Append(spans, span)
           n == Len(msgs)
           z == Len(new)
           c == Len(spans)
<1>1. msgs \in Seq(Message) /\ new \in Seq(Message) /\ spans \in Seq(Nat \X Nat)
  BY DEF Listed, IsRound
<1>2. n \in Nat /\ c \in Nat /\ (z = 1 \/ z = 2)
  BY <1>1, LenProperties DEF IsRound
<1>3. /\ z = 1 => new[1].kind = "nudge" /\ new[1].round = calls
      /\ z = 2 => /\ new[1].kind = "call"
                  /\ new[2].kind \in {"return", "values"}
                  /\ new[1].round = calls /\ new[2].round = calls
  BY DEF IsRound
<1>4. /\ m \in Seq(Message)
      /\ N = n + z
      /\ \A i \in 1 .. n + z : m[i] = IF i <= n THEN msgs[i] ELSE new[i - n]
  BY <1>1, ConcatProperties
<1>5. span \in Nat \X Nat /\ span[1] = n + 1 /\ span[2] = N + 1
  BY <1>1, <1>2, <1>4
<1>6. /\ s \in Seq(Nat \X Nat)
      /\ Len(s) = c + 1
      /\ \A k \in 1 .. c : s[k] = spans[k]
      /\ s[c + 1] = span
  BY <1>1, <1>5, AppendProperties
<1>7. /\ b \in StablePrefix + 1 .. n
      /\ \A i \in 1 .. StablePrefix : msgs[i].kind = "prompt"
      /\ \A i \in 1 .. n : msgs[i].kind = "budget" <=> i = b
  BY DEF Listed, PromptAndBudget
<1>8. /\ \A i \in 1 .. n : msgs[i].kind \in Exchanged => msgs[i].round <= calls
      /\ \A i, j \in 1 .. n :
           i < j /\ msgs[i].kind \in Exchanged /\ msgs[j].kind \in Exchanged
             => msgs[i].round <= msgs[j].round
  BY DEF Listed, RoundsInOrder
<1>9. \A i \in 1 .. n : msgs[i].kind \in {"return", "values"}
                          => \E k \in 1 .. c : spans[k][2] = i + 1
  BY DEF Listed, ReturnsHaveSpans
<1>10. /\ \A k \in 1 .. c : IsSpan(msgs, b, spans[k])
       /\ \A k, l \in 1 .. c : k < l => spans[k][2] <= spans[l][1]
  BY DEF Listed, SpansAreRounds
<1>11. \A k \in 1 .. c : spans[k][1] \in Nat /\ spans[k][2] \in Nat
  BY <1>1, SpanFields
<1>12. StablePrefix \in Nat
  BY LoopAssumption
<1> HIDE DEF m, N, span, s, n, z, c
<1>13. b \in Int /\ b <= n /\ b > 0
  BY <1>2, <1>7, <1>12
<1>14. \A i \in 1 .. N : i \in 1 .. n \/ i = n + 1 \/ (z = 2 /\ i = n + 2)
  BY <1>2, <1>4
<1>15. /\ \A i \in 1 .. n : m[i] = msgs[i] /\ i \in 1 .. N
       /\ m[n + 1] = new[1]
       /\ z = 2 => m[n + 2] = new[2]
  <2>1. \A i \in 1 .. n : i \in 1 .. n + z /\ i <= n
    BY <1>2
  <2>4. \A i \in 1 .. n : m[i] = msgs[i] /\ i \in 1 .. N
    BY <1>4, <2>1
  <2>2. ASSUME NEW i, NEW d \in Nat, d \in 1 .. z, i = n + d PROVE m[i] = new[d]
    <3>1. i \in 1 .. n + z /\ ~(i <= n) /\ i - n = d
      BY <1>2, <2>2
    <3> QED BY <1>4, <3>1
  <2>3. 1 \in 1 .. z /\ (z = 2 => 2 \in 1 .. z)
    BY <1>2
  <2> QED BY <2>2, <2>3, <2>4
<1>16. PromptAndBudget(m, b)
  <2>1. ASSUME NEW i \in 1 .. N
        PROVE  m[i].kind = "budget" <=> i = b
    <3>1. CASE i \in 1 .. n
      BY <1>7, <1>15, <3>1
    <3>2. CASE i = n + 1
      BY <1>2, <1>3, <1>13, <1>15, <3>2
    <3>3. CASE z = 2 /\ i = n + 2
      BY <1>2, <1>3, <1>13, <1>15, <3>3
    <3> QED BY <1>14, <3>1, <3>2, <3>3
  <2>2. b \in StablePrefix + 1 .. N
    BY <1>2, <1>4, <1>7, <1>12
  <2>3. \A i \in 1 .. StablePrefix : m[i].kind = "prompt"
    <3>1. \A i \in 1 .. StablePrefix : i \in 1 .. n
      BY <1>2, <1>7, <1>12
    <3> QED BY <1>7, <1>15, <3>1
  <2> QED BY <2>1, <2>2, <2>3 DEF PromptAndBudget, N
<1>17. SpansAreRounds(m, b, s)
  <2>1. IsSpan(m, b, span)
    <3>1. z = 1 => span[2] = span[1] + 1 /\ m[span[1]].kind = "nudge"
      BY <1>2, <1>3, <1>4, <1>5, <1>15
    <3>2. z = 2 => /\ span[2] = span[1] + 2
                   /\ m[span[1]].kind = "call"
                   /\ m[span[1] + 1].kind \in {"return", "values"}
                   /\ m[span[1] + 1].round = m[span[1]].round
      <4> SUFFICES ASSUME z = 2 PROVE /\ span[2] = span[1] + 2
                   /\ m[span[1]].kind = "call"
                   /\ m[span[1] + 1].kind \in {"return", "values"}
                   /\ m[span[1] + 1].round = m[span[1]].round
        OBVIOUS
      <4>1. span[1] + 1 = n + 2 /\ span[2] = span[1] + 2
        BY <1>2, <1>4, <1>5
      <4> QED BY <1>3, <1>5, <1>15, <4>1
    <3>3. b < span[1] /\ span[2] <= N + 1
      BY <1>2, <1>4, <1>5, <1>13
    <3> QED BY <1>2, <3>1, <3>2, <3>3 DEF IsSpan, N
  <2>2. ASSUME NEW k \in 1 .. c
        PROVE  IsSpan(m, b, spans[k])
    <3> DEFINE lo == spans[k][1]
               hi == spans[k][2]
    <3>1. lo \in Nat /\ hi \in Nat
      BY <1>11
    <3>2. /\ b < lo /\ hi <= n + 1
          /\ \/ /\ hi = lo + 2
                /\ msgs[lo].kind = "call"
                /\ msgs[lo + 1].kind \in {"return", "values"}
                /\ msgs[lo + 1].round = msgs[lo].round
             \/ hi = lo + 1 /\ msgs[lo].kind = "nudge"
      BY <1>10 DEF IsSpan, n
    <3> HIDE DEF lo, hi
    <3>3. lo \in 1 .. n /\ (hi = lo + 2 => lo + 1 \in 1 .. n) /\ hi <= N + 1
      BY <1>2, <1>4, <1>13, <3>1, <3>2
    <3>4. /\ b < lo /\ hi <= N + 1
          /\ \/ /\ hi = lo + 2
                /\ m[lo].kind = "call"
                /\ m[lo + 1].kind \in {"return", "values"}
                /\ m[lo + 1].round = m[lo].round
             \/ hi = lo + 1 /\ m[lo].kind = "nudge"
      BY <1>15, <3>2, <3>3
    <3> QED BY <3>4 DEF IsSpan, lo, hi, N
  <2>3. \A k \in 1 .. c + 1 : k \in 1 .. c \/ k = c + 1
    BY <1>2
  <2>4. \A k \in 1 .. c + 1 : IsSpan(m, b, s[k])
    BY <1>6, <2>1, <2>2, <2>3
  <2>5. ASSUME NEW k \in 1 .. c + 1, NEW l \in 1 .. c + 1, k < l
        PROVE  s[k][2] <= s[l][1]
    <3>1. k \in 1 .. c
      BY <1>2, <2>5
    <3>2. CASE l = c + 1
      <4>1. spans[k][2] <= n + 1
        BY <1>10, <3>1 DEF IsSpan, n
      <4> QED BY <1>5, <1>6, <3>1, <3>2, <4>1
    <3>3. CASE l \in 1 .. c
      BY <1>6, <1>10, <2>5, <3>1, <3>3
    <3> QED BY <2>3, <3>2, <3>3
  <2> QED BY <1>6, <2>4, <2>5 DEF SpansAreRounds
<1>18. ReturnsHaveSpans(m, s)
  <2> SUFFICES ASSUME NEW i \in 1 .. N, m[i].kind \in {"return", "values"}
               PROVE  \E k \in 1 .. c + 1 : s[k][2] = i + 1
    BY <1>6 DEF ReturnsHaveSpans, N
  <2>1. CASE i \in 1 .. n
    <3>1. PICK k \in 1 .. c : spans[k][2] = i + 1
      BY <1>9, <1>15, <2>1
    <3>2. k \in 1 .. c + 1
      BY <1>2
    <3> QED BY <1>6, <3>1, <3>2
  <2>2. CASE i = n + 1
    <3>1. z = 1 => m[i].kind = "nudge"
      BY <1>3, <1>15, <2>2
    <3>2. z = 2 => m[i].kind = "call"
      BY <1>3, <1>15, <2>2
    <3> QED BY <1>2, <3>1, <3>2
  <2>3. CASE z = 2 /\ i = n + 2
    <3>1. c + 1 \in 1 .. c + 1 /\ i + 1 = N + 1
      BY <1>2, <1>4, <2>3
    <3> QED BY <1>5, <1>6, <3>1
  <2> QED BY <1>14, <2>1, <2>2, <2>3
<1>19. RoundsInOrder(m, calls)
  <2>1. ASSUME NEW i \in 1 .. N
        PROVE  (i \in 1 .. n /\ m[i] = msgs[i]) \/ m[i].round = calls
    BY <1>2, <1>3, <1>14, <1>15
  <2>2. ASSUME NEW i \in 1 .. N, m[i].kind \in Exchanged PROVE m[i].round <= calls
    BY <1>8, <2>1, <2>2
  <2>3. ASSUME NEW i \in 1 .. N, NEW j \in 1 .. N, i < j,
               m[i].kind \in Exchanged, m[j].kind \in Exchanged
        PROVE  m[i].round <= m[j].round
    <3>1. CASE m[j].round = calls
      BY <2>2, <2>3, <3>1
    <3>2. CASE j \in 1 .. n /\ m[j] = msgs[j]
      <4>1. i \in 1 .. n
        BY <1>2, <2>3, <3>2
      <4> QED BY <1>8, <1>15, <2>3, <3>2, <4>1
    <3> QED BY <2>1, <3>1, <3>2
  <2> QED BY <2>2, <2>3 DEF RoundsInOrder, N
<1>20. Unanswered(m) \subseteq Unanswered(msgs)
  <2>1. DOMAIN msgs = 1 .. Len(msgs) /\ DOMAIN m = 1 .. Len(m)
    BY <1>1, <1>4, LenProperties
  <2>2. n = Len(msgs) /\ N = Len(m)
    BY DEF n, N
  <2>3. ASSUME NEW i \in 1 .. N, IsOpen(m, i)
        PROVE  i \in 1 .. n /\ IsOpen(msgs, i) /\ msgs[i].round = m[i].round
    <3>1. m[i].kind = "call" /\ ~(i < N /\ m[i + 1].kind \in {"return", "values"})
      BY <2>2, <2>3 DEF IsOpen
    <3>2. i # n + 1
      <4> SUFFICES ASSUME i = n + 1 PROVE FALSE
        OBVIOUS
      <4>1. z = 2 /\ i + 1 = n + 2 /\ i < N
        BY <1>2, <1>3, <1>4, <1>15, <3>1
      <4> QED BY <1>3, <1>15, <3>1, <4>1
    <3>3. ~(z = 2 /\ i = n + 2)
      BY <1>3, <1>15, <3>1
    <3>4. i \in 1 .. n
      BY <1>14, <3>2, <3>3
    <3>5. i < n => i + 1 \in 1 .. n /\ i < N
      BY <1>2, <1>4, <3>4
    <3>6. msgs[i].kind = "call" /\ ~(i < n /\ msgs[i + 1].kind \in {"return", "values"})
      BY <1>15, <3>1, <3>4, <3>5
    <3> QED BY <1>15, <2>2, <3>4, <3>6 DEF IsOpen
  <2> QED BY <2>1, <2>2, <2>3, OpenCallsWereOpen
<1> QED BY <1>4, <1>6, <1>16, <1>17, <1>18, <1>19, <1>20 DEF Listed, m, s, span, n, z, N

(* What is left of a list without the messages from a to h - 1.               *)
IsCut(S, msgs, n, a, h, cut) ==
  /\ msgs \in Seq(S) /\ n = Len(msgs)
  /\ a \in 1 .. n /\ h \in a + 1 .. n + 1
  /\ cut = SubSeq(msgs, 1, a - 1) \o SubSeq(msgs, h, n)

(* What is in front of the cut stays, what is behind it moves up. *)
LEMMA CutProperties ==
  ASSUME NEW S, NEW msgs, NEW n, NEW a, NEW h, NEW cut, IsCut(S, msgs, n, a, h, cut)
  PROVE  /\ cut \in Seq(S)
         /\ Len(cut) = n - (h - a)
         /\ \A i \in 1 .. a - 1 : cut[i] = msgs[i]
         /\ \A i \in a .. Len(cut) : cut[i] = msgs[i + (h - a)]
<1> USE DEF IsCut
<1> DEFINE front == SubSeq(msgs, 1, a - 1)
           back == SubSeq(msgs, h, n)
<1>1. n \in Nat
  BY LenProperties
<1>2. a \in Int /\ h \in Int /\ 1 <= a /\ a < h /\ h <= n + 1 /\ a - 1 \in Int
  BY <1>1
<1>3. /\ front \in Seq(S)
      /\ Len(front) = a - 1
      /\ \A i \in 1 .. a - 1 : front[i] = msgs[i]
  <2>1. \A i \in 1 .. a - 1 : msgs[i] \in S
    BY <1>1, <1>2, ElementOfSeq
  <2>2. /\ front \in Seq(S)
        /\ Len(front) = IF 1 <= a - 1 THEN (a - 1) - 1 + 1 ELSE 0
        /\ \A i \in 1 .. (a - 1) - 1 + 1 : front[i] = msgs[1 + i - 1]
    BY <1>2, <2>1, SubSeqProperties
  <2> HIDE DEF front
  <2>3. Len(front) = a - 1
    BY <1>2, <2>2
  <2>4. ASSUME NEW i \in 1 .. a - 1 PROVE front[i] = msgs[i]
    <3>1. i \in 1 .. (a - 1) - 1 + 1 /\ 1 + i - 1 = i
      BY <1>2
    <3> QED BY <2>2, <3>1
  <2> QED BY <2>2, <2>3, <2>4
<1>4. /\ back \in Seq(S)
      /\ Len(back) = n - h + 1
      /\ \A i \in 1 .. n - h + 1 : back[i] = msgs[h + i - 1]
  <2>1. \A i \in h .. n : msgs[i] \in S
    BY <1>1, <1>2, ElementOfSeq
  <2>2. /\ back \in Seq(S)
        /\ Len(back) = IF h <= n THEN n - h + 1 ELSE 0
        /\ \A i \in 1 .. n - h + 1 : back[i] = msgs[h + i - 1]
    BY <1>1, <1>2, <2>1, SubSeqProperties
  <2> DEFINE L == Len(back)
  <2> HIDE DEF back, L
  <2>3. L = n - h + 1
    <3>1. L = IF h <= n THEN n - h + 1 ELSE 0
      BY <2>2 DEF L
    <3> QED BY <1>1, <1>2, <3>1
  <2> QED BY <2>2, <2>3 DEF L
<1> HIDE DEF front, back
<1>5. /\ cut \in Seq(S)
      /\ Len(cut) = Len(front) + Len(back)
      /\ \A i \in 1 .. Len(front) + Len(back) :
           cut[i] = IF i <= Len(front) THEN front[i] ELSE back[i - Len(front)]
  BY <1>3, <1>4, ConcatProperties, ZenonT(60) DEF front, back
<1>6. /\ cut \in Seq(S)
      /\ Len(cut) = a - 1 + (n - h + 1)
      /\ \A i \in 1 .. a - 1 + (n - h + 1) :
           cut[i] = IF i <= a - 1 THEN front[i] ELSE back[i - (a - 1)]
  BY <1>3, <1>4, <1>5
<1>7. Len(cut) = n - (h - a)
  <2>1. a - 1 + (n - h + 1) = n - (h - a)
    BY <1>1, <1>2
  <2> QED BY <1>6, <2>1
<1>8. ASSUME NEW i \in 1 .. a - 1 PROVE cut[i] = msgs[i]
  <2>1. i \in 1 .. a - 1 + (n - h + 1) /\ i <= a - 1
    BY <1>1, <1>2
  <2> QED BY <1>3, <1>6, <2>1
<1>9. ASSUME NEW i \in a .. n - (h - a) PROVE cut[i] = msgs[i + (h - a)]
  <2>1. /\ i \in 1 .. a - 1 + (n - h + 1) /\ ~(i <= a - 1)
        /\ i - (a - 1) \in 1 .. n - h + 1
        /\ h + (i - (a - 1)) - 1 = i + (h - a)
    BY <1>1, <1>2
  <2>2. cut[i] = back[i - (a - 1)]
    BY <1>6, <2>1
  <2>3. back[i - (a - 1)] = msgs[h + (i - (a - 1)) - 1]
    BY <1>4, <2>1
  <2> QED BY <2>1, <2>2, <2>3
<1> QED BY <1>6, <1>7, <1>8, <1>9

(* The spans behind the first one, moved by its length.                       *)
IsShift(spans, c, size, shift) ==
  /\ spans \in Seq(Nat \X Nat) /\ c = Len(spans) /\ c > 0
  /\ size \in Nat
  /\ \A k \in 1 .. c : k > 1 => spans[k][1] >= size /\ spans[k][2] >= size
  /\ shift = [i \in DOMAIN Tail(spans) |->
                <<Tail(spans)[i][1] - size, Tail(spans)[i][2] - size>>]

(* The shifted spans are the old ones but the first, each moved. *)
LEMMA ShiftProperties ==
  ASSUME NEW spans, NEW c, NEW size, NEW shift, IsShift(spans, c, size, shift)
  PROVE  /\ shift \in Seq(Nat \X Nat)
         /\ Len(shift) = c - 1
         /\ \A k \in 1 .. c - 1 : /\ k + 1 \in 1 .. c
                                  /\ shift[k][1] = spans[k + 1][1] - size
                                  /\ shift[k][2] = spans[k + 1][2] - size
<1> USE DEF IsShift
<1> DEFINE T == Tail(spans)
<1>1. c \in Nat /\ spans # <<>>
  BY LenProperties, EmptySeq
<1>2. /\ T \in Seq(Nat \X Nat)
      /\ Len(T) = c - 1
      /\ \A i \in 1 .. Len(T) : T[i] = spans[i + 1]
  BY <1>1, HeadTailProperties
<1>3. DOMAIN T = 1 .. c - 1 /\ c - 1 \in Nat
  BY <1>1, <1>2, LenProperties
<1> HIDE DEF T
<1>4. shift = [i \in 1 .. c - 1 |-> <<T[i][1] - size, T[i][2] - size>>]
  BY <1>3 DEF T
<1>5. ASSUME NEW k \in 1 .. c - 1
      PROVE  /\ k + 1 \in 1 .. c
             /\ T[k] = spans[k + 1]
             /\ spans[k + 1][1] - size \in Nat /\ spans[k + 1][2] - size \in Nat
  <2>1. k + 1 \in 1 .. c /\ k + 1 > 1
    BY <1>1
  <2>2. T[k] = spans[k + 1]
    BY <1>2
  <2>3. spans[k + 1][1] >= size /\ spans[k + 1][2] >= size
    BY <2>1
  <2>4. spans[k + 1][1] \in Nat /\ spans[k + 1][2] \in Nat
    BY <2>1, SpanFields
  <2> DEFINE x == spans[k + 1][1]
             y == spans[k + 1][2]
  <2>5. x >= size /\ y >= size /\ x \in Nat /\ y \in Nat
    BY <2>3, <2>4
  <2> HIDE DEF x, y
  <2>6. x - size \in Nat /\ y - size \in Nat
    BY <2>5
  <2> QED BY <2>1, <2>2, <2>6 DEF x, y
<1>6. ASSUME NEW k \in 1 .. c - 1
      PROVE  /\ shift[k] \in Nat \X Nat
             /\ shift[k][1] = spans[k + 1][1] - size
             /\ shift[k][2] = spans[k + 1][2] - size
  <2>1. shift[k] = <<spans[k + 1][1] - size, spans[k + 1][2] - size>>
    BY <1>4, <1>5
  <2>2. PICK x \in Nat, y \in Nat : x = spans[k + 1][1] - size /\ y = spans[k + 1][2] - size
    BY <1>5
  <2>3. shift[k] = <<x, y>>
    BY <2>1, <2>2
  <2> QED BY <2>2, <2>3
<1>7. shift \in [1 .. c - 1 -> Nat \X Nat]
  BY <1>4, <1>6
<1>8. shift \in Seq(Nat \X Nat) /\ Len(shift) = c - 1
  <2> DEFINE d == c - 1
  <2>1. d \in Nat /\ shift \in [1 .. d -> Nat \X Nat] /\ DOMAIN shift = 1 .. d
    BY <1>3, <1>7
  <2> HIDE DEF d
  <2>2. shift \in Seq(Nat \X Nat) /\ Len(shift) = d
    BY <2>1
  <2> QED BY <2>2 DEF d
<1> QED BY <1>5, <1>6, <1>8

(* A part of a list, with everything up to the budget line, keeps the prompt, *)
(* the budget line and the order of the rounds.                               *)
IsPart(msgs, n, b, part, p, old) ==
  /\ n \in Nat /\ n = Len(msgs)
  /\ p \in Nat /\ p = Len(part) /\ b <= p
  /\ old \in [1 .. p -> 1 .. n]
  /\ \A i \in 1 .. p : part[i] = msgs[old[i]]
  /\ \A i \in 1 .. b : old[i] = i
  /\ \A i, j \in 1 .. p : i < j => old[i] < old[j]

(* Prompt, budget line and order survive in such a part. *)
LEMMA PartKeepsLines ==
  ASSUME NEW msgs, NEW b, NEW calls, PromptAndBudget(msgs, b), RoundsInOrder(msgs, calls),
         NEW n, NEW part, NEW p, NEW old, IsPart(msgs, n, b, part, p, old)
  PROVE  PromptAndBudget(part, b) /\ RoundsInOrder(part, calls)
<1> USE DEF IsPart
<1>1. /\ StablePrefix \in Nat
      /\ b \in StablePrefix + 1 .. n
      /\ \A i \in 1 .. StablePrefix : msgs[i].kind = "prompt"
      /\ \A i \in 1 .. n : msgs[i].kind = "budget" <=> i = b
  BY LoopAssumption DEF PromptAndBudget
<1>2. b \in 1 .. p /\ b \in StablePrefix + 1 .. p
  BY <1>1
<1>3. ASSUME NEW i \in 1 .. p PROVE part[i].kind = "budget" <=> i = b
  <2>1. i < b \/ i = b \/ b < i
    BY <1>2
  <2>2. old[i] = b <=> i = b
    BY <1>2, <2>1
  <2> QED BY <1>1, <2>2
<1>4. ASSUME NEW i \in 1 .. StablePrefix PROVE part[i].kind = "prompt"
  <2>1. i \in 1 .. p /\ i \in 1 .. b
    BY <1>1, <1>2
  <2> QED BY <1>1, <2>1
<1>5. PromptAndBudget(part, b)
  BY <1>2, <1>3, <1>4 DEF PromptAndBudget
<1>6. RoundsInOrder(part, calls)
  <2>1. \A i \in 1 .. p : old[i] \in 1 .. n /\ part[i] = msgs[old[i]]
    OBVIOUS
  <2>2. \A i, j \in 1 .. p : i < j => old[i] < old[j]
    OBVIOUS
  <2>3. /\ \A i \in 1 .. n : msgs[i].kind \in Exchanged => msgs[i].round <= calls
        /\ \A i, j \in 1 .. n :
             i < j /\ msgs[i].kind \in Exchanged /\ msgs[j].kind \in Exchanged
               => msgs[i].round <= msgs[j].round
    BY DEF RoundsInOrder
  <2>4. p = Len(part)
    OBVIOUS
  <2> HIDE DEF IsPart
  <2> QED BY <2>1, <2>2, <2>3, <2>4 DEF RoundsInOrder
<1> QED BY <1>5, <1>6

(* The messages cut and the spans shift are what is left of msgs and spans    *)
(* without the oldest round, which is from a to h - 1.                        *)
WithoutOldest(msgs, spans, a, h, cut, shift) ==
  /\ spans # <<>> /\ a = spans[1][1] /\ h = spans[1][2]
  /\ cut = SubSeq(msgs, 1, a - 1) \o SubSeq(msgs, h, Len(msgs))
  /\ shift = [i \in DOMAIN Tail(spans) |->
                <<Tail(spans)[i][1] - (h - a), Tail(spans)[i][2] - (h - a)>>]

(* The oldest round goes: the others keep their spans.  A call in front of it  *)
(* was not answered by it, for a span begins with a call or a nudge.          *)
LEMMA OldestEvicted ==
  ASSUME NEW msgs, NEW b, NEW spans, NEW calls, Listed(msgs, b, spans, calls),
         NEW a, NEW h, NEW cut, NEW shift, WithoutOldest(msgs, spans, a, h, cut, shift)
  PROVE  /\ Listed(cut, b, shift, calls)
         /\ Unanswered(cut) \subseteq Unanswered(msgs)
         /\ Len(spans) > 1 => /\ h <= Len(msgs)
                              /\ cut[Len(cut)] = msgs[Len(msgs)]
<1> DEFINE n == Len(msgs)
           c == Len(spans)
           p == Len(cut)
           size == h - a
<1>1. /\ msgs \in Seq(Message) /\ spans \in Seq(Nat \X Nat)
      /\ n \in Nat /\ c \in Nat /\ c > 0 /\ 1 \in 1 .. c
  <2>1. msgs \in Seq(Message) /\ spans \in Seq(Nat \X Nat) /\ spans # <<>>
    BY DEF Listed, WithoutOldest
  <2>2. n \in Nat /\ c \in Nat \ {0}
    BY <2>1, LenProperties, EmptySeq
  <2> QED BY <2>1, <2>2
<1>2. /\ \A k \in 1 .. c : IsSpan(msgs, b, spans[k])
      /\ \A k, l \in 1 .. c : k < l => spans[k][2] <= spans[l][1]
      /\ \A k \in 1 .. c : spans[k][1] \in Nat /\ spans[k][2] \in Nat
  BY <1>1, SpanFields DEF Listed, SpansAreRounds
<1>3. /\ b \in StablePrefix + 1 .. n
      /\ StablePrefix \in Nat
  BY LoopAssumption DEF Listed, PromptAndBudget
<1>4. b \in Nat /\ b > 0 /\ b <= n
  BY <1>1, <1>3
<1>5. ASSUME NEW k \in 1 .. c
      PROVE  /\ b < spans[k][1] /\ spans[k][2] <= n + 1
             /\ spans[k][2] = spans[k][1] + 1 \/ spans[k][2] = spans[k][1] + 2
  BY <1>2 DEF IsSpan
<1> HIDE DEF n, c, p, size
<1>6. a \in Nat /\ h \in Nat /\ b < a /\ a < h /\ h <= n + 1
  <2>1. a = spans[1][1] /\ h = spans[1][2]
    BY DEF WithoutOldest
  <2>2. a \in Nat /\ h \in Nat
    BY <1>1, <1>2, <2>1
  <2>3. b < a /\ h <= n + 1 /\ (h = a + 1 \/ h = a + 2)
    BY <1>1, <1>5, <2>1
  <2> QED BY <2>2, <2>3
<1>7. size \in Nat /\ size > 0 /\ size = h - a /\ a \in 1 .. n /\ h \in a + 1 .. n + 1
  BY <1>1, <1>4, <1>6 DEF size
<1>8. /\ cut \in Seq(Message)
      /\ p = n - size
      /\ \A i \in 1 .. a - 1 : cut[i] = msgs[i]
      /\ \A i \in a .. p : cut[i] = msgs[i + size]
  <2>1. cut = SubSeq(msgs, 1, a - 1) \o SubSeq(msgs, h, n)
    BY DEF WithoutOldest, n
  <2>2. n = Len(msgs)
    BY DEF n
  <2>3. /\ cut \in Seq(Message)
        /\ Len(cut) = n - (h - a)
        /\ \A i \in 1 .. a - 1 : cut[i] = msgs[i]
        /\ \A i \in a .. Len(cut) : cut[i] = msgs[i + (h - a)]
    <3>1. msgs \in Seq(Message) /\ a \in 1 .. n /\ h \in a + 1 .. n + 1
      BY <1>1, <1>7
    <3>2. IsCut(Message, msgs, n, a, h, cut)
      BY <2>1, <2>2, <3>1 DEF IsCut
    <3> QED BY <3>2, CutProperties
  <2> QED BY <2>3 DEF p, size
<1>9. ASSUME NEW k \in 1 .. c, k > 1
      PROVE  h <= spans[k][1] /\ spans[k][1] < spans[k][2]
  <2>1. spans[1][2] <= spans[k][1] /\ spans[1][2] = h
    BY <1>1, <1>2, <1>9 DEF WithoutOldest
  <2> DEFINE x == spans[k][1]
             y == spans[k][2]
  <2>2. x \in Nat /\ (y = x + 1 \/ y = x + 2)
    BY <1>2, <1>5
  <2> HIDE DEF x, y
  <2>3. x < y
    BY <2>2
  <2> QED BY <2>1, <2>3 DEF x, y
<1>10. \A k \in 1 .. c : k > 1 => spans[k][1] >= size /\ spans[k][2] >= size
  <2> SUFFICES ASSUME NEW k \in 1 .. c, k > 1
               PROVE  spans[k][1] >= size /\ spans[k][2] >= size
    OBVIOUS
  <2> DEFINE x == spans[k][1]
             y == spans[k][2]
  <2>1. x \in Nat /\ y \in Nat /\ h <= x /\ x < y
    BY <1>2, <1>9
  <2> HIDE DEF x, y
  <2>2. x >= size /\ y >= size
    BY <1>6, <1>7, <2>1
  <2> QED BY <2>2 DEF x, y
<1>11. /\ shift \in Seq(Nat \X Nat)
       /\ Len(shift) = c - 1
       /\ \A k \in 1 .. c - 1 : /\ k + 1 \in 1 .. c
                                /\ shift[k][1] = spans[k + 1][1] - size
                                /\ shift[k][2] = spans[k + 1][2] - size
  <2>1. shift = [i \in DOMAIN Tail(spans) |->
                   <<Tail(spans)[i][1] - size, Tail(spans)[i][2] - size>>]
    BY DEF WithoutOldest, size
  <2>2. c = Len(spans)
    BY DEF c
  <2>3. spans \in Seq(Nat \X Nat) /\ c > 0 /\ size \in Nat
    BY <1>1, <1>7
  <2>4. IsShift(spans, c, size, shift)
    BY <1>10, <2>1, <2>2, <2>3 DEF IsShift
  <2> QED BY <2>4, ShiftProperties
<1>12. PromptAndBudget(cut, b) /\ RoundsInOrder(cut, calls)
  <2> DEFINE old == [i \in 1 .. p |-> IF i < a THEN i ELSE i + size]
  <2>1. p \in Nat /\ b <= p
    BY <1>1, <1>4, <1>6, <1>7, <1>8
  <2>2. old \in [1 .. p -> 1 .. n]
    BY <1>1, <1>6, <1>7, <1>8, <2>1
  <2>3. ASSUME NEW i \in 1 .. p PROVE cut[i] = msgs[old[i]]
    <3>1. CASE i < a
      <4>1. i \in 1 .. a - 1 /\ old[i] = i
        BY <1>6, <2>1, <3>1
      <4> QED BY <1>8, <4>1
    <3>2. CASE ~(i < a)
      <4>1. i \in a .. p /\ old[i] = i + size
        BY <1>6, <2>1, <3>2
      <4> QED BY <1>8, <4>1
    <3> QED BY <3>1, <3>2
  <2>4. \A i \in 1 .. b : old[i] = i
    BY <1>4, <1>6, <2>1
  <2>5. \A i, j \in 1 .. p : i < j => old[i] < old[j]
    BY <1>6, <1>7, <2>1
  <2>6. PromptAndBudget(msgs, b) /\ RoundsInOrder(msgs, calls)
    BY DEF Listed
  <2> HIDE DEF old
  <2>7. n \in Nat /\ n = Len(msgs) /\ p = Len(cut)
    BY <1>1 DEF n, p
  <2>8. IsPart(msgs, n, b, cut, p, old)
    BY <2>1, <2>2, <2>3, <2>4, <2>5, <2>7 DEF IsPart
  <2> QED BY <2>6, <2>8, PartKeepsLines
<1>13. ASSUME NEW k \in 1 .. c - 1
       PROVE  IsSpan(cut, b, shift[k])
  <2> DEFINE lo == spans[k + 1][1]
             hi == spans[k + 1][2]
  <2>1. k + 1 \in 1 .. c /\ k + 1 > 1
    BY <1>1, <1>11
  <2>2. /\ lo \in Nat /\ hi \in Nat /\ h <= lo /\ hi <= n + 1 /\ lo < hi
        /\ shift[k][1] = lo - size /\ shift[k][2] = hi - size
    BY <1>2, <1>5, <1>9, <1>11, <2>1
  <2>3. \/ /\ hi = lo + 2
           /\ msgs[lo].kind = "call"
           /\ msgs[lo + 1].kind \in {"return", "values"}
           /\ msgs[lo + 1].round = msgs[lo].round
        \/ hi = lo + 1 /\ msgs[lo].kind = "nudge"
    BY <1>2, <2>1 DEF IsSpan
  <2> HIDE DEF lo, hi
  <2>4. PICK x \in Int : x = lo - size
    BY <1>7, <2>2
  <2>5. PICK y \in Int : y = hi - size
    BY <1>7, <2>2
  <2>6. /\ x \in a .. p /\ x + size = lo /\ b < x /\ y <= p + 1
        /\ hi = lo + 2 => y = x + 2 /\ x + 1 \in a .. p /\ (x + 1) + size = lo + 1
        /\ hi = lo + 1 => y = x + 1
    BY <1>1, <1>4, <1>6, <1>7, <1>8, <2>2, <2>4, <2>5
  <2>7. cut[x] = msgs[lo]
    BY <1>8, <2>6
  <2>8. hi = lo + 2 => cut[x + 1] = msgs[lo + 1]
    BY <1>8, <2>6
  <2>9. shift[k][1] = x /\ shift[k][2] = y
    BY <2>2, <2>4, <2>5
  <2>10. \/ /\ y = x + 2
            /\ cut[x].kind = "call"
            /\ cut[x + 1].kind \in {"return", "values"}
            /\ cut[x + 1].round = cut[x].round
         \/ y = x + 1 /\ cut[x].kind = "nudge"
    BY <2>3, <2>6, <2>7, <2>8
  <2> QED BY <2>6, <2>9, <2>10 DEF IsSpan, p
<1>14. ASSUME NEW k \in 1 .. c - 1, NEW l \in 1 .. c - 1, k < l
       PROVE  shift[k][2] <= shift[l][1]
  <2>1. k + 1 \in 1 .. c /\ l + 1 \in 1 .. c /\ k + 1 < l + 1
    BY <1>11, <1>14
  <2> DEFINE y == spans[k + 1][2]
             x == spans[l + 1][1]
  <2>2. y <= x /\ y \in Nat /\ x \in Nat
    BY <1>2, <2>1
  <2>3. shift[k][2] = y - size /\ shift[l][1] = x - size
    BY <1>11
  <2> HIDE DEF x, y
  <2> QED BY <1>7, <2>2, <2>3
<1>15. SpansAreRounds(cut, b, shift)
  BY <1>11, <1>13, <1>14 DEF SpansAreRounds
<1>16. ReturnsHaveSpans(cut, shift)
  <2> SUFFICES ASSUME NEW i \in 1 .. p, cut[i].kind \in {"return", "values"}
               PROVE  \E k \in 1 .. c - 1 : shift[k][2] = i + 1
    BY <1>11 DEF ReturnsHaveSpans, p
  <2>1. \A j \in 1 .. n : msgs[j].kind \in {"return", "values"}
                            => \E k \in 1 .. c : spans[k][2] = j + 1
    BY DEF Listed, ReturnsHaveSpans, n, c
  <2>2. CASE i < a
    <3>1. i \in 1 .. a - 1 /\ i \in 1 .. n
      BY <1>1, <1>6, <1>7, <1>8, <2>2
    <3>2. PICK k \in 1 .. c : spans[k][2] = i + 1
      BY <1>8, <2>1, <3>1
    <3>3. spans[k][2] <= a
      BY <1>6, <3>1, <3>2
    <3>4. k = 1
      <4>1. ~(k > 1)
        <5> SUFFICES ASSUME k > 1 PROVE FALSE
          OBVIOUS
        <5>1. h <= spans[k][1] /\ spans[k][1] < spans[k][2]
          BY <1>9
        <5> QED BY <1>2, <1>6, <3>3, <5>1
      <4> QED BY <1>1, <4>1
    <3>5. spans[k][2] = h
      BY <3>4 DEF WithoutOldest
    <3> QED BY <1>6, <3>3, <3>5
  <2>3. CASE ~(i < a)
    <3>1. i \in a .. p /\ i + size \in 1 .. n /\ i + size > h - 1
      BY <1>1, <1>6, <1>7, <1>8, <2>3
    <3>2. PICK k \in 1 .. c : spans[k][2] = i + size + 1
      BY <1>8, <2>1, <3>1
    <3>3. k # 1
      <4>1. spans[1][2] = h
        BY DEF WithoutOldest
      <4>2. i + size + 1 # h
        BY <1>6, <1>7, <3>1
      <4> QED BY <3>2, <4>1, <4>2
    <3>4. PICK l \in 1 .. c - 1 : l + 1 = k
      <4>1. k - 1 \in 1 .. c - 1 /\ (k - 1) + 1 = k
        BY <1>1, <3>3
      <4> QED BY <4>1
    <3>5. shift[l][2] = spans[k][2] - size
      BY <1>11, <3>4
    <3>6. spans[k][2] - size = i + 1
      <4>1. (i + size + 1) - size = i + 1
        BY <1>7, <3>1
      <4> QED BY <3>2, <4>1
    <3> QED BY <3>5, <3>6
  <2> QED BY <2>2, <2>3
<1>17. ASSUME c > 1 PROVE h <= n /\ cut[p] = msgs[n]
  <2>1. 2 \in 1 .. c
    BY <1>1, <1>17
  <2>2. h <= spans[2][1] /\ spans[2][1] < spans[2][2] /\ spans[2][2] <= n + 1
    BY <1>5, <1>9, <2>1
  <2>3. spans[2][1] \in Nat /\ spans[2][2] \in Nat
    BY <1>2, <2>1
  <2>4. h <= n
    BY <1>1, <1>6, <2>2, <2>3
  <2>5. p \in a .. p /\ p + size = n
    BY <1>1, <1>6, <1>7, <1>8, <2>4
  <2> QED BY <1>8, <2>4, <2>5
<1>18. Unanswered(cut) \subseteq Unanswered(msgs)
  <2>1. DOMAIN msgs = 1 .. Len(msgs) /\ DOMAIN cut = 1 .. Len(cut)
    BY <1>1, <1>8, LenProperties
  <2>2. n = Len(msgs) /\ p = Len(cut)
    BY DEF n, p
  <2>3. msgs[a].kind \in {"call", "nudge"}
    BY <1>1, <1>2 DEF IsSpan, WithoutOldest
  <2>4. ASSUME NEW i \in 1 .. p, IsOpen(cut, i)
        PROVE  \E j \in 1 .. n : IsOpen(msgs, j) /\ msgs[j].round = cut[i].round
    <3>1. cut[i].kind = "call" /\ ~(i < p /\ cut[i + 1].kind \in {"return", "values"})
      BY <2>2, <2>4 DEF IsOpen
    <3>2. CASE i < a
      <4>1. i \in 1 .. a - 1 /\ i \in 1 .. n
        BY <1>1, <1>6, <1>7, <1>8, <3>2
      <4>2. cut[i] = msgs[i]
        BY <1>8, <4>1
      <4>3. ~(i < n /\ msgs[i + 1].kind \in {"return", "values"})
        <5>1. CASE i + 1 = a
          BY <2>3, <5>1
        <5>2. CASE i + 1 # a
          <6>1. i + 1 \in 1 .. a - 1 /\ i < a - 1
            BY <1>6, <1>7, <4>1, <5>2
          <6>2. cut[i + 1] = msgs[i + 1]
            BY <1>8, <6>1
          <6>3. i < p
            <7>1. a - 1 <= p
              BY <1>1, <1>6, <1>7, <1>8
            <7> QED BY <1>1, <1>6, <1>7, <1>8, <4>1, <6>1, <7>1
          <6> QED BY <3>1, <6>2, <6>3
        <5> QED BY <5>1, <5>2
      <4> QED BY <2>2, <3>1, <4>1, <4>2, <4>3 DEF IsOpen
    <3>3. CASE ~(i < a)
      <4>1. /\ i \in a .. p /\ i + size \in 1 .. n /\ (i + size) + 1 = (i + 1) + size
            /\ i + size < n => i < p /\ i + 1 \in a .. p
        BY <1>1, <1>6, <1>7, <1>8, <3>3
      <4>2. cut[i] = msgs[i + size]
        BY <1>8, <4>1
      <4>3. i + size < n => i < p /\ cut[i + 1] = msgs[(i + size) + 1]
        BY <1>8, <4>1
      <4>4. IsOpen(msgs, i + size)
        BY <2>2, <3>1, <4>2, <4>3 DEF IsOpen
      <4> QED BY <4>1, <4>2, <4>4
    <3> QED BY <3>2, <3>3
  <2> QED BY <2>1, <2>2, <2>4, OpenCallsWereOpen
<1> QED BY <1>8, <1>11, <1>12, <1>15, <1>16, <1>17, <1>18 DEF Listed, n, c, p

(* The messages kept and the spans left when an emit_value round takes the    *)
(* place of what was at tail and behind it (ReplaceValues); 0 is no tail.     *)
KeptBefore(msgs, spans, b, tail, kept, Kept, place, left) ==
  /\ tail \in Nat /\ (tail = 0 \/ b < tail)
  /\ kept = IF tail \in 1 .. Len(msgs) THEN SubSeq(msgs, 1, tail - 1) ELSE msgs
  /\ Kept = {k \in DOMAIN spans : tail = 0 \/ spans[k][2] <= tail}
  /\ place \in [1 .. Cardinality(Kept) -> Kept]
  /\ \A i, j \in DOMAIN place : i < j => place[i] < place[j]
  /\ left = [i \in DOMAIN place |-> spans[place[i]]]

(* The first messages of a list.                                              *)
LEMMA FrontProperties ==
  ASSUME NEW S, NEW msgs, msgs \in Seq(S), NEW d \in Nat, d <= Len(msgs)
  PROVE  /\ SubSeq(msgs, 1, d) \in Seq(S)
         /\ Len(SubSeq(msgs, 1, d)) = d
         /\ \A i \in 1 .. d : SubSeq(msgs, 1, d)[i] = msgs[i]
<1> DEFINE front == SubSeq(msgs, 1, d)
           L == Len(front)
<1>1. \A i \in 1 .. d : msgs[i] \in S
  <2>1. Len(msgs) \in Nat
    BY LenProperties
  <2>2. \A i \in 1 .. d : i \in 1 .. Len(msgs)
    BY <2>1
  <2> QED BY <2>2, ElementOfSeq
<1>2. /\ front \in Seq(S)
      /\ L = IF 1 <= d THEN d - 1 + 1 ELSE 0
      /\ \A i \in 1 .. d - 1 + 1 : front[i] = msgs[1 + i - 1]
  BY <1>1, SubSeqProperties
<1> HIDE DEF front, L
<1>3. L = d
  BY <1>2
<1>4. ASSUME NEW i \in 1 .. d PROVE front[i] = msgs[i]
  <2>1. i \in 1 .. d - 1 + 1 /\ 1 + i - 1 = i
    OBVIOUS
  <2> QED BY <1>2, <2>1
<1> QED BY <1>2, <1>3, <1>4 DEF front, L

(* What is behind the tail goes with its spans, and nothing else does.  If    *)
(* the values stand where the tail says, their call is the first to go, so    *)
(* that no other call loses its return.                                       *)
LEMMA TailReplaced ==
  ASSUME NEW msgs, NEW b, NEW spans, NEW calls, Listed(msgs, b, spans, calls),
         NEW tail, NEW kept, NEW Kept, NEW place, NEW left,
         KeptBefore(msgs, spans, b, tail, kept, Kept, place, left)
  PROVE  /\ Listed(kept, b, left, calls)
         /\ Len(left) <= Len(spans)
         /\ tail = 0 \/ (tail < Len(msgs) /\ msgs[tail + 1].kind = "values")
              => Unanswered(kept) \subseteq Unanswered(msgs)
<1> DEFINE n == Len(msgs)
           c == Len(spans)
           p == Len(kept)
           m == Cardinality(Kept)
<1>1. /\ msgs \in Seq(Message) /\ spans \in Seq(Nat \X Nat)
      /\ n \in Nat /\ c \in Nat /\ DOMAIN spans = 1 .. c
  BY LenProperties DEF Listed
<1>2. /\ \A k \in 1 .. c : IsSpan(msgs, b, spans[k])
      /\ \A k, l \in 1 .. c : k < l => spans[k][2] <= spans[l][1]
      /\ \A k \in 1 .. c : spans[k][1] \in Nat /\ spans[k][2] \in Nat
  BY <1>1, SpanFields DEF Listed, SpansAreRounds
<1>3. b \in StablePrefix + 1 .. n /\ StablePrefix \in Nat
  BY LoopAssumption DEF Listed, PromptAndBudget
<1>4. tail \in Nat /\ (tail = 0 \/ b < tail)
  BY DEF KeptBefore
<1>5. /\ kept \in Seq(Message) /\ p \in Nat
      /\ b <= p /\ p <= n
      /\ \A i \in 1 .. p : kept[i] = msgs[i]
      /\ \/ tail = 0 /\ p = n
         \/ b < tail /\ p = tail - 1
         \/ p = n /\ p + 1 <= tail
  <2>1. CASE tail \in 1 .. n
    <3>1. kept = SubSeq(msgs, 1, tail - 1)
      BY <2>1 DEF KeptBefore, n
    <3>2. tail - 1 \in Nat /\ tail - 1 <= n /\ b <= tail - 1 /\ b < tail
      BY <1>1, <1>3, <1>4, <2>1
    <3> DEFINE d == tail - 1
    <3>3. kept = SubSeq(msgs, 1, d) /\ d \in Nat /\ d <= Len(msgs)
      BY <3>1, <3>2 DEF n
    <3> HIDE DEF d
    <3>4. /\ kept \in Seq(Message) /\ p = d
          /\ \A i \in 1 .. d : kept[i] = msgs[i]
      BY <1>1, <3>3, FrontProperties
    <3> HIDE DEF p, n
    <3> QED BY <3>2, <3>4 DEF d
  <2>2. CASE tail \notin 1 .. n
    <3>1. kept = msgs /\ p = n
      BY <2>2 DEF KeptBefore
    <3> HIDE DEF p, n
    <3>2. b <= p
      BY <1>1, <1>3, <3>1
    <3>3. tail = 0 \/ p + 1 <= tail
      BY <1>1, <1>4, <2>2, <3>1
    <3> QED BY <1>1, <3>1, <3>2, <3>3
  <2> QED BY <2>1, <2>2
<1> HIDE DEF n, c, p, m
<1>6. b \in Nat /\ b > 0
  BY <1>1, <1>3
<1>7. \A k \in 1 .. c : spans[k][2] <= n + 1
  BY <1>2 DEF IsSpan, n
<1>8. Kept \subseteq 1 .. c /\ \A k \in 1 .. c : k \in Kept <=> spans[k][2] <= p + 1
  <2>1. Kept = {k \in 1 .. c : tail = 0 \/ spans[k][2] <= tail}
    BY <1>1 DEF KeptBefore
  <2>2. ASSUME NEW k \in 1 .. c
        PROVE  (tail = 0 \/ spans[k][2] <= tail) <=> spans[k][2] <= p + 1
    <3> DEFINE y == spans[k][2]
    <3>1. y \in Nat /\ y <= n + 1
      BY <1>2, <1>7
    <3> HIDE DEF y
    <3>2. (tail = 0 \/ y <= tail) <=> y <= p + 1
      BY <1>1, <1>4, <1>5, <1>6, <3>1
    <3> QED BY <3>2 DEF y
  <2> QED BY <2>1, <2>2
<1>9. IsFiniteSet(Kept) /\ m \in Nat /\ m <= c
  <2>1. IsFiniteSet(1 .. c) /\ Cardinality(1 .. c) = c
    BY <1>1, FS_Interval
  <2>2. Kept \in SUBSET (1 .. c)
    BY <1>8
  <2> QED BY <2>1, <2>2, FS_Subset, FS_CardinalityType DEF m
<1>10. /\ place \in [1 .. m -> Kept] /\ DOMAIN place = 1 .. m
       /\ \A i, j \in 1 .. m : i < j => place[i] < place[j]
       /\ left = [i \in 1 .. m |-> spans[place[i]]]
  BY DEF KeptBefore, m
<1>11. \A i \in 1 .. m : place[i] \in Kept /\ place[i] \in 1 .. c /\ place[i] \in Int
  <2>1. \A i \in 1 .. m : place[i] \in Kept
    BY <1>10
  <2>2. \A k \in Kept : k \in 1 .. c /\ k \in Int
    BY <1>1, <1>8
  <2> QED BY <2>1, <2>2
<1>12. \A k \in Kept : \E i \in 1 .. m : place[i] = k
  <2>1. \A i, j \in 1 .. m : place[i] = place[j] => i = j
    BY <1>9, <1>10, <1>11
  <2>2. place \in Injection(1 .. m, Kept)
    BY <1>10, <2>1 DEF Injection, IsInjective
  <2>3. Cardinality(1 .. m) = Cardinality(Kept)
    BY <1>9, FS_Interval DEF m
  <2>4. place \in Surjection(1 .. m, Kept)
    BY <1>9, <2>2, <2>3, FS_Injection
  <2> QED BY <2>4 DEF Surjection
<1>13. /\ left \in Seq(Nat \X Nat) /\ Len(left) = m
       /\ \A i \in 1 .. m : left[i] = spans[place[i]]
  <2>1. \A i \in 1 .. m : spans[place[i]] \in Nat \X Nat
    BY <1>1, <1>11, ElementOfSeq DEF c
  <2> QED BY <1>9, <1>10, <2>1
<1>14. PromptAndBudget(kept, b) /\ RoundsInOrder(kept, calls)
  <2> DEFINE old == [i \in 1 .. p |-> i]
  <2>1. old \in [1 .. p -> 1 .. n]
    BY <1>1, <1>5
  <2>2. \A i \in 1 .. p : kept[i] = msgs[old[i]]
    BY <1>5
  <2>3. \A i \in 1 .. b : old[i] = i
    BY <1>5, <1>6
  <2>4. \A i, j \in 1 .. p : i < j => old[i] < old[j]
    BY <1>5
  <2>5. n = Len(msgs) /\ p = Len(kept)
    BY DEF n, p
  <2>6. PromptAndBudget(msgs, b) /\ RoundsInOrder(msgs, calls)
    BY DEF Listed
  <2> HIDE DEF old
  <2>7. IsPart(msgs, n, b, kept, p, old)
    BY <1>1, <1>5, <2>1, <2>2, <2>3, <2>4, <2>5 DEF IsPart
  <2> QED BY <2>6, <2>7, PartKeepsLines
<1>15. ASSUME NEW i \in 1 .. m PROVE IsSpan(kept, b, left[i])
  <2> DEFINE lo == spans[place[i]][1]
             hi == spans[place[i]][2]
  <2>1. lo \in Nat /\ hi \in Nat /\ hi <= p + 1
    BY <1>2, <1>8, <1>11
  <2>2. /\ b < lo
        /\ \/ /\ hi = lo + 2
              /\ msgs[lo].kind = "call"
              /\ msgs[lo + 1].kind \in {"return", "values"}
              /\ msgs[lo + 1].round = msgs[lo].round
           \/ hi = lo + 1 /\ msgs[lo].kind = "nudge"
    BY <1>2, <1>11 DEF IsSpan
  <2>3. left[i][1] = lo /\ left[i][2] = hi
    BY <1>13
  <2> HIDE DEF lo, hi
  <2>4. lo \in 1 .. p /\ (hi = lo + 2 => lo + 1 \in 1 .. p)
    BY <1>5, <1>6, <2>1, <2>2
  <2>5. kept[lo] = msgs[lo] /\ (hi = lo + 2 => kept[lo + 1] = msgs[lo + 1])
    BY <1>5, <2>4
  <2>6. \/ /\ hi = lo + 2
           /\ kept[lo].kind = "call"
           /\ kept[lo + 1].kind \in {"return", "values"}
           /\ kept[lo + 1].round = kept[lo].round
        \/ hi = lo + 1 /\ kept[lo].kind = "nudge"
    BY <2>2, <2>5
  <2> QED BY <2>1, <2>2, <2>3, <2>6 DEF IsSpan, p
<1>16. \A i, j \in 1 .. m : i < j => left[i][2] <= left[j][1]
  BY <1>2, <1>10, <1>11, <1>13
<1>17. SpansAreRounds(kept, b, left)
  BY <1>13, <1>15, <1>16 DEF SpansAreRounds
<1>18. ReturnsHaveSpans(kept, left)
  <2> SUFFICES ASSUME NEW i \in 1 .. p, kept[i].kind \in {"return", "values"}
               PROVE  \E k \in 1 .. m : left[k][2] = i + 1
    BY <1>13 DEF ReturnsHaveSpans, p
  <2>1. i \in 1 .. n /\ i + 1 <= p + 1
    BY <1>1, <1>5
  <2>2. PICK k \in 1 .. c : spans[k][2] = i + 1
    BY <1>5, <2>1 DEF Listed, ReturnsHaveSpans, n, c
  <2>3. k \in Kept
    BY <1>8, <2>1, <2>2
  <2> QED BY <1>12, <1>13, <2>2, <2>3
<1>19. ASSUME tail = 0 \/ (tail < n /\ msgs[tail + 1].kind = "values")
       PROVE  Unanswered(kept) \subseteq Unanswered(msgs)
  <2>1. DOMAIN msgs = 1 .. Len(msgs) /\ DOMAIN kept = 1 .. Len(kept)
    BY <1>1, <1>5, LenProperties
  <2>2. n = Len(msgs) /\ p = Len(kept)
    BY DEF n, p
  <2>3. p < n => msgs[p + 1].kind = "call"
    <3> SUFFICES ASSUME p < n PROVE msgs[p + 1].kind = "call"
      OBVIOUS
    <3>1. /\ tail = p + 1 /\ tail \in Nat
          /\ tail + 1 \in 1 .. n /\ (tail + 1) - 1 = p + 1
          /\ msgs[tail + 1].kind = "values"
      BY <1>1, <1>4, <1>5, <1>19
    <3> DEFINE q == tail + 1
    <3>2. q \in 1 .. Len(msgs) /\ msgs[q].kind \in {"return", "values"} /\ q - 1 = p + 1
      BY <2>2, <3>1
    <3> HIDE DEF q
    <3>3. msgs[q - 1].kind = "call"
      BY <3>2, ReturnIsTracked
    <3> QED BY <3>2, <3>3
  <2>4. ASSUME NEW i \in 1 .. p, IsOpen(kept, i)
        PROVE  i \in 1 .. n /\ IsOpen(msgs, i) /\ msgs[i].round = kept[i].round
    <3>1. kept[i].kind = "call" /\ ~(i < p /\ kept[i + 1].kind \in {"return", "values"})
      BY <2>2, <2>4 DEF IsOpen
    <3>2. i \in 1 .. n /\ (i < p => i + 1 \in 1 .. p) /\ (i < p \/ i = p)
      BY <1>1, <1>5
    <3>3. ~(i < n /\ msgs[i + 1].kind \in {"return", "values"})
      BY <1>5, <2>3, <3>1, <3>2
    <3> QED BY <1>5, <2>2, <3>1, <3>2, <3>3 DEF IsOpen
  <2> QED BY <2>1, <2>2, <2>4, OpenCallsWereOpen
<1> QED BY <1>5, <1>9, <1>13, <1>14, <1>17, <1>18, <1>19 DEF Listed, c, n

(* The round that Window is given is behind the others, and Window evicts the *)
(* oldest or nothing: what the model sees stays in order and bounded, and     *)
(* ends with the round that was made.                                         *)
LEMMA WindowKeeps ==
  ASSUME NEW msgs, NEW spans, NEW start, NEW calls,
         Listed(msgs, budget_item_index, Append(spans, <<start, Len(msgs) + 1>>), calls),
         spans \in Seq(Nat \X Nat), start \in Nat, Len(msgs) \in Nat,
         Len(spans) <= LiveRounds
  PROVE  /\ Listed(Window(msgs, spans, start).messages, budget_item_index,
                   Window(msgs, spans, start).spans, calls)
         /\ Len(Window(msgs, spans, start).spans) <= LiveRounds
         /\ LET m == Window(msgs, spans, start).messages
            IN  m[Len(m)] = msgs[Len(msgs)] /\ Unanswered(m) \subseteq Unanswered(msgs)
<1> DEFINE all == Append(spans, <<start, Len(msgs) + 1>>)
           w == Window(msgs, spans, start)
           a == all[1][1]
           h == all[1][2]
           size == h - a
           cut == SubSeq(msgs, 1, a - 1) \o SubSeq(msgs, h, Len(msgs))
           shift == [i \in DOMAIN Tail(all) |-> <<Tail(all)[i][1] - size, Tail(all)[i][2] - size>>]
<1>1. all \in Seq(Nat \X Nat) /\ Len(all) = Len(spans) + 1 /\ all # <<>> /\ Len(spans) \in Nat
  <2> DEFINE e == <<start, Len(msgs) + 1>>
  <2>1. e \in Nat \X Nat /\ spans \in Seq(Nat \X Nat)
    OBVIOUS
  <2> DEFINE s == Append(spans, e)
  <2>2. s \in Seq(Nat \X Nat) /\ Len(s) = Len(spans) + 1
    BY <2>1, AppendProperties
  <2>3. Len(spans) \in Nat
    BY LenProperties
  <2> HIDE DEF s
  <2>4. s # <<>>
    <3>1. CASE s = <<>>
      <4>1. Len(s) = 0
        BY <3>1
      <4>2. PICK k \in Nat : k = Len(spans)
        BY <2>3
      <4>3. k + 1 = 0
        BY <2>2, <4>1, <4>2
      <4> QED BY <4>3
    <3> QED BY <3>1
  <2> QED BY <2>2, <2>3, <2>4 DEF e, s
<1>2. CASE Len(all) <= LiveRounds
  <2>1. w = [messages |-> msgs, spans |-> all]
    <3>1. ~(Len(all) > LiveRounds)
      <4>1. LiveRounds \in Nat
        BY LoopAssumption
      <4> HIDE DEF all
      <4> QED BY <1>1, <1>2, <4>1
    <3> QED BY <1>2, <3>1 DEF Window
  <2> HIDE DEF w, all
  <2>2. w.messages = msgs /\ w.spans = all
    BY <2>1
  <2>3. Listed(msgs, budget_item_index, all, calls)
    BY DEF all
  <2> QED BY <1>2, <2>2, <2>3 DEF w
<1>3. CASE ~(Len(all) <= LiveRounds)
  <2>1. LiveRounds \in Nat /\ Len(all) > LiveRounds /\ Len(all) > 1
    BY <1>1, <1>3, LoopAssumption
  <2>2. /\ a \in Nat /\ h \in Nat /\ budget_item_index < a /\ a < h
        /\ budget_item_index \in Nat /\ StablePrefix < budget_item_index
    <3>1. 1 \in 1 .. Len(all)
      BY <1>1
    <3>2. a \in Nat /\ h \in Nat
      BY <1>1, <3>1, SpanFields
    <3>3. budget_item_index < a /\ (h = a + 1 \/ h = a + 2)
      BY <3>1 DEF Listed, SpansAreRounds, IsSpan
    <3>4. budget_item_index \in StablePrefix + 1 .. Len(msgs) /\ StablePrefix \in Nat
      BY LoopAssumption DEF Listed, PromptAndBudget
    <3> HIDE DEF a, h
    <3> QED BY <3>2, <3>3, <3>4
  <2>3. ~(a <= StablePrefix \/ budget_item_index \in a .. h - 1)
    <3>1. StablePrefix \in Nat
      BY LoopAssumption
    <3> HIDE DEF a, h
    <3> QED BY <2>2, <3>1
  <2>4. w = [messages |-> cut, spans |-> shift]
    BY <1>3, <2>1, <2>3 DEF Window
  <2>6. WithoutOldest(msgs, all, a, h, cut, shift)
    BY <1>1 DEF WithoutOldest
  <2>9. Listed(msgs, budget_item_index, all, calls)
    BY DEF all
  <2> HIDE DEF w, cut, shift
  <2>5. w.messages = cut /\ w.spans = shift
    BY <2>4
  <2> HIDE DEF a, h, all
  <2>7. /\ Listed(cut, budget_item_index, shift, calls) /\ cut[Len(cut)] = msgs[Len(msgs)]
        /\ Unanswered(cut) \subseteq Unanswered(msgs)
    <3>1. /\ Listed(cut, budget_item_index, shift, calls)
          /\ Unanswered(cut) \subseteq Unanswered(msgs)
          /\ Len(all) > 1 => cut[Len(cut)] = msgs[Len(msgs)]
      BY <2>6, <2>9, OldestEvicted
    <3> QED BY <2>1, <3>1
  <2>8. Len(shift) <= LiveRounds
    <3>1. DOMAIN Tail(all) = 1 .. Len(spans)
      BY <1>1, HeadTailProperties, LenProperties
    <3>2. DOMAIN shift = 1 .. Len(spans)
      BY <3>1 DEF shift
    <3>3. shift \in Seq(Nat \X Nat)
      BY <2>7 DEF Listed
    <3>4. Len(shift) = Len(spans)
      BY <1>1, <3>2, <3>3
    <3> QED BY <3>4
  <2> QED BY <2>5, <2>7, <2>8 DEF w
<1> QED BY <1>2, <1>3

(* The round is in the messages and, if they are too many, the oldest is not. *)
LEMMA RoundTaken ==
  ASSUME NEW msgs, NEW spans, NEW calls \in Int, NEW new,
         Listed(msgs, budget_item_index, spans, calls), IsRound(new, calls),
         Len(spans) <= LiveRounds, AppendRound(msgs, spans, new)
  PROVE  /\ Listed(messages', budget_item_index, round_spans', calls)
         /\ Len(round_spans') <= LiveRounds
         /\ messages'[Len(messages')].round = calls
         /\ messages'[Len(messages')].kind = new[Len(new)].kind
         /\ Unanswered(messages') \subseteq Unanswered(msgs)
         /\ budget_item_index' = budget_item_index
<1> DEFINE m == msgs \o new
           start == Len(msgs) + 1
           w == Window(m, spans, start)
<1>1. /\ messages' = w.messages /\ round_spans' = w.spans
      /\ budget_item_index' = budget_item_index
  BY DEF AppendRound
<1>2. /\ Len(m) = Len(msgs) + Len(new)
      /\ Listed(m, budget_item_index, Append(spans, <<start, Len(m) + 1>>), calls)
      /\ Unanswered(m) \subseteq Unanswered(msgs)
  BY RoundAppended
<1>3. /\ msgs \in Seq(Message) /\ new \in Seq(Message) /\ spans \in Seq(Nat \X Nat)
  BY DEF Listed, IsRound
<1>4. start \in Nat /\ Len(m) \in Nat
  <2>1. PICK n \in Nat : n = Len(msgs)
    BY <1>3, LenProperties
  <2>2. start \in Nat
    BY <2>1
  <2>3. m \in Seq(Message)
    BY <1>2 DEF Listed
  <2> QED BY <2>2, <2>3, LenProperties
<1>5. m[Len(m)].round = calls /\ m[Len(m)].kind = new[Len(new)].kind
  <2> DEFINE n == Len(msgs)
             z == Len(new)
  <2>1. n \in Nat /\ (z = 1 \/ z = 2) /\ new[z].round = calls
    BY <1>3, LenProperties DEF IsRound
  <2>2. \A i \in 1 .. n + z : m[i] = IF i <= n THEN msgs[i] ELSE new[i - n]
    BY <1>3, ConcatProperties
  <2>3. Len(m) = n + z
    BY <1>2
  <2> HIDE DEF n, z, m
  <2>4. n + z \in 1 .. n + z /\ ~(n + z <= n) /\ (n + z) - n = z
    BY <2>1
  <2>5. m[n + z] = new[z]
    BY <2>2, <2>4
  <2> QED BY <2>1, <2>3, <2>5 DEF z
<1> HIDE DEF m, start
<1>6. /\ Listed(w.messages, budget_item_index, w.spans, calls)
      /\ Unanswered(w.messages) \subseteq Unanswered(m)
      /\ Len(w.spans) <= LiveRounds
      /\ w.messages[Len(w.messages)] = m[Len(m)]
  BY <1>2, <1>3, <1>4, WindowKeeps
<1> HIDE DEF w
<1> QED BY <1>1, <1>2, <1>5, <1>6

(* What is not a line of the budget or part of a round may follow the rest.   *)
LEMMA LineAppended ==
  ASSUME NEW msgs, NEW b, NEW spans, NEW calls, Listed(msgs, b, spans, calls),
         NEW line \in Message, line.kind = "wrap_up"
  PROVE  /\ Listed(Append(msgs, line), b, spans, calls)
         /\ Unanswered(Append(msgs, line)) \subseteq Unanswered(msgs)
<1> DEFINE m == Append(msgs, line)
           n == Len(msgs)
           c == Len(spans)
           N == Len(m)
<1>1. msgs \in Seq(Message) /\ n \in Nat /\ spans \in Seq(Nat \X Nat) /\ c \in Nat
  BY LenProperties DEF Listed
<1>2. /\ m \in Seq(Message) /\ N = n + 1
      /\ \A i \in 1 .. n : m[i] = msgs[i]
      /\ m[n + 1] = line
  BY <1>1, AppendProperties
<1>3. /\ b \in StablePrefix + 1 .. n
      /\ \A i \in 1 .. StablePrefix : msgs[i].kind = "prompt"
      /\ \A i \in 1 .. n : msgs[i].kind = "budget" <=> i = b
  BY DEF Listed, PromptAndBudget
<1>4. StablePrefix \in Nat
  BY LoopAssumption
<1>5. /\ \A k \in 1 .. c : IsSpan(msgs, b, spans[k])
      /\ \A k, l \in 1 .. c : k < l => spans[k][2] <= spans[l][1]
      /\ \A k \in 1 .. c : spans[k][1] \in Nat /\ spans[k][2] \in Nat
  BY <1>1, SpanFields DEF Listed, SpansAreRounds
<1> HIDE DEF m, n, c, N
<1>6. \A i \in 1 .. N : (i \in 1 .. n /\ m[i] = msgs[i]) \/ (i = n + 1 /\ m[i] = line)
  <2>1. \A i \in 1 .. N : i \in 1 .. n \/ i = n + 1
    BY <1>1, <1>2
  <2>2. \A i \in 1 .. n : m[i] = msgs[i]
    BY <1>2
  <2>3. \A i : i = n + 1 => m[i] = line
    BY <1>2
  <2> QED BY <2>1, <2>2, <2>3
<1>7. PromptAndBudget(m, b)
  <2>1. b \in StablePrefix + 1 .. N /\ n + 1 # b
    BY <1>1, <1>2, <1>3, <1>4
  <2>2. \A i \in 1 .. StablePrefix : i \in 1 .. n
    BY <1>1, <1>3, <1>4
  <2> QED BY <1>2, <1>3, <1>6, <2>1, <2>2 DEF PromptAndBudget, N
<1>8. ASSUME NEW k \in 1 .. c PROVE IsSpan(m, b, spans[k])
  <2> DEFINE lo == spans[k][1]
             hi == spans[k][2]
  <2>1. lo \in Nat /\ hi \in Nat
    BY <1>5
  <2>2. /\ b < lo /\ hi <= n + 1
        /\ \/ /\ hi = lo + 2
              /\ msgs[lo].kind = "call"
              /\ msgs[lo + 1].kind \in {"return", "values"}
              /\ msgs[lo + 1].round = msgs[lo].round
           \/ hi = lo + 1 /\ msgs[lo].kind = "nudge"
    BY <1>5 DEF IsSpan, n
  <2> HIDE DEF lo, hi
  <2>3. lo \in 1 .. n /\ (hi = lo + 2 => lo + 1 \in 1 .. n) /\ hi <= N + 1
    <3>1. b \in Nat
      BY <1>1, <1>3, <1>4
    <3> QED BY <1>1, <1>2, <2>1, <2>2, <3>1
  <2>4. /\ b < lo /\ hi <= N + 1
        /\ \/ /\ hi = lo + 2
              /\ m[lo].kind = "call"
              /\ m[lo + 1].kind \in {"return", "values"}
              /\ m[lo + 1].round = m[lo].round
           \/ hi = lo + 1 /\ m[lo].kind = "nudge"
    BY <1>2, <2>2, <2>3
  <2> QED BY <2>4 DEF IsSpan, lo, hi, N
<1>9. SpansAreRounds(m, b, spans)
  BY <1>5, <1>8 DEF SpansAreRounds, c
<1>10. ReturnsHaveSpans(m, spans)
  BY <1>6 DEF Listed, ReturnsHaveSpans, n, N
<1>11. RoundsInOrder(m, calls)
  BY <1>6 DEF Listed, RoundsInOrder, Exchanged, n, N
<1>12. Unanswered(m) \subseteq Unanswered(msgs)
  <2>1. DOMAIN msgs = 1 .. Len(msgs) /\ DOMAIN m = 1 .. Len(m)
    BY <1>1, <1>2, LenProperties
  <2>2. n = Len(msgs) /\ N = Len(m)
    BY DEF n, N
  <2>3. ASSUME NEW i \in 1 .. N, IsOpen(m, i)
        PROVE  i \in 1 .. n /\ IsOpen(msgs, i) /\ msgs[i].round = m[i].round
    <3>1. m[i].kind = "call" /\ ~(i < N /\ m[i + 1].kind \in {"return", "values"})
      BY <2>2, <2>3 DEF IsOpen
    <3>2. i \in 1 .. n /\ m[i] = msgs[i]
      BY <1>6, <3>1
    <3>3. i < n => i + 1 \in 1 .. n /\ i < N
      BY <1>1, <1>2, <3>2
    <3>4. msgs[i].kind = "call" /\ ~(i < n /\ msgs[i + 1].kind \in {"return", "values"})
      BY <1>2, <3>1, <3>2, <3>3
    <3> QED BY <2>2, <3>2, <3>4 DEF IsOpen
  <2> QED BY <2>1, <2>2, <2>3, OpenCallsWereOpen
<1> QED BY <1>1, <1>2, <1>7, <1>9, <1>10, <1>11, <1>12 DEF Listed, m

(* The budget line is rewritten where it stands, for a later call.            *)
LEMMA LineRewritten ==
  ASSUME NEW msgs, NEW b, NEW spans, NEW calls \in Int, Listed(msgs, b, spans, calls),
         NEW line \in Message, line.kind = "budget", NEW later \in Int, calls <= later
  PROVE  /\ Listed([msgs EXCEPT ![b] = line], b, spans, later)
         /\ [msgs EXCEPT ![b] = line][b] = line
         /\ Unanswered([msgs EXCEPT ![b] = line]) \subseteq Unanswered(msgs)
<1> DEFINE m == [msgs EXCEPT ![b] = line]
           n == Len(msgs)
           c == Len(spans)
           N == Len(m)
<1>1. msgs \in Seq(Message) /\ n \in Nat /\ spans \in Seq(Nat \X Nat) /\ c \in Nat
  BY LenProperties DEF Listed
<1>2. /\ b \in StablePrefix + 1 .. n
      /\ \A i \in 1 .. StablePrefix : msgs[i].kind = "prompt"
      /\ \A i \in 1 .. n : msgs[i].kind = "budget" <=> i = b
  BY DEF Listed, PromptAndBudget
<1>3. StablePrefix \in Nat
  BY LoopAssumption
<1>4. b \in 1 .. n
  <2> HIDE DEF n
  <2> QED BY <1>1, <1>2, <1>3
<1>5. /\ m \in Seq(Message) /\ N = n
      /\ \A j \in 1 .. n : m[j] = IF j = b THEN line ELSE msgs[j]
  BY <1>1, <1>4, ExceptSeq
<1>6. /\ \A k \in 1 .. c : IsSpan(msgs, b, spans[k])
      /\ \A k, l \in 1 .. c : k < l => spans[k][2] <= spans[l][1]
      /\ \A k \in 1 .. c : spans[k][1] \in Nat /\ spans[k][2] \in Nat
  BY <1>1, SpanFields DEF Listed, SpansAreRounds
<1>7. \A i \in 1 .. n : msgs[i].round \in Int
  BY <1>1, ElementOfSeq, MessageFields
<1> HIDE DEF m, n, c, N
<1>8. PromptAndBudget(m, b)
  <2>1. \A i \in 1 .. StablePrefix : i \in 1 .. n /\ i # b
    BY <1>1, <1>2, <1>3
  <2> QED BY <1>2, <1>5, <2>1 DEF PromptAndBudget, N
<1>9. ASSUME NEW k \in 1 .. c PROVE IsSpan(m, b, spans[k])
  <2> DEFINE lo == spans[k][1]
             hi == spans[k][2]
  <2>1. lo \in Nat /\ hi \in Nat
    BY <1>6
  <2>2. /\ b < lo /\ hi <= n + 1
        /\ \/ /\ hi = lo + 2
              /\ msgs[lo].kind = "call"
              /\ msgs[lo + 1].kind \in {"return", "values"}
              /\ msgs[lo + 1].round = msgs[lo].round
           \/ hi = lo + 1 /\ msgs[lo].kind = "nudge"
    BY <1>6 DEF IsSpan, n
  <2> HIDE DEF lo, hi
  <2>3. lo \in 1 .. n /\ lo # b /\ (hi = lo + 2 => lo + 1 \in 1 .. n /\ lo + 1 # b)
    BY <1>1, <1>4, <2>1, <2>2
  <2>4. \/ /\ hi = lo + 2
           /\ m[lo].kind = "call"
           /\ m[lo + 1].kind \in {"return", "values"}
           /\ m[lo + 1].round = m[lo].round
        \/ hi = lo + 1 /\ m[lo].kind = "nudge"
    BY <1>5, <2>2, <2>3
  <2> QED BY <1>5, <2>2, <2>4 DEF IsSpan, lo, hi, N
<1>10. SpansAreRounds(m, b, spans)
  BY <1>6, <1>9 DEF SpansAreRounds, c
<1>11. ReturnsHaveSpans(m, spans)
  BY <1>5 DEF Listed, ReturnsHaveSpans, n, N
<1>12. RoundsInOrder(m, later)
  <2>1. \A i \in 1 .. n : m[i].kind \in Exchanged => m[i] = msgs[i]
    BY <1>5 DEF Exchanged
  <2>2. /\ \A i \in 1 .. n : msgs[i].kind \in Exchanged => msgs[i].round <= calls
        /\ \A i, j \in 1 .. n :
             i < j /\ msgs[i].kind \in Exchanged /\ msgs[j].kind \in Exchanged
               => msgs[i].round <= msgs[j].round
    BY DEF Listed, RoundsInOrder, n
  <2>3. \A i \in 1 .. n : m[i].kind \in Exchanged => m[i].round <= later
    BY <1>7, <2>1, <2>2
  <2>4. Len(m) = n
    BY <1>5 DEF N
  <2> QED BY <2>1, <2>2, <2>3, <2>4 DEF RoundsInOrder
<1>13. m[b] = line
  BY <1>4, <1>5
<1>14. Unanswered(m) \subseteq Unanswered(msgs)
  <2>1. DOMAIN msgs = 1 .. Len(msgs) /\ DOMAIN m = 1 .. Len(m)
    BY <1>1, <1>5, LenProperties
  <2>2. n = Len(msgs) /\ n = Len(m)
    BY <1>5 DEF n, N
  <2>3. \A i \in 1 .. n : m[i].kind = msgs[i].kind /\ (i # b => m[i] = msgs[i])
    BY <1>2, <1>5
  <2>4. ASSUME NEW i \in 1 .. n, IsOpen(m, i)
        PROVE  IsOpen(msgs, i) /\ msgs[i].round = m[i].round
    <3>1. m[i].kind = "call" /\ ~(i < n /\ m[i + 1].kind \in {"return", "values"})
      BY <2>2, <2>4 DEF IsOpen
    <3>2. i # b
      BY <1>2, <2>3, <3>1
    <3>3. i < n => i + 1 \in 1 .. n
      BY <1>1
    <3>4. m[i] = msgs[i] /\ (i < n => m[i + 1].kind = msgs[i + 1].kind)
      BY <2>3, <3>2, <3>3
    <3>5. msgs[i].kind = "call" /\ ~(i < n /\ msgs[i + 1].kind \in {"return", "values"})
      BY <3>1, <3>4
    <3> QED BY <2>2, <3>4, <3>5 DEF IsOpen
  <2> QED BY <2>1, <2>2, <2>4, OpenCallsWereOpen
<1> QED BY <1>1, <1>5, <1>8, <1>10, <1>11, <1>12, <1>13, <1>14 DEF Listed, m

(* The prompt alone, or with the nudge to wrap up.                            *)
BeforeFirstLine(msgs) ==
  /\ msgs \in Seq(Message) /\ Len(msgs) >= StablePrefix
  /\ \A i \in 1 .. StablePrefix : msgs[i].kind = "prompt"
  /\ \A i \in 1 .. Len(msgs) : msgs[i].kind \in {"prompt", "wrap_up"}

(* The first budget line follows the prompt.                                  *)
LEMMA FirstLine ==
  ASSUME NEW msgs, BeforeFirstLine(msgs),
         NEW line \in Message, line.kind = "budget", NEW calls
  PROVE  /\ Listed(Append(msgs, line), Len(msgs) + 1, <<>>, calls)
         /\ Append(msgs, line)[Len(msgs) + 1] = line
         /\ Unanswered(Append(msgs, line)) = {}
<1> DEFINE n == Len(msgs)
           m == Append(msgs, line)
           N == Len(m)
<1>1. n \in Nat /\ msgs \in Seq(Message)
  BY LenProperties DEF BeforeFirstLine
<1>11. /\ n >= StablePrefix
       /\ \A i \in 1 .. StablePrefix : msgs[i].kind = "prompt"
       /\ \A i \in 1 .. n : msgs[i].kind \in {"prompt", "wrap_up"}
  BY DEF BeforeFirstLine
<1>2. StablePrefix \in Nat
  BY LoopAssumption
<1>3. /\ m \in Seq(Message) /\ N = n + 1
      /\ \A i \in 1 .. n : m[i] = msgs[i]
      /\ m[n + 1] = line
  BY <1>1, AppendProperties
<1> HIDE DEF m, n, N
<1>4. \A i \in 1 .. N : \/ i \in 1 .. n /\ m[i] = msgs[i] /\ i # n + 1
                        \/ i = n + 1 /\ m[i] = line
  <2>1. \A i \in 1 .. N : (i \in 1 .. n /\ i # n + 1) \/ i = n + 1
    BY <1>1, <1>3
  <2>2. \A i \in 1 .. n : m[i] = msgs[i]
    BY <1>3
  <2>3. \A i : i = n + 1 => m[i] = line
    BY <1>3
  <2> QED BY <2>1, <2>2, <2>3
<1>5. PromptAndBudget(m, n + 1)
  <2>1. n + 1 \in StablePrefix + 1 .. N
    BY <1>1, <1>2, <1>3, <1>11
  <2>2. \A i \in 1 .. StablePrefix : i \in 1 .. n
    BY <1>1, <1>2, <1>11
  <2>3. \A i \in 1 .. N : m[i].kind = "budget" <=> i = n + 1
    BY <1>4, <1>11
  <2>4. \A i \in 1 .. StablePrefix : m[i].kind = "prompt"
    BY <1>3, <1>11, <2>2
  <2> QED BY <2>1, <2>3, <2>4 DEF PromptAndBudget, N
<1>6. \A i \in 1 .. N : m[i].kind \notin Exchanged
  BY <1>4, <1>11 DEF Exchanged
<1>7. RoundsInOrder(m, calls)
  BY <1>6 DEF RoundsInOrder, N
<1>8. ReturnsHaveSpans(m, <<>>)
  BY <1>6 DEF ReturnsHaveSpans, Exchanged, N
<1>9. SpansAreRounds(m, n + 1, <<>>)
  BY DEF SpansAreRounds
<1>10. <<>> \in Seq(Nat \X Nat)
  BY EmptySeq
<1>12. Unanswered(m) = {}
  <2>1. DOMAIN m = 1 .. N
    BY <1>3, LenProperties DEF N
  <2>2. \A i \in DOMAIN m : ~IsOpen(m, i)
    BY <1>6, <2>1 DEF IsOpen, Exchanged
  <2> QED BY <2>2 DEF Unanswered
<1> QED BY <1>3, <1>5, <1>7, <1>8, <1>9, <1>10, <1>12 DEF Listed, m, n

-----------------------------------------------------------------------------
(* The types of the variables that are not the context, with the two bounds   *)
(* the types rest on: a call is made below the hard cap only, and a rejection *)
(* past the limit is an outcome.                                              *)
ScalarInv ==
  /\ pc \in {"top", "answer", "returned", "done"}
  /\ outcome \in Outcome \cup {None}
  /\ pc \in {"top", "answer"} <=> outcome = None
  /\ elapsed \in 0 .. 2
  /\ model_call_count \in 0 .. MaxCallsHard + 1
  /\ wrap_up_nudge_injected \in BOOLEAN
  /\ prev_run_source \in Source \cup {None}
  /\ last_program_errors \in Error \cup {None}
  /\ rejections \in 0 .. RejectionLimit + 1
  /\ grounded \in BOOLEAN
  /\ pending \subseteq Round /\ committed \subseteq Round
  /\ pc = "answer" => model_call_count >= 1
  /\ pc \in {"top", "answer"} => rejections <= RejectionLimit

Prompt == [i \in 1 .. StablePrefix |-> [kind |-> "prompt", round |-> 0]]

(* Before the first call there is only the prompt; from then on the messages, *)
(* the budget line and the spans agree.  A tail left by an eviction may point *)
(* into or past the rounds, never at the budget line or before it.            *)
ContextInv ==
  /\ messages \in Seq(Message)
  /\ budget_item_index \in Nat
  /\ round_spans \in Seq(Nat \X Nat)
  /\ last_emit_value_tail \in Nat
  /\ Len(round_spans) <= LiveRounds
  /\ budget_item_index = 0 =>
       messages = Prompt /\ round_spans = <<>> /\ last_emit_value_tail = 0
  /\ budget_item_index # 0 =>
       /\ Listed(messages, budget_item_index, round_spans, model_call_count)
       /\ last_emit_value_tail = 0 \/ budget_item_index < last_emit_value_tail
  /\ pc = "answer" =>
       /\ budget_item_index # 0
       /\ messages[budget_item_index].round = model_call_count

LoopInv == ScalarInv /\ ContextInv

(* A round was fed back to the model.                                         *)
FedBack ==
  /\ Listed(messages', budget_item_index, round_spans', model_call_count)
  /\ Len(round_spans') <= LiveRounds
  /\ messages'[Len(messages')].round = model_call_count
  /\ OnlyMovedTailsCut
  /\ budget_item_index' = budget_item_index
  /\ last_emit_value_tail' \in Nat
  /\ last_emit_value_tail' = 0 \/ budget_item_index < last_emit_value_tail'
  /\ model_call_count' = model_call_count
  /\ pc' = "top"

(* The invariant types the variables. *)
LEMMA LoopTyped == LoopInv => TypeOK
BY DEF LoopInv, ScalarInv, ContextInv, TypeOK

(* The messages of a round.                                                   *)
LEMMA RoundShapes ==
  ASSUME ScalarInv, NEW kind \in {"return", "values"}
  PROVE  /\ IsRound(<<Msg("call"), Msg(kind)>>, model_call_count)
         /\ IsRound(<<Msg("nudge")>>, model_call_count)
<1>1. model_call_count \in 0 .. MaxCallsHard + 1
  BY DEF ScalarInv
<1>2. /\ Msg("call") \in Message /\ Msg("call").kind = "call"
      /\ Msg("call").round = model_call_count
      /\ Msg(kind) \in Message /\ Msg(kind).kind = kind
      /\ Msg(kind).round = model_call_count
      /\ Msg("nudge") \in Message /\ Msg("nudge").kind = "nudge"
      /\ Msg("nudge").round = model_call_count
  BY <1>1 DEF Msg, Message
<1> DEFINE two == <<Msg("call"), Msg(kind)>>
           one == <<Msg("nudge")>>
<1>3. /\ two \in Seq(Message) /\ Len(two) = 2
      /\ two[1] = Msg("call") /\ two[2] = Msg(kind)
  BY <1>2
<1>4. one \in Seq(Message) /\ Len(one) = 1 /\ one[1] = Msg("nudge")
  BY <1>2
<1> HIDE DEF two, one
<1>5. IsRound(two, model_call_count)
  BY <1>2, <1>3 DEF IsRound
<1>6. IsRound(one, model_call_count)
  BY <1>2, <1>4 DEF IsRound
<1> QED BY <1>5, <1>6 DEF two, one

(* Feedback after an answer.                                                  *)
LEMMA FeedbackFeedsBack ==
  ASSUME LoopInv, pc = "answer", NEW new, IsRound(new, model_call_count),
         Feedback(new), model_call_count' = model_call_count
  PROVE  FedBack
<1>1. model_call_count \in Int
  BY LoopAssumption DEF LoopInv, ScalarInv
<1>2. /\ Listed(messages, budget_item_index, round_spans, model_call_count)
      /\ Len(round_spans) <= LiveRounds
      /\ last_emit_value_tail \in Nat
      /\ last_emit_value_tail = 0 \/ budget_item_index < last_emit_value_tail
  BY DEF LoopInv, ContextInv
<1>3. /\ AppendRound(messages, round_spans, new) /\ pc' = "top"
      /\ last_emit_value_tail' = last_emit_value_tail
  BY DEF Feedback
<1>4. /\ Listed(messages', budget_item_index, round_spans', model_call_count)
      /\ Len(round_spans') <= LiveRounds
      /\ messages'[Len(messages')].round = model_call_count
      /\ Unanswered(messages') \subseteq Unanswered(messages)
      /\ budget_item_index' = budget_item_index
  BY <1>1, <1>2, <1>3, RoundTaken
<1> QED BY <1>2, <1>3, <1>4 DEF FedBack, OnlyMovedTailsCut

(* An emit_value round after an answer.                                       *)
LEMMA ValuesFeedBack ==
  ASSUME LoopInv, pc = "answer", NEW new, IsRound(new, model_call_count),
         new[Len(new)].kind = "values",
         ReplaceValues(new), model_call_count' = model_call_count
  PROVE  FedBack
<1> DEFINE tail == last_emit_value_tail
           kept == IF tail \in 1 .. Len(messages) THEN SubSeq(messages, 1, tail - 1)
                   ELSE messages
           Kept == {k \in DOMAIN round_spans : tail = 0 \/ round_spans[k][2] <= tail}
<1>1. model_call_count \in Int
  BY LoopAssumption DEF LoopInv, ScalarInv
<1>2. /\ Listed(messages, budget_item_index, round_spans, model_call_count)
      /\ Len(round_spans) <= LiveRounds
      /\ tail \in Nat /\ (tail = 0 \/ budget_item_index < tail)
      /\ round_spans \in Seq(Nat \X Nat)
  BY DEF LoopInv, ContextInv
<1>3. PICK place \in [1 .. Cardinality(Kept) -> Kept] :
        /\ \A i, j \in DOMAIN place : i < j => place[i] < place[j]
        /\ last_emit_value_tail' = Len(kept) + 1
        /\ AppendRound(kept, [i \in DOMAIN place |-> round_spans[place[i]]], new)
        /\ pc' = "top"
  BY DEF ReplaceValues
<1> DEFINE left == [i \in DOMAIN place |-> round_spans[place[i]]]
<1>4. KeptBefore(messages, round_spans, budget_item_index, tail, kept, Kept, place, left)
  BY <1>2, <1>3 DEF KeptBefore
<1>5. last_emit_value_tail' = Len(kept) + 1 /\ AppendRound(kept, left, new) /\ pc' = "top"
  BY <1>3
<1> HIDE DEF kept, Kept, left
<1>6. /\ Listed(kept, budget_item_index, left, model_call_count) /\ Len(left) <= Len(round_spans)
      /\ ~TailMoved => Unanswered(kept) \subseteq Unanswered(messages)
  <2>1. /\ Listed(kept, budget_item_index, left, model_call_count) /\ Len(left) <= Len(round_spans)
        /\ tail = 0 \/ (tail < Len(messages) /\ messages[tail + 1].kind = "values")
             => Unanswered(kept) \subseteq Unanswered(messages)
    BY <1>2, <1>4, TailReplaced
  <2> QED BY <2>1 DEF TailMoved
<1>7. Len(left) <= LiveRounds
  <2>1. left \in Seq(Nat \X Nat)
    BY <1>6 DEF Listed
  <2>2. Len(left) \in Nat /\ Len(round_spans) \in Nat /\ LiveRounds \in Nat
    BY <1>2, <2>1, LenProperties, LoopAssumption
  <2> QED BY <1>2, <1>6, <2>2
<1>8. /\ Listed(messages', budget_item_index, round_spans', model_call_count)
      /\ Len(round_spans') <= LiveRounds
      /\ messages'[Len(messages')].round = model_call_count
      /\ messages'[Len(messages')].kind = "values"
      /\ Unanswered(messages') \subseteq Unanswered(kept)
      /\ budget_item_index' = budget_item_index
  BY <1>1, <1>5, <1>6, <1>7, RoundTaken
<1>9. last_emit_value_tail' \in Nat /\ budget_item_index < last_emit_value_tail'
  <2>1. PICK n \in Nat : n = Len(kept)
    BY <1>6, LenProperties DEF Listed
  <2>2. budget_item_index \in StablePrefix + 1 .. n /\ StablePrefix \in Nat
    BY <1>6, <2>1, LoopAssumption DEF Listed, PromptAndBudget
  <2>3. n + 1 \in Nat /\ budget_item_index < n + 1
    BY <2>2
  <2> QED BY <1>5, <2>1, <2>3
<1> QED BY <1>5, <1>6, <1>8, <1>9 DEF FedBack, OnlyMovedTailsCut

(* The head of an iteration: the budget line of the call that follows.        *)
LEMMA AskKeepsContext ==
  ASSUME LoopInv, Ask
  PROVE  ContextInv' /\ Unanswered(messages') \subseteq Unanswered(messages)
<1> DEFINE line == [kind |-> "budget", round |-> model_call_count + 1]
           msgs == IF WrapUpDue THEN Append(messages, Msg("wrap_up")) ELSE messages
           b == budget_item_index
           calls == model_call_count
<1>1. /\ calls \in Nat /\ calls <= MaxCallsHard /\ calls + 1 \in Nat
      /\ pc' = "answer" /\ calls' = calls + 1
      /\ round_spans' = round_spans
      /\ last_emit_value_tail' = last_emit_value_tail
  <2>1. calls \in Nat /\ MaxCallsHard \in Nat
    BY LoopAssumption DEF LoopInv, ScalarInv
  <2>2. calls <= MaxCallsHard
    BY <2>1 DEF Ask, Exhausted
  <2> QED BY <2>1, <2>2 DEF Ask
<1>2. /\ line \in Message /\ line.kind = "budget" /\ line.round = calls + 1
      /\ Msg("wrap_up") \in Message /\ Msg("wrap_up").kind = "wrap_up"
  <2>1. calls \in 0 .. MaxCallsHard + 1 /\ calls + 1 \in 0 .. MaxCallsHard + 1
    BY <1>1, LoopAssumption
  <2> QED BY <2>1 DEF Msg, Message
<1>3. Announce(msgs, line)
  BY DEF Ask
<1>4. /\ messages \in Seq(Message) /\ b \in Nat
      /\ round_spans \in Seq(Nat \X Nat) /\ last_emit_value_tail \in Nat
      /\ Len(round_spans) <= LiveRounds
  BY DEF LoopInv, ContextInv
<1> HIDE DEF line
<1>5. CASE b = 0
  <2>1. messages = Prompt /\ round_spans = <<>> /\ last_emit_value_tail = 0
    BY <1>5 DEF LoopInv, ContextInv
  <2>2. StablePrefix \in Nat
    BY LoopAssumption
  <2>3. /\ Len(messages) = StablePrefix
        /\ \A i \in 1 .. StablePrefix : messages[i].kind = "prompt"
    BY <2>1, <2>2 DEF Prompt
  <2>9. /\ msgs \in Seq(Message) /\ Len(msgs) >= StablePrefix
        /\ \A i \in 1 .. StablePrefix : msgs[i].kind = "prompt"
        /\ \A i \in 1 .. Len(msgs) : msgs[i].kind \in {"prompt", "wrap_up"}
    <3>1. CASE WrapUpDue
      <4> DEFINE m == Append(messages, Msg("wrap_up"))
                 N == Len(m)
      <4>1. /\ m \in Seq(Message) /\ N = StablePrefix + 1
            /\ \A i \in 1 .. StablePrefix : m[i] = messages[i]
            /\ m[StablePrefix + 1] = Msg("wrap_up")
        BY <1>2, <1>4, <2>3, AppendProperties
      <4>2. msgs = m /\ Len(msgs) = N
        BY <3>1
      <4> HIDE DEF m, N, msgs
      <4>3. N >= StablePrefix
        BY <2>2, <4>1
      <4>4. \A i \in 1 .. N : i \in 1 .. StablePrefix \/ i = StablePrefix + 1
        BY <2>2, <4>1
      <4>5. \A i \in 1 .. N : m[i].kind \in {"prompt", "wrap_up"}
        BY <1>2, <2>3, <4>1, <4>4
      <4> QED BY <2>3, <4>1, <4>2, <4>3, <4>5
    <3>2. CASE ~WrapUpDue
      BY <1>4, <2>2, <2>3, <3>2
    <3> QED BY <3>1, <3>2
  <2>4. BeforeFirstLine(msgs) /\ msgs \in Seq(Message)
    BY <2>9 DEF BeforeFirstLine
  <2> DEFINE n == Len(msgs)
  <2>5. messages' = Append(msgs, line) /\ budget_item_index' = n + 1
    BY <1>3, <1>5 DEF Announce
  <2> HIDE DEF msgs
  <2>6. /\ Listed(Append(msgs, line), n + 1, <<>>, calls + 1)
        /\ Append(msgs, line)[n + 1] = line
        /\ Unanswered(Append(msgs, line)) = {}
    BY <1>2, <2>4, FirstLine
  <2>7. n + 1 \in Nat /\ n + 1 # 0
    <3>1. n \in Nat
      BY <2>4, LenProperties
    <3> HIDE DEF n
    <3> QED BY <3>1
  <2>8. messages' \in Seq(Message)
    BY <2>5, <2>6 DEF Listed
  <2> HIDE DEF n, b, calls
  <2> QED BY <1>1, <1>2, <1>4, <2>1, <2>5, <2>6, <2>7, <2>8 DEF ContextInv, calls, b
<1>6. CASE b # 0
  <2>1. /\ Listed(messages, b, round_spans, calls)
        /\ last_emit_value_tail = 0 \/ b < last_emit_value_tail
    BY <1>6 DEF LoopInv, ContextInv
  <2>2. /\ Listed(msgs, b, round_spans, calls)
        /\ Unanswered(msgs) \subseteq Unanswered(messages)
    BY <1>2, <2>1, LineAppended
  <2>3. messages' = [msgs EXCEPT ![b] = line] /\ budget_item_index' = b
    BY <1>3, <1>6 DEF Announce
  <2> HIDE DEF msgs
  <2>4. /\ Listed([msgs EXCEPT ![b] = line], b, round_spans, calls + 1)
        /\ [msgs EXCEPT ![b] = line][b] = line
        /\ Unanswered([msgs EXCEPT ![b] = line]) \subseteq Unanswered(msgs)
    <3>1. calls \in Int /\ calls + 1 \in Int /\ calls <= calls + 1
      BY <1>1
    <3> QED BY <1>2, <2>2, <3>1, LineRewritten
  <2>5. messages' \in Seq(Message)
    BY <2>3, <2>4 DEF Listed
  <2> QED BY <1>1, <1>2, <1>4, <1>6, <2>1, <2>2, <2>3, <2>4, <2>5 DEF ContextInv
<1> QED BY <1>5, <1>6

(* Every step leaves the context alone, feeds a round back or is an Ask.      *)
LEMMA StepContext ==
  ASSUME LoopInv, Next
  PROVE  \/ /\ UNCHANGED context /\ UNCHANGED model_call_count
            /\ pc' = "answer" => pc = "answer"
         \/ pc = "answer" /\ FedBack
         \/ Ask
<1>1. CASE Elapse
  BY <1>1 DEF Elapse
<1>2. CASE GiveUp \/ ModelFailed \/ SameSource
  BY <1>2 DEF GiveUp, ModelFailed, SameSource, Return
<1>3. CASE ModelRetried
  BY <1>3 DEF ModelRetried
<1>4. CASE FailedAgain \/ Finished
  BY <1>4 DEF FailedAgain, Finished, Ran, NewSource, Return
<1>5. CASE CallerCommits
  BY <1>5 DEF CallerCommits
<1>6. ScalarInv
  BY DEF LoopInv
<1>7. /\ IsRound(Exchange, model_call_count)
      /\ IsRound(<<Msg("call"), Msg("values")>>, model_call_count)
      /\ IsRound(<<Msg("nudge")>>, model_call_count)
  BY <1>6, RoundShapes DEF Exchange
<1>8. CASE ProtocolFailed
  <2>1. pc = "answer" /\ Feedback(Exchange) /\ model_call_count' = model_call_count
    BY <1>8 DEF ProtocolFailed, Answered
  <2> QED BY <1>7, <2>1, FeedbackFeedsBack
<1>9. CASE Failed
  <2>1. pc = "answer" /\ Feedback(Exchange) /\ model_call_count' = model_call_count
    BY <1>9 DEF Failed, NewSource, Answered
  <2> QED BY <1>7, <2>1, FeedbackFeedsBack
<1>10. CASE MessageRejected
  <2>1. pc = "answer" /\ Feedback(Exchange) /\ model_call_count' = model_call_count
    BY <1>10 DEF MessageRejected, GoesOn, Ran, NewSource, Answered
  <2> QED BY <1>7, <2>1, FeedbackFeedsBack
<1>11. CASE ValuesEmitted
  <2>1. /\ pc = "answer" /\ model_call_count' = model_call_count
        /\ ReplaceValues(<<Msg("call"), Msg("values")>>)
    BY <1>11 DEF ValuesEmitted, GoesOn, Ran, NewSource, Answered
  <2> DEFINE two == <<Msg("call"), Msg("values")>>
  <2>2. two[Len(two)].kind = "values"
    BY DEF Msg
  <2> HIDE DEF two
  <2> QED BY <1>7, <2>1, <2>2, ValuesFeedBack DEF two
<1>12. CASE Traced
  <2>1. PICK p \in Program :
          GoesOn(p) /\ Feedback(IF p.attempts # {} THEN Exchange ELSE <<Msg("nudge")>>)
    BY <1>12 DEF Traced
  <2>2. pc = "answer" /\ model_call_count' = model_call_count
    BY <2>1 DEF GoesOn, Ran, NewSource, Answered
  <2>3. CASE p.attempts # {}
    BY <1>7, <2>1, <2>2, <2>3, FeedbackFeedsBack
  <2>4. CASE p.attempts = {}
    BY <1>7, <2>1, <2>2, <2>4, FeedbackFeedsBack
  <2> QED BY <2>3, <2>4
<1> QED
  BY <1>1, <1>2, <1>3, <1>4, <1>5, <1>8, <1>9, <1>10, <1>11, <1>12 DEF Next, Loop

(* Each step keeps the list of messages in order. *)
LEMMA ContextStep == LoopInv /\ [Next]_vars => ContextInv'
<1> SUFFICES ASSUME LoopInv, [Next]_vars PROVE ContextInv'
  OBVIOUS
<1>1. CASE /\ UNCHANGED context /\ UNCHANGED model_call_count
           /\ pc' = "answer" => pc = "answer"
  <2>1. ContextInv
    BY DEF LoopInv
  <2>2. /\ messages' = messages /\ budget_item_index' = budget_item_index
        /\ round_spans' = round_spans /\ last_emit_value_tail' = last_emit_value_tail
        /\ model_call_count' = model_call_count
        /\ pc' = "answer" => pc = "answer"
    BY <1>1 DEF context
  <2> QED BY <2>1, <2>2 DEF ContextInv
<1>2. CASE pc = "answer" /\ FedBack
  <2>1. budget_item_index # 0 /\ budget_item_index \in Nat
    BY <1>2 DEF LoopInv, ContextInv
  <2>2. messages' \in Seq(Message) /\ round_spans' \in Seq(Nat \X Nat)
    BY <1>2 DEF FedBack, Listed
  <2>3. /\ Listed(messages', budget_item_index, round_spans', model_call_count)
        /\ Len(round_spans') <= LiveRounds
        /\ budget_item_index' = budget_item_index
        /\ last_emit_value_tail' \in Nat
        /\ last_emit_value_tail' = 0 \/ budget_item_index < last_emit_value_tail'
        /\ model_call_count' = model_call_count
        /\ pc' # "answer"
    BY <1>2 DEF FedBack
  <2> QED BY <2>1, <2>2, <2>3 DEF ContextInv
<1>3. CASE Ask
  BY <1>3, AskKeepsContext
<1>4. CASE UNCHANGED vars
  BY <1>1, <1>4 DEF vars, context
<1>5. CASE Next
  BY <1>1, <1>2, <1>3, <1>5, StepContext
<1> QED BY <1>4, <1>5

(* What a program leaves behind has the right types.                          *)
LEMMA ProgramTypes ==
  ASSUME ScalarInv, NewSource, NEW attempts
  PROVE  /\ pc = "answer" /\ outcome = None
         /\ UNCHANGED <<elapsed, model_call_count, wrap_up_nudge_injected>>
         /\ prev_run_source' \in Source \cup {None}
         /\ Stage(attempts) => pending' \subseteq Round
         /\ Ground(attempts) => grounded' \in BOOLEAN
<1>1. pc = "answer" /\ outcome = None
  BY DEF NewSource, Answered, ScalarInv
<1>2. UNCHANGED <<elapsed, model_call_count, wrap_up_nudge_injected>>
  BY DEF NewSource
<1>3. prev_run_source' \in Source \cup {None}
  BY DEF NewSource
<1>4. model_call_count \in Round
  <2>1. model_call_count \in 0 .. MaxCallsHard + 1 /\ model_call_count >= 1
    BY <1>1 DEF ScalarInv
  <2> QED BY <2>1, LoopAssumption DEF Round
<1>5. Stage(attempts) => pending' \subseteq Round
  BY <1>4 DEF Stage, ScalarInv
<1>6. Ground(attempts) => grounded' \in BOOLEAN
  BY Zenon DEF Ground
<1> QED BY <1>1, <1>2, <1>3, <1>5, <1>6

(* A program that lets the loop go on did not exceed the rejections, and any  *)
(* outcome is one of the outcomes.                                            *)
LEMMA OutcomeTypes ==
  ASSUME ScalarInv, pc = "answer", NEW p \in Program, CountRejection(p)
  PROVE  /\ OutcomeOf(p) \in Outcome \cup {None}
         /\ rejections' \in 0 .. RejectionLimit + 1
         /\ OutcomeOf(p) = None => rejections' <= RejectionLimit
<1>1. rejections \in Nat /\ rejections <= RejectionLimit /\ RejectionLimit \in Nat
  BY LoopAssumption DEF ScalarInv
<1>2. rejections' = rejections \/ rejections' = rejections + 1
  BY DEF CountRejection
<1>3. rejections' \in 0 .. RejectionLimit + 1
  BY <1>1, <1>2
<1>4. OutcomeOf(p) \in Outcome \cup {None}
  BY DEF OutcomeOf, Outcome
<1>5. ASSUME OutcomeOf(p) = None PROVE rejections' <= RejectionLimit
  <2>1. None \notin Outcome
    BY LoopAssumption
  <2>2. ~GroundingExhausted(p)
    <3> SUFFICES ASSUME GroundingExhausted(p) PROVE FALSE
      OBVIOUS
    <3>1. p.output # "terminal"
      BY DEF GroundingExhausted, Ungrounded
    <3>2. OutcomeOf(p) \in Outcome
      BY <3>1 DEF OutcomeOf, Outcome
    <3> QED BY <1>5, <2>1, <3>2
  <2>3. CASE Ungrounded(p)
    BY <1>1, <2>2, <2>3 DEF GroundingExhausted, CountRejection
  <2>4. CASE ~Ungrounded(p)
    BY <1>1, <2>4 DEF CountRejection
  <2> QED BY <2>3, <2>4
<1> QED BY <1>3, <1>4, <1>5

(* Each step keeps the counters within their limits. *)
LEMMA ScalarStep == LoopInv /\ [Next]_vars => ScalarInv'
<1> SUFFICES ASSUME ScalarInv, [Next]_vars PROVE ScalarInv'
  BY DEF LoopInv
<1>0. None \notin Outcome
  BY LoopAssumption
<1>1. CASE Elapse
  BY <1>1 DEF Elapse, staged, ScalarInv
<1>2. ASSUME NEW o \in Outcome, Return(o),
             UNCHANGED <<elapsed, model_call_count, wrap_up_nudge_injected,
                         prev_run_source, last_program_errors, rejections, grounded, staged>>
      PROVE  ScalarInv'
  BY <1>0, <1>2 DEF Return, staged, ScalarInv
<1>3. CASE GiveUp
  BY <1>2, <1>3 DEF GiveUp, Outcome
<1>4. CASE ModelFailed
  BY <1>2, <1>4 DEF ModelFailed, Outcome
<1>5. CASE SameSource
  BY <1>2, <1>5 DEF SameSource, Outcome
<1>6. CASE Ask
  <2>1. pc = "top" /\ pc' = "answer" /\ outcome' = outcome /\ outcome = None
    BY <1>6 DEF Ask, ScalarInv
  <2>2. /\ model_call_count' \in 0 .. MaxCallsHard + 1
        /\ model_call_count' >= 1
    <3>1. model_call_count \in Nat /\ MaxCallsHard \in Nat
      BY LoopAssumption DEF ScalarInv
    <3>2. model_call_count <= MaxCallsHard
      BY <1>6, <3>1 DEF Ask, Exhausted
    <3>3. model_call_count' = model_call_count + 1
      BY <1>6 DEF Ask
    <3> QED BY <3>1, <3>2, <3>3
  <2>3. wrap_up_nudge_injected' \in BOOLEAN
    <3>1. wrap_up_nudge_injected' = (wrap_up_nudge_injected \/ WrapUpDue)
      BY <1>6 DEF Ask
    <3> QED BY <3>1, Zenon
  <2>4. UNCHANGED <<elapsed, prev_run_source, last_program_errors, rejections, grounded,
                    pending, committed>>
    BY <1>6 DEF Ask, staged
  <2> QED BY <2>1, <2>2, <2>3, <2>4 DEF ScalarInv
<1>7. CASE ModelRetried
  BY <1>7 DEF ModelRetried, Answered, staged, ScalarInv
<1>8. CASE ProtocolFailed
  BY <1>8 DEF ProtocolFailed, Answered, Feedback, staged, ScalarInv
<1>9. CASE FailedAgain
  <2>1. PICK attempts \in Attempts :
          /\ NewSource /\ Stage(attempts) /\ Ground(attempts)
          /\ UNCHANGED <<last_program_errors, rejections, committed>>
          /\ Return("budget_exhausted")
    BY <1>9 DEF FailedAgain
  <2>2. /\ UNCHANGED <<elapsed, model_call_count, wrap_up_nudge_injected>>
        /\ prev_run_source' \in Source \cup {None}
        /\ pending' \subseteq Round /\ grounded' \in BOOLEAN
    BY <2>1, ProgramTypes
  <2>3. pc' = "returned" /\ outcome' = "budget_exhausted" /\ outcome' \in Outcome
    BY <2>1 DEF Return, Outcome
  <2> QED BY <1>0, <2>1, <2>2, <2>3 DEF ScalarInv
<1>10. CASE Failed
  <2>1. PICK attempts \in Attempts :
          /\ NewSource /\ Ground(attempts) /\ StageVoided(attempts) /\ Commit
          /\ last_program_errors' \in Error /\ rejections' = rejections
          /\ Feedback(Exchange)
    BY <1>10 DEF Failed
  <2>2. /\ pc = "answer" /\ outcome = None
        /\ UNCHANGED <<elapsed, model_call_count, wrap_up_nudge_injected>>
        /\ prev_run_source' \in Source \cup {None}
        /\ grounded' \in BOOLEAN
    BY <2>1, ProgramTypes
  <2>3. pc' = "top" /\ outcome' = outcome
    BY <2>1 DEF Feedback
  <2>4. pending' = pending /\ committed' = pending
    BY <2>1 DEF StageVoided, Commit
  <2> QED BY <2>1, <2>2, <2>3, <2>4 DEF ScalarInv
<1>11. ASSUME NEW p \in Program, Ran(p), CountRejection(p)
       PROVE  /\ pc = "answer" /\ outcome = None
              /\ UNCHANGED <<elapsed, model_call_count, wrap_up_nudge_injected>>
              /\ prev_run_source' \in Source \cup {None}
              /\ last_program_errors' = None
              /\ pending' \subseteq Round /\ committed' \subseteq Round
              /\ grounded' \in BOOLEAN
              /\ OutcomeOf(p) \in Outcome \cup {None}
              /\ rejections' \in 0 .. RejectionLimit + 1
              /\ OutcomeOf(p) = None => rejections' <= RejectionLimit
  <2>1. /\ NewSource /\ Stage(p.attempts) /\ Ground(p.attempts)
        /\ last_program_errors' = None /\ committed' = pending'
    BY <1>11 DEF Ran, Commit
  <2>2. /\ pc = "answer" /\ outcome = None
        /\ UNCHANGED <<elapsed, model_call_count, wrap_up_nudge_injected>>
        /\ prev_run_source' \in Source \cup {None}
        /\ pending' \subseteq Round /\ grounded' \in BOOLEAN
    BY <2>1, ProgramTypes
  <2>3. /\ OutcomeOf(p) \in Outcome \cup {None}
        /\ rejections' \in 0 .. RejectionLimit + 1
        /\ OutcomeOf(p) = None => rejections' <= RejectionLimit
    BY <1>11, <2>2, OutcomeTypes
  <2> QED BY <2>1, <2>2, <2>3
<1>12. CASE Finished
  <2>1. PICK p \in Program :
          Ran(p) /\ CountRejection(p) /\ OutcomeOf(p) # None /\ Return(OutcomeOf(p))
    BY <1>12 DEF Finished
  <2>2. pc' = "returned" /\ outcome' \in Outcome
    BY <1>11, <2>1 DEF Return
  <2>3. UNCHANGED <<elapsed, model_call_count, wrap_up_nudge_injected>>
    BY <1>11, <2>1
  <2>4. /\ prev_run_source' \in Source \cup {None}
        /\ last_program_errors' = None
        /\ pending' \subseteq Round /\ committed' \subseteq Round
        /\ grounded' \in BOOLEAN
        /\ rejections' \in 0 .. RejectionLimit + 1
    BY <1>11, <2>1
  <2> QED BY <1>0, <2>2, <2>3, <2>4 DEF ScalarInv
<1>13. ASSUME NEW p \in Program, GoesOn(p), pc' = "top", outcome' = outcome PROVE ScalarInv'
  <2>1. Ran(p) /\ CountRejection(p) /\ OutcomeOf(p) = None
    BY <1>13 DEF GoesOn
  <2>2. /\ outcome = None
        /\ UNCHANGED <<elapsed, model_call_count, wrap_up_nudge_injected>>
        /\ prev_run_source' \in Source \cup {None}
        /\ last_program_errors' = None
        /\ pending' \subseteq Round /\ committed' \subseteq Round
        /\ grounded' \in BOOLEAN
        /\ rejections' \in 0 .. RejectionLimit + 1
        /\ rejections' <= RejectionLimit
    BY <1>11, <2>1
  <2> QED BY <1>13, <2>2 DEF ScalarInv
<1>14. CASE MessageRejected
  BY <1>13, <1>14 DEF MessageRejected, Feedback
<1>15. CASE ValuesEmitted
  BY <1>13, <1>15 DEF ValuesEmitted, ReplaceValues
<1>16. CASE Traced
  BY <1>13, <1>16 DEF Traced, Feedback
<1>17. CASE CallerCommits
  BY <1>17 DEF CallerCommits, ScalarInv
<1>18. CASE UNCHANGED vars
  BY <1>18 DEF vars, ScalarInv
<1> QED
  BY <1>1, <1>3, <1>4, <1>5, <1>6, <1>7, <1>8, <1>9, <1>10, <1>12, <1>14, <1>15,
     <1>16, <1>17, <1>18 DEF Next, Loop

(* The prompt of a turn is a list with nothing behind its budget line. *)
LEMMA InitLoopInv == Init => LoopInv
<1> SUFFICES ASSUME Init PROVE LoopInv
  OBVIOUS
<1>1. Prompt \in Seq(Message)
  <2>1. [kind |-> "prompt", round |-> 0] \in Message /\ StablePrefix \in Nat
    BY LoopAssumption DEF Message
  <2> DEFINE m == [kind |-> "prompt", round |-> 0]
  <2>2. m \in Message
    BY <2>1
  <2> HIDE DEF m
  <2>3. [i \in 1 .. StablePrefix |-> m] \in Seq(Message)
    BY <2>1, <2>2
  <2> QED BY <2>3 DEF Prompt, m
<1>2. <<>> \in Seq(Nat \X Nat) /\ Len(<<>>) = 0
  BY EmptySeq
<1>3. grounded \in BOOLEAN
  BY DEF Init
<1>4. ScalarInv
  <2>1. /\ 0 \in 0 .. 2 /\ 0 \in 0 .. MaxCallsHard + 1
        /\ 0 \in 0 .. RejectionLimit + 1 /\ 0 <= RejectionLimit
    BY LoopAssumption
  <2>2. wrap_up_nudge_injected \in BOOLEAN
    BY DEF Init
  <2>3. /\ pc = "top" /\ outcome = None /\ elapsed = 0 /\ model_call_count = 0
        /\ prev_run_source = None /\ last_program_errors = None /\ rejections = 0
        /\ pending = {} /\ committed = {}
    BY DEF Init
  <2> QED BY <1>3, <2>1, <2>2, <2>3 DEF ScalarInv
<1>5. ContextInv
  <2>1. /\ messages = Prompt /\ budget_item_index = 0 /\ round_spans = <<>>
        /\ last_emit_value_tail = 0 /\ pc # "answer"
    BY DEF Init, Prompt
  <2> QED BY <1>1, <1>2, <2>1, LoopAssumption DEF ContextInv
<1> QED BY <1>4, <1>5 DEF LoopInv

(* Each step keeps the invariant. *)
LEMMA StepLoopInv == LoopInv /\ [Next]_vars => LoopInv'
BY ScalarStep, ContextStep DEF LoopInv

(* The invariant holds throughout a turn. *)
LEMMA SpecLoopInv == Spec => []LoopInv
BY InitLoopInv, StepLoopInv, PTL DEF Spec

(* The variables of run_agent_loop keep their types, and no more than the     *)
(* hard cap's calls and one are made, no more rejections than the limit's and *)
(* one counted.                                                               *)
THEOREM LoopTypes == Spec => []TypeOK
BY SpecLoopInv, LoopTyped, PTL

(* There are no more rounds in the messages than spans.                       *)
LEMMA RoundsHaveSpans ==
  ASSUME NEW msgs, NEW b, NEW spans, NEW calls, Listed(msgs, b, spans, calls)
  PROVE  /\ IsFiniteSet(RoundsIn(msgs))
         /\ Cardinality(RoundsIn(msgs)) <= Len(spans)
<1> DEFINE c == Len(spans)
           f == [k \in 1 .. c |-> msgs[spans[k][1]].round]
           T == {f[k] : k \in 1 .. c}
<1>1. c \in Nat /\ DOMAIN msgs = 1 .. Len(msgs)
  BY LenProperties DEF Listed
<1>2. RoundsIn(msgs) \subseteq T
  <2> SUFFICES ASSUME NEW r \in RoundsIn(msgs) PROVE r \in T
    OBVIOUS
  <2>1. PICK i \in 1 .. Len(msgs) : msgs[i].kind \in {"return", "values"} /\ r = msgs[i].round
    BY <1>1 DEF RoundsIn
  <2>2. PICK k \in 1 .. c : msgs[spans[k][1]].round = r
    BY <2>1, ReturnIsTracked
  <2>3. f[k] = r
    BY <2>2
  <2> HIDE DEF f
  <2> QED BY <2>3
<1>3. f \in Surjection(1 .. c, T)
  BY DEF Surjection
<1>4. IsFiniteSet(1 .. c) /\ Cardinality(1 .. c) = c
  <2> HIDE DEF c
  <2> QED BY <1>1, FS_Interval
<1> HIDE DEF f, T, c
<1>5. IsFiniteSet(T) /\ Cardinality(T) <= c
  BY <1>3, <1>4, FS_Surjection
<1>6. /\ IsFiniteSet(RoundsIn(msgs))
      /\ Cardinality(RoundsIn(msgs)) <= Cardinality(T)
  BY <1>2, <1>5, FS_Subset
<1>7. Cardinality(RoundsIn(msgs)) \in Nat /\ Cardinality(T) \in Nat
  BY <1>5, <1>6, FS_CardinalityType
<1> QED BY <1>1, <1>5, <1>6, <1>7 DEF c

(* What the invariant says of the messages at any time.                       *)
LEMMA ContextInOrder ==
  LoopInv => PromptAndBudgetKept /\ ReturnsFollowCalls /\ WindowBounded
<1>1. LoopInv => PromptAndBudgetKept /\ ReturnsFollowCalls /\ WindowBounded
  <2> SUFFICES ASSUME LoopInv PROVE PromptAndBudgetKept /\ ReturnsFollowCalls /\ WindowBounded
    OBVIOUS
  <2>1. ContextInv
    BY DEF LoopInv
  <2>2. messages \in Seq(Message) /\ DOMAIN messages = 1 .. Len(messages)
    BY <2>1, LenProperties DEF ContextInv
  <2>3. ReturnsFollowCalls
    <3> SUFFICES ASSUME NEW i \in 1 .. Len(messages), messages[i].kind \in {"return", "values"}
                 PROVE  /\ i > 1
                        /\ messages[i - 1] = [kind |-> "call", round |-> messages[i].round]
      BY <2>2 DEF ReturnsFollowCalls
    <3>1. CASE budget_item_index = 0
      <4>1. messages = Prompt /\ StablePrefix \in Nat
        BY <2>1, <3>1, LoopAssumption DEF ContextInv
      <4>2. Len(messages) = StablePrefix
        BY <4>1 DEF Prompt
      <4>3. messages[i].kind = "prompt"
        BY <4>1, <4>2 DEF Prompt
      <4> QED BY <4>3
    <3>2. CASE budget_item_index # 0
      <4>1. Listed(messages, budget_item_index, round_spans, model_call_count)
        BY <2>1, <3>2 DEF ContextInv
      <4>2. /\ i > 1
            /\ messages[i - 1].kind = "call" /\ messages[i - 1].round = messages[i].round
            /\ messages[i - 1] \in Message
        BY <4>1, ReturnIsTracked
      <4>3. messages[i - 1] = [kind |-> "call", round |-> messages[i].round]
        BY <4>2 DEF Message
      <4> QED BY <4>2, <4>3
    <3> QED BY <3>1, <3>2
  <2>4. ASSUME pc = "answer"
        PROVE  /\ Listed(messages, budget_item_index, round_spans, model_call_count)
               /\ messages[budget_item_index].round = model_call_count
               /\ Len(round_spans) <= LiveRounds
    BY <2>1, <2>4 DEF ContextInv
  <2>5. PromptAndBudgetKept
    BY <2>2, <2>4 DEF PromptAndBudgetKept, Listed, PromptAndBudget
  <2>6. WindowBounded
    <3> SUFFICES ASSUME pc = "answer" PROVE Cardinality(RoundsIn(messages)) <= LiveRounds
      BY DEF WindowBounded
    <3>1. /\ IsFiniteSet(RoundsIn(messages))
          /\ Cardinality(RoundsIn(messages)) <= Len(round_spans)
      BY <2>4, RoundsHaveSpans
    <3>2. Len(round_spans) \in Nat /\ LiveRounds \in Nat /\ Len(round_spans) <= LiveRounds
      BY <2>1, <2>4, LenProperties, LoopAssumption DEF ContextInv
    <3> QED BY <3>1, <3>2, FS_CardinalityType
  <2> QED BY <2>3, <2>5, <2>6
<1> QED BY <1>1

(* No step leaves a call without its return but an emit_value round whose     *)
(* predecessor was moved.                                                     *)
LEMMA CallsKeepReturns ==
  ASSUME LoopInv, Next
  PROVE  OnlyMovedTailsCut
<1>1. CASE UNCHANGED context
  BY <1>1 DEF context, OnlyMovedTailsCut
<1>2. CASE FedBack
  BY <1>2 DEF FedBack
<1>3. CASE Ask
  BY <1>3, AskKeepsContext DEF OnlyMovedTailsCut
<1> QED BY <1>1, <1>2, <1>3, StepContext

(* The model is asked with the whole prompt, with one budget line, this       *)
(* call's, with the call before each return and with no more rounds than the  *)
(* window has; and a call keeps its return unless an emit_value round cuts    *)
(* the list at a position that an eviction has made stale                     *)
(* (_evict_oldest_round and the removal of superseded values).                *)
THEOREM ContextStaysWellFormed == Spec => ContextWellFormed
<1> DEFINE Kept == /\ PromptAndBudgetKept' /\ ReturnsFollowCalls' /\ WindowBounded'
                   /\ OnlyMovedTailsCut
<1>1. LoopInv /\ LoopInv' /\ [Next]_vars => [Kept]_vars
  BY ContextInOrder, CallsKeepReturns, PTL
<1>2. Spec => [][Kept]_vars
  BY <1>1, SpecLoopInv, PTL DEF Spec
<1> QED BY <1>2 DEF ContextWellFormed

(* After an answer the messages end with its round, and the rounds that are   *)
(* left stand in the order in which they were made (run_agent_loop).          *)
THEOREM LatestRoundIsSeen == Spec => LatestRoundKept
<1> DEFINE Seen == pc = "answer" /\ messages' # messages =>
       /\ messages'[Len(messages')].round = model_call_count
       /\ \A i, j \in DOMAIN messages' :
            i < j /\ {messages'[i].kind, messages'[j].kind} \subseteq {"call", "return", "values"}
              => messages'[i].round <= messages'[j].round
<1>1. LoopInv /\ [Next]_vars => [Seen]_vars
  <2> SUFFICES ASSUME LoopInv, Next, pc = "answer", messages' # messages
               PROVE  /\ messages'[Len(messages')].round = model_call_count
                      /\ \A i, j \in DOMAIN messages' :
                           i < j /\ {messages'[i].kind, messages'[j].kind}
                                      \subseteq {"call", "return", "values"}
                             => messages'[i].round <= messages'[j].round
    OBVIOUS
  <2>1. ~Ask
    BY DEF Ask
  <2>2. FedBack
    BY <2>1, StepContext DEF context
  <2>3. /\ Listed(messages', budget_item_index, round_spans', model_call_count)
        /\ messages'[Len(messages')].round = model_call_count
    BY <2>2 DEF FedBack
  <2>4. DOMAIN messages' = 1 .. Len(messages')
    BY <2>3, LenProperties DEF Listed
  <2>5. \A i, j \in 1 .. Len(messages') :
          i < j /\ messages'[i].kind \in Exchanged /\ messages'[j].kind \in Exchanged
            => messages'[i].round <= messages'[j].round
    BY <2>3 DEF Listed, RoundsInOrder
  <2> QED BY <2>3, <2>4, <2>5 DEF Exchanged
<1>2. Spec => [][Seen]_vars
  BY <1>1, SpecLoopInv, PTL DEF Spec
<1> QED BY <1>2 DEF LatestRoundKept

=============================================================================
