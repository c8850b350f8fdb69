------------------------------ MODULE AgentLoop ------------------------------
(***************************************************************************)
(* run_agent_loop of agent_loop.py, which drives the main agent, research, *)
(* the memory retriever and the rememberer: ask the model, run the program *)
(* it wrote, feed the result back, until an outcome.                       *)
(*                                                                         *)
(* Two things are kept consistent by hand.  The list of messages is edited *)
(* by position from three places: a budget line rewritten in place, a      *)
(* sliding window of rounds, and the removal of superseded emit_value      *)
(* rounds.  And the session is committed once per program, whatever the    *)
(* program staged, with the approvals of a failed program voided first.    *)
(*                                                                         *)
(* Positions are those of TLA+ sequences, counted from 1; a span is a pair *)
(* of its first position and the first position after it.                  *)
(***************************************************************************)
EXTENDS Integers, Sequences, FiniteSets

CONSTANTS
  Mode,             \* output_mode: "message", "finding" or "operations"
  StablePrefix,     \* stable_prefix_len
  LiveRounds,       \* agent_loop_live_rounds
  MaxCallsSoft, MaxCallsHard,  \* max_model_calls_soft and _hard
  RejectionLimit,   \* _PROVIDER_SYNC_GROUNDING_REJECTION_LIMIT
  Source,           \* texts of programs
  Error,            \* lists of program errors, never empty
  None

Outcome == {"message", "finding", "operations", "approval", "silent",
            "budget_exhausted", "model_failed"}

ASSUME LoopAssumption ==
  /\ Mode \in {"message", "finding", "operations"}
  /\ StablePrefix \in Nat \ {0}
  /\ LiveRounds \in Nat \ {0}
  /\ MaxCallsSoft \in Nat /\ MaxCallsHard \in Nat
  /\ MaxCallsSoft <= MaxCallsHard
  \* the loops of subagents have soft = hard
  /\ Mode # "message" => MaxCallsSoft = MaxCallsHard
  /\ RejectionLimit \in Nat
  /\ None \notin Source \cup Error \cup Outcome

VARIABLES
  pc,        \* "top" of the while loop, "answer" of the model, "returned", "done"
  outcome,   \* LoopResult.outcome
  elapsed,   \* 0: within the budget, 1: past the soft one, 2: past the hard one
  model_call_count,
  wrap_up_nudge_injected,
  messages, budget_item_index, round_spans, last_emit_value_tail,  \* 0 for None
  prev_run_source, last_program_errors,
  rejections,  \* provider_sync_grounding_rejection_count
  grounded,    \* _provider_sync_grounding_satisfied
  pending,     \* rounds whose program staged an approval that is pending
  committed    \* the same, as the database has it

context == <<messages, budget_item_index, round_spans, last_emit_value_tail>>
staged == <<pending, committed>>
vars == <<pc, outcome, elapsed, model_call_count, wrap_up_nudge_injected,
          messages, budget_item_index, round_spans, last_emit_value_tail,
          prev_run_source, last_program_errors, rejections, grounded,
          pending, committed>>

Round == 1 .. MaxCallsHard + 1
Message == [kind : {"prompt", "wrap_up", "budget", "call", "return", "values", "nudge"},
            round : 0 .. MaxCallsHard + 1]

(* grounded starts FALSE in a wake that carries ids of provider evidence. *)
Init ==
  /\ pc = "top"
  /\ outcome = None
  /\ elapsed = 0
  /\ model_call_count = 0
  /\ wrap_up_nudge_injected = FALSE
  /\ messages = [i \in 1 .. StablePrefix |-> [kind |-> "prompt", round |-> 0]]
  /\ budget_item_index = 0
  /\ round_spans = <<>>
  /\ last_emit_value_tail = 0
  /\ prev_run_source = None
  /\ last_program_errors = None
  /\ rejections = 0
  /\ IF Mode = "message" THEN grounded \in BOOLEAN ELSE grounded = TRUE
  /\ pending = {}
  /\ committed = {}

Msg(kind) == [kind |-> kind, round |-> model_call_count]
Exchange == <<Msg("call"), Msg("return")>>

-----------------------------------------------------------------------------
(* Time passes; a subagent's soft budget is its hard budget. *)
Elapse ==
  /\ pc = "answer"
  /\ \E e \in IF Mode = "message" THEN 1 .. 2 ELSE {2} : e > elapsed /\ elapsed' = e
  /\ UNCHANGED <<pc, outcome, model_call_count, wrap_up_nudge_injected, context,
                 prev_run_source, last_program_errors, rejections, grounded, staged>>

(* Mutant: a count of calls past the hard cap does not end the loop. *)
ExhaustedBySeconds == elapsed = 2
Exhausted == elapsed = 2 \/ model_call_count > MaxCallsHard

Return(o) == pc' = "returned" /\ outcome' = o

GiveUp ==
  /\ pc = "top"
  /\ Exhausted
  /\ Return("budget_exhausted")
  /\ UNCHANGED <<elapsed, model_call_count, wrap_up_nudge_injected, context,
                 prev_run_source, last_program_errors, rejections, grounded, staged>>

WrapUpDue ==
  ~wrap_up_nudge_injected /\ (elapsed >= 1 \/ model_call_count > MaxCallsSoft)

(* The remaining budget: one line, rewritten in place. *)
Announce(msgs, line) ==
  IF budget_item_index = 0
  THEN /\ messages' = Append(msgs, line)
       /\ budget_item_index' = Len(msgs) + 1
  ELSE /\ messages' = [msgs EXCEPT ![budget_item_index] = line]
       /\ UNCHANGED budget_item_index

(* The head of an iteration, up to the call of the model. *)
Ask ==
  /\ pc = "top"
  /\ ~Exhausted
  /\ pc' = "answer"
  /\ model_call_count' = model_call_count + 1
  /\ wrap_up_nudge_injected' = (wrap_up_nudge_injected \/ WrapUpDue)
  /\ Announce(IF WrapUpDue THEN Append(messages, Msg("wrap_up")) ELSE messages,
              [kind |-> "budget", round |-> model_call_count + 1])
  /\ UNCHANGED <<outcome, elapsed, round_spans, last_emit_value_tail, prev_run_source,
                 last_program_errors, rejections, grounded, staged>>

-----------------------------------------------------------------------------
(* Mutant: the spans that stay are not moved. *)
WindowUnshifted(msgs, spans, start) ==
  LET all == Append(spans, <<start, Len(msgs) + 1>>) IN
  IF Len(all) <= LiveRounds
  THEN [messages |-> msgs, spans |-> all]
  ELSE [messages |-> SubSeq(msgs, 1, all[1][1] - 1) \o SubSeq(msgs, all[1][2], Len(msgs)),
        spans |-> Tail(all)]
(* _evict_oldest_round: the messages and spans that remain of msgs, whose   *)
(* last round begins at start, if spans are the rounds before it.           *)
Window(msgs, spans, start) ==
  LET all == Append(spans, <<start, Len(msgs) + 1>>)
      old == all[1]
      size == old[2] - old[1]
  IN CASE Len(all) <= LiveRounds -> [messages |-> msgs, spans |-> all]
       [] Len(all) > LiveRounds
          /\ (old[1] <= StablePrefix \/ budget_item_index \in old[1] .. old[2] - 1) ->
            [messages |-> msgs, spans |-> Tail(all)]
       [] OTHER ->
            [messages |-> SubSeq(msgs, 1, old[1] - 1) \o SubSeq(msgs, old[2], Len(msgs)),
             spans |-> [i \in DOMAIN Tail(all) |->
                          <<Tail(all)[i][1] - size, Tail(all)[i][2] - size>>]]

(* The round's messages follow msgs, the rounds before it have spans. *)
AppendRound(msgs, spans, new) ==
  LET w == Window(msgs \o new, spans, Len(msgs) + 1) IN
  /\ messages' = w.messages
  /\ round_spans' = w.spans
  /\ UNCHANGED budget_item_index

Feedback(new) ==
  /\ AppendRound(messages, round_spans, new)
  /\ UNCHANGED last_emit_value_tail
  /\ pc' = "top"
  /\ UNCHANGED outcome

(* An emit_value round takes the place of everything since the one before;   *)
(* place gives the spans that end before it, in their order.                 *)
(* Mutant: only the messages go, not their spans. *)
ReplaceValuesOnly(new) ==
  LET kept == IF last_emit_value_tail \in 1 .. Len(messages)
              THEN SubSeq(messages, 1, last_emit_value_tail - 1) ELSE messages
  IN /\ last_emit_value_tail' = Len(kept) + 1
     /\ AppendRound(kept, round_spans, new)
     /\ pc' = "top"
     /\ UNCHANGED outcome
ReplaceValues(new) ==
  LET tail == last_emit_value_tail
      kept == IF tail \in 1 .. Len(messages) THEN SubSeq(messages, 1, tail - 1) ELSE messages
      Kept == {k \in DOMAIN round_spans : tail = 0 \/ round_spans[k][2] <= tail}
  IN \E place \in [1 .. Cardinality(Kept) -> Kept] :
       /\ \A i, j \in DOMAIN place : i < j => place[i] < place[j]
       /\ last_emit_value_tail' = Len(kept) + 1
       /\ AppendRound(kept, [i \in DOMAIN place |-> round_spans[place[i]]], new)
       /\ pc' = "top"
       /\ UNCHANGED outcome

Answered == pc = "answer"

(* Mutant: a retried call is not counted. *)
ModelRetriedFree ==
  /\ Answered
  /\ Mode = "message"
  /\ pc' = "top"
  /\ model_call_count' = model_call_count - 1
  /\ UNCHANGED <<outcome, elapsed, wrap_up_nudge_injected, context, prev_run_source,
                 last_program_errors, rejections, grounded, staged>>
(* A retryable error of the model; only the main agent retries. *)
ModelRetried ==
  /\ Answered
  /\ Mode = "message"
  /\ pc' = "top"
  /\ UNCHANGED <<outcome, elapsed, model_call_count, wrap_up_nudge_injected, context,
                 prev_run_source, last_program_errors, rejections, grounded, staged>>

ModelFailed ==
  /\ Answered
  /\ Return("model_failed")
  /\ UNCHANGED <<elapsed, model_call_count, wrap_up_nudge_injected, context,
                 prev_run_source, last_program_errors, rejections, grounded, staged>>

(* The answer is not one call of the run tool. *)
ProtocolFailed ==
  /\ Answered
  /\ Feedback(Exchange)
  /\ UNCHANGED <<elapsed, model_call_count, wrap_up_nudge_injected, prev_run_source,
                 last_program_errors, rejections, grounded, staged>>

(* Stuck: the program of the round before, which is not run again. *)
SameSource ==
  /\ Answered
  /\ prev_run_source # None
  /\ Return("budget_exhausted")
  /\ UNCHANGED <<elapsed, model_call_count, wrap_up_nudge_injected, context,
                 prev_run_source, last_program_errors, rejections, grounded, staged>>

-----------------------------------------------------------------------------
(* What the attempts of a program were: reads, reads that ground the turn,   *)
(* an approval staged, others.  Only the main agent can stage an approval.   *)
Attempts ==
  IF Mode = "message" THEN SUBSET {"read", "grounding_read", "approval"}
  ELSE SUBSET {"read"}

NewSource ==
  /\ Answered
  /\ prev_run_source' \in Source \ {prev_run_source}
  /\ UNCHANGED <<elapsed, model_call_count, wrap_up_nudge_injected>>

Stage(attempts) ==
  pending' = IF "approval" \in attempts THEN pending \cup {model_call_count} ELSE pending

(* Mutant: the approvals of a failed program are not voided. *)
NothingVoided(attempts) == Stage(attempts)
(* Stage and then _void_approvals. *)
StageVoided(attempts) == UNCHANGED pending

Commit == committed' = pending'

(* A read that grounds the turn counts once it succeeded, also in a program *)
(* that failed later.                                                        *)
Ground(attempts) == grounded' = (grounded \/ "grounding_read" \in attempts)

(* The program fails as the one before: the loop returns at once. *)
FailedAgain ==
  \E attempts \in Attempts :
    /\ NewSource
    /\ last_program_errors # None
    /\ UNCHANGED last_program_errors
    /\ Return("budget_exhausted")
    /\ Stage(attempts)
    /\ Ground(attempts)
    /\ UNCHANGED <<context, rejections, committed>>

Failed ==
  \E attempts \in Attempts :
    /\ NewSource
    /\ last_program_errors' \in Error \ {last_program_errors}
    /\ Feedback(Exchange)
    /\ StageVoided(attempts)
    /\ Commit
    /\ Ground(attempts)
    /\ UNCHANGED rejections

(* A clean program: what its attempts were, whether it emitted values, and   *)
(* its visible output or, from a subagent, its terminal one.                 *)
Program ==
  [attempts : Attempts, values : BOOLEAN,
   output : IF Mode = "message" THEN {"none", "message", "silent"} ELSE {"none", "terminal"}]

Ran(p) ==
  /\ NewSource
  /\ last_program_errors' = None
  /\ Stage(p.attempts)
  /\ Commit
  /\ Ground(p.attempts)

(* The message was written before what it read was seen. *)
Premature(p) ==
  /\ model_call_count = 1
  /\ p.output = "message"
  /\ p.attempts \cap {"read", "grounding_read"} # {}

Ungrounded(p) == p.output = "message" /\ ~Premature(p) /\ ~grounded'

CountRejection(p) == rejections' = IF Ungrounded(p) THEN rejections + 1 ELSE rejections

GroundingExhausted(p) == Ungrounded(p) /\ rejections + 1 > RejectionLimit

Awaiting(p) ==
  /\ "approval" \in p.attempts
  /\ p.output = "message" => Premature(p) \/ Ungrounded(p)

(* The outcome of p, None if the loop goes on. *)
OutcomeOf(p) ==
  CASE p.output = "terminal" -> IF Mode = "finding" THEN "finding" ELSE "operations"
    [] GroundingExhausted(p) -> "silent"
    [] p.output = "message" /\ ~Premature(p) /\ ~Ungrounded(p) -> "message"
    [] Awaiting(p) /\ ~GroundingExhausted(p) -> "approval"
    [] p.output = "silent" /\ ~Awaiting(p) -> "silent"
    [] OTHER -> None

Finished ==
  \E p \in Program :
    /\ Ran(p)
    /\ CountRejection(p)
    /\ OutcomeOf(p) # None
    /\ Return(OutcomeOf(p))
    /\ UNCHANGED context

GoesOn(p) == Ran(p) /\ CountRejection(p) /\ OutcomeOf(p) = None

MessageRejected ==
  \E p \in Program : GoesOn(p) /\ Ungrounded(p) /\ Feedback(Exchange)

ValuesEmitted ==
  \E p \in Program :
    /\ GoesOn(p)
    /\ ~Ungrounded(p)
    /\ p.values
    /\ ReplaceValues(<<Msg("call"), Msg("values")>>)

Traced ==
  \E p \in Program :
    /\ GoesOn(p)
    /\ ~Ungrounded(p)
    /\ ~p.values
    /\ Feedback(IF p.attempts # {} THEN Exchange ELSE <<Msg("nudge")>>)

(* The caller takes the result and commits the session. *)
CallerCommits ==
  /\ pc = "returned"
  /\ pc' = "done"
  /\ committed' = pending
  /\ UNCHANGED <<outcome, elapsed, model_call_count, wrap_up_nudge_injected, context,
                 prev_run_source, last_program_errors, rejections, grounded, pending>>

Loop ==
  \/ GiveUp \/ Ask
  \/ ModelRetried \/ ModelFailed \/ ProtocolFailed \/ SameSource
  \/ FailedAgain \/ Failed \/ Finished
  \/ MessageRejected \/ ValuesEmitted \/ Traced
  \/ CallerCommits

Next == Elapse \/ Loop

(* The loop is one thread that always goes on: a model call ends by itself or *)
(* by its time limit, and so does a program.  Time need not reach a budget.   *)
Spec == Init /\ [][Next]_vars /\ WF_vars(Loop)

-----------------------------------------------------------------------------
(* The variables of run_agent_loop keep their types; no more than            *)
(* MaxCallsHard + 1 calls are made.                                          *)
TypeOK ==
  /\ pc \in {"top", "answer", "returned", "done"}
  /\ outcome \in Outcome \cup {None}
  /\ pc \in {"top", "answer"} <=> outcome = None
  /\ elapsed \in 0 .. 2
  /\ model_call_count \in 0 .. MaxCallsHard + 1
  /\ wrap_up_nudge_injected \in BOOLEAN
  /\ messages \in Seq(Message)
  /\ budget_item_index \in Nat
  /\ round_spans \in Seq(Nat \X Nat)
  /\ last_emit_value_tail \in Nat
  /\ prev_run_source \in Source \cup {None}
  /\ last_program_errors \in Error \cup {None}
  /\ rejections \in 0 .. RejectionLimit + 1
  /\ grounded \in BOOLEAN
  /\ pending \subseteq Round /\ committed \subseteq Round

RoundsIn(msgs) == {msgs[i].round : i \in {j \in DOMAIN msgs : msgs[j].kind \in {"return", "values"}}}

(* Whatever is evicted, removed or appended, the model is asked with its     *)
(* whole prompt and with exactly one line of remaining budget, this round's, *)
(* which is where budget_item_index points (docs/modules/agent-loop.md).     *)
PromptAndBudgetKept ==
  pc = "answer" =>
    /\ \A i \in 1 .. StablePrefix : messages[i].kind = "prompt"
    /\ \A i \in DOMAIN messages :
         messages[i].kind = "budget" <=> i = budget_item_index
    /\ messages[budget_item_index].round = model_call_count

(* A tool return stands right behind the call it answers                     *)
(* (_assistant_tool_call_message).                                           *)
ReturnsFollowCalls ==
  \A i \in DOMAIN messages :
    messages[i].kind \in {"return", "values"} =>
      /\ i > 1
      /\ messages[i - 1] = [kind |-> "call", round |-> messages[i].round]

(* No more than agent_loop_live_rounds rounds are in the model's context.    *)
WindowBounded == pc = "answer" => Cardinality(RoundsIn(messages)) <= LiveRounds

(* The rounds whose call is not directly followed by a return; one that      *)
(* follows is the call's own, by ReturnsFollowCalls.                         *)
IsOpen(msgs, i) ==
  /\ msgs[i].kind = "call"
  /\ ~(i < Len(msgs) /\ msgs[i + 1].kind \in {"return", "values"})
Unanswered(msgs) == {msgs[i].round : i \in {j \in DOMAIN msgs : IsOpen(msgs, j)}}

(* An eviction has moved the last emit_value round away from the position    *)
(* that is kept of it (agent_loop.py:1283-1290 leaves that position alone).  *)
TailMoved ==
  /\ last_emit_value_tail # 0
  /\ ~ /\ last_emit_value_tail < Len(messages)
       /\ messages[last_emit_value_tail + 1].kind = "values"

(* No step takes a call's return away and leaves the call: the round appended *)
(* brings its return, a round evicted goes with it, what an emit_value round  *)
(* replaces begins with a whole round.  Exception: an emit_value round whose  *)
(* predecessor was moved by an eviction cuts the list at the old position     *)
(* (agent_loop.py:936-941), through a round if that is where it falls; the    *)
(* call that is left stays, for no span names it.  CallsAreAnswered says what *)
(* the docstring of run_agent_loop says.                                      *)
OnlyMovedTailsCut ==
  \/ Unanswered(messages') \subseteq Unanswered(messages)
  \/ TailMoved /\ messages'[Len(messages')].kind = "values"

(* Whatever is edited by position, the model is given the whole prompt, the  *)
(* true budget, each return behind its call, no more rounds than the window  *)
(* allows, and no call without its return but for the exception above.       *)
ContextWellFormed ==
  [][/\ PromptAndBudgetKept' /\ ReturnsFollowCalls' /\ WindowBounded'
     /\ OnlyMovedTailsCut]_vars

(* The model sees the result of the round it just made, and rounds stand in  *)
(* the order in which they were made.                                        *)
LatestRoundKept ==
  [][pc = "answer" /\ messages' # messages =>
       /\ messages'[Len(messages')].round = model_call_count
       /\ \A i, j \in DOMAIN messages' :
            i < j /\ {messages'[i].kind, messages'[j].kind} \subseteq {"call", "return", "values"}
              => messages'[i].round <= messages'[j].round]_vars

(* The model is not asked again while an approval of the turn is pending, in *)
(* the session or in the database: each program sees the user's answer or    *)
(* none, and there is never a second approval for a turn.                    *)
NothingPendingWhileAsking ==
  /\ pc \in {"top", "answer"} => pending = {} /\ committed = {}
  /\ Cardinality(pending) <= 1

(* Every loop ends, however often the model errs, repeats itself or goes on. *)
Terminates == <>(pc = "done")

(* Only the most recent emit_value round is retained                         *)
(* (docs/modules/agent-loop.md, "The scratch store").                        *)
OnlyLatestValues ==
  \A i, j \in DOMAIN messages :
    messages[i].kind = "values" /\ messages[j].kind = "values" => i = j

(* "One ModelResponse and one ModelRequest (tool returns + nudge) per round"  *)
(* (run_agent_loop, agent_loop.py:293-296): no call is sent without its       *)
(* return.                                                                    *)
CallsAreAnswered == pc = "answer" => Unanswered(messages) = {}

(* The staged approvals of a failed program are voided so that nothing        *)
(* surfaces as a live pending action (docs/modules/agent-loop.md).            *)
FailedProgramsStageNothing == last_program_errors # None => committed = {}

=============================================================================
