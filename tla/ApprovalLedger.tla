---------------------------- MODULE ApprovalLedger ----------------------------
(***************************************************************************)
(* Proposals, approvals and the event log of one turn.  The worker runs    *)
(* the turn (_wake, run_agent_loop, process_one_call) in one session that   *)
(* it commits program by program; the API process decides and expires the  *)
(* approvals that are committed (resolve_approval_decision,                *)
(* reconcile_expired_approvals) while the turn may still be running.       *)
(*                                                                         *)
(* The session keeps its objects over a commit (expire_on_commit=False),   *)
(* so the worker's view of an approval can be old.  Nothing locks the      *)
(* approvals against it.  What stands in the way of an old view is the     *)
(* event log: the worker counts the turn's events in memory, everyone else *)
(* takes the next number from the table, and a number may be used once.    *)
(***************************************************************************)
EXTENDS Integers, Sequences, FiniteSets

CONSTANTS
  Attempt,         \* the calls the turn's programs may make
  Impact,          \* Impact[a]: impact_level of the capability a calls
  Policy,          \* Policy[a]: its policy_decision
  Inline,          \* the calls of memory and proactive capabilities
  Recalling,       \* those among them that call memory.recall
  MaxPrograms,     \* bound: programs in a turn
  MaxTaskAttempts  \* MAX_TASK_ATTEMPTS

ASSUME LedgerAssumption ==
  /\ Impact \in [Attempt -> {"read", "write_reversible", "write_irreversible", "external_send"}]
  /\ Policy \in [Attempt -> {"allow_inline", "requires_approval", "deny"}]
  /\ Recalling \subseteq Inline /\ Inline \subseteq Attempt
  /\ \A a \in Recalling : Impact[a] = "read" /\ Policy[a] = "allow_inline"
  /\ MaxPrograms \in Nat
  /\ MaxTaskAttempts \in Nat \ {0}

VARIABLES
  turn,      \* turns.status, "none" without a row
  attempt,   \* action_attempts: status, and whether policy_reason is
             \* taint_escalated_requires_approval
  approval,  \* approval_requests.status, "none" without a row
  events,    \* events of the turn; the place is the sequence number
  turnTask,  \* attempts of the background task of the turn, -1 without a row
  execTask,  \* attempts with an execute_action_attempt task
  lapsed,    \* attempts whose approval is past its expires_at
  pc,        \* the worker: "idle", "between" programs, in a "program", in a
             \* "recall" of it, "ending", "raised"
  view,      \* the session's own turn, attempt and approval, and tasks it queued
  dirty,     \* attempts it changed since its last commit
  fresh,     \* events it added since its last commit
  sequence,  \* the number of the last event it added
  taint,     \* runtime_provenance.status is tainted
  staged,    \* created_action_attempts of the program
  programs,  \* programs so far
  failedLast,  \* last_program_errors is not None
  influenced   \* history: attempts proposed under taint

tables == <<turn, attempt, approval, events, execTask>>
session == <<view, dirty, fresh, sequence>>
run == <<taint, staged, programs, failedLast>>
vars == <<turn, attempt, approval, events, turnTask, execTask, lapsed, pc, view, dirty,
          fresh, sequence, taint, staged, programs, failedLast, influenced>>

Status == {"none", "rejected", "failed", "awaiting_approval", "executing", "succeeded",
           "denied", "expired"}
ApprovalStatus == {"none", "pending", "approved", "denied", "expired"}
Decided == {"approved", "denied", "expired"}
Event == [type : {"started", "model", "proposed", "requested", "recalled", "approved",
                  "denied", "expired", "executing", "succeeded", "failed", "turn_failed",
                  "turn_completed"},
          of : SUBSET Attempt]

Evt(type, a) == [type |-> type, of |-> {a}]
TurnEvt(type) == [type |-> type, of |-> {}]

NoAttempts == [a \in Attempt |-> [status |-> "none", escalated |-> FALSE]]
NoApprovals == [a \in Attempt |-> "none"]
EmptyView == [turn |-> "none", attempt |-> NoAttempts, approval |-> NoApprovals,
              queued |-> {}]

Init ==
  /\ turn = "none"
  /\ attempt = NoAttempts
  /\ approval = NoApprovals
  /\ events = <<>>
  /\ turnTask = 0
  /\ execTask = {}
  /\ lapsed = {}
  /\ pc = "idle"
  /\ view = EmptyView
  /\ dirty = {}
  /\ fresh = <<>>
  /\ sequence = 0
  /\ taint = FALSE
  /\ staged = {}
  /\ programs = 0
  /\ failedLast = FALSE
  /\ influenced = {}

-----------------------------------------------------------------------------
(* evaluate_proposal, for a call whose capability and input are valid.      *)
(* Mutant: taint only escalates. *)
EvaluateEscalating(a, tainted, pendingExists) ==
  CASE Policy[a] = "deny" -> "deny"
    [] Policy[a] # "deny" /\ (Policy[a] = "requires_approval"
                              \/ (tainted /\ Impact[a] # "read")) ->
         IF pendingExists THEN "deny" ELSE "requires_approval"
    [] OTHER -> "allow_inline"
Evaluate(a, tainted, pendingExists) ==
  LET escalates == tainted /\ Impact[a] # "read" IN
  CASE Policy[a] = "deny" -> "deny"
    [] Policy[a] # "deny" /\ escalates /\ Impact[a] \in {"write_irreversible", "external_send"} ->
         "deny"
    [] Policy[a] # "deny" /\ ~(escalates /\ Impact[a] \in {"write_irreversible", "external_send"})
       /\ (escalates \/ Policy[a] = "requires_approval") ->
         IF pendingExists THEN "deny" ELSE "requires_approval"
    [] OTHER -> "allow_inline"

(* The session commits the view v of the attempts in d and the events f, the *)
(* last of them numbered n, and goes to next; or the unique index of the     *)
(* events refuses a number and the run raises.                               *)
(* Mutant: events carry no unique number. *)
SaveUnnumbered(v, d, f, n, next) ==
  /\ turn' = v.turn
  /\ attempt' = [a \in Attempt |-> IF a \in d THEN v.attempt[a] ELSE attempt[a]]
  /\ approval' = [a \in Attempt |-> IF a \in d THEN v.approval[a] ELSE approval[a]]
  /\ events' = events \o f
  /\ execTask' = execTask \cup v.queued
  /\ pc' = next
Save(v, d, f, n, next) ==
  IF f # <<>> /\ n - Len(f) # Len(events)
  THEN pc' = "raised" /\ UNCHANGED tables
  ELSE /\ turn' = v.turn
       /\ attempt' = [a \in Attempt |-> IF a \in d THEN v.attempt[a] ELSE attempt[a]]
       /\ approval' = [a \in Attempt |-> IF a \in d THEN v.approval[a] ELSE approval[a]]
       /\ events' = events \o f
       /\ execTask' = execTask \cup v.queued
       /\ pc' = next

(* Commit, with the events more added first.  The session goes on from v.    *)
Commit(v, d, more, next) ==
  /\ Save(v, d, fresh \o more, sequence + Len(more), next)
  /\ view' = [v EXCEPT !.queued = {}]
  /\ dirty' = {}
  /\ fresh' = <<>>
  /\ sequence' = sequence + Len(more)

Add(more) == fresh' = fresh \o more /\ sequence' = sequence + Len(more)

(* The session is closed, what it had not committed is gone. *)
Close ==
  /\ view' = EmptyView
  /\ dirty' = {}
  /\ fresh' = <<>>
  /\ sequence' = 0
  /\ taint' = FALSE
  /\ staged' = {}
  /\ programs' = 0
  /\ failedLast' = FALSE

-----------------------------------------------------------------------------
(* _wake for a task without a turn; _runtime_provenance_for_turn. *)
StartTurn ==
  /\ pc = "idle"
  /\ turnTask >= 0
  /\ turn = "none"
  /\ pc' = "between"
  /\ view' = [EmptyView EXCEPT !.turn = "in_progress"]
  /\ dirty' = {}
  /\ fresh' = <<TurnEvt("started")>>
  /\ sequence' = 1
  /\ taint' \in BOOLEAN
  /\ staged' = {}
  /\ programs' = 0
  /\ failedLast' = FALSE
  /\ UNCHANGED <<tables, turnTask, lapsed, influenced>>

(* _existing_background_turn_outcome: the turn of an earlier run. *)
(* Mutant: the turn is taken up again. *)
FailInterruptedResumes ==
  /\ pc = "idle"
  /\ turnTask >= 0
  /\ turn = "in_progress"
  /\ pc' = "ending"
  /\ view' = [turn |-> turn, attempt |-> attempt, approval |-> approval, queued |-> {}]
  /\ sequence' = Len(events)
  /\ UNCHANGED <<tables, turnTask, lapsed, dirty, fresh, run, influenced>>
FailInterrupted ==
  /\ pc = "idle"
  /\ turnTask >= 0
  /\ turn = "in_progress"
  /\ turn' = "failed"
  /\ events' = Append(events, TurnEvt("turn_failed"))
  /\ UNCHANGED <<attempt, approval, execTask, turnTask, lapsed, pc, session, run, influenced>>

(* The handler returned: process_one_task deletes the row. *)
SettleTurn ==
  /\ pc = "idle"
  /\ turnTask >= 0
  /\ turn \in {"completed", "failed"}
  /\ turnTask' = -1
  /\ Close
  /\ UNCHANGED <<tables, lapsed, pc, influenced>>

BeginProgram ==
  /\ pc = "between"
  /\ programs < MaxPrograms
  /\ pc' = "program"
  /\ programs' = programs + 1
  /\ staged' = {}
  /\ Add(<<TurnEvt("model")>>)
  /\ UNCHANGED <<tables, turnTask, lapsed, view, dirty, taint, failedLast, influenced>>

-----------------------------------------------------------------------------
(* process_one_call for a: what the session holds of it afterwards.  Its     *)
(* events are one here; a call out of the turn's scope leaves no attempt and *)
(* is left out.                                                              *)
Propose(a, s, escalated, ap, type) ==
  /\ view' = [view EXCEPT !.attempt[a] = [status |-> s, escalated |-> escalated],
                          !.approval[a] = ap]
  /\ dirty' = dirty \cup {a}
  /\ staged' = staged \cup {a}
  /\ Add(<<Evt(type, a)>>)
  /\ influenced' = IF taint THEN influenced \cup {a} ELSE influenced \ {a}
  /\ UNCHANGED <<tables, turnTask, lapsed, pc, programs, failedLast>>

Calling(a) == pc = "program" /\ view.attempt[a].status = "none"

DecisionOn(a) ==
  Evaluate(a, taint, \E b \in staged : view.attempt[b].status = "awaiting_approval")

CallDenied(a) ==
  /\ Calling(a)
  /\ DecisionOn(a) = "deny"
  /\ Propose(a, "rejected", FALSE, "none", "proposed")
  /\ UNCHANGED taint

(* preflight_capability_execution fails, or the capability itself does. *)
CallFails(a) ==
  /\ Calling(a)
  /\ DecisionOn(a) # "deny"
  /\ Propose(a, "failed", FALSE, "none", "failed")
  /\ UNCHANGED taint

CallNeedsApproval(a) ==
  /\ Calling(a)
  /\ DecisionOn(a) = "requires_approval"
  /\ Propose(a, "awaiting_approval", taint /\ Impact[a] # "read", "pending", "requested")
  /\ UNCHANGED taint

(* A read, or a write of memory, returns into the program, and may bring     *)
(* untrusted content.                                                        *)
CallReturns(a) ==
  /\ Calling(a)
  /\ DecisionOn(a) = "allow_inline"
  /\ Impact[a] = "read" \/ a \in Inline
  /\ a \notin Recalling
  /\ Propose(a, "succeeded", FALSE, "none", "succeeded")
  /\ taint' \in {taint, TRUE}

CallQueues(a) ==
  /\ Calling(a)
  /\ DecisionOn(a) = "allow_inline"
  /\ Impact[a] # "read" /\ a \notin Inline
  /\ view' = [view EXCEPT !.attempt[a] = [status |-> "executing", escalated |-> FALSE],
                          !.queued = @ \cup {a}]
  /\ dirty' = dirty \cup {a}
  /\ staged' = staged \cup {a}
  /\ Add(<<Evt("executing", a)>>)
  /\ influenced' = IF taint THEN influenced \cup {a} ELSE influenced \ {a}
  /\ UNCHANGED <<tables, turnTask, lapsed, pc, taint, programs, failedLast>>

(* memory.recall: the retriever's own loop commits the session it was given, *)
(* in the middle of the program (its commits are one here).                  *)
CallRecalls(a) ==
  /\ Calling(a)
  /\ DecisionOn(a) = "allow_inline"
  /\ a \in Recalling
  /\ Commit([view EXCEPT !.attempt[a].status = "executing"], dirty \cup {a},
            <<Evt("executing", a), TurnEvt("recalled")>>, "recall")
  /\ staged' = staged \cup {a}
  /\ UNCHANGED <<turnTask, lapsed, taint, programs, failedLast, influenced>>

RecallReturns(a) ==
  /\ pc = "recall"
  /\ a \in Recalling /\ view.attempt[a].status = "executing"
  /\ pc' = "program"
  /\ \E s \in {"succeeded", "failed"} :
       /\ view' = [view EXCEPT !.attempt[a].status = s]
       /\ Add(<<Evt(s, a)>>)
       /\ taint' \in {taint, taint \/ s = "succeeded"}
  /\ dirty' = dirty \cup {a}
  /\ UNCHANGED <<tables, turnTask, lapsed, staged, programs, failedLast, influenced>>

(* The retriever before the first program. *)
RecallForTurn ==
  /\ pc = "between"
  /\ programs = 0 /\ sequence = 1
  /\ Commit(view, dirty, <<TurnEvt("recalled")>>, "between")
  /\ UNCHANGED <<turnTask, lapsed, run, influenced>>

AwaitsApproval == \E a \in staged : view.attempt[a].status = "awaiting_approval"

(* A clean program is committed; one that awaits an approval ends the loop.  *)
EndProgram ==
  /\ pc = "program"
  /\ \E next \in IF AwaitsApproval THEN {"ending"} ELSE {"between", "ending"} :
       Commit(view, dirty, <<TurnEvt("model")>>, next)
  /\ failedLast' = FALSE
  /\ UNCHANGED <<turnTask, lapsed, taint, staged, programs, influenced>>

(* _void_approvals, by the session's objects. *)
Voided == {a \in staged : view.attempt[a].status = "awaiting_approval"}

VoidEvent == IF Voided = {} THEN <<>> ELSE <<[type |-> "expired", of |-> Voided]>>

(* Mutant: a failed program's approvals are left alone. *)
FailProgramUnvoided ==
  /\ pc = "program"
  /\ Commit(view, dirty, <<TurnEvt("model")>>, "between")
  /\ failedLast' = TRUE
  /\ UNCHANGED <<turnTask, lapsed, taint, staged, programs, influenced>>
FailProgram ==
  /\ pc = "program"
  /\ Commit([view EXCEPT !.attempt = [a \in Attempt |->
                            IF a \in Voided THEN [@[a] EXCEPT !.status = "expired"] ELSE @[a]],
                         !.approval = [a \in Attempt |->
                            IF a \in Voided /\ @[a] = "pending" THEN "expired" ELSE @[a]]],
            dirty \cup Voided, <<TurnEvt("model")>> \o VoidEvent, "between")
  /\ failedLast' = TRUE
  /\ UNCHANGED <<turnTask, lapsed, taint, staged, programs, influenced>>

(* The errors of the program before: the loop ends with nothing voided. *)
FailProgramAgain ==
  /\ pc = "program"
  /\ failedLast
  /\ pc' = "ending"
  /\ UNCHANGED <<tables, turnTask, lapsed, session, run, influenced>>

(* Budget, model failure or the same source again. *)
GiveUp ==
  /\ pc = "between"
  /\ pc' = "ending"
  /\ UNCHANGED <<tables, turnTask, lapsed, session, run, influenced>>

(* The end of _wake. *)
Finish ==
  /\ pc = "ending"
  /\ \/ Commit([view EXCEPT !.turn = "completed"], dirty, <<TurnEvt("turn_completed")>>, "idle")
     \/ Commit([view EXCEPT !.turn = "failed"], dirty, <<TurnEvt("turn_failed")>>, "idle")
  /\ UNCHANGED <<turnTask, lapsed, run, influenced>>

Raise ==
  /\ pc \in {"between", "program", "recall", "ending"}
  /\ pc' = "raised"
  /\ UNCHANGED <<tables, turnTask, lapsed, session, run, influenced>>

(* _mark_task_failed. *)
(* Mutant: one run too many. *)
FailTaskLate ==
  /\ pc = "raised"
  /\ pc' = "idle"
  /\ turnTask' = IF turnTask + 1 > MaxTaskAttempts THEN -1 ELSE turnTask + 1
  /\ Close
  /\ UNCHANGED <<tables, lapsed, influenced>>
FailTask ==
  /\ pc = "raised"
  /\ pc' = "idle"
  /\ turnTask' = IF turnTask + 1 >= MaxTaskAttempts THEN -1 ELSE turnTask + 1
  /\ Close
  /\ UNCHANGED <<tables, lapsed, influenced>>

Crash ==
  /\ pc # "idle"
  /\ pc' = "idle"
  /\ Close
  /\ UNCHANGED <<tables, turnTask, lapsed, influenced>>

-----------------------------------------------------------------------------
(* Other transactions.  One that waits for the session's rows and then finds *)
(* its number taken, or the row changed, fails without effect.               *)
worker == <<turnTask, pc, session, run>>

Resolve(a, ap, s, log) ==
  /\ approval' = [approval EXCEPT ![a] = ap]
  /\ attempt' = [attempt EXCEPT ![a].status = s]
  /\ events' = events \o log
  /\ UNCHANGED <<turn, worker, lapsed, influenced>>

(* reconcile_expired_approvals, by the worker's sweep or GET /v1/events.     *)
(* Mutant: only those of completed turns. *)
ExpirableOfCompleted ==
  {a \in Attempt : approval[a] = "pending" /\ a \in lapsed /\ turn = "completed"}
Expirable == {a \in Attempt : approval[a] = "pending" /\ a \in lapsed}

ReconcileExpired ==
  /\ Expirable # {}
  /\ approval' = [a \in Attempt |-> IF a \in Expirable THEN "expired" ELSE approval[a]]
  /\ attempt' = [a \in Attempt |->
       IF a \in Expirable THEN [attempt[a] EXCEPT !.status = "expired"] ELSE attempt[a]]
  /\ events' = Append(events, [type |-> "expired", of |-> Expirable])
  /\ UNCHANGED <<turn, execTask, worker, lapsed, influenced>>

(* resolve_approval_decision; any other status of a is refused with 409.     *)
Open(a) == approval[a] = "pending"

DecideLate(a) ==
  /\ Open(a)
  /\ a \in lapsed
  /\ Resolve(a, "expired", "expired", <<Evt("expired", a)>>)
  /\ UNCHANGED execTask

Deny(a) ==
  /\ Open(a)
  /\ a \notin lapsed
  /\ Resolve(a, "denied", "denied", <<Evt("denied", a)>>)
  /\ UNCHANGED execTask

(* The stored payload cannot be read or has another hash, or a new release   *)
(* decides otherwise about the capability.                                   *)
ApproveInvalid(a) ==
  /\ Open(a)
  /\ a \notin lapsed
  /\ Resolve(a, "expired", "failed", <<Evt("failed", a)>>)
  /\ UNCHANGED execTask

(* A new release has no such capability, another contract or schema, or the  *)
(* preflight check fails.                                                    *)
ApproveUnexecutable(a) ==
  /\ Open(a)
  /\ a \notin lapsed
  /\ Evaluate(a, attempt[a].escalated, FALSE) = "requires_approval"
  /\ Resolve(a, "approved", "failed", <<Evt("approved", a), Evt("failed", a)>>)
  /\ UNCHANGED execTask

(* Mutant: an approval that was decided is approved once more. *)
ApproveDecided(a) ==
  /\ approval[a] # "none"
  /\ a \notin lapsed
  /\ Resolve(a, "approved", "executing", <<Evt("approved", a), Evt("executing", a)>>)
  /\ execTask' = execTask \cup {a}
Approve(a) ==
  /\ Open(a)
  /\ a \notin lapsed
  /\ Evaluate(a, attempt[a].escalated, FALSE) = "requires_approval"
  /\ Resolve(a, "approved", "executing", <<Evt("approved", a), Evt("executing", a)>>)
  /\ execTask' = execTask \cup {a}

(* The worker executes the attempt (ProviderWrite) and deletes the task.      *)
Execute(a) ==
  /\ pc = "idle"
  /\ a \in execTask
  /\ \E s \in {"succeeded", "failed"} :
       IF attempt[a].status = "executing"
       THEN /\ attempt' = [attempt EXCEPT ![a].status = s]
            /\ events' = Append(events, Evt(s, a))
       ELSE UNCHANGED <<attempt, events>>
  /\ execTask' = execTask \ {a}
  /\ UNCHANGED <<turn, approval, worker, lapsed, influenced>>

(* The approval's expires_at passes. *)
Lapse(a) ==
  /\ approval[a] = "pending" \/ (pc # "idle" /\ view.approval[a] = "pending")
  /\ a \notin lapsed
  /\ lapsed' = lapsed \cup {a}
  /\ UNCHANGED <<tables, worker, influenced>>

Run ==
  \/ StartTurn \/ FailInterrupted \/ SettleTurn \/ BeginProgram \/ RecallForTurn
  \/ EndProgram \/ FailProgram \/ FailProgramAgain \/ GiveUp \/ Finish
  \/ Raise \/ FailTask
  \/ \E a \in Attempt :
       \/ CallDenied(a) \/ CallFails(a) \/ CallNeedsApproval(a) \/ CallReturns(a)
       \/ CallQueues(a) \/ CallRecalls(a) \/ RecallReturns(a)

User(a) == DecideLate(a) \/ Deny(a) \/ ApproveInvalid(a) \/ ApproveUnexecutable(a) \/ Approve(a)

Next ==
  \/ Run
  \/ Crash
  \/ ReconcileExpired
  \/ \E a \in Attempt : User(a) \/ Execute(a) \/ Lapse(a)

(* The worker goes on and sweeps whenever it is idle; time passes.           *)
Spec ==
  /\ Init /\ [][Next]_vars
  /\ WF_vars(Run)
  /\ WF_vars(pc = "idle" /\ ReconcileExpired)
  /\ \A a \in Attempt : WF_vars(Lapse(a))

-----------------------------------------------------------------------------
(* Types; a task that exists has runs left.                                  *)
TypeOK ==
  /\ turn \in {"none", "in_progress", "completed", "failed"}
  /\ attempt \in [Attempt -> [status : Status, escalated : BOOLEAN]]
  /\ approval \in [Attempt -> ApprovalStatus]
  /\ events \in Seq(Event)
  /\ turnTask \in -1..(MaxTaskAttempts - 1)
  /\ execTask \subseteq Attempt
  /\ lapsed \subseteq Attempt
  /\ pc \in {"idle", "between", "program", "recall", "ending", "raised"}
  /\ view \in [turn : {"none", "in_progress", "completed", "failed"},
                attempt : [Attempt -> [status : Status, escalated : BOOLEAN]],
                approval : [Attempt -> ApprovalStatus],
                queued : SUBSET Attempt]
  /\ dirty \subseteq Attempt
  /\ fresh \in Seq(Event)
  /\ sequence \in Nat
  /\ taint \in BOOLEAN
  /\ staged \subseteq Attempt
  /\ programs \in 0..MaxPrograms
  /\ failedLast \in BOOLEAN
  /\ influenced \subseteq Attempt

(* A decision is final: nothing that a running turn still holds in its       *)
(* session overwrites what the user decided or the sweep expired meanwhile.  *)
DecisionsStand ==
  [][\A a \in Attempt : approval[a] \in Decided => approval'[a] = approval[a]]_vars

(* The committed tables agree: an approval, its attempt and the task that    *)
(* executes it were changed together by whoever changed them last.           *)
StatusesAgree == \A a \in Attempt :
  /\ approval[a] = "pending" <=> attempt[a].status = "awaiting_approval"
  /\ approval[a] = "denied" <=> attempt[a].status = "denied"
  /\ approval[a] = "approved" => attempt[a].status \in {"executing", "succeeded", "failed"}
  /\ approval[a] = "expired" => attempt[a].status \in {"expired", "failed"}
  /\ attempt[a].status = "expired" => approval[a] = "expired"
  /\ a \notin Recalling => (attempt[a].status = "executing" <=> a \in execTask)

Logged(type, a) == {i \in 1..Len(events) : events[i].type = type /\ a \in events[i].of}

(* The event log of the turn tells what the tables say: each approval is     *)
(* asked for at most once and decided at most once, as its row has it, and   *)
(* an attempt is begun and ended at most once.                               *)
LogAgrees == \A a \in Attempt :
  /\ Cardinality(UNION {Logged(d, a) : d \in Decided}) <= 1
  /\ approval[a] = "approved" <=> Logged("approved", a) # {}
  /\ approval[a] = "denied" <=> Logged("denied", a) # {}
  /\ Logged("expired", a) # {} => approval[a] = "expired"
  /\ approval[a] # "none" <=> Cardinality(Logged("requested", a)) = 1
  /\ Cardinality(Logged("executing", a)) <= 1
  /\ Cardinality(Logged("succeeded", a) \cup Logged("failed", a)) <= 1

(* Tables and event log tell one story of every attempt.                     *)
TablesAndLogAgree == StatusesAgree /\ LogAgrees

(* A side effect is begun only with the user's approval, or by a capability  *)
(* that needs none in a program nothing untrusted influenced; what cannot be *)
(* undone never follows untrusted influence, approved or not.                *)
SideEffectsAuthorized == \A a \in Attempt :
  attempt[a].status \in {"executing", "succeeded"} =>
    /\ Policy[a] # "deny"
    /\ Policy[a] = "requires_approval" => approval[a] = "approved"
    /\ a \in influenced /\ Impact[a] # "read" =>
         approval[a] = "approved" /\ Impact[a] = "write_reversible"

(* However programs fail, turns are interrupted and users decide, a turn     *)
(* never asks the user two things at a time.                                 *)
OneQuestion == \A a, b \in Attempt :
  approval[a] = "pending" /\ approval[b] = "pending" => a = b

(* No approval stays open for ever, also not that of an interrupted turn.    *)
ApprovalSettles == \A a \in Attempt : approval[a] = "pending" ~> approval[a] # "pending"

(* A turn the worker was interrupted in is ended by the next run of its      *)
(* task, unless the task is out of runs.                                     *)
TurnEnds == turn = "in_progress" ~> turn # "in_progress" \/ turnTask = -1

(* What a program has staged is not committed before the program has ended. *)
ProgramsCommitWhole ==
  pc \in {"program", "recall"} => \A a \in staged : approval[a] = "none"

=============================================================================
