---------------------------- MODULE ProviderWrite ----------------------------
(***************************************************************************)
(* Execution of approved side effects: process_action_execution_task and   *)
(* process_provider_write_reconcile_due of action_runtime.py, run by the   *)
(* worker as execute_action_attempt and provider_write_reconcile_due       *)
(* tasks.                                                                  *)
(*                                                                         *)
(* An execution is a transaction that decides whether to call the provider *)
(* and leaves two traces of the decision (the dispatch marker in the       *)
(* attempt's execution_output and a receipt in status executing), a call   *)
(* outside any transaction, and a transaction that records what came back. *)
(* The worker can die, or the code raise, between any two of them, and the *)
(* queue then runs the task again.  The receipt belongs to an idempotency  *)
(* key that the client may have used in several attempts.                  *)
(*                                                                         *)
(* The worker runs one task at a time.  Which task it takes next is left   *)
(* open here (TaskQueue models the order); what it does to a row once the  *)
(* handler ends is not.                                                    *)
(***************************************************************************)
EXTENDS Integers, FiniteSets

CONSTANTS
  Attempt,         \* action attempts that are approved sooner or later
  Write,           \* logical writes: one per receipt key (or per attempt)
  WriteOf,         \* WriteOf[a]: the write attempt a asks for
  Kind,            \* Kind[w]: the family of capabilities w belongs to
  Digest,          \* Digest[a]: payload_hash of a
  Target,          \* Target[w]: the write that an undo reverses, else w
  NoAttempt, NoWrite,
  MaxTaskAttempts  \* MAX_TASK_ATTEMPTS: failed runs until a row is deleted

(* email:      cap.email.archive, trash, labels.modify                     *)
(* undo:       cap.email.undo                                              *)
(* calendar:   cap.calendar.update_event, respond_to_event                 *)
(* google:     the other Google writes (send, draft, create, share)        *)
(* request_pr: cap.agency.request_pr        run: cap.agency.run            *)
(* memory:     cap.memory.*                 host: cap.proactive.*, research *)
EmailKinds == {"email", "undo"}
GoogleKinds == EmailKinds \cup {"calendar", "google"}
ReceiptKinds == GoogleKinds \cup {"request_pr"}
Kinds == ReceiptKinds \cup {"run", "memory", "host"}

ASSUME WriteAssumption ==
  /\ NoAttempt \notin Attempt
  /\ NoWrite \notin Write
  /\ WriteOf \in [Attempt -> Write]
  /\ Kind \in [Write -> Kinds]
  /\ Target \in [Write -> Write]
  /\ \A w \in Write :
       IF Kind[w] = "undo" THEN Kind[Target[w]] = "email" ELSE Target[w] = w
  \* without a client key the receipt key contains the attempt's id
  /\ \A a, b \in Attempt :
       WriteOf[a] = WriteOf[b] /\ Kind[WriteOf[a]] \notin GoogleKinds => a = b
  /\ MaxTaskAttempts \in Nat \ {0}

VARIABLES
  status,    \* action_attempts.status
  marker,    \* execution_output.dispatch_state = provider_call_started
  receipt,   \* provider_write_receipts, one per write
  execTask,  \* attempts of the execute_action_attempt row, -1: no row
  reconTask, \* attempts of the provider_write_reconcile_due row, -1: no row
  phase,     \* where the worker is
  act,       \* the attempt it executes; NoAttempt while it reconciles
  rec,       \* the write it works on
  result,    \* what the provider answered, in the worker's memory
  world,     \* the provider's own state of what each write changes
  calls,     \* history: mutating calls executions made, less those whose
             \* answer was recorded as a failure that may be retried
  gaveUp     \* history: attempts and writes whose task row was given up

db == <<status, marker, receipt, execTask, reconTask>>
worker == <<phase, act, rec, result>>
history == <<calls, gaveUp>>
vars == <<status, marker, receipt, execTask, reconTask, phase, act, rec,
          result, world, calls, gaveUp>>

Terminal == {"succeeded", "failed"}
WorldState == {"orig", "partial", "changed"}

(* retryable: the recorded error is one _email_provider_error_is_retryable *)
(* accepts.  before: before_state.  checked: reconciliation recorded as    *)
(* indeterminate.  owner made the receipt and gave it request_digest.      *)
Receipt == [st : {"none", "executing", "succeeded", "failed", "ambiguous", "undone"},
            owner : Attempt \cup {NoAttempt}, retryable : BOOLEAN,
            before : WorldState \cup {"none"}, checked : BOOLEAN]

NoReceipt == [st |-> "none", owner |-> NoAttempt, retryable |-> FALSE,
              before |-> "none", checked |-> FALSE]

Results == {"none", "ok", "no_identity", "retry", "final", "unknown", "refused",
            "match", "mismatch", "probe_failed"}

-----------------------------------------------------------------------------
Init ==
  /\ status = [a \in Attempt |-> "proposed"]
  /\ marker = [a \in Attempt |-> FALSE]
  /\ receipt = [w \in Write |-> NoReceipt]
  /\ execTask = [a \in Attempt |-> -1]
  /\ reconTask = [w \in Write |-> -1]
  /\ phase = "idle"
  /\ act = NoAttempt
  /\ rec = NoWrite
  /\ result = "none"
  /\ world = [w \in Write |-> "orig"]
  /\ calls = [w \in Write |-> 0]
  /\ gaveUp = {}

(* resolve_approval_decision approves a: it sets executing and enqueues the *)
(* task in one transaction, in the API process.                             *)
Authorize(a) ==
  /\ status[a] = "proposed"
  /\ status' = [status EXCEPT ![a] = "executing"]
  /\ execTask' = [execTask EXCEPT ![a] = 0]
  /\ UNCHANGED <<marker, receipt, reconTask, worker, world, history>>

-----------------------------------------------------------------------------
(* The worker takes a due task. *)
StartExecution(a) ==
  /\ phase = "idle"
  /\ execTask[a] >= 0
  /\ phase' = "decide"
  /\ act' = a
  /\ rec' = WriteOf[a]
  /\ result' = "none"
  /\ UNCHANGED <<db, world, history>>

Goto(p) == phase' = p /\ UNCHANGED <<act, rec, result>>

(* The attempt is settled: status, execution_output and with it the marker. *)
Settle(a, s) ==
  /\ status' = [status EXCEPT ![a] = s]
  /\ marker' = [marker EXCEPT ![a] = FALSE]

(* Mutant: the reconciliation is not queued. *)
EnqueueNothing(w) == UNCHANGED reconTask
(* _append_provider_write_reconcile_unavailable_event: keyed by receipt *)
EnqueueReconcile(w) ==
  reconTask' = [reconTask EXCEPT ![w] = IF @ >= 0 THEN @ ELSE 0]

(* _record_provider_write_receipt for attempt a: creates the receipt or     *)
(* overwrites its status and payload, but leaves a succeeded one alone.     *)
RecordReceipt(a, w, s, retry) ==
  LET r == receipt[w] IN
  receipt' =
    IF r.st = "succeeded" THEN receipt
    ELSE [receipt EXCEPT ![w] =
            [r EXCEPT !.st = s, !.retryable = retry, !.checked = FALSE,
                      !.owner = IF r.owner = NoAttempt THEN a ELSE r.owner]]

(* request_digest # payload_hash: the key was used for other input *)
Conflict(a, w) ==
  receipt[w].owner # NoAttempt /\ Digest[receipt[w].owner] # Digest[a]

(* The first transaction, once the attempt is found settled. *)
AlreadySettled(a) ==
  /\ phase = "decide"
  /\ act = a
  /\ status[a] \in Terminal
  /\ Goto("finish")
  /\ UNCHANGED <<db, world, history>>

(* Mutant: a settled attempt is executed again. *)
DecidingAgain(a, w) == phase = "decide" /\ act = a /\ rec = w
Deciding(a, w) ==
  phase = "decide" /\ act = a /\ rec = w /\ status[a] = "executing"

(* The write was done before: its receipt answers for this attempt too. *)
ReplayReceipt(a, w) ==
  /\ Deciding(a, w)
  /\ ~Conflict(a, w)
  /\ receipt[w].st \in {"succeeded", "undone"}
  /\ Settle(a, "succeeded")
  /\ Goto("finish")
  /\ UNCHANGED <<receipt, execTask, reconTask, world, history>>

RetryableEmail(w) ==
  /\ Kind[w] \in EmailKinds
  /\ receipt[w].st = "failed"
  /\ receipt[w].retryable

(* The execution is refused: the key belongs to other input, the write     *)
(* failed for good, another attempt has it in flight or ambiguous; or an   *)
(* agency run, which has no receipt, was started and nobody knows more.    *)
Refuse(a, w) ==
  /\ Deciding(a, w)
  /\ \/ Conflict(a, w)
     \/ receipt[w].st = "failed" /\ ~RetryableEmail(w)
     \/ receipt[w].st \in {"executing", "ambiguous"} /\ ~marker[a]
     \/ Kind[w] = "run" /\ marker[a]
  /\ Settle(a, "failed")
  /\ Goto("finish")
  /\ UNCHANGED <<receipt, execTask, reconTask, world, history>>

(* The attempt has been dispatched before and nothing was recorded since:  *)
(* whether the provider acted is unknown.                                  *)
MarkUnknown(a, w) ==
  /\ Deciding(a, w)
  /\ marker[a]
  /\ ~Conflict(a, w)
  /\ receipt[w].st \in {"executing", "ambiguous"}
  /\ IF receipt[w].st = "executing"
     THEN RecordReceipt(a, w, "ambiguous", FALSE)
     ELSE UNCHANGED receipt
  /\ EnqueueReconcile(w)
  /\ Settle(a, "failed")
  /\ Goto("finish")
  /\ UNCHANGED <<execTask, world, history>>

(* The decision goes on to the capability's own branch. *)
Undispatched(a, w) ==
  Deciding(a, w) /\ (~marker[a] \/ RetryableEmail(w))

(* Token refresh, integrity of the attempt, its private payload and schema, *)
(* preflight, the bound runtime, access, account identity, authority, or    *)
(* the undo being unavailable: any of them ends the attempt.                *)
GateFails(a, w) ==
  /\ Undispatched(a, w)
  /\ Settle(a, "failed")
  /\ Goto("finish")
  /\ UNCHANGED <<receipt, execTask, reconTask, world, history>>

(* proactive.* and research.*: the effect is rows of the same transaction. *)
ExecuteOnHost(a, w) ==
  /\ Undispatched(a, w)
  /\ Kind[w] = "host"
  /\ Settle(a, "succeeded")
  /\ world' = [world EXCEPT ![w] = "changed"]
  /\ calls' = [calls EXCEPT ![w] = @ + 1]
  /\ Goto("finish")
  /\ UNCHANGED <<receipt, execTask, reconTask, gaveUp>>

(* memory.*: the effect commits in a session of its own, before the        *)
(* transaction that settles the attempt; a crash between the two lets the  *)
(* next run repeat it.  calls does not count it.                           *)
ExecuteMemory(a, w) ==
  /\ Undispatched(a, w)
  /\ Kind[w] = "memory"
  /\ world' = [world EXCEPT ![w] = "changed"]
  /\ phase' = "record"
  /\ result' = "ok"
  /\ UNCHANGED <<db, act, rec, history>>

(* cap.email.undo needs a succeeded prior receipt with a before_state; that *)
(* it has not expired and is of this account is left to GateFails.          *)
UndoAvailable(w) ==
  /\ receipt[Target[w]].st = "succeeded"
  /\ receipt[Target[w]].before # "none"

(* Mutants: another attempt's write in flight, or one whose outcome is    *)
(* unknown, does not stop a dispatch.                                      *)
MayDispatchOverExecuting(w) ==
  receipt[w].st \in {"none", "executing"} \/ RetryableEmail(w)
MayDispatchOverAmbiguous(w) ==
  receipt[w].st \in {"none", "ambiguous"} \/ RetryableEmail(w)
(* Only a write never dispatched, or an email mutation whose last answer   *)
(* was a retryable failure, is sent to the provider.                       *)
MayDispatch(w) == receipt[w].st = "none" \/ RetryableEmail(w)

(* Mutant: every try reads the labels anew. *)
CapturesAlways(w) == Kind[w] = "email"
(* The label state is read once; a retry is given the captured one. *)
MustCapture(w) == Kind[w] = "email" /\ receipt[w].before = "none"

Dispatch(a, w) ==
  /\ Undispatched(a, w)
  /\ Kind[w] \in ReceiptKinds \cup {"run"}
  /\ ~Conflict(a, w)
  /\ MayDispatch(w)
  /\ Kind[w] = "undo" => UndoAvailable(w)
  /\ IF Kind[w] \in ReceiptKinds
     THEN RecordReceipt(a, w, "executing", FALSE)
     ELSE UNCHANGED receipt
  /\ marker' = [marker EXCEPT ![a] = TRUE]
  /\ Goto(IF MustCapture(w) THEN "capture" ELSE "call")
  /\ UNCHANGED <<status, execTask, reconTask, world, history>>

(* Reads the labels at the provider and stores them in a transaction. *)
CaptureBeforeState(a, w) ==
  /\ phase = "capture"
  /\ act = a
  /\ rec = w
  /\ receipt' = [receipt EXCEPT ![w].before = world[w]]
  /\ Goto("call")
  /\ UNCHANGED <<status, marker, execTask, reconTask, world, history>>

-----------------------------------------------------------------------------
(* What the provider's state may become when a call that was to make it    *)
(* goal ends in answer r.  A refusal changed nothing; only mail is changed *)
(* message by message and so possibly in part.                             *)
WorldAfter(k, r, now, goal) ==
  CASE r \in {"ok", "no_identity"} -> {goal}
    [] r = "refused" -> {now}
    [] OTHER -> {now, goal} \cup IF k \in EmailKinds THEN {"partial"} ELSE {}

Answers(k) ==
  CASE k \in EmailKinds -> {"ok", "retry", "final", "unknown", "refused"}
    [] k \in {"calendar", "google"} -> {"ok", "no_identity", "unknown", "refused"}
    [] OTHER -> {"ok", "unknown"}

Goal(w) == IF Kind[w] = "undo" THEN receipt[Target[w]].before ELSE "changed"

(* The call outside any transaction.  retry and final are outputs that     *)
(* report a provider error; unknown is a transient error without output,   *)
(* refused a definite one.  For the agency any error is unknown.  The call *)
(* may also raise, whatever it did, and take the task to _mark_task_failed. *)
CallProvider(a, w) ==
  /\ phase = "call"
  /\ act = a
  /\ rec = w
  /\ calls' = [calls EXCEPT ![w] = @ + 1]
  /\ \/ \E r \in Answers(Kind[w]) :
          \E x \in WorldAfter(Kind[w], r, world[Target[w]], Goal(w)) :
            /\ world' = [world EXCEPT ![Target[w]] = x]
            /\ result' = r
            /\ phase' = "record"
     \/ \E x \in WorldAfter(Kind[w], "unknown", world[Target[w]], Goal(w)) :
          /\ world' = [world EXCEPT ![Target[w]] = x]
          /\ phase' = "raise"
          /\ UNCHANGED result
  /\ UNCHANGED <<db, act, rec, gaveUp>>

Recording(a, w, r) == phase = "record" /\ act = a /\ rec = w /\ result = r

(* Undo u succeeded: the receipt it reversed becomes undone. *)
RecordUndo(u, w) ==
  receipt' = [receipt EXCEPT ![u].st = "succeeded", ![u].retryable = FALSE,
                             ![w].st = IF @ = "succeeded" THEN "undone" ELSE @]

(* Also memory's settling transaction. *)
RecordSuccess(a, w) ==
  /\ Recording(a, w, "ok")
  /\ \/ /\ Kind[w] = "undo"
        /\ RecordUndo(w, Target[w])
     \/ /\ Kind[w] \in ReceiptKinds \ {"undo"}
        /\ RecordReceipt(a, w, "succeeded", FALSE)
     \/ /\ Kind[w] \notin ReceiptKinds
        /\ UNCHANGED receipt
  /\ Settle(a, "succeeded")
  /\ Goto("finish")
  /\ UNCHANGED <<execTask, reconTask, world, history>>

(* A transient error reported in an email output: the attempt stays as it  *)
(* is and the handler raises, so that the task is run again.               *)
RecordRetry(a, w) ==
  /\ Recording(a, w, "retry")
  /\ RecordReceipt(a, w, "failed", TRUE)
  /\ calls' = [calls EXCEPT ![w] = @ - 1]
  /\ Goto("raise")
  /\ UNCHANGED <<status, marker, execTask, reconTask, world, gaveUp>>

(* A definite failure. *)
RecordFailure(a, w) ==
  /\ \E r \in {"final", "refused"} : Recording(a, w, r)
  /\ RecordReceipt(a, w, "failed", FALSE)
  /\ Settle(a, "failed")
  /\ Goto("finish")
  /\ UNCHANGED <<execTask, reconTask, world, history>>

(* The provider may have acted: _provider_write_failure_receipt_status says *)
(* ambiguous, and a reconciliation is queued.  An agency run just fails.    *)
RecordUnknown(a, w) ==
  /\ \E r \in {"unknown", "no_identity"} : Recording(a, w, r)
  /\ IF Kind[w] \in ReceiptKinds
     THEN RecordReceipt(a, w, "ambiguous", FALSE) /\ EnqueueReconcile(w)
     ELSE UNCHANGED <<receipt, reconTask>>
  /\ Settle(a, "failed")
  /\ Goto("finish")
  /\ UNCHANGED <<execTask, world, history>>

-----------------------------------------------------------------------------
StartReconcile(w) ==
  /\ phase = "idle"
  /\ reconTask[w] >= 0
  /\ phase' = "inspect"
  /\ act' = NoAttempt
  /\ rec' = w
  /\ result' = "none"
  /\ UNCHANGED <<db, world, history>>

(* The receipt is no longer ambiguous: nothing to do. *)
NothingToReconcile(w) ==
  /\ phase = "inspect"
  /\ rec = w
  /\ receipt[w].st # "ambiguous"
  /\ Goto("finish")
  /\ UNCHANGED <<db, world, history>>

(* No probe for this capability, or no access or identity to make it. *)
MarkIndeterminate(w) ==
  /\ phase = "inspect"
  /\ rec = w
  /\ receipt[w].st = "ambiguous"
  /\ receipt' = [receipt EXCEPT ![w].checked = TRUE]
  /\ Goto("finish")
  /\ UNCHANGED <<status, marker, execTask, reconTask, world, history>>

(* The calendar is asked whether the event looks as requested; the agency  *)
(* daemon is sent the request again under the same client_request_id.      *)
Probe(w) ==
  /\ phase = "inspect"
  /\ rec = w
  /\ receipt[w].st = "ambiguous"
  /\ \/ /\ Kind[w] = "calendar"
        /\ result' \in {IF world[w] = "changed" THEN "match" ELSE "mismatch",
                        "probe_failed"}
        /\ UNCHANGED world
     \/ /\ Kind[w] = "request_pr"
        /\ \/ result' = "match" /\ world' = [world EXCEPT ![w] = "changed"]
           \/ result' = "probe_failed" /\ world' = world
           \/ result' = "probe_failed" /\ world' = [world EXCEPT ![w] = "changed"]
  /\ phase' = "learn"
  /\ UNCHANGED <<db, act, rec, history>>

Learning(w, r) ==
  phase = "learn" /\ rec = w /\ result = r /\ receipt[w].st = "ambiguous"

(* The write happened: the receipt and the attempt that owns it succeed. *)
LearnSuccess(w) ==
  /\ Learning(w, "match")
  /\ RecordReceipt(receipt[w].owner, w, "succeeded", FALSE)
  /\ Settle(receipt[w].owner, "succeeded")
  /\ Goto("finish")
  /\ UNCHANGED <<execTask, reconTask, world, history>>

(* It did not, or the probe failed.  The agency's failures and the         *)
(* retryable ones of the calendar then raise.                              *)
LearnNothing(w) ==
  /\ \E r \in {"mismatch", "probe_failed"} : Learning(w, r)
  /\ receipt' = [receipt EXCEPT ![w].checked = TRUE]
  /\ \/ Goto("finish") /\ Kind[w] = "calendar"
     \/ Goto("raise") /\ result = "probe_failed"
  /\ UNCHANGED <<status, marker, execTask, reconTask, world, history>>

-----------------------------------------------------------------------------
Idle == phase' = "idle" /\ act' = NoAttempt /\ rec' = NoWrite /\ result' = "none"

(* The handler returned: the row is deleted. *)
FinishTask ==
  /\ phase = "finish"
  /\ IF act # NoAttempt
     THEN execTask' = [execTask EXCEPT ![act] = -1] /\ UNCHANGED reconTask
     ELSE reconTask' = [reconTask EXCEPT ![rec] = -1] /\ UNCHANGED execTask
  /\ Idle
  /\ UNCHANGED <<status, marker, receipt, world, history>>

(* Any transaction of a handler may raise and roll back. *)
Raise ==
  /\ phase \in {"decide", "capture", "record", "inspect", "learn"}
  /\ Goto("raise")
  /\ UNCHANGED <<db, world, history>>

(* Mutant: the count has no limit. *)
AfterFailureUnlimited(n) == n + 1
(* The failed run's count, or -1 when the row is given up. *)
AfterFailure(n) == IF n + 1 < MaxTaskAttempts THEN n + 1 ELSE -1

(* Mutant: failed runs are not counted. *)
FailTaskKeepsRow ==
  phase = "raise" /\ Idle /\ UNCHANGED <<db, world, history>>
(* _mark_task_failed *)
FailTask ==
  /\ phase = "raise"
  /\ \/ /\ act # NoAttempt
        /\ execTask' = [execTask EXCEPT ![act] = AfterFailure(@)]
        /\ gaveUp' = gaveUp \cup {a \in {act} : execTask'[a] = -1}
        /\ UNCHANGED reconTask
     \/ /\ act = NoAttempt
        /\ reconTask' = [reconTask EXCEPT ![rec] = AfterFailure(@)]
        /\ gaveUp' = gaveUp \cup {w \in {rec} : reconTask'[w] = -1}
        /\ UNCHANGED execTask
  /\ Idle
  /\ UNCHANGED <<status, marker, receipt, world, calls>>

(* The worker process dies; what it committed stays. *)
Crash ==
  /\ phase # "idle"
  /\ Idle
  /\ UNCHANGED <<db, world, history>>

Decide(a, w) ==
  \/ ReplayReceipt(a, w) \/ Refuse(a, w) \/ MarkUnknown(a, w)
  \/ GateFails(a, w) \/ ExecuteOnHost(a, w) \/ ExecuteMemory(a, w)
  \/ Dispatch(a, w)

Carry(a, w) == CaptureBeforeState(a, w) \/ CallProvider(a, w)

Record(a, w) ==
  \/ RecordSuccess(a, w) \/ RecordRetry(a, w) \/ RecordFailure(a, w)
  \/ RecordUnknown(a, w)

Reconcile(w) ==
  \/ NothingToReconcile(w) \/ MarkIndeterminate(w) \/ Probe(w)
  \/ LearnSuccess(w) \/ LearnNothing(w)

Next ==
  \/ \E a \in Attempt : Authorize(a) \/ StartExecution(a) \/ AlreadySettled(a)
  \/ \E a \in Attempt :
       Decide(a, WriteOf[a]) \/ Carry(a, WriteOf[a]) \/ Record(a, WriteOf[a])
  \/ \E w \in Write : StartReconcile(w) \/ Reconcile(w)
  \/ FinishTask \/ Raise \/ FailTask \/ Crash

Spec == Init /\ [][Next]_vars

(***************************************************************************)
(* The worker loops for ever and takes every due row in the end            *)
(* (TaskQueue!KeyedWorkSettles).  It may be killed again and again, but    *)
(* not each time in the same stage of a handler: the stages are strongly   *)
(* fair.  A stage may raise instead; a raised run counts, so that ends.    *)
(***************************************************************************)
Fairness ==
  /\ \A a \in Attempt : SF_vars(StartExecution(a))
  /\ \A w \in Write : SF_vars(StartReconcile(w))
  /\ SF_vars(Raise \/ \E a \in Attempt : AlreadySettled(a) \/ Decide(a, WriteOf[a]))
  /\ SF_vars(Raise \/ \E a \in Attempt : Carry(a, WriteOf[a]))
  /\ SF_vars(Raise \/ \E a \in Attempt : Record(a, WriteOf[a]))
  /\ SF_vars(Raise \/ \E w \in Write : Reconcile(w))
  /\ SF_vars(FinishTask)
  /\ SF_vars(FailTask)

LiveSpec == Spec /\ Fairness

-----------------------------------------------------------------------------
(* Tables and the worker's local variables have their types; the count of  *)
(* failed runs of a queued row stays below MaxTaskAttempts.                *)
TypeOK ==
  /\ status \in [Attempt -> {"proposed", "executing"} \cup Terminal]
  /\ marker \in [Attempt -> BOOLEAN]
  /\ receipt \in [Write -> Receipt]
  /\ execTask \in [Attempt -> -1 .. MaxTaskAttempts - 1]
  /\ reconTask \in [Write -> -1 .. MaxTaskAttempts - 1]
  /\ phase \in {"idle", "decide", "capture", "call", "record", "inspect",
                "learn", "finish", "raise"}
  /\ act \in Attempt \cup {NoAttempt}
  /\ rec \in Write \cup {NoWrite}
  /\ result \in Results
  /\ world \in [Write -> WorldState]
  /\ calls \in [Write -> Nat]
  /\ gaveUp \subseteq Attempt \cup Write

(* The provider is called once per logical write, and once more only for   *)
(* each recorded failure that may be retried: neither a crash between the  *)
(* call and its record, nor a second attempt with the same idempotency     *)
(* key, nor a repeated task sends the write again.                         *)
CallsJustified ==
  \A w \in Write : calls[w] <= 1

(* "Ambiguous writes cannot be retried until reconciliation completes": an *)
(* ambiguous receipt only ever becomes succeeded, and while it is          *)
(* ambiguous no execution calls the provider for it.                       *)
AmbiguousIsFrozen ==
  [][\A w \in Write : receipt[w].st = "ambiguous" =>
       /\ receipt'[w].st \in {"ambiguous", "succeeded"}
       /\ calls'[w] = calls[w]]_vars

(* "Ambiguous writes create a reconciliation task": a receipt is not       *)
(* ambiguous without a task that will look at it, unless one has looked    *)
(* and found nothing, or was given up.                                     *)
AmbiguousIsFollowedUp ==
  \A w \in Write : receipt[w].st = "ambiguous" =>
    reconTask[w] >= 0 \/ receipt[w].checked \/ w \in gaveUp

(* A receipt left in executing blocks its key for every other attempt, so  *)
(* some dispatched attempt whose task is still queued always answers for   *)
(* it; only a task that was given up leaves it behind.                     *)
ExecutingHasRunner ==
  \A w \in Write : receipt[w].st = "executing" =>
    \E a \in Attempt :
      /\ WriteOf[a] = w /\ status[a] = "executing" /\ marker[a]
      /\ execTask[a] >= 0 \/ a \in gaveUp

Undoes(u, w) == Kind[u] = "undo" /\ Target[u] = w

(* An attempt that reports success is backed by its receipt and by the     *)
(* provider's state, also when the success was replayed for another        *)
(* attempt or learned by a probe; only an undo takes the effect away.      *)
SuccessIsReal ==
  \A a \in Attempt : status[a] = "succeeded" =>
    LET w == WriteOf[a] IN
    /\ Kind[w] \in ReceiptKinds => receipt[w].st \in {"succeeded", "undone"}
    /\ Kind[w] = "undo" => receipt[Target[w]].st = "undone"
    /\ Kind[w] # "undo" =>
         world[w] = "changed" \/ \E u \in Write : Undoes(u, w) /\ receipt[u].st # "none"

(* A key answers only for the input it was first used with: an attempt     *)
(* never succeeds on the strength of a receipt made for other input.       *)
ReceiptMatchesInput ==
  \A a \in Attempt :
    status[a] = "succeeded" /\ Kind[WriteOf[a]] \in ReceiptKinds
      => Digest[receipt[WriteOf[a]].owner] = Digest[a]

(* A receipt that says failed hides no effect, except in mail, where the   *)
(* output of a partial failure says which messages were changed.           *)
FailureIsReal ==
  \A w \in Write :
    Kind[w] \in {"calendar", "google"} /\ receipt[w].st = "failed"
      => world[w] = "orig"

(* A mutation reported undone left the mail as it was before the mutation  *)
(* was first tried, however many partial tries and retries it took.        *)
UndoneIsRestored ==
  \A w \in Write : receipt[w].st = "undone" => world[w] = "orig"

(* What attempts and receipts say, they can answer for: successes are real, *)
(* of the input they answer, failures hide nothing, an undo restores.      *)
AnswersAreTrue ==
  SuccessIsReal /\ ReceiptMatchesInput /\ FailureIsReal /\ UndoneIsRestored

(* No receipt is left open with nobody to close it. *)
OpenReceiptsAnsweredFor == AmbiguousIsFollowedUp /\ ExecutingHasRunner

(* A settled attempt changes its answer in one way only: the attempt that  *)
(* owns an ambiguous receipt goes from failed to succeeded together with   *)
(* the receipt.                                                            *)
SettledStays ==
  [][\A a \in Attempt : status[a] \in Terminal /\ status'[a] # status[a] =>
       /\ status'[a] = "succeeded"
       /\ receipt[WriteOf[a]].owner = a
       /\ receipt[WriteOf[a]].st = "ambiguous"
       /\ receipt'[WriteOf[a]].st = "succeeded"]_vars

Outcome(w) ==
  CASE receipt[w].st \in {"succeeded", "undone"} -> "done"
    [] receipt[w].st = "ambiguous" -> "unknown"
    [] receipt[w].st = "failed" /\ ~RetryableEmail(w) -> "refused"
    [] Kind[w] \notin ReceiptKinds
         /\ \E a \in Attempt : WriteOf[a] = w /\ status[a] = "succeeded" -> "done"
    [] OTHER -> "open"

Answer(a) ==
  CASE status[a] = "succeeded" -> "ok"
    [] status[a] = "failed" -> "error"
    [] OTHER -> "pending"

Abstract == INSTANCE LogicalWrite WITH
  outcome <- [w \in Write |-> Outcome(w)],
  answer <- [a \in Attempt |-> Answer(a)]

(* Execution implements LogicalWrite: one outcome per write, never         *)
(* reopened, and answers that follow from it.                              *)
ImplementsLogicalWrite == Abstract!Spec

(* An approved attempt is settled in the end, through crashes and raised   *)
(* runs, unless its task row was given up; then it stays executing.        *)
AttemptSettles ==
  \A a \in Attempt :
    status[a] = "executing" ~> (status[a] \in Terminal \/ a \in gaveUp)

(* An ambiguous receipt is looked at in the end, or its task given up. *)
AmbiguitySettles ==
  \A w \in Write :
    receipt[w].st = "ambiguous" ~>
      (receipt[w].st = "succeeded" \/ receipt[w].checked \/ w \in gaveUp)

(* Neither an approved attempt nor an ambiguous receipt waits for ever. *)
WritesSettle == AttemptSettles /\ AmbiguitySettles

=============================================================================
