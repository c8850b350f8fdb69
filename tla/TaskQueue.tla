------------------------------ MODULE TaskQueue ------------------------------
(***************************************************************************)
(* The durable work queue of Ariel: the background_tasks table and the     *)
(* single-threaded worker that drains it (worker.py, persistence.py).      *)
(*                                                                         *)
(* A row that exists and is due is the only pending state: there is no     *)
(* claim.  process_one_task runs three separate transactions around a      *)
(* handler: it seeds the maintenance rows, selects the earliest due row,   *)
(* runs the handler outside any transaction of its own, and then settles   *)
(* the row.  The process may die between any two of them, the API process  *)
(* enqueues rows and the Google disconnect deletes rows at any moment,     *)
(* also while the worker is running the very row that is deleted.          *)
(*                                                                         *)
(* Every database transaction is SERIALIZABLE (app.py) and is one step.    *)
(* Time is relative: a row stores how far its run_after lies from now, and *)
(* Tick moves now.  Rows are kept in the order of (created_at, id), the    *)
(* tie-break of the selection, so a row needs no other name here.          *)
(***************************************************************************)
EXTENDS Integers, Sequences, FiniteSets, SequencesExt

CONSTANTS
  Recurring,      \* task types seeded with recurrence_seconds
  Interval,       \* Interval[ty]: the recurrence of a recurring type
  Key,            \* idempotency keys that callers of enqueue pass
  NoKey,          \* a row enqueued without an idempotency key
  Delay,          \* how far ahead a caller may put run_after
  MaxAttempts,    \* MAX_TASK_ATTEMPTS (5 in the code)
  BackoffCap,     \* the retry delay never exceeds it (300 in the code)
  DreamInterval,  \* memory_dream_interval_seconds
  MaxRequested,   \* bound: rows callers have queued at one time
  MaxLag          \* bound: how far overdue a row may be before time waits

(* "provider" stands for provider_event_received and provider_sync_due, the *)
(* one-shot rows that a Google disconnect deletes; "other" for the rest.    *)
Requested == {"provider", "other"}
OneShot == Requested \cup {"memory_dream"}

ASSUME QueueAssumption ==
  /\ NoKey \notin Key
  /\ IsFiniteSet(Recurring)
  /\ Recurring \cap OneShot = {}
  /\ Interval \in [Recurring -> Nat \ {0}]
  /\ MaxAttempts \in Nat \ {0}
  /\ BackoffCap \in Nat \ {0}
  /\ DreamInterval \in Nat \ {0}
  /\ Delay \subseteq Nat
  /\ MaxRequested \in Nat
  /\ MaxLag \in Nat

VARIABLES
  queue,     \* the rows of background_tasks, oldest first
  phase,     \* where the worker is in process_one_task
  current,   \* the row it selected; 0: none, or deleted under the worker
  dreamAge   \* until the latest memory_dream turn is DreamInterval old

vars == <<queue, phase, current, dreamAge>>

(* turn: run_rememberer has written the TurnRecord of this task. *)
Row == [type : Recurring \cup OneShot, key : Key \cup {NoKey},
        attempts : 0 .. MaxAttempts - 1, due : Int, turn : BOOLEAN]

HasType(ty) == \E i \in DOMAIN queue : queue[i].type = ty
HasKey(k) == \E i \in DOMAIN queue : queue[i].key = k

NewRow(ty, k, d) ==
  [type |-> ty, key |-> k, attempts |-> 0, due |-> d, turn |-> FALSE]

(* A task re-armed to its next occurrence with a fresh retry budget. *)
Rearm(row) == [row EXCEPT !.due = Interval[row.type], !.attempts = 0]

MinOf(a, b) == IF a < b THEN a ELSE b
Backoff(attempts) == MinOf(BackoffCap, 2 ^ (attempts - 1))

-----------------------------------------------------------------------------
Init ==
  /\ queue = << >>
  /\ phase = "idle"
  /\ current = 0
  /\ dreamAge = 0

(* The existing row that enqueue_background_task returns instead of adding *)
(* one; the partial unique index on idempotency_key backs it up.           *)
KeyTaken(k) == k # NoKey /\ HasKey(k)

(* enqueue_background_task, called by the API process, the pub/sub sidecar *)
(* or a running handler.  When the key is taken nothing changes.           *)
Enqueue(ty, k, d) ==
  /\ Cardinality({i \in DOMAIN queue : queue[i].type \in Requested}) < MaxRequested
  /\ ~KeyTaken(k)
  /\ queue' = Append(queue, NewRow(ty, k, d))
  /\ UNCHANGED <<phase, current, dreamAge>>

(* Mutant: the latest dream turn is not looked at. *)
DreamDueWhenUnqueued == ~HasType("memory_dream")
(* enqueue_due_memory_dream: no dream row and no dream turn of late. *)
DreamDue == ~HasType("memory_dream") /\ dreamAge = 0

(* Mutant: seeding does not look for the rows that exist. *)
SeedAllTypes == Recurring \cup {ty \in {"memory_dream"} : DreamDue}
(* The types the seeding transaction inserts a row for. *)
Missing == {ty \in Recurring : ~HasType(ty)}
             \cup {ty \in {"memory_dream"} : DreamDue}

(* The first transaction of process_one_task.  The rows it adds share one  *)
(* created_at and have random ids: they come in any order.                 *)
Seed ==
  /\ phase = "idle"
  /\ \E types \in SetToSeqs(Missing) :
       queue' = queue \o [i \in DOMAIN types |-> NewRow(types[i], NoKey, 0)]
  /\ phase' = "seeded"
  /\ UNCHANGED <<current, dreamAge>>

(* ORDER BY run_after, created_at, id LIMIT 1 over the due rows. *)
Selectable(i) ==
  /\ queue[i].due <= 0
  /\ \A j \in DOMAIN queue \ {i} :
       \/ queue[i].due < queue[j].due
       \/ queue[i].due = queue[j].due /\ i < j

(* The second transaction reads the row; it neither claims nor changes it. *)
Select ==
  /\ phase = "seeded"
  /\ \E i \in DOMAIN queue : Selectable(i) /\ current' = i
  /\ phase' = "running"
  /\ UNCHANGED <<queue, dreamAge>>

(* Nothing is due: process_one_task returns False and run_worker sleeps. *)
Sleep ==
  /\ phase = "seeded"
  /\ \A i \in DOMAIN queue : queue[i].due > 0
  /\ phase' = "idle"
  /\ UNCHANGED <<queue, current, dreamAge>>

(* The first transaction of run_rememberer: one turn per task, and a retry *)
(* of the task finds it and only settles it.                               *)
RecordDreamTurn ==
  /\ phase = "running"
  /\ current # 0
  /\ queue[current].type = "memory_dream"
  /\ ~queue[current].turn
  /\ queue' = [queue EXCEPT ![current].turn = TRUE]
  /\ dreamAge' = DreamInterval
  /\ UNCHANGED <<phase, current>>

(* The worker is done with the selected row, whatever became of it. *)
Release == phase' = "idle" /\ current' = 0

(* Mutant: a recurring row is deleted like any other. *)
FinishDeletes ==
  /\ phase = "running"
  /\ queue' = IF current = 0 THEN queue ELSE RemoveAt(queue, current)
  /\ Release
  /\ UNCHANGED dreamAge
(* The handler returned: the last transaction of process_one_task.  It     *)
(* accepts that the row is gone.  A dream returns only with its turn.      *)
Finish ==
  /\ phase = "running"
  /\ \/ /\ current = 0
        /\ UNCHANGED queue
     \/ /\ current # 0
        /\ queue[current].type \in Recurring
        /\ queue' = [queue EXCEPT ![current] = Rearm(@)]
     \/ /\ current # 0
        /\ queue[current].type \in OneShot
        /\ queue[current].type = "memory_dream" => queue[current].turn
        /\ queue' = RemoveAt(queue, current)
  /\ Release
  /\ UNCHANGED dreamAge

(* Mutant: the attempts are capped and never exhausted. *)
FailRetriesForever ==
  /\ phase = "running"
  /\ queue' = IF current = 0 THEN queue
              ELSE LET a == MinOf(queue[current].attempts + 1, MaxAttempts - 1)
                   IN [queue EXCEPT ![current].attempts = a,
                                    ![current].due = Backoff(a)]
  /\ Release
  /\ UNCHANGED dreamAge
(* The handler raised: _mark_task_failed. *)
Fail ==
  /\ phase = "running"
  /\ \/ /\ current = 0
        /\ UNCHANGED queue
     \/ /\ current # 0
        /\ LET attempts == queue[current].attempts + 1 IN
           \/ /\ attempts < MaxAttempts
              /\ queue' = [queue EXCEPT ![current].attempts = attempts,
                                        ![current].due = Backoff(attempts)]
           \/ /\ attempts >= MaxAttempts
              /\ queue[current].type \in Recurring
              /\ queue' = [queue EXCEPT ![current] = Rearm(@)]
           \/ /\ attempts >= MaxAttempts
              /\ queue[current].type \in OneShot
              /\ queue' = RemoveAt(queue, current)
  /\ Release
  /\ UNCHANGED dreamAge

(* The worker process dies and is started again.  Its rows are untouched,  *)
(* the attempt is not counted.                                             *)
Crash ==
  /\ phase # "idle"
  /\ Release
  /\ UNCHANGED <<queue, dreamAge>>

(* The rows the Google disconnect leaves. *)
Kept == {i \in DOMAIN queue : queue[i].type # "provider"}

(* _clear_disconnected_provider_state, in the API process, at any moment,  *)
(* also on the row the worker is running.  What is left keeps its order.   *)
Disconnect ==
  /\ Kept # DOMAIN queue
  /\ \E place \in [1 .. Cardinality(Kept) -> Kept] :
       /\ \A i, j \in DOMAIN place : i < j => place[i] < place[j]
       /\ queue' = [i \in DOMAIN place |-> queue[place[i]]]
  /\ current' = IF current \in Kept THEN Cardinality({i \in Kept : i <= current}) ELSE 0
  /\ UNCHANGED <<phase, dreamAge>>

(* Time passes.  MaxLag only bounds how late rows get: rows enqueued later *)
(* sort behind them at any lag.                                            *)
Tick ==
  /\ \A i \in DOMAIN queue : queue[i].due > -MaxLag
  /\ queue' = [i \in DOMAIN queue |-> [queue[i] EXCEPT !.due = @ - 1]]
  /\ dreamAge' = IF dreamAge = 0 THEN 0 ELSE dreamAge - 1
  /\ UNCHANGED <<phase, current>>

Next ==
  \/ \E ty \in Requested, k \in Key \cup {NoKey}, d \in Delay : Enqueue(ty, k, d)
  \/ Seed
  \/ Select
  \/ Sleep
  \/ RecordDreamTurn
  \/ Finish
  \/ Fail
  \/ Crash
  \/ Disconnect
  \/ Tick

Spec == Init /\ [][Next]_vars

(***************************************************************************)
(* run_worker loops for ever and the clock advances.  The process may be   *)
(* killed at any point, again and again, so the steps after a commit are   *)
(* strongly fair: not every run of a handler ends in a crash.  A crash     *)
(* counts no attempt and the crashed row stays the earliest, so nothing    *)
(* weaker is enough (README, fairness).                                    *)
(***************************************************************************)
Fairness ==
  /\ WF_vars(Seed)
  /\ SF_vars(Select \/ Sleep)
  /\ SF_vars(Finish \/ Fail)
  /\ WF_vars(Tick)

LiveSpec == Spec /\ Fairness

-----------------------------------------------------------------------------
(* The rows are well formed, the retry count never reaches the limit at    *)
(* rest, and the worker holds a row that exists.                           *)
TypeOK ==
  /\ queue \in Seq(Row)
  /\ phase \in {"idle", "seeded", "running"}
  /\ current \in 0 .. Len(queue)
  /\ dreamAge \in 0 .. DreamInterval

(* An idempotency key belongs to one live row, so work that carries a key  *)
(* is not queued twice while it is pending (the unique index               *)
(* ix_background_tasks_idempotency_key_unique can not be hit).             *)
KeysUnique ==
  \A i, j \in DOMAIN queue :
    queue[i].key = queue[j].key /\ queue[i].key # NoKey => i = j

(* "Ensure exactly one recurring task of each provider-maintenance type    *)
(* exists": seeding on every iteration, re-arming and crashes between the  *)
(* two never leave two rows of a recurring type, or two dream rows.        *)
OneRowPerSeededType ==
  \A i, j \in DOMAIN queue :
    /\ queue[i].type = queue[j].type
    /\ queue[i].type \in Recurring \cup {"memory_dream"}
    => i = j

(* Between the callers, the worker and the purges the table stays sound.   *)
QueueSound == TypeOK /\ KeysUnique /\ OneRowPerSeededType

(* "A recurring maintenance task is never permanently lost": once a        *)
(* recurring type has a row, it has one for ever; no failure, exhaustion   *)
(* or disconnect takes it out of the queue.                                *)
RecurringNeverLost ==
  [][\A ty \in Recurring : HasType(ty) => HasType(ty)']_vars

(* The dream honours "the configured interval": two memory_dream turns are *)
(* at least DreamInterval apart, although the row is deleted when it       *)
(* completes, may be abandoned, and is run again after a crash.            *)
DreamsSpaced == [][dreamAge' > dreamAge => dreamAge = 0]_vars

(* Keyed work does not stay queued for ever: it succeeds, exhausts its     *)
(* attempts or is purged, however many rows keep arriving, so the key is   *)
(* free again.                                                             *)
KeyedWorkSettles == \A k \in Key : HasKey(k) ~> ~HasKey(k)

(* Every recurring type runs again and again, in spite of failures,        *)
(* exhausted attempts and a stream of new one-shot rows.                   *)
RecurringKeepsRunning ==
  \A ty \in Recurring :
    []<>(phase = "running" /\ current # 0 /\ queue[current].type = ty)

(* Nothing waits for ever, neither keyed work nor the recurring types.     *)
WorkProgresses == KeyedWorkSettles /\ RecurringKeepsRunning

=============================================================================
