------------------------------ MODULE AgencyJobs ------------------------------
(***************************************************************************)
(* Coding jobs (agency_daemon.py, the agency event endpoint of app.py and  *)
(* the agency_event_received arm of worker.py).                            *)
(*                                                                         *)
(* An approved cap.agency.run is dispatched by the worker: the attempt is  *)
(* marked, the daemon is called outside a transaction, and the answer is   *)
(* written with the job.  The daemon reports by signed events, at least    *)
(* once and in any order; the API stores each once and queues a task.  The *)
(* agent may read the daemon's own state, and ask for a pull request.      *)
(***************************************************************************)
EXTENDS Naturals, FiniteSets

CONSTANTS
  Run,        \* daemon tasks, each asked for by one attempt (its request id)
  Event,      \* event ids of the daemon
  About,      \* About[e]: the run and the type of an event
  MaxRetries  \* MAX_TASK_ATTEMPTS

(* _job_status_for_event, and _job_status for the states of the daemon. *)
StatusFor ==
  [queued |-> "queued", started |-> "running", progress |-> "running",
   waiting |-> "waiting_approval", completed |-> "succeeded", failed |-> "failed",
   cancelled |-> "cancelled", timed_out |-> "timed_out"]
(* The events of a job that wait for somebody or are the last. *)
Waking == {"waiting", "completed", "failed", "cancelled", "timed_out"}

(* What the daemon must have come to before it sends an event. *)
Ended(type) == type \in {"completed", "failed", "cancelled", "timed_out"}

VARIABLES
  daemon,    \* the state of a task in the daemon
  attempt,   \* the action attempt that asks for it
  tracked,   \* its JobRecord
  event,     \* AgencyEventRecord: status; the attempts of its task
  applied,   \* JobEventRecords of an event
  woken,     \* agent_wake tasks queued for an event
  busy       \* what the worker is in the middle of

agency == <<daemon, attempt, tracked, event, applied, woken, busy>>

Busy(with, of) == [with |-> with, of |-> of]
Free == Busy("nothing", "none")

(* linked: it has the turn and the attempt that asked for it; known: it    *)
(* has the repository and task ids of the daemon.                          *)
NoJob == [status |-> "none", linked |-> FALSE, known |-> FALSE, pr |-> FALSE]

Init ==
  /\ daemon = [r \in Run |-> "none"]
  /\ attempt = [r \in Run |-> "approved"]
  /\ tracked = [r \in Run |-> NoJob]
  /\ event = [e \in Event |-> [is |-> "unsent", tries |-> 0]]
  /\ applied = [e \in Event |-> 0]
  /\ woken = [e \in Event |-> 0]
  /\ busy = Free

-----------------------------------------------------------------------------
(* The daemon. *)

DaemonMoves(r) ==
  /\ daemon[r] \in {"running", "waiting_approval"}
  /\ \E state \in {"running", "waiting_approval", "succeeded", "failed"} \ {daemon[r]} :
       daemon' = [daemon EXCEPT ![r] = state]
  /\ UNCHANGED <<attempt, tracked, event, applied, woken, busy>>

NotStored(e) == event[e].is = "unsent"

(* post_agency_event: the event and its task, once.  A second delivery is  *)
(* acknowledged as a duplicate, or refused when its content differs; two   *)
(* at the same time collide on the unique constraint and one tries again.  *)
Receive(e) ==
  LET about == About[e] IN
  /\ about.type # "heartbeat" =>
       /\ daemon[about.run] # "none"
       /\ Ended(about.type) => daemon[about.run] \in {"succeeded", "failed"}
  /\ NotStored(e)
  /\ event' = [event EXCEPT ![e] = [is |-> "accepted", tries |-> 0]]
  /\ UNCHANGED <<daemon, attempt, tracked, applied, woken, busy>>

-----------------------------------------------------------------------------
(* The worker starts a run. *)

(* The attempt is marked provider_call_started, in a transaction. *)
Dispatch(r) ==
  /\ busy = Free
  /\ attempt[r] = "approved"
  /\ attempt' = [attempt EXCEPT ![r] = "started"]
  /\ busy' = Busy("call", r)
  /\ UNCHANGED <<daemon, tracked, event, applied, woken>>

(* start_run: the repository must be allowed; the daemon starts one task   *)
(* for a client_request_id.                                                *)
Starts(r) == daemon' = [daemon EXCEPT ![r] = IF @ = "none" THEN "running" ELSE @]

Call(r) ==
  /\ busy = Busy("call", r)
  /\ Starts(r)
  /\ busy' = Busy("record", r)
  /\ UNCHANGED <<attempt, tracked, event, applied, woken>>

(* AgencyDaemonError: refused, unreachable, or started but not answered.   *)
CallFails(r) ==
  /\ busy = Busy("call", r)
  /\ Starts(r) \/ UNCHANGED daemon
  /\ attempt' = [attempt EXCEPT ![r] = "failed"]
  /\ busy' = Free
  /\ UNCHANGED <<tracked, event, applied, woken>>

(* record_run_started: a job that is not known yet belongs to this turn    *)
(* and attempt; one that is known only takes the daemon's fields.          *)
RecordRun(r) ==
  /\ busy = Busy("record", r)
  /\ tracked' = [tracked EXCEPT ![r].status = "running",
                                ![r].linked = @ \/ tracked[r] = NoJob,
                                ![r].known = TRUE]
  /\ attempt' = [attempt EXCEPT ![r] = "succeeded"]
  /\ busy' = Free
  /\ UNCHANGED <<daemon, event, applied, woken>>

(* The worker died after it marked the attempt: the task finds the mark    *)
(* and fails the attempt, for the call may have been made.                 *)
GiveUp(r) ==
  /\ busy = Free
  /\ attempt[r] = "started"
  /\ attempt' = [attempt EXCEPT ![r] = "failed"]
  /\ UNCHANGED <<daemon, tracked, event, applied, woken, busy>>

-----------------------------------------------------------------------------
(* The worker applies an event. *)

(* Mutant: processed_at is not looked at. *)
UnprocessedAlways(e) == event[e].is # "unsent"
Unprocessed(e) == event[e].is = "accepted"

(* _process_agency_event_received, one transaction: the last event applied *)
(* is the status, whichever was sent last.                                 *)
Apply(e) ==
  LET about == About[e] IN
  /\ busy = Free
  /\ event[e].is \in {"accepted", "processed"}
  /\ Unprocessed(e)
  /\ event' = [event EXCEPT ![e].is = "processed"]
  /\ \/ /\ about.type = "heartbeat"
        /\ UNCHANGED <<tracked, applied, woken>>
     \/ /\ about.type # "heartbeat"
        /\ tracked' = [tracked EXCEPT ![about.run].status = StatusFor[about.type]]
        /\ applied' = [applied EXCEPT ![e] = @ + 1]
        /\ woken' = IF about.type \in Waking THEN [woken EXCEPT ![e] = @ + 1] ELSE woken
  /\ busy' = Busy("settle", e)
  /\ UNCHANGED <<daemon, attempt>>

(* The task is run again after a crash: a processed event is left alone.   *)
Again(e) ==
  /\ busy = Free
  /\ event[e].is = "processed"
  /\ ~Unprocessed(e)
  /\ busy' = Busy("settle", e)
  /\ UNCHANGED <<daemon, attempt, tracked, event, applied, woken>>

(* The task of the event is deleted. *)
SettleEvent(e) ==
  /\ busy = Busy("settle", e)
  /\ event' = [event EXCEPT ![e].is = "settled"]
  /\ busy' = Free
  /\ UNCHANGED <<daemon, attempt, tracked, applied, woken>>

(* The transaction is rolled back and the task tried again, a few times.   *)
ApplyFails(e) ==
  /\ busy = Free
  /\ event[e].is = "accepted"
  /\ event' = [event EXCEPT ![e].tries = @ + 1,
                            ![e].is = IF event[e].tries + 1 < MaxRetries
                                      THEN "accepted" ELSE "abandoned"]
  /\ UNCHANGED <<daemon, attempt, tracked, applied, woken, busy>>

WorkerDies ==
  /\ busy # Free
  /\ busy' = Free
  /\ UNCHANGED <<daemon, attempt, tracked, event, applied, woken>>

-----------------------------------------------------------------------------
(* The agent, in a turn of the worker. *)

(* cap.agency.status asks the daemon and takes over what it says, also for *)
(* a job that only events made, when the agent names the repository.       *)
ReadStatus(r) ==
  /\ busy = Free
  /\ tracked[r] # NoJob
  /\ tracked' = [tracked EXCEPT ![r].status = daemon[r], ![r].known = TRUE]
  /\ UNCHANGED <<daemon, attempt, event, applied, woken, busy>>

(* cap.agency.request_pr: prepare needs the repository of the job; landing *)
(* and the pull request are ProviderWrite's, the result is written into    *)
(* the job.                                                                *)
RequestPr(r) ==
  /\ busy = Free
  /\ tracked[r].known
  /\ tracked' = [tracked EXCEPT ![r].pr = TRUE]
  /\ UNCHANGED <<daemon, attempt, event, applied, woken, busy>>

Next ==
  \/ \E r \in Run :
       \/ DaemonMoves(r)
       \/ Dispatch(r)
       \/ Call(r)
       \/ CallFails(r)
       \/ RecordRun(r)
       \/ GiveUp(r)
       \/ ReadStatus(r)
       \/ RequestPr(r)
  \/ \E e \in Event : Receive(e) \/ Apply(e) \/ Again(e) \/ SettleEvent(e) \/ ApplyFails(e)
  \/ WorkerDies

Spec == Init /\ [][Next]_agency

-----------------------------------------------------------------------------
(* An event changes its job once and wakes the agent at most once, however *)
(* often it is delivered and its task is run; a job that waits or has      *)
(* ended has woken the agent when its event is settled.                    *)
EventsApplyOnce ==
  \A e \in Event :
    /\ applied[e] <= 1
    /\ woken[e] <= applied[e]
    /\ event[e].is = "settled" /\ About[e].type \in Waking => woken[e] = 1
    /\ applied[e] = 1 => tracked[About[e].run].status # "none"

(* The job of an attempt that succeeded belongs to it: no event of the     *)
(* daemon, however early, makes the job before the answer is recorded.     *)
StartedJobsBelong ==
  \A r \in Run :
    /\ attempt[r] = "succeeded" <=> tracked[r].linked
    /\ tracked[r].pr => tracked[r].known
    /\ tracked[r].status # "none" => daemon[r] # "none"

JobsSound == EventsApplyOnce /\ StartedJobsBelong

=============================================================================
