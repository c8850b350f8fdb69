---------------------------- MODULE BackgroundTurns ----------------------------
(***************************************************************************)
(* The turns nobody waits for: research runs (research_runtime.py) and     *)
(* the rememberer (memory.py), which the worker runs as background tasks.  *)
(*                                                                         *)
(* Both drive the agent loop, which commits after every clean program, and *)
(* both find the turn of an earlier attempt by source_background_task_id.  *)
(* A research run ends in a finding, stored in the terminal event of its   *)
(* turn; the worker then queues an agent_wake that carries it back.  A     *)
(* rememberer edits notes, program by program, and returns nothing.        *)
(***************************************************************************)
EXTENDS Naturals, Sequences

CONSTANTS
  Research,   \* research_run tasks
  Memory,     \* memory_encode and memory_dream tasks
  MaxTries,   \* MAX_TASK_ATTEMPTS
  MaxEdits    \* bound: programs with note edits in one turn

Background == Research \cup Memory
Finding == {"complete", "partial", "failed"}

VARIABLES
  job,       \* the task: "queued", "done" or "gone", and the attempts used
  run,       \* its TurnRecord as committed: status, finding, edits of notes
  returned,  \* the findings of the agent_wake tasks queued for it
  wakes,     \* those of them the worker has run
  doing      \* the step the worker is at, and for which task

background == <<job, run, returned, wakes, doing>>

Nothing == [at |-> "idle", task |-> "none"]
Does(step) == doing.at = step
Goes(step) == doing' = [doing EXCEPT !.at = step]
ClosedRun(t) == run[t].status \in {"completed", "failed"}

Init ==
  /\ job = [t \in Background |-> [is |-> "queued", tries |-> 0]]
  /\ run = [t \in Background |-> [status |-> "none", finding |-> "none", edits |-> 0]]
  /\ returned = [t \in Research |-> << >>]
  /\ wakes = [t \in Research |-> 0]
  /\ doing = Nothing

-----------------------------------------------------------------------------
(* The turn of an earlier attempt is looked for first. *)
First(t) == run[t].status = "none"

(* The rememberer commits its turn before the loop starts; a research turn *)
(* waits for the first program.                                            *)
Open(t) ==
  /\ Does("idle")
  /\ job[t].is = "queued"
  /\ First(t)
  /\ run' = IF t \in Memory THEN [run EXCEPT ![t].status = "in_progress"] ELSE run
  /\ doing' = [at |-> "loop", task |-> t]
  /\ UNCHANGED <<job, returned, wakes>>

(* A program committed: the turn, its events and, in a rememberer, what    *)
(* the program did to the notes.                                           *)
Program ==
  LET t == doing.task IN
  /\ Does("loop")
  /\ run' = [run EXCEPT ![t].status = "in_progress",
                        ![t].edits = IF t \in Memory /\ @ < MaxEdits THEN @ + 1 ELSE @]
  /\ UNCHANGED <<job, returned, wakes, doing>>

(* The loop returned, and the turn is closed with what it returned.  The   *)
(* rememberer does not look at it: its turn is completed in any case.      *)
CloseResearch(finding) ==
  /\ Does("loop")
  /\ doing.task \in Research
  /\ run' = [run EXCEPT ![doing.task].status = IF finding = "failed" THEN "failed" ELSE "completed",
                        ![doing.task].finding = finding]
  /\ Goes("closed")
  /\ UNCHANGED <<job, returned, wakes>>

CloseMemory ==
  /\ Does("loop")
  /\ doing.task \in Memory
  /\ run' = [run EXCEPT ![doing.task].status = "completed"]
  /\ Goes("settling")
  /\ UNCHANGED <<job, returned, wakes>>

(* An earlier attempt left a turn.  One it left open is closed as failed,  *)
(* with a finding that says so; a closed one answers with its finding.     *)
ResumeResearch(t) ==
  /\ Does("idle")
  /\ t \in Research
  /\ job[t].is = "queued"
  /\ ~First(t)
  /\ run' = IF ClosedRun(t) THEN run
            ELSE [run EXCEPT ![t].status = "failed", ![t].finding = "failed"]
  /\ doing' = [at |-> "closed", task |-> t]
  /\ UNCHANGED <<job, returned, wakes>>

ResumeMemory(t) ==
  /\ Does("idle")
  /\ t \in Memory
  /\ job[t].is = "queued"
  /\ ~First(t)
  /\ run' = IF ClosedRun(t) THEN run ELSE [run EXCEPT ![t].status = "failed"]
  /\ doing' = [at |-> "settling", task |-> t]
  /\ UNCHANGED <<job, returned, wakes>>

(* Mutant: the wake has no idempotency key. *)
UnkeyedWake(t) == TRUE
(* research_completion:<task id> names one queued task at a time. *)
NoWakeQueued(t) == wakes[t] = Len(returned[t])

(* _process_research_run, after the run. *)
ReturnFinding ==
  LET t == doing.task IN
  /\ Does("closed")
  /\ returned' = IF NoWakeQueued(t) THEN [returned EXCEPT ![t] = Append(@, run[t].finding)]
                 ELSE returned
  /\ Goes("settling")
  /\ UNCHANGED <<job, run, wakes>>

Delete ==
  /\ Does("settling")
  /\ job' = [job EXCEPT ![doing.task].is = "done"]
  /\ doing' = Nothing
  /\ UNCHANGED <<run, returned, wakes>>

(* The wake is run, and its row deleted.  It was queued after the task     *)
(* that queued it, so the worker takes that one first while it is there.   *)
RunWake(t) ==
  /\ Does("idle")
  /\ ~NoWakeQueued(t)
  /\ job[t].is # "queued"
  /\ wakes' = [wakes EXCEPT ![t] = @ + 1]
  /\ UNCHANGED <<job, run, returned, doing>>

(* An attempt raised. *)
FailTask ==
  LET t == doing.task IN
  /\ doing.at \in {"loop", "closed"}
  /\ job' = [job EXCEPT ![t].tries = @ + 1,
                        ![t].is = IF job[t].tries + 1 < MaxTries THEN "queued" ELSE "gone"]
  /\ doing' = Nothing
  /\ UNCHANGED <<run, returned, wakes>>

CrashTask ==
  /\ ~Does("idle")
  /\ doing' = Nothing
  /\ UNCHANGED <<job, run, returned, wakes>>

Next ==
  \/ \E t \in Background : Open(t) \/ ResumeResearch(t) \/ ResumeMemory(t)
  \/ Program
  \/ \E finding \in Finding : CloseResearch(finding)
  \/ CloseMemory
  \/ ReturnFinding
  \/ Delete
  \/ \E t \in Research : RunWake(t)
  \/ FailTask
  \/ CrashTask

Spec == Init /\ [][Next]_background

-----------------------------------------------------------------------------
(* A research run answers once, with the finding its turn stored, however  *)
(* often the worker died on the way, and is not done before it has; a      *)
(* rememberer that was cut short is not run a second time over the notes   *)
(* it has edited.                                                          *)
FindingReturnsOnce ==
  /\ \A t \in Research :
       /\ Len(returned[t]) <= 1
       /\ \A i \in DOMAIN returned[t] : returned[t][i] = run[t].finding
       /\ job[t].is = "done" => returned[t] # << >> /\ ClosedRun(t)
  /\ \A t \in Memory :
       /\ job[t].is = "done" => ClosedRun(t)
       /\ Does("loop") /\ doing.task = t => run[t].status = "in_progress"

=============================================================================
