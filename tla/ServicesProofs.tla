---------------------------- MODULE ServicesProofs ----------------------------
(***************************************************************************)
(* Proofs about the services around the agent loop: ingress, background    *)
(* turns, agency jobs, attachments, evidence, reads of the web and inputs  *)
(* of capabilities.  They share no state, so the theorems about each are   *)
(* about its own specification, for every value of its constants that      *)
(* ServicesAssumption allows.                                              *)
(***************************************************************************)
EXTENDS Services, Sequences, FiniteSets, SequenceTheorems, WellFoundedInduction, TLAPS

-----------------------------------------------------------------------------
(* Ingress: posts, wakes and captures. *)

IdempotencyRow ==
  [body : Ingress!Submitted \cup {"none"}, reply : {"none", "accepted"} \cup Ingress!Final]
TaskRow == [is : {"none", "queued", "done", "gone"}, attempts : Nat]

IngressTypes ==
  /\ record \in [Keyed -> IdempotencyRow]
  /\ task \in [Ingress!Task -> TaskRow]
  /\ turn \in [Ingress!Task -> {"none", "in_progress"} \cup Ingress!Final]
  /\ worker \in [at : {"idle", "turn", "closed", "recorded", "delivered"},
                 task : Ingress!Task \cup {"none"}, overtaken : {"no", "unseen", "seen"}]
  /\ \A t \in Ingress!Task : Ingress!Queued(t) => task[t].attempts < MaxAttempts

(* The worker has a task of the queue, whose turn it has closed before it  *)
(* writes the record, and has written the record before it delivers.       *)
WorkerOnTurn ==
  LET t == worker.task IN
  /\ ~Ingress!At("idle") => t \in Ingress!Task /\ Ingress!Queued(t)
  /\ Ingress!At("turn") => turn[t] \in {"none", "in_progress"}
  /\ worker.at \in {"closed", "recorded", "delivered"} => turn[t] \in Ingress!Final
  /\ worker.at \in {"recorded", "delivered"} /\ t \in Keyed => record[t].reply = turn[t]

(* A key without a record has no task. *)
AcceptedFirst == \A k \in Keyed : record[k].reply = "none" => task[k].is = "none"

(* Every answer in the channel has the nonce of its turn. *)
Delivered ==
  \A m \in discord : /\ m.task \in Ingress!Task
                     /\ m = [task |-> m.task, nonce |-> Ingress!Nonce(m.task)]
                     /\ turn[m.task] = "answered"

IngressInv ==
  /\ IngressTypes
  /\ WorkerOnTurn
  /\ AcceptedFirst
  /\ Ingress!RecordAgrees
  /\ Delivered

(* Posts, tasks and turns that are still to come agree. *)
LEMMA IngressInit == ASSUME IngressConstants PROVE Ingress!Init => IngressInv
<1> SUFFICES ASSUME Ingress!Init PROVE IngressInv
  OBVIOUS
<1> USE DEF Ingress!Init, IngressConstants, Ingress!NewTask, Ingress!Idle
<1>1. IngressTypes
  <2>1. record \in [Keyed -> IdempotencyRow]
    BY DEF IdempotencyRow
  <2>2. /\ task \in [Ingress!Task -> TaskRow]
        /\ \A t \in Ingress!Task : task[t].attempts = 0
    <3>1. [is |-> "none", attempts |-> 0] \in TaskRow /\ [is |-> "queued", attempts |-> 0] \in TaskRow
      BY DEF TaskRow
    <3>2. task = [t \in Ingress!Task |-> IF t \in Keyed THEN [is |-> "none", attempts |-> 0]
                                                       ELSE [is |-> "queued", attempts |-> 0]]
      OBVIOUS
    <3>3. QED
      BY <3>1, <3>2
  <2>3. turn \in [Ingress!Task -> {"none", "in_progress"} \cup Ingress!Final]
    OBVIOUS
  <2>4. worker \in [at : {"idle", "turn", "closed", "recorded", "delivered"},
                    task : Ingress!Task \cup {"none"}, overtaken : {"no", "unseen", "seen"}]
    OBVIOUS
  <2>5. QED
    BY <2>1, <2>2, <2>3, <2>4 DEF IngressTypes
<1>2. WorkerOnTurn
  BY DEF WorkerOnTurn, Ingress!At
<1>3. AcceptedFirst
  BY DEF AcceptedFirst, Ingress!Task
<1>4. Ingress!RecordAgrees
  BY DEF Ingress!RecordAgrees, Ingress!Task, Ingress!Final
<1>5. Delivered
  BY DEF Delivered
<1>6. QED
  BY <1>1, <1>2, <1>3, <1>4, <1>5 DEF IngressInv

(* What AnswersStand asks of a step. *)
StandingStep ==
  /\ \A k \in Keyed : record[k].reply # "none" => record'[k].body = record[k].body
  /\ \A k \in Keyed : record[k].reply \in Ingress!Final => record'[k].reply = record[k].reply
  /\ \A t \in Ingress!Task : turn[t] \in Ingress!Final => turn'[t] = turn[t]
  /\ \A t \in Ingress!Task : turn'[t] = "answered" => turn[t] = "answered" \/ worker.overtaken # "seen"

(* Each step of bot, API and worker keeps the invariant, and what was      *)
(* answered.                                                               *)
LEMMA IngressStep ==
  ASSUME IngressConstants, IngressInv, [Ingress!Next]_(Ingress!ingress)
  PROVE  IngressInv' /\ StandingStep
<1> USE DEF IngressConstants, IngressInv, Ingress!At, Ingress!Queued, Ingress!Moves, Ingress!Idle, Ingress!Final
<1>1. CASE UNCHANGED Ingress!ingress
  BY <1>1 DEF Ingress!ingress, IngressTypes, WorkerOnTurn, AcceptedFirst, Ingress!RecordAgrees,
       Delivered, StandingStep
<1>2. ASSUME NEW k \in Keyed, Ingress!Post(k)
      PROVE  IngressInv' /\ StandingStep
  <2>1. IngressTypes'
    BY <1>2 DEF Ingress!Post, Ingress!New, Ingress!NewTask, WorkerOnTurn, IngressTypes, IdempotencyRow,
         TaskRow, Ingress!Task
  <2>2. WorkerOnTurn'
    BY <1>2 DEF Ingress!Post, Ingress!New, Ingress!NewTask, AcceptedFirst, WorkerOnTurn, IngressTypes,
         IdempotencyRow, TaskRow, Ingress!Task
  <2>3. AcceptedFirst'
    BY <1>2 DEF Ingress!Post, Ingress!New, Ingress!NewTask, AcceptedFirst, WorkerOnTurn, IngressTypes,
         IdempotencyRow, TaskRow, Ingress!Task
  <2>4. Ingress!RecordAgrees'
    BY <1>2 DEF Ingress!Post, Ingress!New, Ingress!NewTask, Ingress!RecordAgrees, WorkerOnTurn,
         AcceptedFirst, IngressTypes, IdempotencyRow, TaskRow, Ingress!Task
  <2>5. Delivered'
    BY <1>2 DEF Ingress!Post, Ingress!New, Ingress!NewTask, Delivered, WorkerOnTurn, IngressTypes,
         IdempotencyRow, TaskRow, Ingress!Task
  <2>6. StandingStep
    BY <1>2 DEF Ingress!Post, Ingress!New, Ingress!NewTask, StandingStep, Ingress!RecordAgrees,
         WorkerOnTurn, IngressTypes, IdempotencyRow, TaskRow, Ingress!Task
  <2>7. QED
    BY <2>1, <2>2, <2>3, <2>4, <2>5, <2>6
<1>3. ASSUME NEW c \in Capture, Ingress!RecordCapture(c)
      PROVE  IngressInv' /\ StandingStep
  <2>1. IngressTypes'
    BY <1>3 DEF Ingress!RecordCapture, WorkerOnTurn, IngressTypes, IdempotencyRow, TaskRow, Ingress!Task
  <2>2. WorkerOnTurn'
    BY <1>3 DEF Ingress!RecordCapture, AcceptedFirst, WorkerOnTurn, IngressTypes, IdempotencyRow,
         TaskRow, Ingress!Task
  <2>3. AcceptedFirst'
    BY <1>3 DEF Ingress!RecordCapture, AcceptedFirst, WorkerOnTurn, IngressTypes, IdempotencyRow,
         TaskRow, Ingress!Task
  <2>4. Ingress!RecordAgrees'
    BY <1>3 DEF Ingress!RecordCapture, Ingress!RecordAgrees, WorkerOnTurn, AcceptedFirst, IngressTypes,
         IdempotencyRow, TaskRow, Ingress!Task
  <2>5. Delivered'
    BY <1>3 DEF Ingress!RecordCapture, Delivered, WorkerOnTurn, IngressTypes, IdempotencyRow, TaskRow,
         Ingress!Task
  <2>6. StandingStep
    BY <1>3 DEF Ingress!RecordCapture, StandingStep, Ingress!RecordAgrees, WorkerOnTurn, IngressTypes,
         IdempotencyRow, TaskRow, Ingress!Task
  <2>7. QED
    BY <2>1, <2>2, <2>3, <2>4, <2>5, <2>6
<1>4. ASSUME NEW t \in Ingress!Task, Ingress!Begin(t)
      PROVE  IngressInv' /\ StandingStep
  <2>1. IngressTypes'
    BY <1>4 DEF Ingress!Begin, Ingress!Opens, WorkerOnTurn, IngressTypes, IdempotencyRow, TaskRow,
         Ingress!Task
  <2>2. WorkerOnTurn'
    BY <1>4 DEF Ingress!Begin, Ingress!Opens, AcceptedFirst, WorkerOnTurn, IngressTypes, IdempotencyRow,
         TaskRow, Ingress!Task
  <2>3. AcceptedFirst'
    BY <1>4 DEF Ingress!Begin, Ingress!Opens, AcceptedFirst, WorkerOnTurn, IngressTypes, IdempotencyRow,
         TaskRow, Ingress!Task
  <2>4. Ingress!RecordAgrees'
    BY <1>4 DEF Ingress!Begin, Ingress!Opens, Ingress!RecordAgrees, WorkerOnTurn, AcceptedFirst,
         IngressTypes, IdempotencyRow, TaskRow, Ingress!Task
  <2>5. Delivered'
    BY <1>4 DEF Ingress!Begin, Ingress!Opens, Delivered, WorkerOnTurn, IngressTypes, IdempotencyRow,
         TaskRow, Ingress!Task
  <2>6. StandingStep
    BY <1>4 DEF Ingress!Begin, Ingress!Opens, StandingStep, Ingress!RecordAgrees, WorkerOnTurn,
         IngressTypes, IdempotencyRow, TaskRow, Ingress!Task
  <2>7. QED
    BY <2>1, <2>2, <2>3, <2>4, <2>5, <2>6
<1>5. ASSUME NEW t \in Ingress!Task, Ingress!Resume(t)
      PROVE  IngressInv' /\ StandingStep
  <2>1. IngressTypes'
    BY <1>5 DEF Ingress!Resume, Ingress!Opens, WorkerOnTurn, IngressTypes, IdempotencyRow, TaskRow,
         Ingress!Task
  <2>2. WorkerOnTurn'
    BY <1>5 DEF Ingress!Resume, Ingress!Opens, AcceptedFirst, WorkerOnTurn, IngressTypes, IdempotencyRow,
         TaskRow, Ingress!Task
  <2>3. AcceptedFirst'
    BY <1>5 DEF Ingress!Resume, Ingress!Opens, AcceptedFirst, WorkerOnTurn, IngressTypes, IdempotencyRow,
         TaskRow, Ingress!Task
  <2>4. Ingress!RecordAgrees'
    BY <1>5 DEF Ingress!Resume, Ingress!Opens, Ingress!RecordAgrees, WorkerOnTurn, AcceptedFirst,
         IngressTypes, IdempotencyRow, TaskRow, Ingress!Task
  <2>5. Delivered'
    BY <1>5 DEF Ingress!Resume, Ingress!Opens, Delivered, WorkerOnTurn, IngressTypes, IdempotencyRow,
         TaskRow, Ingress!Task
  <2>6. StandingStep
    BY <1>5 DEF Ingress!Resume, Ingress!Opens, StandingStep, Ingress!RecordAgrees, WorkerOnTurn,
         IngressTypes, IdempotencyRow, TaskRow, Ingress!Task
  <2>7. QED
    BY <2>1, <2>2, <2>3, <2>4, <2>5, <2>6
<1>6. CASE Ingress!Commit
  <2>1. IngressTypes'
    BY <1>6 DEF Ingress!Commit, WorkerOnTurn, IngressTypes, IdempotencyRow, TaskRow, Ingress!Task
  <2>2. WorkerOnTurn'
    BY <1>6 DEF Ingress!Commit, AcceptedFirst, WorkerOnTurn, IngressTypes, IdempotencyRow, TaskRow,
         Ingress!Task
  <2>3. AcceptedFirst'
    BY <1>6 DEF Ingress!Commit, AcceptedFirst, WorkerOnTurn, IngressTypes, IdempotencyRow, TaskRow,
         Ingress!Task
  <2>4. Ingress!RecordAgrees'
    BY <1>6 DEF Ingress!Commit, Ingress!RecordAgrees, WorkerOnTurn, AcceptedFirst, IngressTypes,
         IdempotencyRow, TaskRow, Ingress!Task
  <2>5. Delivered'
    BY <1>6 DEF Ingress!Commit, Delivered, WorkerOnTurn, IngressTypes, IdempotencyRow, TaskRow, Ingress!Task
  <2>6. StandingStep
    BY <1>6 DEF Ingress!Commit, StandingStep, Ingress!RecordAgrees, WorkerOnTurn, IngressTypes,
         IdempotencyRow, TaskRow, Ingress!Task
  <2>7. QED
    BY <2>1, <2>2, <2>3, <2>4, <2>5, <2>6
<1>7. ASSUME NEW outcome \in Ingress!LoopOutcome, Ingress!Close(outcome)
      PROVE  IngressInv' /\ StandingStep
  <2>1. IngressTypes'
    BY <1>7 DEF Ingress!Close, Ingress!Closed, Ingress!IfNewest, WorkerOnTurn, IngressTypes,
         IdempotencyRow, TaskRow, Ingress!Task
  <2>2. WorkerOnTurn'
    BY <1>7 DEF Ingress!Close, Ingress!Closed, Ingress!IfNewest, AcceptedFirst, WorkerOnTurn,
         IngressTypes, IdempotencyRow, TaskRow, Ingress!Task
  <2>3. AcceptedFirst'
    BY <1>7 DEF Ingress!Close, Ingress!Closed, Ingress!IfNewest, AcceptedFirst, WorkerOnTurn,
         IngressTypes, IdempotencyRow, TaskRow, Ingress!Task
  <2>4. Ingress!RecordAgrees'
    BY <1>7 DEF Ingress!Close, Ingress!Closed, Ingress!IfNewest, Ingress!RecordAgrees, WorkerOnTurn,
         AcceptedFirst, IngressTypes, IdempotencyRow, TaskRow, Ingress!Task
  <2>5. Delivered'
    BY <1>7 DEF Ingress!Close, Ingress!Closed, Ingress!IfNewest, Delivered, WorkerOnTurn, IngressTypes,
         IdempotencyRow, TaskRow, Ingress!Task
  <2>6. StandingStep
    BY <1>7 DEF Ingress!Close, Ingress!Closed, Ingress!IfNewest, StandingStep, Ingress!RecordAgrees,
         WorkerOnTurn, IngressTypes, IdempotencyRow, TaskRow, Ingress!Task
  <2>7. QED
    BY <2>1, <2>2, <2>3, <2>4, <2>5, <2>6
<1>8. CASE Ingress!RecordOutcome
  <2>1. IngressTypes'
    BY <1>8 DEF Ingress!RecordOutcome, Ingress!Reply, WorkerOnTurn, IngressTypes, IdempotencyRow,
         TaskRow, Ingress!Task
  <2>2. WorkerOnTurn'
    BY <1>8 DEF Ingress!RecordOutcome, Ingress!Reply, AcceptedFirst, WorkerOnTurn, IngressTypes,
         IdempotencyRow, TaskRow, Ingress!Task
  <2>3. AcceptedFirst'
    BY <1>8 DEF Ingress!RecordOutcome, Ingress!Reply, AcceptedFirst, WorkerOnTurn, IngressTypes,
         IdempotencyRow, TaskRow, Ingress!Task
  <2>4. Ingress!RecordAgrees'
    BY <1>8 DEF Ingress!RecordOutcome, Ingress!Reply, Ingress!RecordAgrees, WorkerOnTurn, AcceptedFirst,
         IngressTypes, IdempotencyRow, TaskRow, Ingress!Task
  <2>5. Delivered'
    BY <1>8 DEF Ingress!RecordOutcome, Ingress!Reply, Delivered, WorkerOnTurn, IngressTypes,
         IdempotencyRow, TaskRow, Ingress!Task
  <2>6. StandingStep
    BY <1>8 DEF Ingress!RecordOutcome, Ingress!Reply, StandingStep, Ingress!RecordAgrees, WorkerOnTurn,
         IngressTypes, IdempotencyRow, TaskRow, Ingress!Task
  <2>7. QED
    BY <2>1, <2>2, <2>3, <2>4, <2>5, <2>6
<1>9. CASE Ingress!Deliver
  <2>1. IngressTypes'
    BY <1>9 DEF Ingress!Deliver, WorkerOnTurn, IngressTypes, IdempotencyRow, TaskRow, Ingress!Task
  <2>2. WorkerOnTurn'
    BY <1>9 DEF Ingress!Deliver, AcceptedFirst, WorkerOnTurn, IngressTypes, IdempotencyRow, TaskRow,
         Ingress!Task
  <2>3. AcceptedFirst'
    BY <1>9 DEF Ingress!Deliver, AcceptedFirst, WorkerOnTurn, IngressTypes, IdempotencyRow, TaskRow,
         Ingress!Task
  <2>4. Ingress!RecordAgrees'
    BY <1>9 DEF Ingress!Deliver, Ingress!RecordAgrees, WorkerOnTurn, AcceptedFirst, IngressTypes,
         IdempotencyRow, TaskRow, Ingress!Task
  <2>5. Delivered'
    BY <1>9 DEF Ingress!Deliver, Delivered, WorkerOnTurn, IngressTypes, IdempotencyRow, TaskRow,
         Ingress!Task
  <2>6. StandingStep
    BY <1>9 DEF Ingress!Deliver, StandingStep, Ingress!RecordAgrees, WorkerOnTurn, IngressTypes,
         IdempotencyRow, TaskRow, Ingress!Task
  <2>7. QED
    BY <2>1, <2>2, <2>3, <2>4, <2>5, <2>6
<1>10. CASE Ingress!Settle
  <2>1. IngressTypes'
    BY <1>10 DEF Ingress!Settle, Ingress!Settled, WorkerOnTurn, IngressTypes, IdempotencyRow, TaskRow,
         Ingress!Task
  <2>2. WorkerOnTurn'
    BY <1>10 DEF Ingress!Settle, Ingress!Settled, AcceptedFirst, WorkerOnTurn, IngressTypes,
         IdempotencyRow, TaskRow, Ingress!Task
  <2>3. AcceptedFirst'
    BY <1>10 DEF Ingress!Settle, Ingress!Settled, AcceptedFirst, WorkerOnTurn, IngressTypes,
         IdempotencyRow, TaskRow, Ingress!Task
  <2>4. Ingress!RecordAgrees'
    BY <1>10 DEF Ingress!Settle, Ingress!Settled, Ingress!RecordAgrees, WorkerOnTurn, AcceptedFirst,
         IngressTypes, IdempotencyRow, TaskRow, Ingress!Task
  <2>5. Delivered'
    BY <1>10 DEF Ingress!Settle, Ingress!Settled, Delivered, WorkerOnTurn, IngressTypes, IdempotencyRow,
         TaskRow, Ingress!Task
  <2>6. StandingStep
    BY <1>10 DEF Ingress!Settle, Ingress!Settled, StandingStep, Ingress!RecordAgrees, WorkerOnTurn,
         IngressTypes, IdempotencyRow, TaskRow, Ingress!Task
  <2>7. QED
    BY <2>1, <2>2, <2>3, <2>4, <2>5, <2>6
<1>11. CASE Ingress!Fail
  <2>1. IngressTypes'
    BY <1>11 DEF Ingress!Fail, WorkerOnTurn, IngressTypes, IdempotencyRow, TaskRow, Ingress!Task
  <2>2. WorkerOnTurn'
    BY <1>11 DEF Ingress!Fail, AcceptedFirst, WorkerOnTurn, IngressTypes, IdempotencyRow, TaskRow,
         Ingress!Task
  <2>3. AcceptedFirst'
    BY <1>11 DEF Ingress!Fail, AcceptedFirst, WorkerOnTurn, IngressTypes, IdempotencyRow, TaskRow,
         Ingress!Task
  <2>4. Ingress!RecordAgrees'
    BY <1>11 DEF Ingress!Fail, Ingress!RecordAgrees, WorkerOnTurn, AcceptedFirst, IngressTypes,
         IdempotencyRow, TaskRow, Ingress!Task
  <2>5. Delivered'
    BY <1>11 DEF Ingress!Fail, Delivered, WorkerOnTurn, IngressTypes, IdempotencyRow, TaskRow, Ingress!Task
  <2>6. StandingStep
    BY <1>11 DEF Ingress!Fail, StandingStep, Ingress!RecordAgrees, WorkerOnTurn, IngressTypes,
         IdempotencyRow, TaskRow, Ingress!Task
  <2>7. QED
    BY <2>1, <2>2, <2>3, <2>4, <2>5, <2>6
<1>12. CASE Ingress!Crash
  <2>1. IngressTypes'
    BY <1>12 DEF Ingress!Crash, WorkerOnTurn, IngressTypes, IdempotencyRow, TaskRow, Ingress!Task
  <2>2. WorkerOnTurn'
    BY <1>12 DEF Ingress!Crash, AcceptedFirst, WorkerOnTurn, IngressTypes, IdempotencyRow, TaskRow,
         Ingress!Task
  <2>3. AcceptedFirst'
    BY <1>12 DEF Ingress!Crash, AcceptedFirst, WorkerOnTurn, IngressTypes, IdempotencyRow, TaskRow,
         Ingress!Task
  <2>4. Ingress!RecordAgrees'
    BY <1>12 DEF Ingress!Crash, Ingress!RecordAgrees, WorkerOnTurn, AcceptedFirst, IngressTypes,
         IdempotencyRow, TaskRow, Ingress!Task
  <2>5. Delivered'
    BY <1>12 DEF Ingress!Crash, Delivered, WorkerOnTurn, IngressTypes, IdempotencyRow, TaskRow, Ingress!Task
  <2>6. StandingStep
    BY <1>12 DEF Ingress!Crash, StandingStep, Ingress!RecordAgrees, WorkerOnTurn, IngressTypes,
         IdempotencyRow, TaskRow, Ingress!Task
  <2>7. QED
    BY <2>1, <2>2, <2>3, <2>4, <2>5, <2>6
<1>13. QED
  BY <1>1, <1>2, <1>3, <1>4, <1>5, <1>6, <1>7, <1>8, <1>9, <1>10, <1>11, <1>12 DEF Ingress!Next

(* The invariant gives what clients see. *)
LEMMA IngressHolds == ASSUME IngressInv PROVE Ingress!IngressSound
<1>1. Ingress!TypeOK
  BY DEF IngressInv, IngressTypes, IdempotencyRow, TaskRow, Ingress!TypeOK, Ingress!Task
<1>2. Ingress!SpokenOnce
  BY DEF IngressInv, Delivered, Ingress!SpokenOnce
<1>3. QED
  BY <1>1, <1>2 DEF IngressInv, Ingress!IngressSound

(* What a client is told and what is in the channel agrees with the turn,  *)
(* however often posts, tasks and the worker start again: the record holds *)
(* the outcome of its turn, and a turn is answered by one message at most  *)
(* (app.py, worker.py, discord_bot.py).                                    *)
THEOREM ClientsHearTheTurn ==
  Ingress!Spec => []IngressSound
<1> USE ServicesAssumption DEF ServicesAssumption
<1>1. Ingress!Init => IngressInv
  BY IngressInit
<1>2. IngressInv /\ [Ingress!Next]_(Ingress!ingress) => IngressInv'
  BY IngressStep
<1>3. IngressInv => IngressSound
  BY IngressHolds DEF IngressSound
<1>4. QED
  BY <1>1, <1>2, <1>3, PTL DEF Ingress!Spec

(* What was asked under a key, what was answered, and a turn that is       *)
(* closed never change; a turn that saw a newer one does not answer        *)
(* (app.py:1552).                                                          *)
THEOREM AnswersKeepStanding ==
  Ingress!Spec => AnswersStand
<1> USE ServicesAssumption DEF ServicesAssumption
<1>1. Ingress!Init => IngressInv
  BY IngressInit
<1>2. IngressInv /\ [Ingress!Next]_(Ingress!ingress) => IngressInv' /\ [StandingStep]_(Ingress!ingress)
  BY IngressStep
<1>3. QED
  BY <1>1, <1>2, PTL DEF Ingress!Spec, AnswersStand, Ingress!AnswersStand, StandingStep

-----------------------------------------------------------------------------
(* Background turns: research and the rememberer. *)

JobRow == [is : {"queued", "done", "gone"}, tries : Nat]
RunRow ==
  [status : {"none", "in_progress", "completed", "failed"},
   finding : Turns!Finding \cup {"none"}, edits : Nat]

TurnsTypes ==
  /\ job \in [Turns!Background -> JobRow]
  /\ run \in [Turns!Background -> RunRow]
  /\ DOMAIN returned = Research
  /\ wakes \in [Research -> Nat]
  /\ doing \in [at : {"idle", "loop", "closed", "settling"}, task : Turns!Background \cup {"none"}]

(* What the worker is at with a task of the queue. *)
WorkerInTurn ==
  ~Turns!Does("idle") =>
    LET t == doing.task IN
    /\ t \in Turns!Background
    /\ job[t].is = "queued"
    /\ Turns!Does("loop") => /\ ~Turns!ClosedRun(t)
                             /\ t \in Memory => run[t].status = "in_progress"
    /\ Turns!Does("closed") => t \in Research
    /\ ~Turns!Does("loop") => Turns!ClosedRun(t)
    /\ Turns!Does("settling") /\ t \in Research => returned[t] # << >>

(* A run has returned nothing, or its finding, once; the wake that carries *)
(* it waits until the row of the run is gone, so that the row, run again,  *)
(* finds it queued under its key.                                          *)
FindingReturned(t) ==
  \/ returned[t] = << >>
  \/ returned[t] = <<run[t].finding>> /\ Turns!ClosedRun(t)

FindingsReturned ==
  \A t \in Research :
    /\ FindingReturned(t)
    /\ job[t].is = "queued" => wakes[t] = 0
    /\ job[t].is = "done" => returned[t] # << >>

MemoryClosed == \A t \in Memory : job[t].is = "done" => Turns!ClosedRun(t)

TurnsInv == TurnsTypes /\ WorkerInTurn /\ FindingsReturned /\ MemoryClosed

-----------------------------------------------------------------------------
(* Before any run nothing has returned. *)
LEMMA TurnsInit == Turns!Init => TurnsInv
  BY SMT DEF Turns!Init, Turns!Nothing, Turns!Does, TurnsInv, TurnsTypes, WorkerInTurn,
     FindingsReturned, FindingReturned, MemoryClosed, JobRow, RunRow, Turns!Background

(* A turn is closed: its row is a row. *)
LEMMA RowClosed ==
  ASSUME TurnsTypes, NEW t \in Turns!Background, NEW s \in {"completed", "failed"},
         NEW f \in Turns!Finding
  PROVE  [run EXCEPT ![t].status = s, ![t].finding = f] \in [Turns!Background -> RunRow]
  BY Zenon DEF TurnsTypes, RunRow

(* A program has committed. *)
LEMMA RowEdited ==
  ASSUME TurnsTypes, NEW t \in Turns!Background, NEW n \in Nat
  PROVE  [run EXCEPT ![t].status = "in_progress", ![t].edits = n] \in [Turns!Background -> RunRow]
  BY Zenon DEF TurnsTypes, RunRow

(* An attempt has failed. *)
LEMMA RowTried ==
  ASSUME TurnsTypes, NEW t \in Turns!Background, NEW n \in Nat, NEW is \in {"queued", "gone"}
  PROVE  [job EXCEPT ![t].tries = n, ![t].is = is] \in [Turns!Background -> JobRow]
  BY Zenon DEF TurnsTypes, JobRow

(* Each step of the worker keeps the invariant. *)
LEMMA TurnsStep ==
  ASSUME TurnsConstants, TurnsInv, [Turns!Next]_(Turns!background)
  PROVE  TurnsInv'
<1> USE DEF TurnsConstants, TurnsInv, Turns!Background, Turns!Does, Turns!Goes, Turns!ClosedRun,
          Turns!Nothing, Turns!Finding
<1>1. CASE UNCHANGED Turns!background
  BY <1>1 DEF Turns!background, TurnsTypes, WorkerInTurn, FindingsReturned, FindingReturned, MemoryClosed
<1>2. ASSUME NEW t \in Turns!Background, Turns!Open(t) PROVE TurnsInv'
  <2>1. TurnsTypes'
    BY <1>2 DEF Turns!Open, Turns!First, TurnsTypes, JobRow, RunRow
  <2>2. WorkerInTurn'
    BY <1>2 DEF Turns!Open, Turns!First, TurnsTypes, WorkerInTurn, JobRow, RunRow
  <2>3. FindingsReturned'
    BY <1>2 DEF Turns!Open, Turns!First, TurnsTypes, WorkerInTurn, FindingsReturned, FindingReturned,
         JobRow, RunRow
  <2>4. MemoryClosed'
    BY <1>2 DEF Turns!Open, Turns!First, TurnsTypes, WorkerInTurn, MemoryClosed, JobRow, RunRow
  <2>5. QED
    BY <2>1, <2>2, <2>3, <2>4 DEF TurnsInv
<1>3. ASSUME NEW t \in Turns!Background, Turns!ResumeResearch(t) PROVE TurnsInv'
  <2>1. TurnsTypes'
    <3>1. run' \in [Turns!Background -> RunRow]
      BY <1>3, RowClosed DEF Turns!ResumeResearch, TurnsTypes
    <3>2. QED
      BY <1>3, <3>1 DEF Turns!ResumeResearch, TurnsTypes
  <2>2. WorkerInTurn'
    BY <1>3 DEF Turns!ResumeResearch, Turns!First, TurnsTypes, WorkerInTurn, JobRow, RunRow
  <2>3. FindingsReturned'
    BY <1>3 DEF Turns!ResumeResearch, Turns!First, TurnsTypes, WorkerInTurn, FindingsReturned,
         FindingReturned, JobRow, RunRow
  <2>4. MemoryClosed'
    BY <1>3 DEF Turns!ResumeResearch, Turns!First, TurnsTypes, WorkerInTurn, MemoryClosed, JobRow, RunRow
  <2>5. QED
    BY <2>1, <2>2, <2>3, <2>4 DEF TurnsInv
<1>4. ASSUME NEW t \in Turns!Background, Turns!ResumeMemory(t) PROVE TurnsInv'
  <2>1. TurnsTypes'
    BY <1>4 DEF Turns!ResumeMemory, Turns!First, TurnsTypes, JobRow, RunRow
  <2>2. WorkerInTurn'
    BY <1>4 DEF Turns!ResumeMemory, Turns!First, TurnsTypes, WorkerInTurn, JobRow, RunRow
  <2>3. FindingsReturned'
    BY <1>4 DEF Turns!ResumeMemory, Turns!First, TurnsTypes, WorkerInTurn, FindingsReturned,
         FindingReturned, JobRow, RunRow
  <2>4. MemoryClosed'
    BY <1>4 DEF Turns!ResumeMemory, Turns!First, TurnsTypes, WorkerInTurn, MemoryClosed, JobRow, RunRow
  <2>5. QED
    BY <2>1, <2>2, <2>3, <2>4 DEF TurnsInv
<1>5. CASE Turns!Program
  <2>1. TurnsTypes'
    <3>1. doing.task \in Turns!Background
      BY <1>5 DEF Turns!Program, WorkerInTurn
    <3>2. run[doing.task].edits \in Nat
      BY <3>1 DEF TurnsTypes, RunRow
    <3> DEFINE n == IF doing.task \in Memory /\ run[doing.task].edits < MaxEdits
                    THEN run[doing.task].edits + 1 ELSE run[doing.task].edits
    <3>3. run' = [run EXCEPT ![doing.task].status = "in_progress", ![doing.task].edits = n]
      BY <1>5, <3>1, Zenon DEF Turns!Program, TurnsTypes
    <3>4. n \in Nat
      BY <3>2
    <3>5. run' \in [Turns!Background -> RunRow]
      <4> HIDE DEF n
      <4>1. QED
        BY <3>1, <3>3, <3>4, RowEdited
    <3>6. QED
      BY <1>5, <3>5 DEF Turns!Program, TurnsTypes
  <2>2. WorkerInTurn'
    BY <1>5 DEF Turns!Program, TurnsTypes, WorkerInTurn, JobRow, RunRow
  <2>3. FindingsReturned'
    BY <1>5 DEF Turns!Program, TurnsTypes, WorkerInTurn, FindingsReturned, FindingReturned, JobRow, RunRow
  <2>4. MemoryClosed'
    BY <1>5 DEF Turns!Program, TurnsTypes, WorkerInTurn, MemoryClosed, JobRow, RunRow
  <2>5. QED
    BY <2>1, <2>2, <2>3, <2>4 DEF TurnsInv
<1>6. ASSUME NEW finding \in Turns!Finding, Turns!CloseResearch(finding) PROVE TurnsInv'
  <2>1. TurnsTypes'
    <3> DEFINE s == IF finding = "failed" THEN "failed" ELSE "completed"
    <3>1. /\ run' = [run EXCEPT ![doing.task].status = s, ![doing.task].finding = finding]
          /\ doing.task \in Turns!Background
      BY <1>6 DEF Turns!CloseResearch
    <3>2. s \in {"completed", "failed"}
      OBVIOUS
    <3>3. run' \in [Turns!Background -> RunRow]
      <4> HIDE DEF s
      <4>1. QED
        BY <3>1, <3>2, RowClosed
    <3>4. QED
      BY <1>6, <3>3 DEF Turns!CloseResearch, TurnsTypes
  <2>2. WorkerInTurn'
    BY <1>6 DEF Turns!CloseResearch, TurnsTypes, WorkerInTurn, JobRow, RunRow
  <2>3. FindingsReturned'
    BY <1>6 DEF Turns!CloseResearch, TurnsTypes, WorkerInTurn, FindingsReturned, FindingReturned, JobRow,
         RunRow
  <2>4. MemoryClosed'
    BY <1>6 DEF Turns!CloseResearch, TurnsTypes, WorkerInTurn, MemoryClosed, JobRow, RunRow
  <2>5. QED
    BY <2>1, <2>2, <2>3, <2>4 DEF TurnsInv
<1>7. CASE Turns!CloseMemory
  <2>1. TurnsTypes'
    BY <1>7 DEF Turns!CloseMemory, TurnsTypes, JobRow, RunRow
  <2>2. WorkerInTurn'
    BY <1>7 DEF Turns!CloseMemory, TurnsTypes, WorkerInTurn, JobRow, RunRow
  <2>3. FindingsReturned'
    BY <1>7 DEF Turns!CloseMemory, TurnsTypes, WorkerInTurn, FindingsReturned, FindingReturned, JobRow,
         RunRow
  <2>4. MemoryClosed'
    BY <1>7 DEF Turns!CloseMemory, TurnsTypes, WorkerInTurn, MemoryClosed, JobRow, RunRow
  <2>5. QED
    BY <2>1, <2>2, <2>3, <2>4 DEF TurnsInv
<1>8. CASE Turns!ReturnFinding
  <2> DEFINE r == doing.task
  <2>r. /\ r \in Research /\ Turns!ClosedRun(r) /\ returned' \in {returned, [returned EXCEPT ![r] = <<run[r].finding>>]}
        /\ returned'[r] = <<run[r].finding>>
    <3>1. /\ r \in Research /\ Turns!ClosedRun(r) /\ job[r].is = "queued"
          /\ wakes[r] = 0 /\ FindingReturned(r)
      BY <1>8 DEF Turns!ReturnFinding, WorkerInTurn, FindingsReturned
    <3>2. CASE returned[r] = << >>
      BY <1>8, <3>1, <3>2 DEF Turns!ReturnFinding, Turns!NoWakeQueued, TurnsTypes
    <3>3. CASE returned[r] = <<run[r].finding>>
      BY <1>8, <3>1, <3>3 DEF Turns!ReturnFinding, Turns!NoWakeQueued, TurnsTypes
    <3>4. QED
      BY <3>1, <3>2, <3>3 DEF FindingReturned
  <2>1. TurnsTypes'
    BY <1>8 DEF Turns!ReturnFinding, Turns!NoWakeQueued, TurnsTypes, JobRow, RunRow
  <2>2. WorkerInTurn'
    BY <1>8, <2>r DEF Turns!ReturnFinding, WorkerInTurn, TurnsTypes
  <2>3. FindingsReturned'
    BY <1>8, <2>r DEF Turns!ReturnFinding, TurnsTypes, FindingsReturned, FindingReturned
  <2>4. MemoryClosed'
    BY <1>8 DEF Turns!ReturnFinding, Turns!NoWakeQueued, TurnsTypes, WorkerInTurn, MemoryClosed, JobRow,
         RunRow
  <2>5. QED
    BY <2>1, <2>2, <2>3, <2>4 DEF TurnsInv
<1>9. CASE Turns!Delete
  <2>1. TurnsTypes'
    BY <1>9, ZenonT(60) DEF Turns!Delete, TurnsTypes, JobRow, RunRow
  <2>2. WorkerInTurn'
    BY <1>9 DEF Turns!Delete, TurnsTypes, WorkerInTurn, JobRow, RunRow
  <2>3. FindingsReturned'
    BY <1>9 DEF Turns!Delete, TurnsTypes, WorkerInTurn, FindingsReturned, FindingReturned, JobRow, RunRow
  <2>4. MemoryClosed'
    BY <1>9 DEF Turns!Delete, TurnsTypes, WorkerInTurn, MemoryClosed, JobRow, RunRow
  <2>5. QED
    BY <2>1, <2>2, <2>3, <2>4 DEF TurnsInv
<1>10. ASSUME NEW t \in Research, Turns!RunWake(t) PROVE TurnsInv'
  <2>1. TurnsTypes'
    BY <1>10 DEF Turns!RunWake, Turns!NoWakeQueued, TurnsTypes, JobRow, RunRow
  <2>2. WorkerInTurn'
    BY <1>10 DEF Turns!RunWake, Turns!NoWakeQueued, TurnsTypes, WorkerInTurn, JobRow, RunRow
  <2>3. FindingsReturned'
    BY <1>10 DEF Turns!RunWake, Turns!NoWakeQueued, TurnsTypes, WorkerInTurn, FindingsReturned,
         FindingReturned, JobRow, RunRow
  <2>4. MemoryClosed'
    BY <1>10 DEF Turns!RunWake, Turns!NoWakeQueued, TurnsTypes, WorkerInTurn, MemoryClosed, JobRow, RunRow
  <2>5. QED
    BY <2>1, <2>2, <2>3, <2>4 DEF TurnsInv
<1>11. CASE Turns!FailTask
  <2>1. TurnsTypes'
    <3>1. doing.task \in Turns!Background /\ job[doing.task].tries + 1 \in Nat
      BY <1>11 DEF Turns!FailTask, WorkerInTurn, TurnsTypes, JobRow
    <3> DEFINE is == IF job[doing.task].tries + 1 < MaxTries THEN "queued" ELSE "gone"
    <3>2. /\ job' = [job EXCEPT ![doing.task].tries = job[doing.task].tries + 1, ![doing.task].is = is]
          /\ is \in {"queued", "gone"}
      BY <1>11, <3>1, Zenon DEF Turns!FailTask, TurnsTypes
    <3>3. job' \in [Turns!Background -> JobRow]
      <4> HIDE DEF is
      <4>1. QED
        BY <3>1, <3>2, RowTried
    <3>4. QED
      BY <1>11, <3>3 DEF Turns!FailTask, TurnsTypes
  <2>2. WorkerInTurn'
    BY <1>11 DEF Turns!FailTask, TurnsTypes, WorkerInTurn, JobRow, RunRow
  <2>3. FindingsReturned'
    BY <1>11 DEF Turns!FailTask, TurnsTypes, WorkerInTurn, FindingsReturned, FindingReturned, JobRow, RunRow
  <2>4. MemoryClosed'
    BY <1>11 DEF Turns!FailTask, TurnsTypes, WorkerInTurn, MemoryClosed, JobRow, RunRow
  <2>5. QED
    BY <2>1, <2>2, <2>3, <2>4 DEF TurnsInv
<1>12. CASE Turns!CrashTask
  <2>1. TurnsTypes'
    BY <1>12 DEF Turns!CrashTask, TurnsTypes, JobRow, RunRow
  <2>2. WorkerInTurn'
    BY <1>12 DEF Turns!CrashTask, TurnsTypes, WorkerInTurn, JobRow, RunRow
  <2>3. FindingsReturned'
    BY <1>12 DEF Turns!CrashTask, TurnsTypes, WorkerInTurn, FindingsReturned, FindingReturned, JobRow,
         RunRow
  <2>4. MemoryClosed'
    BY <1>12 DEF Turns!CrashTask, TurnsTypes, WorkerInTurn, MemoryClosed, JobRow, RunRow
  <2>5. QED
    BY <2>1, <2>2, <2>3, <2>4 DEF TurnsInv
<1>13. QED
  BY <1>1, <1>2, <1>3, <1>4, <1>5, <1>6, <1>7, <1>8, <1>9, <1>10, <1>11, <1>12 DEF Turns!Next

(* The invariant gives what the agent gets back. *)
LEMMA TurnsHold == ASSUME TurnsInv PROVE Turns!FindingReturnsOnce
<1>1. ASSUME NEW t \in Research
      PROVE  /\ Len(returned[t]) <= 1
             /\ \A i \in DOMAIN returned[t] : returned[t][i] = run[t].finding
             /\ job[t].is = "done" => returned[t] # << >> /\ Turns!ClosedRun(t)
  <2>1. FindingReturned(t) /\ (job[t].is = "done" => returned[t] # << >>)
    BY DEF TurnsInv, FindingsReturned
  <2>2. CASE returned[t] = << >>
    BY <2>1, <2>2
  <2>3. CASE returned[t] = <<run[t].finding>> /\ Turns!ClosedRun(t)
    <3> DEFINE f == run[t].finding
    <3>1. /\ Len(<<f>>) = 1
          /\ \A i \in DOMAIN <<f>> : <<f>>[i] = f
      OBVIOUS
    <3>2. QED
      BY <2>3, <3>1
  <2>4. QED
    BY <2>1, <2>2, <2>3 DEF FindingReturned
<1>2. ASSUME NEW t \in Memory
      PROVE  /\ job[t].is = "done" => Turns!ClosedRun(t)
             /\ Turns!Does("loop") /\ doing.task = t => run[t].status = "in_progress"
  BY DEF TurnsInv, MemoryClosed, WorkerInTurn, Turns!Does
<1>3. QED
  BY <1>1, <1>2 DEF Turns!FindingReturnsOnce

(* A research run answers once, with the finding its turn stored, and is   *)
(* not done before; a rememberer that was cut short is not run again over  *)
(* the notes it has edited (research_runtime.py, memory.py, worker.py).    *)
THEOREM ResearchAnswersOnce ==
  Turns!Spec => []FindingReturnsOnce
<1> USE ServicesAssumption DEF ServicesAssumption
<1>1. Turns!Init => TurnsInv
  BY TurnsInit
<1>2. TurnsInv /\ [Turns!Next]_(Turns!background) => TurnsInv'
  BY TurnsStep
<1>3. TurnsInv => FindingReturnsOnce
  BY TurnsHold DEF FindingReturnsOnce
<1>4. QED
  BY <1>1, <1>2, <1>3, PTL DEF Turns!Spec

-----------------------------------------------------------------------------
(* Agency jobs: runs of the daemon and its events. *)

DaemonState == {"none", "running", "waiting_approval", "succeeded", "failed"}
JobStatus ==
  {"none", "queued", "running", "waiting_approval", "succeeded", "failed", "cancelled", "timed_out"}
JobRecord == [status : JobStatus, linked : BOOLEAN, known : BOOLEAN, pr : BOOLEAN]
EventRow == [is : {"unsent", "accepted", "processed", "settled", "abandoned"}, tries : Nat]

JobsTypes ==
  /\ daemon \in [Run -> DaemonState]
  /\ attempt \in [Run -> {"approved", "started", "succeeded", "failed"}]
  /\ tracked \in [Run -> JobRecord]
  /\ event \in [Event -> EventRow]
  /\ applied \in [Event -> Nat]
  /\ woken \in [Event -> Nat]

(* The worker calls for an attempt that is started and has no job yet;     *)
(* nothing that makes a job runs before the answer is recorded.            *)
WorkerOnJob ==
  \/ busy = Jobs!Free
  \/ \E r \in Run : /\ busy \in {Jobs!Busy("call", r), Jobs!Busy("record", r)}
                    /\ attempt[r] = "started"
                    /\ tracked[r] = Jobs!NoJob
                    /\ busy = Jobs!Busy("record", r) => daemon[r] # "none"
  \/ \E e \in Event : busy = Jobs!Busy("settle", e) /\ event[e].is = "processed"

(* The daemon knows of a run before anybody else has news of it. *)
JobOfRun(r) ==
  /\ attempt[r] = "approved" => daemon[r] = "none"
  /\ daemon[r] = "none" => tracked[r] = Jobs!NoJob
  /\ tracked[r].status = "none" => tracked[r] = Jobs!NoJob
  /\ tracked[r].pr => tracked[r].known
  /\ attempt[r] = "succeeded" <=> tracked[r].linked

(* What an event has done is a matter of where it is. *)
EventDid(e) ==
  /\ event[e].is # "unsent" /\ About[e].type # "heartbeat" => daemon[About[e].run] # "none"
  /\ applied[e] = IF event[e].is \in {"processed", "settled"} /\ About[e].type # "heartbeat"
                  THEN 1 ELSE 0
  /\ woken[e] = IF About[e].type \in Jobs!Waking THEN applied[e] ELSE 0
  /\ applied[e] = 1 => tracked[About[e].run].status # "none"

JobsInv ==
  /\ JobsTypes
  /\ WorkerOnJob
  /\ \A r \in Run : JobOfRun(r)
  /\ \A e \in Event : EventDid(e)

(* Before the first call there is no job and no event. *)
LEMMA JobsInit == Jobs!Init => JobsInv
  BY DEF Jobs!Init, Jobs!NoJob, Jobs!Free, JobsInv, JobsTypes, WorkerOnJob, JobOfRun, EventDid,
     DaemonState, JobStatus, JobRecord, EventRow, Jobs!Waking

(* An event gives a job another status. *)
LEMMA JobsGoOn ==
  ASSUME tracked \in [Run -> JobRecord], NEW r \in Run, NEW s \in JobStatus \ {"none"}
  PROVE  [tracked EXCEPT ![r].status = s] \in [Run -> JobRecord]
  BY Zenon DEF JobRecord

(* Each step of daemon, worker and agent keeps the invariant. *)
LEMMA JobsStep ==
  ASSUME JobsConstants, JobsInv, [Jobs!Next]_(Jobs!agency)
  PROVE  JobsInv'
<1> USE DEF JobsConstants, JobsInv, Jobs!Busy, Jobs!Free, Jobs!NoJob
<1>1. CASE UNCHANGED Jobs!agency
  BY <1>1 DEF Jobs!agency, JobsTypes, WorkerOnJob, JobOfRun, EventDid
<1>2. ASSUME NEW r \in Run, Jobs!DaemonMoves(r) PROVE JobsInv'
  <2>1. JobsTypes'
    BY <1>2 DEF Jobs!DaemonMoves, JobsTypes, DaemonState, JobStatus, JobRecord, EventRow
  <2>2. WorkerOnJob'
    BY <1>2 DEF Jobs!DaemonMoves, JobsTypes, WorkerOnJob, JobOfRun, JobRecord, EventRow
  <2>3. ASSUME NEW q \in Run PROVE JobOfRun(q)'
    BY <1>2 DEF Jobs!DaemonMoves, JobsTypes, WorkerOnJob, JobOfRun, EventDid, JobRecord, EventRow,
         DaemonState
  <2>4. ASSUME NEW f \in Event PROVE EventDid(f)'
    BY <1>2 DEF Jobs!DaemonMoves, JobsTypes, WorkerOnJob, JobOfRun, EventDid, JobRecord, EventRow,
         DaemonState
  <2>5. QED
    BY <2>1, <2>2, <2>3, <2>4
<1>3. ASSUME NEW r \in Run, Jobs!Dispatch(r) PROVE JobsInv'
  <2>1. JobsTypes'
    BY <1>3 DEF Jobs!Dispatch, JobsTypes, DaemonState, JobStatus, JobRecord, EventRow
  <2>2. WorkerOnJob'
    BY <1>3 DEF Jobs!Dispatch, JobsTypes, WorkerOnJob, JobOfRun, JobRecord, EventRow
  <2>3. ASSUME NEW q \in Run PROVE JobOfRun(q)'
    BY <1>3 DEF Jobs!Dispatch, JobsTypes, WorkerOnJob, JobOfRun, EventDid, JobRecord, EventRow, DaemonState
  <2>4. ASSUME NEW f \in Event PROVE EventDid(f)'
    BY <1>3 DEF Jobs!Dispatch, JobsTypes, WorkerOnJob, JobOfRun, EventDid, JobRecord, EventRow, DaemonState
  <2>5. QED
    BY <2>1, <2>2, <2>3, <2>4
<1>4. ASSUME NEW r \in Run, Jobs!Call(r) PROVE JobsInv'
  <2>1. JobsTypes'
    BY <1>4 DEF Jobs!Call, Jobs!Starts, JobsTypes, DaemonState, JobStatus, JobRecord, EventRow
  <2>2. WorkerOnJob'
    BY <1>4 DEF Jobs!Call, Jobs!Starts, JobsTypes, WorkerOnJob, JobOfRun, JobRecord, EventRow
  <2>3. ASSUME NEW q \in Run PROVE JobOfRun(q)'
    BY <1>4 DEF Jobs!Call, Jobs!Starts, JobsTypes, WorkerOnJob, JobOfRun, EventDid, JobRecord, EventRow,
         DaemonState
  <2>4. ASSUME NEW f \in Event PROVE EventDid(f)'
    BY <1>4 DEF Jobs!Call, Jobs!Starts, JobsTypes, WorkerOnJob, JobOfRun, EventDid, JobRecord, EventRow,
         DaemonState
  <2>5. QED
    BY <2>1, <2>2, <2>3, <2>4
<1>5. ASSUME NEW r \in Run, Jobs!CallFails(r) PROVE JobsInv'
  <2>1. JobsTypes'
    BY <1>5 DEF Jobs!CallFails, Jobs!Starts, JobsTypes, DaemonState, JobStatus, JobRecord, EventRow
  <2>2. WorkerOnJob'
    BY <1>5 DEF Jobs!CallFails, Jobs!Starts, JobsTypes, WorkerOnJob, JobOfRun, JobRecord, EventRow
  <2>3. ASSUME NEW q \in Run PROVE JobOfRun(q)'
    <3>1. attempt[r] = "started" /\ tracked[r] = Jobs!NoJob
      BY <1>5 DEF Jobs!CallFails, WorkerOnJob
    <3>2. /\ daemon[q] = daemon'[q] \/ (q = r /\ daemon'[q] = "running" /\ daemon[q] = "none")
          /\ tracked' = tracked
          /\ attempt'[q] = attempt[q] \/ (q = r /\ attempt'[q] = "failed")
      BY <1>5 DEF Jobs!CallFails, Jobs!Starts, JobsTypes
    <3>3. JobOfRun(q) /\ ~tracked[r].linked /\ ~tracked[r].pr
      BY <3>1 DEF JobOfRun
    <3>4. QED
      BY <3>1, <3>2, <3>3 DEF JobOfRun
  <2>4. ASSUME NEW f \in Event PROVE EventDid(f)'
    BY <1>5 DEF Jobs!CallFails, Jobs!Starts, JobsTypes, WorkerOnJob, JobOfRun, EventDid, JobRecord,
         EventRow, DaemonState
  <2>5. QED
    BY <2>1, <2>2, <2>3, <2>4
<1>6. ASSUME NEW r \in Run, Jobs!RecordRun(r) PROVE JobsInv'
  <2>s. attempt[r] = "started" /\ tracked[r] = Jobs!NoJob /\ daemon[r] # "none"
    BY <1>6 DEF Jobs!RecordRun, WorkerOnJob
  <2> DEFINE new == [tracked[r] EXCEPT !.status = "running", !.linked = TRUE, !.known = TRUE]
  <2>t. tracked' = [tracked EXCEPT ![r] = new]
    BY <1>6, <2>s, Zenon DEF Jobs!RecordRun, JobsTypes
  <2>n. new \in JobRecord /\ new.status = "running" /\ new.linked /\ new.known
    BY Zenon DEF JobsTypes, JobRecord, JobStatus
  <2> HIDE DEF new
  <2>1. JobsTypes'
    <3>1. tracked' \in [Run -> JobRecord]
      BY <2>t, <2>n DEF JobsTypes
    <3>2. QED
      BY <1>6, <3>1 DEF Jobs!RecordRun, JobsTypes
  <2>2. WorkerOnJob'
    BY <1>6 DEF Jobs!RecordRun, JobsTypes, WorkerOnJob, JobOfRun, JobRecord, EventRow
  <2>3. ASSUME NEW q \in Run PROVE JobOfRun(q)'
    <3>1. JobOfRun(q) /\ daemon' = daemon /\ attempt' = [attempt EXCEPT ![r] = "succeeded"]
      BY <1>6 DEF Jobs!RecordRun
    <3>2. CASE q = r
      <4>1. tracked'[q] = new /\ attempt'[q] = "succeeded"
        BY <2>t, <3>1, <3>2 DEF JobsTypes
      <4>2. QED
        BY <2>s, <2>n, <3>1, <3>2, <4>1 DEF JobOfRun
    <3>3. CASE q # r
      <4>1. tracked'[q] = tracked[q] /\ attempt'[q] = attempt[q]
        BY <2>t, <3>1, <3>3 DEF JobsTypes
      <4>2. QED
        BY <3>1, <4>1 DEF JobOfRun
    <3>4. QED
      BY <3>2, <3>3
  <2>4. ASSUME NEW f \in Event PROVE EventDid(f)'
    BY <1>6 DEF Jobs!RecordRun, JobsTypes, WorkerOnJob, JobOfRun, EventDid, JobRecord, EventRow, DaemonState
  <2>5. QED
    BY <2>1, <2>2, <2>3, <2>4
<1>7. ASSUME NEW r \in Run, Jobs!GiveUp(r) PROVE JobsInv'
  <2>1. JobsTypes'
    BY <1>7 DEF Jobs!GiveUp, JobsTypes, DaemonState, JobStatus, JobRecord, EventRow
  <2>2. WorkerOnJob'
    BY <1>7 DEF Jobs!GiveUp, JobsTypes, WorkerOnJob, JobOfRun, JobRecord, EventRow
  <2>3. ASSUME NEW q \in Run PROVE JobOfRun(q)'
    BY <1>7 DEF Jobs!GiveUp, JobsTypes, WorkerOnJob, JobOfRun, EventDid, JobRecord, EventRow, DaemonState
  <2>4. ASSUME NEW f \in Event PROVE EventDid(f)'
    BY <1>7 DEF Jobs!GiveUp, JobsTypes, WorkerOnJob, JobOfRun, EventDid, JobRecord, EventRow, DaemonState
  <2>5. QED
    BY <2>1, <2>2, <2>3, <2>4
<1>8. ASSUME NEW r \in Run, Jobs!ReadStatus(r) PROVE JobsInv'
  <2>s. daemon[r] # "none" /\ daemon[r] \in JobStatus
    BY <1>8 DEF Jobs!ReadStatus, JobOfRun, JobsTypes, DaemonState, JobStatus
  <2>1. JobsTypes'
    <3>1. tracked' \in [Run -> JobRecord]
      BY <1>8, <2>s, Zenon DEF Jobs!ReadStatus, JobsTypes, JobRecord
    <3>2. QED
      BY <1>8, <3>1 DEF Jobs!ReadStatus, JobsTypes
  <2>2. WorkerOnJob'
    BY <1>8 DEF Jobs!ReadStatus, JobsTypes, WorkerOnJob, JobOfRun, JobRecord, EventRow
  <2>3. ASSUME NEW q \in Run PROVE JobOfRun(q)'
    <3>1. JobOfRun(q) /\ daemon' = daemon /\ attempt' = attempt
      BY <1>8 DEF Jobs!ReadStatus
    <3>2. CASE q = r
      <4>1. /\ tracked'[r].status = daemon[r] /\ tracked'[r].known
            /\ tracked'[r].linked = tracked[r].linked /\ tracked'[r].pr = tracked[r].pr
        BY <1>8, Zenon DEF Jobs!ReadStatus, JobsTypes, JobRecord
      <4>2. QED
        BY <2>s, <3>1, <3>2, <4>1 DEF JobOfRun
    <3>3. CASE q # r
      <4>1. tracked'[q] = tracked[q]
        BY <1>8, <3>3 DEF Jobs!ReadStatus, JobsTypes
      <4>2. QED
        BY <3>1, <4>1 DEF JobOfRun
    <3>4. QED
      BY <3>2, <3>3
  <2>4. ASSUME NEW f \in Event PROVE EventDid(f)'
    BY <1>8 DEF Jobs!ReadStatus, JobsTypes, WorkerOnJob, JobOfRun, EventDid, JobRecord, EventRow,
         DaemonState
  <2>5. QED
    BY <2>1, <2>2, <2>3, <2>4
<1>9. ASSUME NEW r \in Run, Jobs!RequestPr(r) PROVE JobsInv'
  <2>1. JobsTypes'
    BY <1>9, ZenonT(60) DEF Jobs!RequestPr, JobsTypes, DaemonState, JobStatus, JobRecord, EventRow
  <2>2. WorkerOnJob'
    BY <1>9 DEF Jobs!RequestPr, JobsTypes, WorkerOnJob, JobOfRun, JobRecord, EventRow
  <2>3. ASSUME NEW q \in Run PROVE JobOfRun(q)'
    <3>1. JobOfRun(q) /\ daemon' = daemon /\ attempt' = attempt /\ tracked[r].known
      BY <1>9 DEF Jobs!RequestPr
    <3>2. CASE q = r
      <4>1. /\ tracked'[r].status = tracked[r].status /\ tracked'[r].known = tracked[r].known
            /\ tracked'[r].linked = tracked[r].linked
        BY <1>9, Zenon DEF Jobs!RequestPr, JobsTypes, JobRecord
      <4>2. tracked[r].status # "none" /\ daemon[r] # "none"
        BY <3>1, <3>2 DEF JobOfRun
      <4>3. QED
        BY <3>1, <3>2, <4>1, <4>2 DEF JobOfRun
    <3>3. CASE q # r
      <4>1. tracked'[q] = tracked[q]
        BY <1>9, <3>3 DEF Jobs!RequestPr, JobsTypes
      <4>2. QED
        BY <3>1, <4>1 DEF JobOfRun
    <3>4. QED
      BY <3>2, <3>3
  <2>4. ASSUME NEW f \in Event PROVE EventDid(f)'
    BY <1>9 DEF Jobs!RequestPr, JobsTypes, WorkerOnJob, JobOfRun, EventDid, JobRecord, EventRow, DaemonState
  <2>5. QED
    BY <2>1, <2>2, <2>3, <2>4
<1>10. ASSUME NEW e \in Event, Jobs!Receive(e) PROVE JobsInv'
  <2>1. JobsTypes'
    BY <1>10 DEF Jobs!Receive, Jobs!NotStored, Jobs!Ended, JobsTypes, DaemonState, JobStatus, JobRecord,
         EventRow
  <2>2. WorkerOnJob'
    BY <1>10 DEF Jobs!Receive, Jobs!NotStored, Jobs!Ended, JobsTypes, WorkerOnJob, JobOfRun, JobRecord,
         EventRow
  <2>3. ASSUME NEW q \in Run PROVE JobOfRun(q)'
    BY <1>10 DEF Jobs!Receive, Jobs!NotStored, Jobs!Ended, JobsTypes, WorkerOnJob, JobOfRun, EventDid,
         JobRecord, EventRow, DaemonState
  <2>4. ASSUME NEW f \in Event PROVE EventDid(f)'
    BY <1>10 DEF Jobs!Receive, Jobs!NotStored, Jobs!Ended, JobsTypes, WorkerOnJob, JobOfRun, EventDid,
         JobRecord, EventRow, DaemonState
  <2>5. QED
    BY <2>1, <2>2, <2>3, <2>4
<1>11. ASSUME NEW e \in Event, Jobs!Apply(e) PROVE JobsInv'
  <2> DEFINE j == About[e].run
             s == Jobs!StatusFor[About[e].type]
  <2>s. About[e].type # "heartbeat" =>
          /\ j \in Run /\ daemon[j] # "none"
          /\ s \in JobStatus \ {"none"}
    BY <1>11 DEF Jobs!Apply, Jobs!Unprocessed, EventDid, Jobs!StatusFor, JobStatus
  <2>a. /\ event' = [event EXCEPT ![e].is = "processed"]
        /\ event[e].is = "accepted" /\ busy = Jobs!Free /\ busy' = Jobs!Busy("settle", e)
        /\ UNCHANGED <<daemon, attempt>>
    BY <1>11 DEF Jobs!Apply, Jobs!Unprocessed
  <2>b. CASE About[e].type = "heartbeat" /\ UNCHANGED <<tracked, applied, woken>>
    BY <2>a, <2>b DEF JobsTypes, WorkerOnJob, JobOfRun, EventDid, EventRow, Jobs!Waking
  <2>c. CASE /\ About[e].type # "heartbeat"
             /\ tracked' = [tracked EXCEPT ![j].status = s]
             /\ applied' = [applied EXCEPT ![e] = @ + 1]
             /\ woken' = IF About[e].type \in Jobs!Waking THEN [woken EXCEPT ![e] = @ + 1] ELSE woken
   <3> HIDE DEF j, s
   <3>0. /\ \A q \in Run \ {j} : tracked'[q] = tracked[q]
         /\ tracked'[j].status = s /\ s \in JobStatus \ {"none"}
         /\ tracked'[j].linked = tracked[j].linked /\ tracked'[j].known = tracked[j].known
         /\ tracked'[j].pr = tracked[j].pr
         /\ j \in Run /\ daemon[j] # "none"
     BY <2>c, <2>s, Zenon DEF JobsTypes, JobRecord
   <3>1. JobsTypes'
     <4>1. tracked' \in [Run -> JobRecord]
       BY <2>c, <3>0, JobsGoOn DEF JobsTypes
     <4>2. QED
       BY <2>a, <2>c, <4>1 DEF JobsTypes, EventRow
   <3>2. WorkerOnJob'
     BY <2>a DEF WorkerOnJob, JobsTypes, EventRow
   <3>3. ASSUME NEW q \in Run PROVE JobOfRun(q)'
     <4>1. CASE q = j
       BY <2>a, <3>0, <4>1 DEF JobOfRun
     <4>2. CASE q # j
       <5>1. tracked'[q] = tracked[q] /\ JobOfRun(q)
         BY <3>0, <4>2
       <5>2. QED
         BY <2>a, <5>1 DEF JobOfRun
     <4>3. QED
       BY <4>1, <4>2
   <3>4. ASSUME NEW f \in Event PROVE EventDid(f)'
     <4>1. EventDid(f) /\ EventDid(e) /\ About[f].run \in Run
       BY DEF Jobs!Apply
     <4>2. tracked[About[f].run].status # "none" => tracked'[About[f].run].status # "none"
       BY <3>0, <4>1
     <4>3. CASE f = e
       <5>1. applied'[e] = 1 /\ event'[e].is = "processed"
         BY <2>a, <2>c, <4>1 DEF EventDid, JobsTypes, EventRow
       <5>2. woken'[e] = IF About[e].type \in Jobs!Waking THEN 1 ELSE 0
         BY <2>a, <2>c, <4>1 DEF EventDid, JobsTypes
       <5>3. tracked'[About[e].run].status # "none" /\ daemon'[About[e].run] # "none"
         BY <2>a, <3>0 DEF j
       <5>4. QED
         BY <2>c, <4>3, <5>1, <5>2, <5>3 DEF EventDid
     <4>4. CASE f # e
       <5>1. applied'[f] = applied[f] /\ woken'[f] = woken[f] /\ event'[f] = event[f]
         BY <2>a, <2>c, <4>4 DEF JobsTypes
       <5>2. QED
         BY <2>a, <4>1, <4>2, <5>1 DEF EventDid
     <4>5. QED
       BY <4>3, <4>4
   <3>5. QED
     BY <3>1, <3>2, <3>3, <3>4
  <2>d. QED
    BY <1>11, <2>b, <2>c DEF Jobs!Apply
<1>12. ASSUME NEW e \in Event, Jobs!Again(e) PROVE JobsInv'
  <2>1. JobsTypes'
    BY <1>12 DEF Jobs!Again, Jobs!Unprocessed, JobsTypes, DaemonState, JobStatus, JobRecord, EventRow
  <2>2. WorkerOnJob'
    BY <1>12 DEF Jobs!Again, Jobs!Unprocessed, JobsTypes, WorkerOnJob, JobOfRun, JobRecord, EventRow
  <2>3. ASSUME NEW q \in Run PROVE JobOfRun(q)'
    BY <1>12 DEF Jobs!Again, Jobs!Unprocessed, JobsTypes, WorkerOnJob, JobOfRun, EventDid, JobRecord,
         EventRow, DaemonState
  <2>4. ASSUME NEW f \in Event PROVE EventDid(f)'
    BY <1>12 DEF Jobs!Again, Jobs!Unprocessed, JobsTypes, WorkerOnJob, JobOfRun, EventDid, JobRecord,
         EventRow, DaemonState
  <2>5. QED
    BY <2>1, <2>2, <2>3, <2>4
<1>13. ASSUME NEW e \in Event, Jobs!SettleEvent(e) PROVE JobsInv'
  <2>1. JobsTypes'
    BY <1>13 DEF Jobs!SettleEvent, JobsTypes, DaemonState, JobStatus, JobRecord, EventRow
  <2>2. WorkerOnJob'
    BY <1>13 DEF Jobs!SettleEvent, JobsTypes, WorkerOnJob, JobOfRun, JobRecord, EventRow
  <2>3. ASSUME NEW q \in Run PROVE JobOfRun(q)'
    BY <1>13 DEF Jobs!SettleEvent, JobsTypes, WorkerOnJob, JobOfRun, EventDid, JobRecord, EventRow,
         DaemonState
  <2>4. ASSUME NEW f \in Event PROVE EventDid(f)'
    <3>1. event[e].is = "processed" /\ EventDid(f)
      BY <1>13 DEF Jobs!SettleEvent, WorkerOnJob
    <3>2. event'[f].is = IF f = e THEN "settled" ELSE event[f].is
      BY <1>13 DEF Jobs!SettleEvent, JobsTypes, EventRow
    <3>3. QED
      BY <1>13, <3>1, <3>2 DEF Jobs!SettleEvent, EventDid
  <2>5. QED
    BY <2>1, <2>2, <2>3, <2>4
<1>14. ASSUME NEW e \in Event, Jobs!ApplyFails(e) PROVE JobsInv'
  <2>1. JobsTypes'
    <3> DEFINE is == IF event[e].tries + 1 < MaxRetries THEN "accepted" ELSE "abandoned"
               n == event[e].tries + 1
    <3>1. n \in Nat /\ is \in {"accepted", "abandoned"}
      BY DEF JobsTypes, EventRow
    <3>2. event' = [event EXCEPT ![e].tries = n, ![e].is = is]
      BY <1>14, Zenon DEF Jobs!ApplyFails, JobsTypes
    <3>3. event' \in [Event -> EventRow]
      <4> HIDE DEF is, n
      <4>1. QED
        BY <3>1, <3>2, Zenon DEF JobsTypes, EventRow
    <3>4. QED
      BY <1>14, <3>3 DEF Jobs!ApplyFails, JobsTypes
  <2>2. WorkerOnJob'
    BY <1>14 DEF Jobs!ApplyFails, JobsTypes, WorkerOnJob, JobOfRun, JobRecord, EventRow
  <2>3. ASSUME NEW q \in Run PROVE JobOfRun(q)'
    BY <1>14 DEF Jobs!ApplyFails, JobsTypes, WorkerOnJob, JobOfRun, EventDid, JobRecord, EventRow,
         DaemonState
  <2>4. ASSUME NEW f \in Event PROVE EventDid(f)'
    BY <1>14 DEF Jobs!ApplyFails, JobsTypes, WorkerOnJob, JobOfRun, EventDid, JobRecord, EventRow,
         DaemonState
  <2>5. QED
    BY <2>1, <2>2, <2>3, <2>4
<1>15. CASE Jobs!WorkerDies
  <2>1. JobsTypes'
    BY <1>15 DEF Jobs!WorkerDies, JobsTypes, DaemonState, JobStatus, JobRecord, EventRow
  <2>2. WorkerOnJob'
    BY <1>15 DEF Jobs!WorkerDies, JobsTypes, WorkerOnJob, JobOfRun, JobRecord, EventRow
  <2>3. ASSUME NEW q \in Run PROVE JobOfRun(q)'
    BY <1>15 DEF Jobs!WorkerDies, JobsTypes, WorkerOnJob, JobOfRun, EventDid, JobRecord, EventRow,
         DaemonState
  <2>4. ASSUME NEW f \in Event PROVE EventDid(f)'
    BY <1>15 DEF Jobs!WorkerDies, JobsTypes, WorkerOnJob, JobOfRun, EventDid, JobRecord, EventRow,
         DaemonState
  <2>5. QED
    BY <2>1, <2>2, <2>3, <2>4
<1>16. QED
  BY <1>1, <1>2, <1>3, <1>4, <1>5, <1>6, <1>7, <1>8, <1>9, <1>10, <1>11, <1>12, <1>13, <1>14,
       <1>15 DEF Jobs!Next

(* The invariant gives what the agent relies on. *)
LEMMA JobsHold == ASSUME JobsConstants, JobsInv PROVE Jobs!JobsSound
<1>1. ASSUME NEW e \in Event
      PROVE  /\ applied[e] <= 1
             /\ woken[e] <= applied[e]
             /\ event[e].is = "settled" /\ About[e].type \in Jobs!Waking => woken[e] = 1
             /\ applied[e] = 1 => tracked[About[e].run].status # "none"
  BY DEF JobsInv, EventDid, Jobs!Waking
<1>2. ASSUME NEW r \in Run
      PROVE  /\ attempt[r] = "succeeded" <=> tracked[r].linked
             /\ tracked[r].pr => tracked[r].known
             /\ tracked[r].status # "none" => daemon[r] # "none"
  BY DEF JobsInv, JobOfRun, Jobs!NoJob
<1>3. QED
  BY <1>1, <1>2 DEF Jobs!JobsSound, Jobs!EventsApplyOnce, Jobs!StartedJobsBelong

(* An event changes its job and wakes the agent at most once, a job that   *)
(* waits or has ended has woken it, and the job of an attempt that         *)
(* succeeded belongs to it, however early its events come                  *)
(* (agency_daemon.py, worker.py).                                          *)
THEOREM EventsCountOnce ==
  Jobs!Spec => []JobsSound
<1> USE ServicesAssumption DEF ServicesAssumption
<1>1. Jobs!Init => JobsInv
  BY JobsInit
<1>2. JobsInv /\ [Jobs!Next]_(Jobs!agency) => JobsInv'
  BY JobsStep
<1>3. JobsInv => JobsSound
  BY JobsHold DEF JobsSound
<1>4. QED
  BY <1>1, <1>2, <1>3, PTL DEF Jobs!Spec

-----------------------------------------------------------------------------
(* Attachments. *)

(* A link is made only after the scan let the bytes pass. *)
LinkedPassed == \A a \in linked : Attachments!Refused(a) = {}

AttachmentsInv == Attachments!TypeOK /\ LinkedPassed /\ Attachments!OwnContentOnly

(* Nothing is linked before the first read. *)
LEMMA AttachmentsInit == Attachments!Init => AttachmentsInv
  BY DEF Attachments!Init, AttachmentsInv, Attachments!TypeOK, LinkedPassed, Attachments!OwnContentOnly

(* A read of a shows a, and adds nothing but extractions of its content.   *)
OwnExtraction(a) ==
  /\ \A o \in output' : o.status = "ok" =>
       /\ o.of = a
       /\ \A e \in o.blocks : /\ e.bytes.content = Bytes[a]
                              /\ e.modality = Attachments!Modality(a)
  /\ \A e \in extraction' : e \in extraction \/ e.bytes.content = Bytes[a]

(* What an extraction shows and leaves, when the bytes are of the content  *)
(* of an attachment that is linked after the read.                         *)
LEMMA ExtractsOwn ==
  ASSUME NEW a \in Attachment, NEW bytes, NEW intent,
         bytes.content = Bytes[a], a \in linked',
         Attachments!Extract(a, bytes, intent)
  PROVE  OwnExtraction(a)
<1> DEFINE cached == Attachments!Extractions(Bytes[a], Attachments!Modality(a))
           found == Attachments!Extracted(bytes, Attachments!Modality(a), intent)
<1>1. CASE \E e \in cached :
             /\ output' = {[of |-> a, status |-> "ok", blocks |-> {e}]}
             /\ UNCHANGED extraction
  <2>1. PICK e \in cached : output' = {[of |-> a, status |-> "ok", blocks |-> {e}]}
    BY <1>1
  <2>2. e.bytes.content = Bytes[a] /\ e.modality = Attachments!Modality(a)
    BY DEF Attachments!Extractions
  <2> HIDE DEF cached
  <2>3. ASSUME NEW o \in output' PROVE o.of = a /\ o.blocks = {e}
    BY <2>1
  <2>4. QED
    BY <1>1, <2>2, <2>3 DEF OwnExtraction
<1>2. CASE \E status \in Attachments!Outcomes(Attachments!Modality(a)) :
             \/ /\ status = "ok"
                /\ extraction' = extraction \cup found
                /\ output' = {[of |-> a, status |-> "ok", blocks |-> found]}
             \/ /\ status # "ok"
                /\ output' = {Attachments!Failed(status)}
                /\ UNCHANGED extraction
  <2>1. \A e \in found : e.bytes.content = Bytes[a] /\ e.modality = Attachments!Modality(a)
    BY DEF Attachments!Extracted
  <2>2. \A status : Attachments!Failed(status).status = status
    BY DEF Attachments!Failed
  <2> HIDE DEF found
  <2>3. QED
    BY <1>2, <2>1, <2>2 DEF OwnExtraction
<1>3. QED
  BY <1>1, <1>2 DEF Attachments!Extract

(* What fails or is refused is not "ok". *)
LEMMA FailuresSayNothing ==
  ASSUME NEW a, NEW status \in Attachments!Refused(a) \cup Attachments!Unavailable(a)
  PROVE  Attachments!Failed(status).status # "ok"
  BY DEF Attachments!Refused, Attachments!Unavailable, Attachments!Failed

(* A file is added only under a hash that has none. *)
LEMMA OneFileMore ==
  ASSUME Attachments!TypeOK, NEW c, NEW new, new.content = c, Attachments!Stored(c) = {}
  PROVE  \A f, g \in file \cup {new} : f.content = g.content => f = g
<1>1. \A f \in file : f.content # c
  BY DEF Attachments!Stored
<1>2. QED
  BY <1>1 DEF Attachments!TypeOK

(* So a read that downloads leaves one file of each hash. *)
LEMMA WritesOneFile ==
  ASSUME Attachments!TypeOK, NEW c
  PROVE  \A f, g \in Attachments!Write(c) : f.content = g.content => f = g
<1>1. Attachments!Whole(c).content = c
  BY DEF Attachments!Whole
<1>2. CASE Attachments!Stored(c) = {}
  BY <1>1, <1>2, OneFileMore DEF Attachments!Write
<1>3. CASE Attachments!Stored(c) # {}
  BY <1>3 DEF Attachments!Write, Attachments!TypeOK
<1>4. QED
  BY <1>2, <1>3

(* Each read, and each loss, keeps the invariant. *)
LEMMA AttachmentsStep ==
  ASSUME AttachmentsInv, [Attachments!Next]_(Attachments!attachments)
  PROVE  AttachmentsInv'
<1> USE DEF AttachmentsInv
<1>1. CASE UNCHANGED Attachments!attachments
  BY <1>1 DEF Attachments!attachments, Attachments!TypeOK, LinkedPassed, Attachments!OwnContentOnly
<1>2. ASSUME NEW a \in Attachment, NEW intent \in Intent, Attachments!ReadStored(a, intent)
      PROVE  AttachmentsInv'
  <2>1. PICK bytes \in Attachments!Cached(a) :
          \/ Attachments!Extract(a, bytes, intent)
          \/ output' = {Attachments!Failed("unsupported_type")} /\ UNCHANGED extraction
    BY <1>2 DEF Attachments!ReadStored
  <2>2. UNCHANGED <<fresh, file, blob, linked>>
    BY <1>2 DEF Attachments!ReadStored
  <2>3. a \in linked /\ Bytes[a] \in blob /\ bytes.content = Bytes[a]
    BY DEF Attachments!Cached, Attachments!Stored
  <2>4. OwnExtraction(a)
    <3>1. CASE Attachments!Extract(a, bytes, intent)
      BY <2>2, <2>3, <3>1, ExtractsOwn
    <3>2. CASE output' = {Attachments!Failed("unsupported_type")} /\ UNCHANGED extraction
      <4>1. Attachments!Failed("unsupported_type").status # "ok"
        BY DEF Attachments!Failed
      <4>2. QED
        BY <3>2, <4>1 DEF OwnExtraction
    <3>3. QED
      BY <2>1, <3>1, <3>2
  <2>5. Attachments!TypeOK'
    BY <2>2, <2>3, <2>4 DEF Attachments!TypeOK, OwnExtraction
  <2>6. LinkedPassed'
    BY <2>2 DEF LinkedPassed, Attachments!Refused, Attachments!Modality
  <2>7. Attachments!OwnContentOnly'
    BY <2>2, <2>3, <2>4 DEF LinkedPassed, Attachments!OwnContentOnly, Attachments!Refused, OwnExtraction
  <2>8. QED
    BY <2>5, <2>6, <2>7
<1>3. ASSUME NEW a \in Attachment, NEW intent \in Intent, Attachments!ReadDownloaded(a, intent)
      PROVE  AttachmentsInv'
  <2>1. /\ file' = Attachments!Write(Bytes[a])
        /\ blob' = blob \cup {Bytes[a]}
        /\ linked' = linked \cup {a}
        /\ fresh' = fresh
        /\ Attachments!Refused(a) = {}
        /\ Attachments!Extract(a, Attachments!Whole(Bytes[a]), intent)
    BY <1>3 DEF Attachments!ReadDownloaded
  <2>2. Attachments!Whole(Bytes[a]).content = Bytes[a]
    BY DEF Attachments!Whole
  <2>3. OwnExtraction(a)
    BY <2>1, <2>2, ExtractsOwn
  <2>4. Attachments!TypeOK'
    BY <2>1, <2>2, <2>3, WritesOneFile DEF Attachments!TypeOK, Attachments!Content, OwnExtraction
  <2>5. LinkedPassed'
    BY <2>1 DEF LinkedPassed, Attachments!Refused
  <2>6. Attachments!OwnContentOnly'
    BY <2>1, <2>3, <2>5 DEF LinkedPassed, Attachments!OwnContentOnly, Attachments!Refused, OwnExtraction
  <2>7. QED
    BY <2>4, <2>5, <2>6
<1>4. ASSUME NEW a \in Attachment, Attachments!ReadFails(a) PROVE AttachmentsInv'
  BY <1>4, FailuresSayNothing DEF Attachments!ReadFails, Attachments!TypeOK, LinkedPassed,
       Attachments!OwnContentOnly
<1>5. ASSUME NEW a \in Attachment, Attachments!ReadRefused(a) PROVE AttachmentsInv'
  BY <1>5, FailuresSayNothing DEF Attachments!ReadRefused, Attachments!TypeOK, LinkedPassed,
       Attachments!OwnContentOnly
<1>6. ASSUME NEW a \in Attachment, Attachments!RolledBack(a) PROVE AttachmentsInv'
  BY <1>6, WritesOneFile DEF Attachments!RolledBack, Attachments!TypeOK, LinkedPassed,
       Attachments!OwnContentOnly
<1>7. ASSUME NEW a \in Attachment, Attachments!DiesWriting(a) PROVE AttachmentsInv'
  <2>1. \A f, g \in file' : f.content = g.content => f = g
    <3>1. Attachments!Cut(Bytes[a]).content = Bytes[a]
      BY DEF Attachments!Cut
    <3>2. QED
      BY <1>7, <3>1, OneFileMore DEF Attachments!DiesWriting
  <2>2. QED
    BY <1>7, <2>1 DEF Attachments!DiesWriting, Attachments!TypeOK, LinkedPassed, Attachments!OwnContentOnly
<1>8. ASSUME NEW a \in Attachment, Attachments!Expire(a) PROVE AttachmentsInv'
  BY <1>8 DEF Attachments!Expire, Attachments!TypeOK, LinkedPassed, Attachments!OwnContentOnly
<1>9. CASE Attachments!FileLost
  BY <1>9 DEF Attachments!FileLost, Attachments!TypeOK, LinkedPassed, Attachments!OwnContentOnly
<1>10. QED
  BY <1>1, <1>2, <1>3, <1>4, <1>5, <1>6, <1>7, <1>8, <1>9 DEF Attachments!Next

(* A read that succeeds shows its own attachment, in the modality of its   *)
(* type, and only what passed the scan, whoever stored and whoever         *)
(* extracted the content (attachment_content.py).                          *)
THEOREM ReadsShowTheirOwn == Attachments!Spec => []OwnContentOnly
<1>1. Attachments!Init => AttachmentsInv
  BY AttachmentsInit
<1>2. AttachmentsInv /\ [Attachments!Next]_(Attachments!attachments) => AttachmentsInv'
  BY AttachmentsStep
<1>3. AttachmentsInv => OwnContentOnly
  BY DEF AttachmentsInv, OwnContentOnly
<1>4. QED
  BY <1>1, <1>2, <1>3, PTL DEF Attachments!Spec

-----------------------------------------------------------------------------
(* Provider evidence. *)

(* Something is available only of an object that is there. *)
AvailableIsActive == \A d \in Evidence!Digest : Evidence!Is(d, "available") => object = "active"

EvidenceInv ==
  /\ source \in ObjectContent \cup {"gone"}
  /\ kind = "slots" => source \in ObjectContent
  /\ DOMAIN rows = Evidence!Digest
  /\ refs \subseteq Evidence!Digest
  /\ Evidence!OneCurrentContent
  /\ AvailableIsActive

(* Before the first read there are no rows. *)
LEMMA EvidenceInit == Evidence!Init => EvidenceInv
  BY DEF Evidence!Init, EvidenceInv, AvailableIsActive, Evidence!OneCurrentContent, Evidence!IsCurrent,
       Evidence!Is

(* A row that is redacted or that a reference may be to stays so. *)
RowsKept ==
  /\ DOMAIN rows' = Evidence!Digest
  /\ refs' \subseteq Evidence!Digest
  /\ \A d \in Evidence!Digest :
       /\ Evidence!Is(d, "redacted") => rows'[d] = "redacted"
       /\ ~Evidence!Is(d, "none") => rows'[d] # "none"
  /\ \A d \in refs' \ refs : rows'[d] # "none"

(* The rows after a content was recorded as available. *)
LEMMA RecordsOne ==
  ASSUME EvidenceInv, NEW d \in Evidence!Digest, NEW referred \in BOOLEAN,
         Evidence!RecordAvailable(d, referred)
  PROVE  /\ RowsKept
         /\ \/ Evidence!Is(d, "redacted") /\ rows' = rows
            \/ rows'[d] = "available" /\ \A e \in Evidence!Digest \ {d} : rows'[e] # "available"
<1>1. CASE Evidence!Is(d, "redacted")
  BY <1>1 DEF Evidence!RecordAvailable, Evidence!Refer, Evidence!Is, EvidenceInv, RowsKept
<1>2. CASE ~Evidence!Is(d, "redacted")
  <2>1. rows' = [Evidence!Superseded(d) EXCEPT ![d] = "available"]
    BY <1>2 DEF Evidence!RecordAvailable
  <2>2. /\ DOMAIN rows' = Evidence!Digest
        /\ rows'[d] = "available"
        /\ \A e \in Evidence!Digest \ {d} :
             rows'[e] = IF rows[e] = "available" THEN "superseded" ELSE rows[e]
    BY <2>1 DEF Evidence!Superseded, Evidence!Is
  <2>3. refs' \subseteq refs \cup {d}
    BY DEF Evidence!RecordAvailable, Evidence!Refer
  <2>4. QED
    BY <1>2, <2>2, <2>3 DEF Evidence!Is, EvidenceInv, RowsKept
<1>3. QED
  BY <1>1, <1>2

(* The rows after a read that brought no text. *)
LEMMA RecordsNoText ==
  ASSUME EvidenceInv, NEW d \in Evidence!Digest, Evidence!RecordUnavailable(d)
  PROVE  /\ RowsKept
         /\ rows'[d] \in {"redacted", "unavailable"}
         /\ \A e \in Evidence!Digest \ {d} : rows'[e] = rows[e]
BY DEF Evidence!RecordUnavailable, Evidence!Is, EvidenceInv, RowsKept

(* The rows after a deletion was seen. *)
LEMMA DeletesAll ==
  ASSUME EvidenceInv, NEW referred \in BOOLEAN,
         \/ Evidence!RecordDeleted(Cancelled, referred)
         \/ rows' = Evidence!AllDeleted /\ refs' = refs
  PROVE  RowsKept /\ \A d \in Evidence!Digest : rows'[d] # "available"
<1>1. CASE rows' = Evidence!AllDeleted /\ refs' = refs
  BY <1>1 DEF Evidence!AllDeleted, Evidence!Is, EvidenceInv, RowsKept
<1>2. CASE Evidence!RecordDeleted(Cancelled, referred)
  <2>1. refs' \subseteq refs \cup {Cancelled} /\ Cancelled \in Evidence!Digest
    BY <1>2 DEF Evidence!RecordDeleted, Evidence!Refer, Evidence!Digest
  <2>2. /\ DOMAIN rows' = Evidence!Digest
        /\ rows'[Cancelled] = IF rows[Cancelled] = "redacted" THEN "redacted" ELSE "deleted"
        /\ \A e \in Evidence!Digest \ {Cancelled} :
             rows'[e] = IF rows[e] \in {"none", "redacted"} THEN rows[e] ELSE "deleted"
    BY <1>2, <2>1 DEF Evidence!RecordDeleted, Evidence!AllDeleted
  <2>3. QED
    BY <2>1, <2>2 DEF Evidence!Is, EvidenceInv, RowsKept
<1>3. QED
  BY <1>1, <1>2

(* Recording is all that the reads and the sync do to the rows. *)
Recorded ==
  \/ /\ object' = "active"
     /\ source \in ObjectContent
     /\ latest' = source
     /\ \E referred \in BOOLEAN : Evidence!RecordAvailable(source, referred)
  \/ /\ object' = "active"
     /\ latest' = latest
     /\ Evidence!RecordUnavailable(Raw)
  \/ /\ object' = "deleted"
     /\ \E referred \in BOOLEAN : \/ Evidence!RecordDeleted(Cancelled, referred)
                                  \/ rows' = Evidence!AllDeleted /\ refs' = refs
  \/ object' = "active" /\ UNCHANGED <<rows, refs, latest>>

(* Recording keeps the invariant and the redactions. *)
LEMMA RecordedStep ==
  ASSUME EvidenceInv, Recorded, UNCHANGED <<kind, source>>
  PROVE  EvidenceInv' /\ RowsKept
<1> USE DEF EvidenceInv, AvailableIsActive, Evidence!OneCurrentContent, Evidence!IsCurrent, Evidence!Is
<1>1. ASSUME NEW referred \in BOOLEAN, object' = "active", source \in ObjectContent, latest' = source,
             Evidence!RecordAvailable(source, referred)
      PROVE  EvidenceInv' /\ RowsKept
  <2>1. source \in Evidence!Digest
    BY <1>1 DEF Evidence!Digest
  <2>2. /\ RowsKept
        /\ \/ Evidence!Is(source, "redacted") /\ rows' = rows
           \/ rows'[source] = "available" /\ \A e \in Evidence!Digest \ {source} : rows'[e] # "available"
    BY <1>1, <2>1, RecordsOne
  <2>3. QED
    BY <1>1, <2>1, <2>2 DEF RowsKept
<1>2. CASE object' = "active" /\ latest' = latest /\ Evidence!RecordUnavailable(Raw)
  <2>1. Raw \in Evidence!Digest
    BY DEF Evidence!Digest
  <2>2. /\ RowsKept
        /\ rows'[Raw] \in {"redacted", "unavailable"}
        /\ \A e \in Evidence!Digest \ {Raw} : rows'[e] = rows[e]
    BY <1>2, <2>1, RecordsNoText
  <2>3. QED
    BY <1>2, <2>1, <2>2 DEF RowsKept
<1>3. ASSUME NEW referred \in BOOLEAN, object' = "deleted",
             \/ Evidence!RecordDeleted(Cancelled, referred)
             \/ rows' = Evidence!AllDeleted /\ refs' = refs
      PROVE  EvidenceInv' /\ RowsKept
  <2>1. RowsKept /\ \A d \in Evidence!Digest : rows'[d] # "available"
    BY <1>3, DeletesAll
  <2>2. QED
    BY <1>3, <2>1 DEF RowsKept
<1>4. CASE object' = "active" /\ UNCHANGED <<rows, refs, latest>>
  BY <1>4 DEF RowsKept
<1>5. QED
  BY <1>1, <1>2, <1>3, <1>4 DEF Recorded

(* The operations that record. *)
LEMMA WhatRecords ==
  ASSUME EvidenceInv,
         \/ Evidence!SyncMessage \/ Evidence!SyncDeletion \/ Evidence!SyncEvent
         \/ Evidence!ReadMessage \/ Evidence!ReadThread \/ Evidence!ListEvent \/ Evidence!ProposeSlots
  PROVE  Recorded /\ UNCHANGED <<kind, source, shown>>
<1> USE DEF EvidenceInv, Evidence!Digest
<1>1. source \in ObjectContent => source \in Evidence!Digest
  OBVIOUS
<1>2. CASE Evidence!SyncMessage
  <2>1. CASE source # "gone" /\ latest' = source /\ Evidence!RecordAvailable(source, TRUE)
    BY <1>2, <2>1 DEF Evidence!SyncMessage, Recorded
  <2>2. CASE Evidence!RecordUnavailable(Raw) /\ UNCHANGED latest
    BY <1>2, <2>2 DEF Evidence!SyncMessage, Recorded
  <2>3. QED
    BY <1>2, <2>1, <2>2 DEF Evidence!SyncMessage
<1>3. CASE Evidence!SyncDeletion
  BY <1>3 DEF Evidence!SyncDeletion, Recorded
<1>4. CASE Evidence!SyncEvent
  BY <1>4 DEF Evidence!SyncEvent, Evidence!StoreEvent, Recorded
<1>5. CASE Evidence!ReadMessage
  BY <1>5 DEF Evidence!ReadMessage, Recorded
<1>6. CASE Evidence!ReadThread
  BY <1>6 DEF Evidence!ReadThread, Recorded
<1>7. CASE Evidence!ListEvent
  BY <1>7 DEF Evidence!ListEvent, Evidence!StoreEvent, Recorded
<1>8. CASE Evidence!ProposeSlots
  <2>1. source \in ObjectContent
    BY <1>8 DEF Evidence!ProposeSlots
  <2>2. QED
    BY <1>8, <2>1 DEF Evidence!ProposeSlots, Recorded
<1>9. QED
  BY <1>2, <1>3, <1>4, <1>5, <1>6, <1>7, <1>8

(* What EvidenceIsCurrent asks of a step. *)
CurrentStep ==
  /\ Evidence!OneCurrentContent'
  /\ \A d \in Evidence!Digest : Evidence!Is(d, "redacted") => rows'[d] = "redacted"
  /\ shown' # shown /\ shown'.status = "ok" =>
       object # "deleted" /\ Evidence!IsCurrent(shown'.digest)

(* Each step of sync, agent, user and operator keeps the invariant. *)
LEMMA EvidenceStep ==
  ASSUME EvidenceInv, [Evidence!Next]_(Evidence!evidence)
  PROVE  EvidenceInv' /\ CurrentStep
<1>1. CASE UNCHANGED Evidence!evidence
  BY <1>1 DEF Evidence!evidence, EvidenceInv, CurrentStep, AvailableIsActive, Evidence!OneCurrentContent,
       Evidence!IsCurrent, Evidence!Is
<1>2. CASE \/ Evidence!SyncMessage \/ Evidence!SyncDeletion \/ Evidence!SyncEvent
           \/ Evidence!ReadMessage \/ Evidence!ReadThread \/ Evidence!ListEvent \/ Evidence!ProposeSlots
  <2>1. Recorded /\ UNCHANGED <<kind, source, shown>>
    BY <1>2, WhatRecords
  <2>2. EvidenceInv' /\ RowsKept
    BY <2>1, RecordedStep
  <2>3. QED
    BY <2>1, <2>2 DEF CurrentStep, EvidenceInv, RowsKept
<1>3. ASSUME NEW d \in Evidence!Digest, Evidence!ReadByReference(d)
      PROVE  EvidenceInv' /\ CurrentStep
  <2>1. /\ UNCHANGED <<kind, source, object, rows, blocks, latest, refs>>
        /\ shown'.digest = d
        /\ shown'.status = "ok" => Evidence!Is(d, "available") /\ d \in blocks
    BY <1>3 DEF Evidence!ReadByReference, Evidence!Serves
  <2>2. EvidenceInv'
    BY <2>1 DEF EvidenceInv, AvailableIsActive, Evidence!OneCurrentContent, Evidence!IsCurrent,
         Evidence!Is
  <2>3. Evidence!Is(d, "available") => object # "deleted" /\ Evidence!IsCurrent(d)
    BY DEF EvidenceInv, Evidence!OneCurrentContent
  <2>4. rows' = rows
    BY <2>1
  <2>5. QED
    BY <2>1, <2>2, <2>3, <2>4 DEF EvidenceInv, CurrentStep, Evidence!Is
<1>4. ASSUME NEW d \in Evidence!Digest, Evidence!Redact(d)
      PROVE  EvidenceInv' /\ CurrentStep
  <2>1. /\ rows[d] # "none"
        /\ DOMAIN rows = Evidence!Digest
        /\ rows' = [rows EXCEPT ![d] = "redacted"]
        /\ UNCHANGED <<kind, source, object, blocks, latest, refs, shown>>
    BY <1>4 DEF Evidence!Redact, EvidenceInv
  <2>2. EvidenceInv'
    BY <2>1 DEF EvidenceInv, AvailableIsActive, Evidence!OneCurrentContent, Evidence!IsCurrent,
         Evidence!Is
  <2>3. QED
    BY <2>1, <2>2 DEF EvidenceInv, CurrentStep, Evidence!Is
<1>5. CASE Evidence!SourceChanges
  <2>1. source' \in ObjectContent \cup {"gone"} /\ kind # "slots" /\ UNCHANGED <<kind, object, rows, blocks, latest, refs, shown>>
    BY <1>5 DEF Evidence!SourceChanges
  <2>2. QED
    BY <2>1 DEF EvidenceInv, CurrentStep, AvailableIsActive, Evidence!OneCurrentContent,
         Evidence!IsCurrent, Evidence!Is
<1>6. QED
  BY <1>1, <1>2, <1>3, <1>4, <1>5 DEF Evidence!Next

(* One content of an object is available, the one that was read last; a    *)
(* redaction is final; and an old reference shows its content only while   *)
(* that is what the provider was last seen to hold                         *)
(* (provider_evidence_lifecycle.py).                                       *)
THEOREM EvidenceStaysCurrent ==
  Evidence!Spec => EvidenceIsCurrent
<1>1. Evidence!Init => EvidenceInv
  BY EvidenceInit
<1>2. EvidenceInv /\ [Evidence!Next]_(Evidence!evidence) => EvidenceInv' /\ [CurrentStep]_(Evidence!evidence)
  BY EvidenceStep
<1>3. QED
  BY <1>1, <1>2, PTL DEF Evidence!Spec, EvidenceIsCurrent, Evidence!EvidenceIsCurrent, CurrentStep

-----------------------------------------------------------------------------
(* Folds: induction over the naturals, and what a fold from the left is.   *)

(* A set of naturals that is not empty has a least element. *)
LEMMA LeastNat ==
  ASSUME NEW T, T \subseteq Nat, T # {}
  PROVE  \E m \in T : \A k \in T : m <= k
<1>1. PICK x \in T : \A y \in T : ~ (<<y, x>> \in OpToRel(<, Nat))
  BY NatLessThanWellFounded, WFMin
<1>2. \A z, y \in Nat : <<y, z>> \in OpToRel(<, Nat) <=> y < z
  BY DEF OpToRel
<1>3. \A y \in T : ~(y < x)
  BY <1>1, <1>2, Zenon
<1>4. QED
  BY <1>3

(* Induction, for the set of the numbers that something is true of. *)
LEMMA Induction ==
  ASSUME NEW n \in Nat, NEW T, 0 \in T, \A k \in 0 .. n - 1 : k \in T => k + 1 \in T
  PROVE  \A k \in 0 .. n : k \in T
<1> SUFFICES ASSUME (0 .. n) \ T # {} PROVE FALSE
  OBVIOUS
<1>1. PICK m \in (0 .. n) \ T : \A k \in (0 .. n) \ T : m <= k
  <2>1. (0 .. n) \ T \subseteq Nat
    OBVIOUS
  <2>2. QED
    BY <2>1, LeastNat
<1>2. m # 0 /\ m \in 1 .. n
  BY <1>1
<1>3. m - 1 \in 0 .. n /\ m - 1 \in 0 .. n - 1 /\ (m - 1) + 1 = m
  BY <1>2
<1>4. m - 1 \notin T
  BY <1>1, <1>3
<1>5. m <= m - 1
  BY <1>1, <1>3, <1>4
<1>6. QED
  BY <1>2, <1>5

(* A set of numbers up to a bound has a greatest element. *)
LEMMA Greatest ==
  ASSUME NEW n \in Nat, NEW t \in SUBSET (1 .. n), t # {}
  PROVE  \E m \in t : \A k \in t : m >= k
<1> DEFINE T == {n - k : k \in t}
<1>1. T \subseteq Nat /\ T # {}
  <2>1. \A k \in t : n - k \in Nat
    OBVIOUS
  <2>2. QED
    BY <2>1
<1>2. PICK x \in T : \A y \in T : x <= y
  BY <1>1, LeastNat
<1>3. PICK m \in t : x = n - m
  BY <1>2
<1>4. \A k \in t : n - k \in T /\ n - m <= n - k
  BY <1>2, <1>3
<1>5. QED
  BY <1>4

(* What a fold from the left is the value of: a function of the sets of    *)
(* positions that takes the greatest position last.                        *)
Folds(g, A, op, base, n, s) ==
  /\ g \in [SUBSET (1 .. n) -> A]
  /\ g[{}] = base
  /\ \A t \in SUBSET (1 .. n), m \in 1 .. n :
       m \in t /\ (\A k \in t : m >= k) => g[t] = op[<<g[t \ {m}], s[m]>>]

(* There is one. *)
LEMMA FoldsExist ==
  ASSUME NEW A, NEW B, NEW op \in [A \X B -> A], NEW base \in A, NEW n \in Nat, NEW s \in [1 .. n -> B]
  PROVE  \E g : Folds(g, A, op, base, n, s)
<1> DEFINE F(g, i) == /\ g \in [SUBSET (1 .. i) -> A]
                      /\ g[{}] = base
                      /\ \A t \in SUBSET (1 .. i), m \in 1 .. i :
                           m \in t /\ (\A k \in t : m >= k) => g[t] = op[<<g[t \ {m}], s[m]>>]
           T == {i \in 0 .. n : \E g : F(g, i)}
<1>1. 0 \in T
  <2> DEFINE h == [t \in SUBSET (1 .. 0) |-> base]
  <2>1. 1 .. 0 = {} /\ h[{}] = base /\ h \in [SUBSET (1 .. 0) -> A]
    OBVIOUS
  <2>2. F(h, 0)
    BY <2>1
  <2> HIDE DEF F, h
  <2>3. QED
    BY <2>2
<1>2. ASSUME NEW i \in 0 .. n - 1, i \in T PROVE i + 1 \in T
  <2>1. PICK g : F(g, i)
    BY <1>2
  <2> DEFINE j == i + 1
             h == [t \in SUBSET (1 .. j) |-> IF j \in t THEN op[<<g[t \ {j}], s[j]>>] ELSE g[t]]
  <2>2. /\ \A t \in SUBSET (1 .. j) : t \ {j} \in SUBSET (1 .. i) /\ (j \notin t => t \in SUBSET (1 .. i))
        /\ j \in 1 .. n /\ 1 .. i \subseteq 1 .. j
    OBVIOUS
  <2>3. h \in [SUBSET (1 .. j) -> A]
    <3>1. \A t \in SUBSET (1 .. i) : g[t] \in A
      BY <2>1
    <3>2. s[j] \in B
      BY <2>2
    <3>3. QED
      BY <2>2, <3>1, <3>2
  <2>4. h[{}] = base
    BY <2>1
  <2>5. ASSUME NEW t \in SUBSET (1 .. j), NEW m \in 1 .. j, m \in t, \A k \in t : m >= k
        PROVE  h[t] = op[<<h[t \ {m}], s[m]>>]
    <3>1. CASE m = j
      <4>1. h[t] = op[<<g[t \ {m}], s[m]>>]
        BY <2>5, <3>1
      <4>2. h[t \ {m}] = g[t \ {m}]
        BY <2>2, <3>1
      <4>3. QED
        BY <4>1, <4>2
    <3>2. CASE m # j
      <4>1. j \notin t /\ m \in 1 .. i /\ t \in SUBSET (1 .. i) /\ t \ {m} \in SUBSET (1 .. j)
        BY <2>2, <2>5, <3>2
      <4>2. g[t] = op[<<g[t \ {m}], s[m]>>]
        BY <2>1, <2>5, <4>1
      <4>3. h[t] = g[t] /\ h[t \ {m}] = g[t \ {m}]
        BY <4>1
      <4>4. QED
        BY <4>2, <4>3
    <3>3. QED
      BY <3>1, <3>2
  <2> HIDE DEF h
  <2>6. F(h, j)
    BY <2>3, <2>4, <2>5
  <2> HIDE DEF F
  <2>7. QED
    BY <2>2, <2>6
<1>3. n \in T
  <2> HIDE DEF T
  <2>1. \A i \in 0 .. n - 1 : i \in T => i + 1 \in T
    BY <1>2
  <2>2. \A k \in 0 .. n : k \in T
    BY <1>1, <2>1, Induction
  <2>3. QED
    BY <2>2
<1>4. PICK g : F(g, n)
  BY <1>3
<1>5. Folds(g, A, op, base, n, s)
  BY <1>4 DEF Folds
<1>6. QED
  BY <1>5

(* The greatest position of a set, as a fold picks it. *)
LEMMA GreatestPicked ==
  ASSUME NEW n \in Nat, NEW t \in SUBSET (1 .. n), t # {}
  PROVE  Reads!Max(t) \in t /\ \A k \in t : Reads!Max(t) >= k
<1>1. \E m \in t : \A k \in t : m >= k
  BY Greatest
<1>2. QED
  BY <1>1 DEF Reads!Max

(* The last position of a prefix is the one a fold picks. *)
LEMMA LastPicked ==
  ASSUME NEW n \in Nat, NEW k \in 1 .. n
  PROVE  /\ Reads!Max(1 .. k) = k /\ (1 .. k) \ {k} = 1 .. (k - 1)
         /\ 1 .. k \in SUBSET (1 .. n) /\ 1 .. k # {} /\ k - 1 \in 0 .. n
<1>1. 1 .. k \in SUBSET (1 .. n) /\ 1 .. k # {} /\ k \in 1 .. k
  OBVIOUS
<1>2. Reads!Max(1 .. k) \in 1 .. k /\ Reads!Max(1 .. k) >= k
  BY <1>1, GreatestPicked
<1>3. QED
  BY <1>1, <1>2

(* A sum is the last of the sums of the prefixes. *)
LEMMA SumRule ==
  ASSUME NEW s \in Seq(Nat)
  PROVE  \E r \in [0 .. Len(s) -> Nat] :
           /\ r[0] = 0 /\ Reads!Sum(s) = r[Len(s)]
           /\ \A k \in 1 .. Len(s) : r[k] = r[k - 1] + s[k]
<1> DEFINE n == Len(s)
           op == [p \in Nat \X Nat |-> p[1] + p[2]]
           Is(g) == g = [t \in SUBSET DOMAIN s |->
                           IF t = {} THEN 0 ELSE g[t \ {Reads!Max(t)}] + s[Reads!Max(t)]]
           iter == CHOOSE g : Is(g)
           r == [k \in 0 .. n |-> iter[1 .. k]]
<1>1. n \in Nat /\ DOMAIN s = 1 .. n /\ s \in [1 .. n -> Nat] /\ op \in [Nat \X Nat -> Nat]
  OBVIOUS
<1>2. Is(iter)
  <2>1. PICK g : Folds(g, Nat, op, 0, n, s)
    <3>1. 0 \in Nat
      OBVIOUS
    <3> HIDE DEF n, op
    <3>2. QED
      BY <1>1, <3>1, FoldsExist
  <2>2. ASSUME NEW t \in SUBSET (1 .. n), t # {}
        PROVE  g[t] = g[t \ {Reads!Max(t)}] + s[Reads!Max(t)]
    <3> DEFINE m == Reads!Max(t)
    <3>1. m \in t /\ \A k \in t : m >= k
      BY <1>1, <2>2, GreatestPicked
    <3>2. g[t] = op[<<g[t \ {m}], s[m]>>]
      BY <2>1, <3>1 DEF Folds
    <3>3. g[t \ {m}] \in Nat /\ s[m] \in Nat
      BY <1>1, <2>1, <3>1 DEF Folds
    <3>4. QED
      BY <3>2, <3>3
  <2>3. Is(g)
    BY <1>1, <2>1, <2>2 DEF Folds
  <2>4. QED
    BY <2>3
<1>3. Reads!Sum(s) = r[n]
  BY <1>1 DEF Reads!Sum, Reads!FoldLeft, Reads!MapThenFoldSet
<1> HIDE DEF iter
<1>4. r[0] = 0
  <2>1. 1 .. 0 = {} /\ {} \in SUBSET DOMAIN s
    BY <1>1
  <2>2. iter[{}] = 0
    BY <1>2, <2>1
  <2>3. QED
    BY <1>1, <2>1, <2>2
<1>5. ASSUME NEW k \in 1 .. n PROVE r[k] = r[k - 1] + s[k]
  <2>1. iter[1 .. k] = iter[(1 .. k) \ {Reads!Max(1 .. k)}] + s[Reads!Max(1 .. k)]
    BY <1>1, <1>2, LastPicked
  <2>2. Reads!Max(1 .. k) = k /\ (1 .. k) \ {k} = 1 .. (k - 1) /\ k - 1 \in 0 .. n
    BY <1>1, LastPicked
  <2>3. r[k] = iter[1 .. k] /\ r[k - 1] = iter[1 .. (k - 1)]
    BY <1>1, <2>2
  <2> HIDE DEF r
  <2>4. QED
    BY <2>1, <2>2, <2>3
<1> HIDE DEF r
<1>6. \A k \in 0 .. n : k \in {i \in 0 .. n : r[i] \in Nat}
  <2> DEFINE T == {i \in 0 .. n : r[i] \in Nat}
  <2>1. 0 \in T
    BY <1>1, <1>4
  <2>2. ASSUME NEW k \in 0 .. n - 1, k \in T PROVE k + 1 \in T
    <3>1. r[k + 1] = r[(k + 1) - 1] + s[k + 1] /\ s[k + 1] \in Nat
      BY <1>1, <1>5, <2>2
    <3>2. QED
      BY <1>1, <2>2, <3>1
  <2> HIDE DEF T
  <2>3. \A k \in 0 .. n : k \in T
    BY <1>1, <2>1, <2>2, Induction
  <2>4. QED
    BY <2>3 DEF T
<1>7. r \in [0 .. n -> Nat]
  BY <1>6 DEF r
<1>8. QED
  BY <1>1, <1>3, <1>4, <1>5, <1>7

(* A sum grows by what is appended. *)
LEMMA SumOfMore ==
  /\ Reads!Sum(<< >>) = 0
  /\ \A s \in Seq(Nat), x \in Nat : Reads!Sum(Append(s, x)) = Reads!Sum(s) + x
<1>1. Reads!Sum(<< >>) = 0
  <2>1. << >> \in Seq(Nat) /\ Len(<< >>) = 0
    OBVIOUS
  <2>2. QED
    BY <2>1, SumRule
<1>2. ASSUME NEW s \in Seq(Nat), NEW x \in Nat PROVE Reads!Sum(Append(s, x)) = Reads!Sum(s) + x
  <2> DEFINE n == Len(s)
             t == Append(s, x)
  <2>1. n \in Nat /\ t \in Seq(Nat) /\ Len(t) = n + 1 /\ t[n + 1] = x /\ \A k \in 1 .. n : t[k] = s[k]
    OBVIOUS
  <2>2. PICK r \in [0 .. n -> Nat] :
          r[0] = 0 /\ Reads!Sum(s) = r[n] /\ \A k \in 1 .. n : r[k] = r[k - 1] + s[k]
    BY SumRule
  <2> HIDE DEF t
  <2>3. PICK q \in [0 .. n + 1 -> Nat] :
          q[0] = 0 /\ Reads!Sum(t) = q[n + 1] /\ \A k \in 1 .. n + 1 : q[k] = q[k - 1] + t[k]
    <3>1. PICK q \in [0 .. Len(t) -> Nat] :
            q[0] = 0 /\ Reads!Sum(t) = q[Len(t)] /\ \A k \in 1 .. Len(t) : q[k] = q[k - 1] + t[k]
      BY <2>1, SumRule
    <3>2. QED
      BY <2>1, <3>1
  <2> HIDE DEF n
  <2> DEFINE T == {k \in 0 .. n : q[k] = r[k]}
  <2>4. 0 \in T
    BY <2>1, <2>2, <2>3
  <2>5. ASSUME NEW k \in 0 .. n - 1, k \in T PROVE k + 1 \in T
    <3>1. k + 1 \in 1 .. n /\ k + 1 \in 1 .. n + 1 /\ (k + 1) - 1 = k
      BY <2>1
    <3>2. r[k + 1] = r[k] + s[k + 1] /\ q[k + 1] = q[k] + t[k + 1] /\ t[k + 1] = s[k + 1]
      BY <2>1, <2>2, <2>3, <3>1
    <3>3. QED
      BY <2>5, <3>1, <3>2
  <2> HIDE DEF T
  <2>6. n \in T
    <3>1. \A k \in 0 .. n : k \in T
      BY <2>1, <2>4, <2>5, Induction
    <3>2. QED
      BY <2>1, <3>1
  <2>7. q[n + 1] = q[n] + t[n + 1] /\ q[n] = r[n]
    <3>1. n + 1 \in 1 .. n + 1 /\ (n + 1) - 1 = n
      BY <2>1
    <3>2. QED
      BY <2>3, <2>6, <3>1 DEF T
  <2>8. QED
    BY <2>1, <2>2, <2>3, <2>7 DEF t
<1>3. QED
  BY <1>1, <1>2

(* What the loop over the blocks holds. *)
Kept == [kept : Seq(Nat), total : Nat, cut : BOOLEAN, full : BOOLEAN]

(* What is kept so far of blocks of c characters in all: it is within the  *)
(* limits, has no empty block, and is marked as cut exactly if it is less. *)
KeptSound(so, c) ==
  /\ so \in Kept
  /\ Reads!Sum(so.kept) = so.total
  /\ so.total <= MaxTotal /\ Len(so.kept) <= MaxBlocks
  /\ \A i \in DOMAIN so.kept : so.kept[i] # 0
  /\ so.total <= c
  /\ so.cut <=> so.total < c
  /\ so.full => so.cut

(* The places of a list that has one more. *)
LEMMA LastPlace ==
  ASSUME NEW n \in Nat
  PROVE  \A i \in 1 .. n + 1 : i \in 1 .. n \/ i = n + 1
  OBVIOUS

(* One more block keeps what is kept sound. *)
LEMMA KeepStep ==
  ASSUME PagesConstants, NEW so, NEW c \in Nat, KeptSound(so, c), NEW block \in TextBlock
  PROVE  KeptSound(Reads!Keep(so, block), c + block.size)
<1> DEFINE new == Reads!Keep(so, block)
           whole == IF block.size > MaxBlock THEN Reads!Cut(block, MaxBlock) ELSE block.size
           room == MaxTotal - so.total
           size == IF whole > room THEN Reads!Cut(block, room) ELSE whole
<1> USE DEF PagesConstants
<1>1. so \in Kept /\ block.size \in Nat /\ so.total \in Nat /\ so.kept \in Seq(Nat)
  BY DEF KeptSound, Kept, TextBlock
<1>2. CASE so.full \/ block.size = 0
  <2>1. new = so
    BY <1>2 DEF Reads!Keep
  <2>2. so.total <= c + block.size /\ (so.cut <=> so.total < c + block.size)
    BY <1>1, <1>2 DEF KeptSound
  <2>3. QED
    BY <1>1, <2>1, <2>2 DEF KeptSound
<1>3. CASE ~so.full /\ block.size # 0 /\ (Len(so.kept) >= MaxBlocks \/ so.total >= MaxTotal)
  <2>1. new = [so EXCEPT !.cut = TRUE, !.full = TRUE]
    BY <1>3 DEF Reads!Keep
  <2>2. new \in Kept /\ new.kept = so.kept /\ new.total = so.total /\ new.cut /\ new.full
    BY <1>1, <2>1 DEF Kept
  <2>3. so.total <= c + block.size /\ so.total < c + block.size
    BY <1>1, <1>3 DEF KeptSound
  <2>4. QED
    BY <2>2, <2>3 DEF KeptSound
<1>4. CASE ~so.full /\ block.size # 0 /\ ~(Len(so.kept) >= MaxBlocks \/ so.total >= MaxTotal)
  <2>1. new = [so EXCEPT !.kept = Append(so.kept, size), !.total = so.total + size,
                         !.cut = so.cut \/ size < block.size]
    BY <1>4 DEF Reads!Keep
  <2>2. whole \in Nat \ {0} /\ whole <= block.size /\ block.gaps \subseteq Nat \ {0, 1}
    <3>1. block.gaps \subseteq Nat \ {0, 1}
      BY DEF TextBlock
    <3>2. QED
      BY <1>1, <1>4, <3>1 DEF Reads!Cut
  <2>3. room \in Nat \ {0} /\ Len(so.kept) \in Nat
    BY <1>1, <1>4
  <2>4. size \in Nat \ {0} /\ size <= room /\ size <= block.size
    <3> HIDE DEF whole, room
    <3>1. QED
      BY <1>1, <2>2, <2>3 DEF Reads!Cut
  <2> HIDE DEF size, whole
  <2>5. /\ new.kept = Append(so.kept, size) /\ new.total = so.total + size
        /\ new.cut = (so.cut \/ size < block.size) /\ new.full = so.full /\ new \in Kept
    <3>1. Append(so.kept, size) \in Seq(Nat) /\ so.total + size \in Nat
          /\ (so.cut \/ size < block.size) \in BOOLEAN
      BY <1>1, <2>4
    <3> HIDE DEF new
    <3>2. QED
      BY <1>1, <2>1, <3>1 DEF Kept
  <2>6. Reads!Sum(new.kept) = new.total
    <3>1. Reads!Sum(Append(so.kept, size)) = Reads!Sum(so.kept) + size
      BY <1>1, <2>4, SumOfMore
    <3>2. QED
      BY <2>5, <3>1 DEF KeptSound
  <2>7. new.total <= MaxTotal /\ Len(new.kept) <= MaxBlocks
    <3>1. Len(new.kept) = Len(so.kept) + 1
      BY <1>1, <2>4, <2>5
    <3>2. QED
      BY <1>1, <1>4, <2>3, <2>4, <2>5, <3>1
  <2>8. \A i \in DOMAIN new.kept : new.kept[i] # 0
    <3>1. /\ DOMAIN new.kept = 1 .. Len(so.kept) + 1 /\ DOMAIN so.kept = 1 .. Len(so.kept)
          /\ new.kept[Len(so.kept) + 1] = size
          /\ \A i \in 1 .. Len(so.kept) : new.kept[i] = so.kept[i]
      BY <1>1, <2>4, <2>5
    <3>2. \A i \in 1 .. Len(so.kept) : so.kept[i] # 0
      BY <3>1 DEF KeptSound
    <3>3. \A i \in 1 .. Len(so.kept) + 1 : i \in 1 .. Len(so.kept) \/ i = Len(so.kept) + 1
      BY <2>3, LastPlace
    <3> HIDE DEF new
    <3>4. QED
      BY <2>4, <3>1, <3>2, <3>3
  <2>9. new.total <= c + block.size /\ (new.cut <=> new.total < c + block.size)
    <3>1. so.total <= c /\ (so.cut <=> so.total < c)
      BY DEF KeptSound
    <3>2. new.total <= c + block.size
      BY <1>1, <2>4, <2>5, <3>1
    <3>3. so.total + size < c + block.size <=> so.total < c \/ size < block.size
      BY <1>1, <2>4, <3>1
    <3>4. new.cut <=> so.cut \/ size < block.size
      BY <2>5, Zenon
    <3>5. new.total < c + block.size <=> so.total + size < c + block.size
      BY <2>5
    <3>6. QED
      BY <3>1, <3>2, <3>3, <3>4, <3>5, Zenon
  <2>10. new.full => new.cut
    BY <2>5 DEF KeptSound
  <2>11. KeptSound(new, c + block.size)
    <3> HIDE DEF new
    <3>1. QED
      BY <2>5, <2>6, <2>7, <2>8, <2>9, <2>10 DEF KeptSound
  <2>12. QED
    BY <2>11
<1>5. QED
  BY <1>2, <1>3, <1>4

(* The loop keeps the types of what it holds. *)
LEMMA KeepTypes ==
  ASSUME PagesConstants, NEW so \in Kept, NEW block \in TextBlock
  PROVE  Reads!Keep(so, block) \in Kept
<1> DEFINE new == Reads!Keep(so, block)
           whole == IF block.size > MaxBlock THEN Reads!Cut(block, MaxBlock) ELSE block.size
           room == MaxTotal - so.total
           size == IF whole > room THEN Reads!Cut(block, room) ELSE whole
<1>1. block.size \in Nat /\ so.total \in Nat /\ so.kept \in Seq(Nat)
  BY DEF Kept, TextBlock
<1>2. CASE so.full \/ block.size = 0
  BY <1>2 DEF Reads!Keep
<1>3. CASE ~so.full /\ block.size # 0 /\ (Len(so.kept) >= MaxBlocks \/ so.total >= MaxTotal)
  <2>1. new = [so EXCEPT !.cut = TRUE, !.full = TRUE]
    BY <1>3 DEF Reads!Keep
  <2> HIDE DEF new
  <2>2. new \in Kept
    BY <2>1 DEF Kept
  <2>3. QED
    BY <2>2 DEF new
<1>4. CASE ~so.full /\ block.size # 0 /\ ~(Len(so.kept) >= MaxBlocks \/ so.total >= MaxTotal)
  <2>1. new = [so EXCEPT !.kept = Append(so.kept, size), !.total = so.total + size,
                         !.cut = so.cut \/ size < block.size]
    BY <1>4 DEF Reads!Keep
  <2>2. whole \in Nat
    BY <1>1, <1>4 DEF Reads!Cut, PagesConstants
  <2>3. room \in Nat \ {0}
    BY <1>1, <1>4 DEF PagesConstants
  <2>4. size \in Nat
    <3> HIDE DEF whole, room
    <3>1. QED
      BY <2>2, <2>3 DEF Reads!Cut
  <2> HIDE DEF size, new
  <2>5. Append(so.kept, size) \in Seq(Nat) /\ so.total + size \in Nat
        /\ (so.cut \/ size < block.size) \in BOOLEAN
    BY <1>1, <2>4
  <2>6. new \in Kept
    BY <2>1, <2>5 DEF Kept
  <2>7. QED
    BY <2>6 DEF new
<1>5. QED
  BY <1>2, <1>3, <1>4

(* The sum of the lengths of blocks. *)
Length(content) == Reads!Sum([i \in DOMAIN content |-> content[i].size])

(* Whatever the content, what is kept of it is sound. *)
LEMMA BlocksKept ==
  ASSUME PagesConstants, NEW s \in Seq(TextBlock)
  PROVE  KeptSound(Reads!Blocks(s), Length(s))
<1> DEFINE n == Len(s)
           op == [p \in Kept \X TextBlock |-> Reads!Keep(p[1], p[2])]
           Is(g) == g = [t \in SUBSET DOMAIN s |->
                           IF t = {} THEN Reads!NoBlocks
                           ELSE Reads!Keep(g[t \ {Reads!Max(t)}], s[Reads!Max(t)])]
           iter == CHOOSE g : Is(g)
           lengths == [i \in DOMAIN s |-> s[i].size]
<1>1. n \in Nat /\ DOMAIN s = 1 .. n /\ s \in [1 .. n -> TextBlock]
  OBVIOUS
<1>2. op \in [Kept \X TextBlock -> Kept] /\ Reads!NoBlocks \in Kept
  BY KeepTypes DEF Kept, Reads!NoBlocks
<1>3. Is(iter)
  <2>1. PICK g : Folds(g, Kept, op, Reads!NoBlocks, n, s)
    <3> HIDE DEF n, op
    <3>1. QED
      BY <1>1, <1>2, FoldsExist
  <2>2. ASSUME NEW t \in SUBSET (1 .. n), t # {}
        PROVE  g[t] = Reads!Keep(g[t \ {Reads!Max(t)}], s[Reads!Max(t)])
    <3> DEFINE m == Reads!Max(t)
    <3>1. m \in t /\ \A k \in t : m >= k
      BY <1>1, <2>2, GreatestPicked
    <3>2. g[t] = op[<<g[t \ {m}], s[m]>>]
      BY <2>1, <3>1 DEF Folds
    <3>3. g[t \ {m}] \in Kept /\ s[m] \in TextBlock
      BY <1>1, <2>1, <3>1 DEF Folds
    <3>4. QED
      BY <3>2, <3>3
  <2>3. Is(g)
    BY <1>1, <2>1, <2>2 DEF Folds
  <2>4. QED
    BY <2>3
<1>4. Reads!Blocks(s) = iter[1 .. n]
  BY <1>1 DEF Reads!Blocks, Reads!FoldLeft, Reads!MapThenFoldSet
<1> HIDE DEF iter
<1>5. iter[1 .. 0] = Reads!NoBlocks
  <2>1. 1 .. 0 = {} /\ {} \in SUBSET DOMAIN s
    BY <1>1
  <2>2. QED
    BY <1>3, <2>1
<1>6. ASSUME NEW k \in 1 .. n PROVE iter[1 .. k] = Reads!Keep(iter[1 .. (k - 1)], s[k])
  <2>1. iter[1 .. k] = Reads!Keep(iter[(1 .. k) \ {Reads!Max(1 .. k)}], s[Reads!Max(1 .. k)])
    BY <1>1, <1>3, LastPicked
  <2>2. Reads!Max(1 .. k) = k /\ (1 .. k) \ {k} = 1 .. (k - 1)
    BY <1>1, LastPicked
  <2>3. QED
    BY <2>1, <2>2
<1>7. lengths \in Seq(Nat) /\ Len(lengths) = n /\ \A k \in 1 .. n : lengths[k] = s[k].size
  BY <1>1 DEF TextBlock
<1>8. PICK r \in [0 .. n -> Nat] :
        r[0] = 0 /\ Reads!Sum(lengths) = r[n] /\ \A k \in 1 .. n : r[k] = r[k - 1] + lengths[k]
  <2>1. PICK r \in [0 .. Len(lengths) -> Nat] :
          /\ r[0] = 0 /\ Reads!Sum(lengths) = r[Len(lengths)]
          /\ \A k \in 1 .. Len(lengths) : r[k] = r[k - 1] + lengths[k]
    <3> HIDE DEF lengths
    <3>1. QED
      BY <1>7, SumRule
  <2>2. QED
    BY <1>7, <2>1
<1> DEFINE T == {k \in 0 .. n : KeptSound(iter[1 .. k], r[k])}
<1> HIDE DEF lengths, n
<1>9. 0 \in T
  <2>1. KeptSound(Reads!NoBlocks, 0)
    BY <1>2, SumOfMore DEF KeptSound, Reads!NoBlocks, PagesConstants
  <2>2. QED
    BY <1>1, <1>5, <1>8, <2>1
<1>10. ASSUME NEW k \in 0 .. n - 1, k \in T PROVE k + 1 \in T
  <2>1. k + 1 \in 1 .. n /\ k + 1 \in 0 .. n /\ (k + 1) - 1 = k /\ k \in 0 .. n
    BY <1>1
  <2>2. /\ iter[1 .. (k + 1)] = Reads!Keep(iter[1 .. k], s[k + 1])
        /\ r[k + 1] = r[k] + s[k + 1].size /\ r[k] \in Nat /\ s[k + 1] \in TextBlock
    BY <1>1, <1>6, <1>7, <1>8, <2>1
  <2>3. KeptSound(iter[1 .. k], r[k])
    BY <1>10
  <2>4. KeptSound(iter[1 .. (k + 1)], r[k + 1])
    BY <2>2, <2>3, KeepStep
  <2>5. QED
    BY <2>1, <2>4
<1>11. n \in T
  <2> HIDE DEF T
  <2>1. \A k \in 0 .. n : k \in T
    BY <1>1, <1>9, <1>10, Induction
  <2>2. QED
    BY <1>1, <2>1
<1>12. QED
  BY <1>4, <1>8, <1>11 DEF Length, lengths

(* The intervals that are taken are not before the first one asked for.    *)
LEMMA TakenFrom ==
  ASSUME NEW s, NEW first \in Nat, NEW n \in Nat
  PROVE  \A i \in Reads!ToSet(Reads!Usable(s, first, n)) : i >= first
<1> DEFINE Taken == Seq({i \in Nat : i >= first})
           Take(taken, i) == IF i >= first /\ s[i] THEN Append(taken, i) ELSE taken
           op == [p \in Taken \X Nat |-> Take(p[1], p[2])]
           all == [i \in 1 .. n |-> i]
           Is(g) == g = [t \in SUBSET DOMAIN all |->
                           IF t = {} THEN << >> ELSE Take(g[t \ {Reads!Max(t)}], all[Reads!Max(t)])]
           iter == CHOOSE g : Is(g)
<1>1. DOMAIN all = 1 .. n /\ all \in [1 .. n -> Nat]
  OBVIOUS
<1>2. op \in [Taken \X Nat -> Taken] /\ << >> \in Taken
  OBVIOUS
<1> HIDE DEF Taken
<1>3. \E g : Is(g) /\ \A t \in SUBSET (1 .. n) : g[t] \in Taken
  <2>1. PICK g : Folds(g, Taken, op, << >>, n, all)
    <3> HIDE DEF op, all
    <3>1. QED
      BY <1>1, <1>2, FoldsExist
  <2>2. ASSUME NEW t \in SUBSET (1 .. n), t # {}
        PROVE  g[t] = Take(g[t \ {Reads!Max(t)}], all[Reads!Max(t)])
    <3> DEFINE m == Reads!Max(t)
    <3> HIDE DEF Take, all
    <3>1. m \in t /\ \A k \in t : m >= k
      BY <2>2, GreatestPicked
    <3>2. g[t] = op[<<g[t \ {m}], all[m]>>]
      BY <2>1, <3>1 DEF Folds
    <3>3. g[t \ {m}] \in Taken /\ all[m] \in Nat
      BY <1>1, <2>1, <3>1 DEF Folds
    <3>4. QED
      BY <3>2, <3>3
  <2> HIDE DEF Take, all
  <2>3. g \in [SUBSET (1 .. n) -> Taken] /\ g[{}] = << >>
    BY <2>1 DEF Folds
  <2>4. Is(g)
    BY <1>1, <2>2, <2>3
  <2>5. QED
    BY <2>3, <2>4
<1>4. Reads!Usable(s, first, n) = iter[1 .. n]
  BY <1>1 DEF Reads!Usable, Reads!FoldLeft, Reads!MapThenFoldSet
<1>5. Is(iter)
  BY <1>3
<1> HIDE DEF iter, Take
<1>6. iter[1 .. 0] = << >>
  <2>1. 1 .. 0 = {} /\ {} \in SUBSET DOMAIN all
    BY <1>1
  <2>2. QED
    BY <1>5, <2>1
<1>7. ASSUME NEW k \in 1 .. n PROVE iter[1 .. k] = Take(iter[1 .. (k - 1)], k)
  <2>1. iter[1 .. k] = Take(iter[(1 .. k) \ {Reads!Max(1 .. k)}], all[Reads!Max(1 .. k)])
    BY <1>1, <1>5, LastPicked
  <2>2. Reads!Max(1 .. k) = k /\ (1 .. k) \ {k} = 1 .. (k - 1)
    BY LastPicked
  <2>3. QED
    BY <2>1, <2>2
<1> DEFINE T == {k \in 0 .. n : iter[1 .. k] \in Taken}
<1>8. 0 \in T
  BY <1>2, <1>6
<1>9. ASSUME NEW k \in 0 .. n - 1, k \in T PROVE k + 1 \in T
  <2>1. k + 1 \in 1 .. n /\ k + 1 \in 0 .. n /\ (k + 1) - 1 = k
    OBVIOUS
  <2>2. iter[1 .. (k + 1)] = Take(iter[1 .. k], k + 1)
    BY <1>7, <2>1
  <2>3. Take(iter[1 .. k], k + 1) \in Taken
    BY <1>9, <2>1 DEF Take, Taken
  <2>4. QED
    BY <2>1, <2>2, <2>3
<1>10. n \in T
  <2> HIDE DEF T
  <2>1. \A k \in 0 .. n : k \in T
    BY <1>8, <1>9, Induction
  <2>2. QED
    BY <2>1
<1>11. Reads!Usable(s, first, n) \in Taken
  BY <1>4, <1>10
<1>12. QED
  BY <1>11 DEF Taken, Reads!ToSet

(* A page shows what was kept of its content, from an address that is not  *)
(* unsafe. *)
HonestPage(out, body) ==
  /\ Len(out.blocks) <= MaxBlocks /\ Reads!Sum(out.blocks) <= MaxTotal /\ 0 \notin Reads!ToSet(out.blocks)
  /\ out.partial <=> Reads!Sum(out.blocks) < Length(Reads!Content(body))
  /\ out.source.place \notin {"local", "absent", "malformed"}

(* What is extracted of a page is honest. *)
LEMMA PageHonest ==
  ASSUME PagesConstants, NEW asked \in Question("web.extract"), NEW body \in Body("web.extract", "ask")
  PROVE  \A out \in Reads!ToSet(Reads!Extract(asked, body).result) : HonestPage(out, body)
<1> DEFINE at == Reads!Resolved(asked, body)
           content == Reads!Content(body)
           kept == Reads!Blocks(content)
           page == [source |-> Reads!Canonical(at), blocks |-> kept.kept, partial |-> kept.cut]
<1>1. content \in Seq(TextBlock)
  BY DEF PagesConstants, Reads!Content
<1>2. KeptSound(kept, Length(content))
  BY <1>1, BlocksKept
<1>3. \/ Reads!Extract(asked, body).result = << >>
      \/ Reads!Extract(asked, body).result = <<page>> /\ Reads!UrlError(at) = ""
  BY DEF Reads!Extract, Reads!Failed, Reads!Shown
<1>4. CASE Reads!Extract(asked, body).result = << >>
  BY <1>4 DEF Reads!ToSet
<1>5. CASE Reads!Extract(asked, body).result = <<page>> /\ Reads!UrlError(at) = ""
  <2>1. at.place \notin {"local", "absent", "malformed"}
    BY <1>5 DEF Reads!UrlError, Reads!Resolved, PagesConstants
  <2>2. page.source.place = at.place
    <3>1. at \in Address
      BY DEF Reads!Resolved, PagesConstants
    <3>2. Reads!Canonical(at).place = at.place
      BY <3>1 DEF Reads!Canonical, Address
    <3>3. QED
      BY <3>2
  <2>3. kept.kept \in Seq(Nat) /\ kept.total = Reads!Sum(kept.kept) /\ kept.total <= MaxTotal
        /\ Len(kept.kept) <= MaxBlocks /\ (kept.cut <=> kept.total < Length(content))
        /\ 0 \notin Reads!ToSet(kept.kept)
    BY <1>2 DEF KeptSound, Kept, Reads!ToSet
  <2>4. HonestPage(page, body)
    <3> HIDE DEF kept, at
    <3>1. QED
      BY <2>1, <2>2, <2>3 DEF HonestPage
  <2>5. Reads!ToSet(<<page>>) = {page}
    BY DEF Reads!ToSet
  <2> HIDE DEF page
  <2>6. QED
    BY <1>5, <2>4, <2>5
<1>6. QED
  BY <1>3, <1>4, <1>5

(* A list of one. *)
LEMMA ListOfOne ==
  ASSUME NEW S, NEW e \in S
  PROVE  <<e>> \in Seq(S) /\ Len(<<e>>) = 1 /\ <<e>>[1] = e
  OBVIOUS

(* A route passes every stop. *)
LEMMA RoutePassesAll ==
  ASSUME NEW route, NEW waypoints \in Seq(STRING)
  PROVE  LET stops == Reads!Stops(route, waypoints)
         IN /\ stops[1] = "origin" /\ stops[Len(stops)] = "destination"
            /\ Len(stops) = Len(waypoints) + 2
            /\ Reads!ToSet(waypoints) \subseteq Reads!ToSet(stops)
<1> DEFINE n == Len(waypoints)
           Name == STRING \cup {"origin", "destination"}
           between == IF Reads!IsOrder(route.order, waypoints)
                        THEN [i \in DOMAIN waypoints |-> waypoints[route.order[i]]] ELSE waypoints
           stops == Reads!Stops(route, waypoints)
<1>1. n \in Nat /\ DOMAIN waypoints = 1 .. n /\ waypoints \in [1 .. n -> Name] /\ waypoints \in Seq(Name)
      /\ "origin" \in Name /\ "destination" \in Name
  OBVIOUS
<1> HIDE DEF Name
<1>2. between \in Seq(Name) /\ Len(between) = n /\ Reads!ToSet(waypoints) \subseteq Reads!ToSet(between)
  <2>1. CASE Reads!IsOrder(route.order, waypoints)
    <3>1. {route.order[i] : i \in DOMAIN route.order} = 1 .. n
      BY <1>1, <2>1 DEF Reads!IsOrder, Reads!ToSet
    <3>2. DOMAIN route.order = 1 .. n
      BY <1>1, <2>1 DEF Reads!IsOrder
    <3>3. \A i \in 1 .. n : route.order[i] \in 1 .. n
      BY <3>1, <3>2
    <3>4. between \in [1 .. n -> Name]
      BY <1>1, <2>1, <3>3
    <3>5. \A j \in 1 .. n : \E i \in 1 .. n : waypoints[j] = between[i]
      BY <1>1, <2>1, <3>1, <3>2
    <3>6. between \in Seq(Name) /\ Len(between) = n /\ DOMAIN between = 1 .. n
      BY <1>1, <3>4
    <3> HIDE DEF between
    <3>7. QED
      BY <1>1, <3>5, <3>6 DEF Reads!ToSet
  <2>2. CASE ~Reads!IsOrder(route.order, waypoints)
    BY <1>1, <2>2
  <2>3. QED
    BY <2>1, <2>2
<1>3. stops = <<"origin">> \o between \o <<"destination">>
  BY DEF Reads!Stops
<1> HIDE DEF between, stops
<1>4. /\ stops \in Seq(Name) /\ Len(stops) = n + 2 /\ stops[1] = "origin" /\ stops[n + 2] = "destination"
      /\ \A i \in 1 .. n : stops[i + 1] = between[i]
  <2> DEFINE front == <<"origin">> \o between
  <2>1. front \in Seq(Name) /\ Len(front) = n + 1 /\ front[1] = "origin"
        /\ \A i \in 1 .. n : front[i + 1] = between[i]
    <3>1. <<"origin">> \in Seq(Name) /\ Len(<<"origin">>) = 1 /\ <<"origin">>[1] = "origin"
      BY <1>1, ListOfOne
    <3> HIDE DEF between
    <3>2. QED
      BY <1>1, <1>2, <3>1, ConcatProperties
  <2>2. stops = front \o <<"destination">>
    BY <1>3
  <2> HIDE DEF front
  <2>3. stops \in Seq(Name) /\ Len(stops) = n + 2 /\ stops[n + 2] = "destination"
        /\ \A i \in 1 .. n + 1 : stops[i] = front[i]
    <3>1. /\ <<"destination">> \in Seq(Name) /\ Len(<<"destination">>) = 1
          /\ <<"destination">>[1] = "destination"
      BY <1>1, ListOfOne
    <3>2. QED
      BY <1>1, <2>1, <2>2, <3>1, ConcatProperties
  <2>4. 1 \in 1 .. n + 1 /\ \A i \in 1 .. n : i + 1 \in 1 .. n + 1
    BY <1>1
  <2>5. QED
    BY <2>1, <2>3, <2>4
<1>5. Reads!ToSet(between) \subseteq Reads!ToSet(stops)
  <2>1. DOMAIN between = 1 .. n /\ DOMAIN stops = 1 .. n + 2 /\ \A i \in 1 .. n : i + 1 \in 1 .. n + 2
    BY <1>1, <1>2, <1>4
  <2>2. QED
    BY <1>4, <2>1 DEF Reads!ToSet
<1>6. QED
  BY <1>2, <1>4, <1>5 DEF stops

-----------------------------------------------------------------------------
(* Reads of the web: the attempts of a call. *)

CallFields == {"cap", "asked", "dev", "stage", "met", "body", "error", "result"}

(* A call that goes on has met only troubles that may pass, and has an     *)
(* attempt left.                                                           *)
ReadsInv ==
  /\ DOMAIN call = CallFields /\ call = [f \in CallFields |-> call[f]]
  /\ call.met \in Seq(Reads!Trouble)
  /\ call.stage = "idle" => call.met = << >>
  /\ call.stage \in {"geocode", "ask"} =>
       /\ call.cap \in Reads!Capability
       /\ \A i \in DOMAIN call.met : call.met[i] \in Reads!Passing(call.cap)
       /\ Len(call.met) < Reads!Attempts(call.cap)
  /\ Reads!GivesUpLast

(* A call that is not made has met nothing. *)
LEMMA ReadsInit == Reads!Init => ReadsInv
<1> SUFFICES ASSUME Reads!Init PROVE ReadsInv
  OBVIOUS
<1>1. DOMAIN call = CallFields /\ call = [f \in CallFields |-> call[f]]
  BY DEF Reads!Init, CallFields
<1>2. call.met = << >> /\ call.stage = "idle"
  BY DEF Reads!Init
<1>3. call.met \in Seq(Reads!Trouble) /\ DOMAIN call.met = {}
  BY <1>2
<1>4. Reads!GivesUpLast
  BY <1>2, <1>3 DEF Reads!GivesUpLast
<1>5. QED
  BY <1>1, <1>2, <1>3, <1>4 DEF ReadsInv

(* Every capability asks at least once. *)
LEMMA SomeAttempt == ASSUME ReadsConstants, NEW cap PROVE Reads!Attempts(cap) \in Nat \ {0}
  BY DEF ReadsConstants, Reads!Attempts

(* Each attempt keeps the invariant. *)
LEMMA ReadsStep ==
  ASSUME ReadsConstants, ReadsInv, [Reads!Next]_call
  PROVE  ReadsInv'
<1> USE DEF ReadsInv
<1>1. CASE UNCHANGED call
  BY <1>1 DEF Reads!GivesUpLast
<1>2. ASSUME NEW cap \in Reads!Capability, NEW s, NEW asked, Reads!Start(cap, asked, s)
      PROVE  ReadsInv'
  <2>1. /\ DOMAIN call' = CallFields /\ call' = [f \in CallFields |-> call'[f]]
        /\ call'.met = << >> /\ call'.cap = cap
    BY <1>2 DEF Reads!Start, CallFields
  <2>2. Reads!Attempts(cap) \in Nat \ {0}
    BY SomeAttempt
  <2>3. QED
    BY <2>1, <2>2 DEF Reads!GivesUpLast
<1>3. ASSUME NEW why \in Reads!Trouble, Reads!Refused(why)
      PROVE  ReadsInv'
  <2> DEFINE n == Len(call.met)
  <2>1. /\ DOMAIN call' = CallFields /\ call' = [f \in CallFields |-> call'[f]]
        /\ call'.met = Append(call.met, why) /\ call'.cap = call.cap /\ call'.body = call.body
        /\ call'.stage = IF Reads!Again(call, why) THEN call.stage ELSE "done"
        /\ call.stage \in {"geocode", "ask"}
    BY <1>3 DEF Reads!Refused, CallFields
  <2>2. /\ call'.met \in Seq(Reads!Trouble) /\ Len(call'.met) = n + 1 /\ n \in Nat
        /\ \A i \in 1 .. n : call'.met[i] = call.met[i]
        /\ call'.met[n + 1] = why /\ DOMAIN call'.met = 1 .. (n + 1) /\ DOMAIN call.met = 1 .. n
    BY <2>1
  <2>3. /\ \A i \in 1 .. n : call.met[i] \in Reads!Passing(call.cap)
        /\ n < Reads!Attempts(call.cap)
    BY <2>1, <2>2
  <2>4. Reads!Attempts(call.cap) \in Nat
    BY SomeAttempt
  <2> HIDE DEF n
  <2>5. CASE Reads!Again(call, why)
    <3>1. why \in Reads!Passing(call.cap) /\ n + 1 < Reads!Attempts(call.cap)
      BY <2>5 DEF Reads!Again, n
    <3>2. \A i \in DOMAIN call'.met : call'.met[i] \in Reads!Passing(call'.cap)
      <4>1. ASSUME NEW i \in 1 .. (n + 1) PROVE i \in 1 .. n \/ i = n + 1
        BY <2>2
      <4>2. QED
        BY <2>1, <2>2, <2>3, <3>1, <4>1
    <3>3. Len(call'.met) < Reads!Attempts(call'.cap) /\ call'.stage \in {"geocode", "ask"}
      BY <2>1, <2>2, <2>5, <3>1
    <3>4. QED
      BY <2>1, <2>2, <3>2, <3>3 DEF Reads!GivesUpLast
  <2>6. CASE ~Reads!Again(call, why)
    <3>1. call'.stage = "done"
      BY <2>1, <2>6
    <3>2. why \in Reads!Passing(call.cap) => n + 1 = Reads!Attempts(call.cap)
      BY <2>2, <2>3, <2>4, <2>6 DEF Reads!Again, n
    <3>3. Reads!Last(call'.met) = why
      BY <2>2 DEF Reads!Last
    <3>4. Reads!GivesUpLast'
      <4>1. Len(call'.met) = n + 1 /\ Reads!Passing(call'.cap) = Reads!Passing(call.cap)
            /\ Reads!Attempts(call'.cap) = Reads!Attempts(call.cap)
        BY <2>1, <2>2
      <4>2. ASSUME NEW i \in DOMAIN call'.met, call'.met[i] \notin Reads!Passing(call'.cap)
            PROVE  i = n + 1
        <5>1. i \in 1 .. n \/ i = n + 1
          BY <2>2, <4>2
        <5>2. i \notin 1 .. n
          BY <2>2, <2>3, <4>1, <4>2
        <5>3. QED
          BY <5>1, <5>2
      <4>3. Reads!Last(call'.met) \in Reads!Passing(call'.cap) => Len(call'.met) = Reads!Attempts(call'.cap)
        BY <3>2, <3>3, <4>1
      <4>4. QED
        BY <3>1, <4>1, <4>2, <4>3 DEF Reads!GivesUpLast
    <3>5. QED
      BY <2>1, <2>2, <3>1, <3>4
  <2>7. QED
    BY <2>5, <2>6
<1>4. ASSUME NEW body, Reads!Located(body)
      PROVE  ReadsInv'
  <2>1. /\ DOMAIN call' = CallFields /\ call' = [f \in CallFields |-> call'[f]]
        /\ call'.met = << >> /\ call'.cap = call.cap /\ call.stage = "geocode"
    BY <1>4 DEF Reads!Located, CallFields
  <2>2. Reads!Attempts(call'.cap) \in Nat \ {0}
    BY SomeAttempt
  <2>3. QED
    BY <2>1, <2>2 DEF Reads!GivesUpLast
<1>5. ASSUME NEW body \in Body(call.cap, call.stage), Reads!Answered(body)
      PROVE  ReadsInv'
  <2>1. /\ DOMAIN call' = CallFields /\ call' = [f \in CallFields |-> call'[f]]
        /\ call'.met = call.met /\ call'.cap = call.cap /\ call'.stage = "done"
        /\ call'.body = body /\ call.stage = "ask"
    BY <1>5 DEF Reads!Answered, CallFields
  <2>2. body # Reads!Nothing
    BY <2>1 DEF ReadsConstants
  <2>3. QED
    BY <2>1, <2>2 DEF Reads!GivesUpLast
<1>6. QED
  BY <1>1, <1>2, <1>3, <1>4, <1>5 DEF Reads!Next

(* What a reader is told once the call is over.                            *)
ToldInv ==
  /\ call.stage # "idle" => call.cap \in Reads!Capability /\ call.asked \in Question(call.cap)
  /\ call.stage = "geocode" => call.cap = "maps.search_places"
  /\ call.stage # "done" => call.result = << >>
  /\ Reads!ExtractIsHonest /\ Reads!EveryStopOnce /\ Reads!TomorrowIsNotToday

(* Of a call that is not made nothing is told. *)
LEMMA ToldInit == Reads!Init => ToldInv
<1> SUFFICES ASSUME Reads!Init PROVE ToldInv
  OBVIOUS
<1>1. call.stage = "idle" /\ call.result = << >> /\ call.cap = "none"
  BY DEF Reads!Init
<1>2. Reads!ExtractIsHonest /\ Reads!EveryStopOnce /\ Reads!TomorrowIsNotToday
  BY <1>1 DEF Reads!ExtractIsHonest, Reads!EveryStopOnce, Reads!TomorrowIsNotToday
<1>3. QED
  BY <1>1, <1>2 DEF ToldInv

(* The answer of the provider is told as it is. *)
LEMMA ToldAnswer ==
  ASSUME PagesConstants, RoutesConstants, ForecastConstants, ReadsInv, ToldInv,
         NEW body \in Body(call.cap, call.stage), Reads!Answered(body)
  PROVE  ToldInv'
<1>1. /\ call.stage = "ask" /\ call.cap \in Reads!Capability /\ call.asked \in Question(call.cap)
      /\ call'.stage = "done" /\ call'.cap = call.cap /\ call'.asked = call.asked /\ call'.dev = call.dev
      /\ call'.body = body /\ call'.result = Reads!Output(call, body).result
  BY DEF Reads!Answered, ToldInv, ReadsInv, CallFields
<1>2. Reads!ExtractIsHonest'
  <2> SUFFICES ASSUME call.cap = "web.extract", NEW out \in Reads!ToSet(call'.result)
               PROVE  HonestPage(out, body)
    BY <1>1 DEF Reads!ExtractIsHonest, HonestPage, Length
  <2>1. call'.result = Reads!Extract(call.asked, body).result
    BY <1>1 DEF Reads!Output
  <2>2. call.asked \in Question("web.extract") /\ body \in Body("web.extract", "ask")
    BY <1>1
  <2>3. QED
    BY <2>1, <2>2, PageHonest
<1>3. Reads!EveryStopOnce'
  <2> SUFFICES ASSUME call.cap = "maps.directions", NEW stops \in Reads!ToSet(call'.result)
               PROVE  /\ stops[1] = "origin" /\ stops[Len(stops)] = "destination"
                      /\ Len(stops) = Len(call.asked.waypoints) + 2
                      /\ Reads!ToSet(call.asked.waypoints) \subseteq Reads!ToSet(stops)
    BY <1>1 DEF Reads!EveryStopOnce
  <2>1. call'.result = [i \in DOMAIN Reads!Routes(body) |->
                          Reads!Stops(Reads!Routes(body)[i], call.asked.waypoints)]
    BY <1>1 DEF Reads!Output, Reads!Directions, Reads!Shown
  <2>2. PICK i \in DOMAIN Reads!Routes(body) :
          stops = Reads!Stops(Reads!Routes(body)[i], call.asked.waypoints)
    BY <2>1 DEF Reads!ToSet
  <2>3. call.asked.waypoints \in Seq(STRING)
    BY <1>1 DEF RoutesConstants
  <2>4. QED
    BY <2>2, <2>3, RoutePassesAll
<1>4. Reads!TomorrowIsNotToday'
  <2> SUFFICES ASSUME call.cap = "weather.forecast", ~call.dev, call.asked.timeframe = "tomorrow"
               PROVE  1 \notin Reads!ToSet(call'.result)
    BY <1>1 DEF Reads!TomorrowIsNotToday
  <2>1. call'.result = Reads!Usable(body.daily, 2, Reads!Smaller(2, Len(body.daily)))
    BY <1>1 DEF Reads!Output, Reads!Forecast, Reads!Intervals, Reads!Shown
  <2>2. Reads!Smaller(2, Len(body.daily)) \in Nat
    <3>1. body.daily \in Seq(BOOLEAN)
      BY <1>1 DEF ForecastConstants
    <3>2. QED
      BY <3>1 DEF Reads!Smaller
  <2>3. QED
    BY <2>1, <2>2, TakenFrom
<1>5. QED
  BY <1>1, <1>2, <1>3, <1>4 DEF ToldInv

(* Each step keeps what is told true. *)
LEMMA ToldStep ==
  ASSUME PagesConstants, RoutesConstants, ForecastConstants, ReadsInv, ToldInv, [Reads!Next]_call
  PROVE  ToldInv'
<1>1. CASE UNCHANGED call
  BY <1>1 DEF ToldInv, Reads!ExtractIsHonest, Reads!EveryStopOnce, Reads!TomorrowIsNotToday
<1>2. ASSUME call'.result = << >>
      PROVE  /\ Reads!ExtractIsHonest' /\ Reads!EveryStopOnce' /\ Reads!TomorrowIsNotToday'
  BY <1>2 DEF Reads!ExtractIsHonest, Reads!EveryStopOnce, Reads!TomorrowIsNotToday, Reads!ToSet
<1>3. ASSUME NEW cap \in Reads!Capability, NEW s, NEW asked \in Question(cap), Reads!Start(cap, asked, s)
      PROVE  ToldInv'
  <2>1. /\ call'.cap = cap /\ call'.asked = asked /\ call'.result = << >>
        /\ call'.stage = IF Reads!Unanswerable(cap, asked, s) = "" THEN Reads!FirstStage(cap) ELSE "done"
    BY <1>3 DEF Reads!Start, ToldInv, ReadsInv, CallFields
  <2>2. call'.stage = "geocode" => cap = "maps.search_places"
    BY <2>1 DEF Reads!FirstStage
  <2>3. QED
    BY <1>2, <2>1, <2>2 DEF ToldInv
<1>4. ASSUME NEW why \in Reads!Trouble, Reads!Refused(why)
      PROVE  ToldInv'
  <2>1. /\ call.stage \in {"geocode", "ask"} /\ call'.stage \in {call.stage, "done"}
        /\ call'.cap = call.cap /\ call'.asked = call.asked /\ call'.result = << >>
    BY <1>4 DEF Reads!Refused, ToldInv, ReadsInv, CallFields
  <2>2. QED
    BY <1>2, <2>1 DEF ToldInv
<1>5. ASSUME NEW body, Reads!Located(body)
      PROVE  ToldInv'
  <2>1. /\ call.stage = "geocode" /\ call'.stage \in {"ask", "done"}
        /\ call'.cap = call.cap /\ call'.asked = call.asked /\ call'.result = << >>
    BY <1>5 DEF Reads!Located, ToldInv, ReadsInv, CallFields
  <2>2. QED
    BY <1>2, <2>1 DEF ToldInv
<1>6. QED
  BY <1>1, <1>3, <1>4, <1>5, ToldAnswer DEF Reads!Next

(* Who hears of a trouble that may pass hears of it after every attempt    *)
(* met one; an extract stays within the limits and says what it left out;  *)
(* a route passes every stop; a forecast for tomorrow is not of today      *)
(* (capability_registry.py, from _execute_search_web on).                  *)
THEOREM ReadersAreToldTheTruth ==
  Reads!Init /\ [][Reads!Next]_call => []WebReadsSound
<1> USE ServicesAssumption DEF ServicesAssumption
<1>1. Reads!Init => ReadsInv /\ ToldInv
  BY ReadsInit, ToldInit
<1>2. ReadsInv /\ ToldInv /\ [Reads!Next]_call => ReadsInv' /\ ToldInv'
  BY ReadsStep, ToldStep
<1>3. ReadsInv /\ ToldInv => WebReadsSound
  BY DEF ReadsInv, ToldInv, WebReadsSound, Reads!WebReadsSound
<1>4. QED
  BY <1>1, <1>2, <1>3, PTL

-----------------------------------------------------------------------------
(* Inputs of capabilities.  A normaliser of a field returns normal values, *)
(* which it leaves alone; so a validator, made of them, leaves its results *)
(* alone; and what the later looks at an input find is the first's.        *)

Clean == {t \in TextValue : t.word # "" /\ ~t.pad /\ t.size # "long"}
Plain == {t \in Clean : ~t.alt}
Mailbox == {t \in Plain : t.word \in Mails}
Choices(words) == {Inputs!Text(x) : x \in words}
Pairs == [is : {"pair"}, name : Clean, value : Clean]
Lists(S) == [is : {"list"}, items : Seq(S)]

(* A value with the tag of a text is a text, one with the tag of a list a  *)
(* list of items.                                                          *)
LEMMA Tags ==
  ASSUME NEW v \in Value
  PROVE  /\ v.is = "text" => v \in TextValue
         /\ v.is = "list" => v \in ListValue
         /\ v.is = "pair" => v \in [is : {"pair"}, name : Simple, value : Simple]
         /\ v.is = "window" => v \in [is : {"window"}, start : Simple, end : Simple]
         /\ v.is = "timezone" =>
              v \in [is : {"timezone"}, source : Simple, rationale : Simple, confidence : Simple]
         /\ v.is = "constraints" =>
              v \in [is : {"constraints"}, hard : Simple \cup ListValue, soft : Simple \cup ListValue,
                     attendee_notes : Simple \cup ListValue]
  BY DEF Value, Item, Simple, TextValue, ListValue, Inputs!Null

(* A text that is stripped is not stripped again. *)
LEMMA StripStands ==
  /\ \A v \in TextValue : Inputs!Strip(v) \in TextValue /\ ~Inputs!Strip(v).pad
                           /\ Inputs!Strip(v).word = v.word /\ Inputs!Strip(v).size = v.size
  /\ \A v \in TextValue : ~v.pad => Inputs!Strip(v) = v
  BY DEF Inputs!Strip, TextValue

(* A trimmed text is clean, and a clean one stays. *)
LEMMA TrimmedStands ==
  /\ \A v \in Value : Inputs!Trimmed(v) \subseteq Clean
  /\ \A w \in Clean : Inputs!Trimmed(w) = {w} /\ w.is = "text" /\ w # Inputs!Null
<1>1. ASSUME NEW v \in Value PROVE Inputs!Trimmed(v) \subseteq Clean
  BY Tags, StripStands DEF Inputs!Trimmed, Inputs!IsText, Clean
<1>2. ASSUME NEW w \in Clean PROVE Inputs!Trimmed(w) = {w} /\ w.is = "text" /\ w # Inputs!Null
  <2>1. w \in TextValue /\ w.is = "text" /\ Inputs!Null.is = "null"
    BY DEF Clean, TextValue, Inputs!Null
  <2>2. Inputs!Strip(w) = w
    BY <2>1, StripStands DEF Clean
  <2>3. QED
    BY <2>1, <2>2 DEF Inputs!Trimmed, Inputs!IsText, Clean
<1>3. QED
  BY <1>1, <1>2

(* A lowered text is plain, and a plain one stays. *)
LEMMA LoweredStands ==
  /\ \A v \in Value : Inputs!Lowered(v) \subseteq Plain
  /\ \A w \in Plain : Inputs!Lowered(w) = {w} /\ w \in Clean
<1>1. \A w \in Clean : [w EXCEPT !.alt = FALSE] \in Plain
  BY DEF Clean, Plain, TextValue
<1>2. \A w \in Plain : [w EXCEPT !.alt = FALSE] = w /\ w \in Clean
  BY DEF Clean, Plain, TextValue
<1>3. ASSUME NEW v \in Value PROVE Inputs!Lowered(v) \subseteq Plain
  <2>1. Inputs!Trimmed(v) \subseteq Clean
    BY TrimmedStands
  <2>2. QED
    BY <1>1, <2>1 DEF Inputs!Lowered
<1>4. ASSUME NEW w \in Plain PROVE Inputs!Lowered(w) = {w}
  <2>1. Inputs!Trimmed(w) = {w}
    BY <1>2, TrimmedStands
  <2>2. QED
    BY <1>2, <2>1 DEF Inputs!Lowered
<1>5. QED
  BY <1>2, <1>3, <1>4

(* A recipient is an address, and an address stays. *)
LEMMA RecipientStands ==
  /\ \A v \in Value : Inputs!Recipient(v) \subseteq Mailbox
  /\ \A w \in Mailbox : Inputs!Recipient(w) = {w} /\ w \in Plain
  BY LoweredStands DEF Inputs!Recipient, Mailbox

(* Words of a list of words. *)
LEMMA ChoicesStand ==
  ASSUME NEW words
  PROVE  /\ \A v : Inputs!OneOf(v, words) \subseteq Choices(words)
         /\ \A v : Inputs!Exactly(v, words) \subseteq Choices(words)
         /\ \A w \in Choices(words) : /\ Inputs!OneOf(w, words) = {w} /\ Inputs!Exactly(w, words) = {w}
                                      /\ w.is = "text" /\ w # Inputs!Null /\ w.word \in words
                                      /\ w = Inputs!Text(w.word)
<1>1. \A x : Inputs!Text(x).is = "text" /\ Inputs!Text(x).word = x
  BY DEF Inputs!Text
<1>2. Inputs!Null.is = "null"
  BY DEF Inputs!Null
<1>3. QED
  BY <1>1, <1>2 DEF Choices, Inputs!OneOf, Inputs!Exactly, Inputs!IsText

(* A time that was normal stays. *)
LEMMA TimeStands ==
  /\ \A v : \A w \in Inputs!Time(v) : Inputs!Time(w) = {w} /\ w.is = "text" /\ w # Inputs!Null
<1>1. \A x : Inputs!Text(x).is = "text" /\ Inputs!Text(x).word = x
  BY DEF Inputs!Text
<1>2. Inputs!Null.is = "null"
  BY DEF Inputs!Null
<1>3. QED
  BY <1>1, <1>2 DEF Inputs!Time, Inputs!IsText

(* So does a window of two times. *)
LEMMA WindowStands ==
  \A from, to : \A w \in Inputs!Window(from, to) :
    /\ w = <<w[1], w[2]>> /\ Inputs!Window(w[1], w[2]) = {w}
    /\ w[1].is = "text" /\ w[2].is = "text" /\ w[1] # Inputs!Null /\ w[2] # Inputs!Null
<1> SUFFICES ASSUME NEW from, NEW to, NEW w \in Inputs!Window(from, to)
             PROVE  /\ w = <<w[1], w[2]>> /\ Inputs!Window(w[1], w[2]) = {w}
                    /\ w[1].is = "text" /\ w[2].is = "text" /\ w[1] # Inputs!Null /\ w[2] # Inputs!Null
  OBVIOUS
<1>1. w \in Inputs!Time(from) \X Inputs!Time(to) /\ Inputs!Earlier(w[1], w[2])
  BY DEF Inputs!Window
<1>2. w = <<w[1], w[2]>> /\ w[1] \in Inputs!Time(from) /\ w[2] \in Inputs!Time(to)
  BY <1>1
<1>3. Inputs!Time(w[1]) = {w[1]} /\ Inputs!Time(w[2]) = {w[2]}
      /\ w[1].is = "text" /\ w[2].is = "text" /\ w[1] # Inputs!Null /\ w[2] # Inputs!Null
  BY <1>2, TimeStands
<1>4. Inputs!Time(w[1]) \X Inputs!Time(w[2]) = {w}
  BY <1>2, <1>3
<1>5. Inputs!Window(w[1], w[2]) = {w}
  BY <1>1, <1>4 DEF Inputs!Window
<1>6. QED
  BY <1>2, <1>3, <1>5

(* Lists of what is normal. *)
LEMMA ItemsOf ==
  /\ \A v \in Value : v.is = "list" =>
       /\ v.items \in Seq(Item) /\ DOMAIN v.items = 1 .. Len(v.items) /\ Len(v.items) \in Nat
       /\ \A i \in DOMAIN v.items : v.items[i] \in Value
  /\ \A S : \A l \in Lists(S) :
       /\ l.is = "list" /\ l.items \in Seq(S) /\ l # Inputs!Null
       /\ l = Inputs!List([i \in DOMAIN l.items |-> l.items[i]])
       /\ \A i \in DOMAIN l.items : l.items[i] \in S
  /\ Inputs!List(<< >>).is = "list" /\ \A S : Inputs!List(<< >>) \in Lists(S)
<1>1. ASSUME NEW v \in Value, v.is = "list"
      PROVE  /\ v.items \in Seq(Item) /\ DOMAIN v.items = 1 .. Len(v.items) /\ Len(v.items) \in Nat
             /\ \A i \in DOMAIN v.items : v.items[i] \in Value
  <2>1. v.items \in Seq(Item)
    BY <1>1, Tags DEF ListValue
  <2>2. Item \subseteq Value
    BY DEF Value
  <2> HIDE DEF Item
  <2>3. QED
    BY <2>1, <2>2
<1>2. ASSUME NEW S, NEW l \in Lists(S)
      PROVE  /\ l.is = "list" /\ l.items \in Seq(S) /\ l # Inputs!Null
             /\ l = Inputs!List([i \in DOMAIN l.items |-> l.items[i]])
             /\ \A i \in DOMAIN l.items : l.items[i] \in S
  <2>1. l.is = "list" /\ l.items \in Seq(S) /\ l = [is |-> "list", items |-> l.items]
    BY DEF Lists
  <2>2. l.items = [i \in DOMAIN l.items |-> l.items[i]] /\ \A i \in DOMAIN l.items : l.items[i] \in S
    BY <2>1
  <2>3. Inputs!Null.is = "null"
    BY DEF Inputs!Null
  <2>4. QED
    BY <2>1, <2>2, <2>3 DEF Inputs!List
<1>3. Inputs!List(<< >>).is = "list" /\ \A S : Inputs!List(<< >>) \in Lists(S)
  <2>1. \A S : << >> \in Seq(S)
    OBVIOUS
  <2>2. QED
    BY <2>1 DEF Inputs!List, Lists
<1>4. QED
  BY <1>1, <1>2, <1>3

(* The items of a list, replaced one by one, are a list. *)
LEMMA ListOf ==
  ASSUME NEW v \in Value, v.is = "list", NEW S,
         NEW s, DOMAIN s = DOMAIN v.items, s = [i \in DOMAIN s |-> s[i]], \A i \in DOMAIN s : s[i] \in S
  PROVE  Inputs!List(s) \in Lists(S)
<1>1. DOMAIN s = 1 .. Len(v.items) /\ Len(v.items) \in Nat
  BY ItemsOf
<1>2. s \in Seq(S)
  BY <1>1
<1>3. QED
  BY <1>2 DEF Inputs!List, Lists

(* Each of the items of a list is normalised, and then stands. *)
LEMMA EachTrimmed ==
  /\ \A v \in Value : Inputs!Each(v, Inputs!Trimmed) \subseteq Lists(Clean)
  /\ \A l \in Lists(Clean) : Inputs!Each(l, Inputs!Trimmed) = {l}
<1>1. ASSUME NEW v \in Value, NEW l \in Inputs!Each(v, Inputs!Trimmed) PROVE l \in Lists(Clean)
  <2> DEFINE s == [i \in DOMAIN v.items |-> CHOOSE w \in Inputs!Trimmed(v.items[i]) : TRUE]
  <2>1. /\ v.is = "list" /\ \A i \in DOMAIN v.items : Inputs!Trimmed(v.items[i]) # {}
        /\ l = Inputs!List(s)
    BY <1>1 DEF Inputs!Each
  <2>2. \A i \in DOMAIN s : s[i] \in Clean
    BY <2>1, ItemsOf, TrimmedStands
  <2>3. DOMAIN s = DOMAIN v.items /\ s = [i \in DOMAIN s |-> s[i]]
    OBVIOUS
  <2> HIDE DEF s
  <2>4. QED
    BY <2>1, <2>2, <2>3, ListOf
<1>2. ASSUME NEW l \in Lists(Clean) PROVE Inputs!Each(l, Inputs!Trimmed) = {l}
  <2>1. /\ l.is = "list" /\ l = Inputs!List([i \in DOMAIN l.items |-> l.items[i]])
        /\ \A i \in DOMAIN l.items : Inputs!Trimmed(l.items[i]) = {l.items[i]}
    BY ItemsOf, TrimmedStands
  <2>2. [i \in DOMAIN l.items |-> CHOOSE w \in Inputs!Trimmed(l.items[i]) : TRUE]
          = [i \in DOMAIN l.items |-> l.items[i]]
    BY <2>1
  <2>3. QED
    BY <2>1, <2>2 DEF Inputs!Each
<1>3. QED
  BY <1>1, <1>2

(* The same of lowered texts, *)
LEMMA EachLowered ==
  /\ \A v \in Value : Inputs!Each(v, Inputs!Lowered) \subseteq Lists(Plain)
  /\ \A l \in Lists(Plain) : Inputs!Each(l, Inputs!Lowered) = {l}
<1>1. ASSUME NEW v \in Value, NEW l \in Inputs!Each(v, Inputs!Lowered) PROVE l \in Lists(Plain)
  <2> DEFINE s == [i \in DOMAIN v.items |-> CHOOSE w \in Inputs!Lowered(v.items[i]) : TRUE]
  <2>1. /\ v.is = "list" /\ \A i \in DOMAIN v.items : Inputs!Lowered(v.items[i]) # {}
        /\ l = Inputs!List(s)
    BY <1>1 DEF Inputs!Each
  <2>2. \A i \in DOMAIN s : s[i] \in Plain
    BY <2>1, ItemsOf, LoweredStands
  <2>3. DOMAIN s = DOMAIN v.items /\ s = [i \in DOMAIN s |-> s[i]]
    OBVIOUS
  <2> HIDE DEF s
  <2>4. QED
    BY <2>1, <2>2, <2>3, ListOf
<1>2. ASSUME NEW l \in Lists(Plain) PROVE Inputs!Each(l, Inputs!Lowered) = {l}
  <2>1. /\ l.is = "list" /\ l = Inputs!List([i \in DOMAIN l.items |-> l.items[i]])
        /\ \A i \in DOMAIN l.items : Inputs!Lowered(l.items[i]) = {l.items[i]}
    BY ItemsOf, LoweredStands
  <2>2. [i \in DOMAIN l.items |-> CHOOSE w \in Inputs!Lowered(l.items[i]) : TRUE]
          = [i \in DOMAIN l.items |-> l.items[i]]
    BY <2>1
  <2>3. QED
    BY <2>1, <2>2 DEF Inputs!Each
<1>3. QED
  BY <1>1, <1>2

(* of recipients, *)
LEMMA EachRecipient ==
  /\ \A v \in Value : Inputs!Each(v, Inputs!Recipient) \subseteq Lists(Mailbox)
  /\ \A l \in Lists(Mailbox) : Inputs!Each(l, Inputs!Recipient) = {l}
<1>1. ASSUME NEW v \in Value, NEW l \in Inputs!Each(v, Inputs!Recipient) PROVE l \in Lists(Mailbox)
  <2> DEFINE s == [i \in DOMAIN v.items |-> CHOOSE w \in Inputs!Recipient(v.items[i]) : TRUE]
  <2>1. /\ v.is = "list" /\ \A i \in DOMAIN v.items : Inputs!Recipient(v.items[i]) # {}
        /\ l = Inputs!List(s)
    BY <1>1 DEF Inputs!Each
  <2>2. \A i \in DOMAIN s : s[i] \in Mailbox
    BY <2>1, ItemsOf, RecipientStands
  <2>3. DOMAIN s = DOMAIN v.items /\ s = [i \in DOMAIN s |-> s[i]]
    OBVIOUS
  <2> HIDE DEF s
  <2>4. QED
    BY <2>1, <2>2, <2>3, ListOf
<1>2. ASSUME NEW l \in Lists(Mailbox) PROVE Inputs!Each(l, Inputs!Recipient) = {l}
  <2>1. /\ l.is = "list" /\ l = Inputs!List([i \in DOMAIN l.items |-> l.items[i]])
        /\ \A i \in DOMAIN l.items : Inputs!Recipient(l.items[i]) = {l.items[i]}
    BY ItemsOf, RecipientStands
  <2>2. [i \in DOMAIN l.items |-> CHOOSE w \in Inputs!Recipient(l.items[i]) : TRUE]
          = [i \in DOMAIN l.items |-> l.items[i]]
    BY <2>1
  <2>3. QED
    BY <2>1, <2>2 DEF Inputs!Each
<1>3. QED
  BY <1>1, <1>2

(* Variables of the environment. *)
LEMMA PairStands ==
  /\ \A v \in Value : Inputs!EnvPair(v) \subseteq Pairs
  /\ \A w \in Pairs : Inputs!EnvPair(w) = {w}
<1>1. ASSUME NEW v \in Value, NEW w \in Inputs!EnvPair(v) PROVE w \in Pairs
  <2>1. v.is = "pair" /\ v.name \in Value /\ v.value \in Value
    BY <1>1, Tags DEF Inputs!EnvPair, Value, Item
  <2>2. Inputs!Trimmed(v.name) \subseteq Clean /\ Inputs!Trimmed(v.value) \subseteq Clean
    BY <2>1, TrimmedStands
  <2>3. QED
    BY <1>1, <2>1, <2>2 DEF Inputs!EnvPair, Pairs
<1>2. ASSUME NEW w \in Pairs PROVE Inputs!EnvPair(w) = {w}
  <2>1. w.is = "pair" /\ w.name \in Clean /\ w.value \in Clean
        /\ w = [is |-> "pair", name |-> w.name, value |-> w.value]
    BY DEF Pairs
  <2>2. Inputs!Trimmed(w.name) = {w.name} /\ Inputs!Trimmed(w.value) = {w.value}
    BY <2>1, TrimmedStands
  <2>3. QED
    BY <2>1, <2>2 DEF Inputs!EnvPair
<1>3. QED
  BY <1>1, <1>2

(* Windows proposed. *)
Windows == UNION {Inputs!ProposedWindow(v) : v \in Value}
LEMMA ProposedStands ==
  /\ \A v \in Value : Inputs!ProposedWindow(v) \subseteq Windows
  /\ \A w \in Windows : Inputs!ProposedWindow(w) = {w}
<1>1. ASSUME NEW w \in Windows PROVE Inputs!ProposedWindow(w) = {w}
  <2>1. PICK v \in Value : w \in Inputs!ProposedWindow(v)
    BY DEF Windows
  <2>2. PICK u \in Inputs!Window(v.start, v.end) : w = [is |-> "window", start |-> u[1], end |-> u[2]]
    BY <2>1 DEF Inputs!ProposedWindow
  <2>3. Inputs!Window(u[1], u[2]) = {u}
    BY <2>2, WindowStands
  <2>4. w.is = "window" /\ w.start = u[1] /\ w.end = u[2]
    BY <2>2
  <2>5. QED
    BY <2>2, <2>3, <2>4 DEF Inputs!ProposedWindow
<1>2. QED
  BY <1>1 DEF Windows

(* of pairs of an environment, *)
LEMMA EachPair ==
  /\ \A v \in Value : Inputs!Each(v, Inputs!EnvPair) \subseteq Lists(Pairs)
  /\ \A l \in Lists(Pairs) : Inputs!Each(l, Inputs!EnvPair) = {l}
<1>1. ASSUME NEW v \in Value, NEW l \in Inputs!Each(v, Inputs!EnvPair) PROVE l \in Lists(Pairs)
  <2> DEFINE s == [i \in DOMAIN v.items |-> CHOOSE w \in Inputs!EnvPair(v.items[i]) : TRUE]
  <2>1. /\ v.is = "list" /\ \A i \in DOMAIN v.items : Inputs!EnvPair(v.items[i]) # {}
        /\ l = Inputs!List(s)
    BY <1>1 DEF Inputs!Each
  <2>2. \A i \in DOMAIN s : s[i] \in Pairs
    BY <2>1, ItemsOf, PairStands
  <2>3. DOMAIN s = DOMAIN v.items /\ s = [i \in DOMAIN s |-> s[i]]
    OBVIOUS
  <2> HIDE DEF s
  <2>4. QED
    BY <2>1, <2>2, <2>3, ListOf
<1>2. ASSUME NEW l \in Lists(Pairs) PROVE Inputs!Each(l, Inputs!EnvPair) = {l}
  <2>1. /\ l.is = "list" /\ l = Inputs!List([i \in DOMAIN l.items |-> l.items[i]])
        /\ \A i \in DOMAIN l.items : Inputs!EnvPair(l.items[i]) = {l.items[i]}
    BY ItemsOf, PairStands
  <2>2. [i \in DOMAIN l.items |-> CHOOSE w \in Inputs!EnvPair(l.items[i]) : TRUE]
          = [i \in DOMAIN l.items |-> l.items[i]]
    BY <2>1
  <2>3. QED
    BY <2>1, <2>2 DEF Inputs!Each
<1>3. QED
  BY <1>1, <1>2

(* of windows, *)
LEMMA EachWindow ==
  /\ \A v \in Value : Inputs!Each(v, Inputs!ProposedWindow) \subseteq Lists(Windows)
  /\ \A l \in Lists(Windows) : Inputs!Each(l, Inputs!ProposedWindow) = {l}
<1>1. ASSUME NEW v \in Value, NEW l \in Inputs!Each(v, Inputs!ProposedWindow) PROVE l \in Lists(Windows)
  <2> DEFINE s == [i \in DOMAIN v.items |-> CHOOSE w \in Inputs!ProposedWindow(v.items[i]) : TRUE]
  <2>1. /\ v.is = "list" /\ \A i \in DOMAIN v.items : Inputs!ProposedWindow(v.items[i]) # {}
        /\ l = Inputs!List(s)
    BY <1>1 DEF Inputs!Each
  <2>2. \A i \in DOMAIN s : s[i] \in Windows
    BY <2>1, ItemsOf, ProposedStands
  <2>3. DOMAIN s = DOMAIN v.items /\ s = [i \in DOMAIN s |-> s[i]]
    OBVIOUS
  <2> HIDE DEF s
  <2>4. QED
    BY <2>1, <2>2, <2>3, ListOf
<1>2. ASSUME NEW l \in Lists(Windows) PROVE Inputs!Each(l, Inputs!ProposedWindow) = {l}
  <2>1. /\ l.is = "list" /\ l = Inputs!List([i \in DOMAIN l.items |-> l.items[i]])
        /\ \A i \in DOMAIN l.items : Inputs!ProposedWindow(l.items[i]) = {l.items[i]}
    BY ItemsOf, ProposedStands
  <2>2. [i \in DOMAIN l.items |-> CHOOSE w \in Inputs!ProposedWindow(l.items[i]) : TRUE]
          = [i \in DOMAIN l.items |-> l.items[i]]
    BY <2>1
  <2>3. QED
    BY <2>1, <2>2 DEF Inputs!Each
<1>3. QED
  BY <1>1, <1>2

(* Kinds of memories. *)
Kind == {"user_message", "recall"}
LEMMA EachKind ==
  /\ \A v \in Value : Inputs!Each(v, LAMBDA x : Inputs!Exactly(x, Kind)) \subseteq Lists(Choices(Kind))
  /\ \A l \in Lists(Choices(Kind)) : Inputs!Each(l, LAMBDA x : Inputs!Exactly(x, Kind)) = {l}
<1>1. ASSUME NEW v \in Value, NEW l \in Inputs!Each(v, LAMBDA x : Inputs!Exactly(x, Kind)) PROVE l \in Lists(Choices(Kind))
  <2> DEFINE s == [i \in DOMAIN v.items |-> CHOOSE w \in Inputs!Exactly(v.items[i], Kind) : TRUE]
  <2>1. /\ v.is = "list" /\ \A i \in DOMAIN v.items : Inputs!Exactly(v.items[i], Kind) # {}
        /\ l = Inputs!List(s)
    BY <1>1 DEF Inputs!Each
  <2>2. \A i \in DOMAIN s : s[i] \in Choices(Kind)
    BY <2>1, ItemsOf, ChoicesStand
  <2>3. DOMAIN s = DOMAIN v.items /\ s = [i \in DOMAIN s |-> s[i]]
    OBVIOUS
  <2> HIDE DEF s
  <2>4. QED
    BY <2>1, <2>2, <2>3, ListOf
<1>2. ASSUME NEW l \in Lists(Choices(Kind)) PROVE Inputs!Each(l, LAMBDA x : Inputs!Exactly(x, Kind)) = {l}
  <2>1. /\ l.is = "list" /\ l = Inputs!List([i \in DOMAIN l.items |-> l.items[i]])
        /\ \A i \in DOMAIN l.items : Inputs!Exactly(l.items[i], Kind) = {l.items[i]}
    BY ItemsOf, ChoicesStand
  <2>2. [i \in DOMAIN l.items |-> CHOOSE w \in Inputs!Exactly(l.items[i], Kind) : TRUE]
          = [i \in DOMAIN l.items |-> l.items[i]]
    BY <2>1
  <2>3. QED
    BY <2>1, <2>2 DEF Inputs!Each
<1>3. QED
  BY <1>1, <1>2

(* Lists without repetitions. *)
Unrepeated(S) == {s \in Seq(S) : \A i, j \in DOMAIN s : s[i] = s[j] => i = j}
Once(S) == {l \in Lists(S) : l.items \in Unrepeated(S)}

(* An item is added if it is not there. *)
LEMMA AddStays ==
  ASSUME NEW S, NEW s \in Unrepeated(S), NEW x \in S
  PROVE  /\ (IF Inputs!Contains(s, x) THEN s ELSE Append(s, x)) \in Unrepeated(S)
         /\ (\A i \in DOMAIN s : s[i] # x) => ~Inputs!Contains(s, x)
<1>1. s \in Seq(S) /\ DOMAIN s = 1 .. Len(s) /\ Len(s) \in Nat
  BY DEF Unrepeated
<1>2. Inputs!Contains(s, x) <=> \E i \in 1 .. Len(s) : s[i] = x
  BY DEF Inputs!Contains
<1>3. CASE ~Inputs!Contains(s, x)
  <2> DEFINE t == Append(s, x)
  <2>1. /\ t \in Seq(S) /\ DOMAIN t = 1 .. Len(s) + 1 /\ t[Len(s) + 1] = x
        /\ \A i \in 1 .. Len(s) : t[i] = s[i] /\ t[i] # x
    BY <1>1, <1>2, <1>3
  <2> HIDE DEF t
  <2>2. ASSUME NEW i \in DOMAIN t, NEW j \in DOMAIN t, t[i] = t[j] PROVE i = j
    <3>1. /\ i \in 1 .. Len(s) \/ i = Len(s) + 1
          /\ j \in 1 .. Len(s) \/ j = Len(s) + 1
      BY <1>1, <2>1
    <3>2. i \in 1 .. Len(s) /\ j \in 1 .. Len(s) => s[i] = s[j]
      BY <2>1, <2>2
    <3>3. QED
      BY <1>1, <2>1, <2>2, <3>1, <3>2 DEF Unrepeated
  <2>3. t \in Unrepeated(S)
    BY <2>1, <2>2 DEF Unrepeated
  <2>4. QED
    BY <1>1, <1>2, <1>3, <2>3 DEF t
<1>4. QED
  BY <1>1, <1>2, <1>3

(* What comes out has no repetitions and is not longer, and what has none  *)
(* stays as it is.                                                         *)
LEMMA DistinctStands ==
  ASSUME NEW S, NEW l \in Lists(S)
  PROVE  /\ Inputs!Distinct(l) \in Once(S)
         /\ Len(Inputs!Distinct(l).items) <= Len(l.items)
         /\ l \in Once(S) => Inputs!Distinct(l) = l
<1> DEFINE s == l.items
           n == Len(s)
           Add(t, x) == IF Inputs!Contains(t, x) THEN t ELSE Append(t, x)
           A == Unrepeated(S)
           op == [p \in A \X S |-> Add(p[1], p[2])]
           Is(g) == g = [t \in SUBSET DOMAIN s |->
                           IF t = {} THEN << >> ELSE Add(g[t \ {Inputs!Max(t)}], s[Inputs!Max(t)])]
           iter == CHOOSE g : Is(g)
<1>1. /\ s \in Seq(S) /\ n \in Nat /\ DOMAIN s = 1 .. n /\ s \in [1 .. n -> S]
      /\ l.is = "list" /\ l = Inputs!List(s)
  BY DEF Lists, Inputs!List
<1>2. op \in [A \X S -> A] /\ << >> \in A
  <2>1. << >> \in A
    BY DEF Unrepeated
  <2>2. QED
    BY <2>1, AddStays
<1>3. \A t : Inputs!Max(t) = Reads!Max(t)
  BY DEF Inputs!Max, Reads!Max
<1> HIDE DEF A
<1>4. \E g : Is(g) /\ \A t \in SUBSET (1 .. n) : g[t] \in A
  <2>1. PICK g : Folds(g, A, op, << >>, n, s)
    <3> HIDE DEF op, s, n
    <3>1. QED
      BY <1>1, <1>2, FoldsExist
  <2>2. ASSUME NEW t \in SUBSET (1 .. n), t # {}
        PROVE  g[t] = Add(g[t \ {Inputs!Max(t)}], s[Inputs!Max(t)])
    <3> DEFINE m == Inputs!Max(t)
    <3> HIDE DEF Add, s, n
    <3>1. m \in t /\ \A k \in t : m >= k
      BY <1>1, <1>3, <2>2, GreatestPicked
    <3>2. g[t] = op[<<g[t \ {m}], s[m]>>]
      BY <2>1, <3>1 DEF Folds
    <3>3. g[t \ {m}] \in A /\ s[m] \in S
      BY <1>1, <2>1, <3>1 DEF Folds
    <3>4. QED
      BY <3>2, <3>3
  <2> HIDE DEF Add, s, n
  <2>3. g \in [SUBSET (1 .. n) -> A] /\ g[{}] = << >>
    BY <2>1 DEF Folds
  <2>4. Is(g)
    BY <1>1, <2>2, <2>3
  <2>5. QED
    BY <2>3, <2>4
<1>5. Inputs!Distinct(l) = Inputs!List(iter[1 .. n])
  BY <1>1 DEF Inputs!Distinct, Inputs!FoldLeft, Inputs!MapThenFoldSet
<1>6. Is(iter)
  BY <1>4
<1> HIDE DEF iter, Add, s, n
<1>7. iter[1 .. 0] = << >>
  <2>1. 1 .. 0 = {} /\ {} \in SUBSET DOMAIN s
    BY <1>1
  <2>2. QED
    BY <1>6, <2>1
<1>8. ASSUME NEW k \in 0 .. n - 1
      PROVE  iter[1 .. (k + 1)] = Add(iter[1 .. k], s[k + 1]) /\ k + 1 \in 1 .. n
  <2>1. k + 1 \in 1 .. n /\ (k + 1) - 1 = k
    BY <1>1
  <2>2. /\ Inputs!Max(1 .. (k + 1)) = k + 1 /\ (1 .. (k + 1)) \ {k + 1} = 1 .. ((k + 1) - 1)
        /\ 1 .. (k + 1) \in SUBSET (1 .. n) /\ 1 .. (k + 1) # {}
    BY <1>1, <1>3, <2>1, LastPicked
  <2>3. iter[1 .. (k + 1)] = Add(iter[(1 .. (k + 1)) \ {Inputs!Max(1 .. (k + 1))}], s[Inputs!Max(1 .. (k + 1))])
    BY <1>1, <1>6, <2>2
  <2>4. QED
    BY <2>1, <2>2, <2>3
<1>9. \A k \in 0 .. n : iter[1 .. k] \in A /\ Len(iter[1 .. k]) <= k
  <2> DEFINE T == {k \in 0 .. n : iter[1 .. k] \in A /\ Len(iter[1 .. k]) <= k}
  <2>1. 0 \in T
    BY <1>1, <1>2, <1>7
  <2>2. ASSUME NEW k \in 0 .. n - 1, k \in T PROVE k + 1 \in T
    <3>1. s[k + 1] \in S /\ iter[1 .. k] \in Seq(S) /\ iter[1 .. k] \in Unrepeated(S)
      BY <1>1, <1>8, <2>2 DEF A, Unrepeated
    <3>2. Add(iter[1 .. k], s[k + 1]) \in A
      BY <3>1, AddStays DEF Add, A
    <3>3. Len(Add(iter[1 .. k], s[k + 1])) <= k + 1
      BY <2>2, <3>1 DEF Add
    <3>4. QED
      BY <1>1, <1>8, <3>2, <3>3
  <2> HIDE DEF T
  <2>3. \A k \in 0 .. n : k \in T
    BY <1>1, <2>1, <2>2, Induction
  <2>4. QED
    BY <2>3 DEF T
<1>10. ASSUME s \in A PROVE iter[1 .. n] = s
  <2> DEFINE Same(k) == Len(iter[1 .. k]) = k /\ \A i \in 1 .. k : iter[1 .. k][i] = s[i]
             T == {k \in 0 .. n : Same(k)}
  <2>1. 0 \in T
    BY <1>1, <1>7
  <2>2. ASSUME NEW k \in 0 .. n - 1, k \in T PROVE k + 1 \in T
    <3> DEFINE t == iter[1 .. k]
    <3>1. t \in Seq(S) /\ Len(t) = k /\ (\A i \in 1 .. k : t[i] = s[i]) /\ s[k + 1] \in S /\ t \in A
      BY <1>1, <1>8, <1>9, <2>2 DEF A, Unrepeated
    <3>2. \A i \in 1 .. k : s[i] # s[k + 1]
      <4>1. \A i, j \in 1 .. n : s[i] = s[j] => i = j
        BY <1>1, <1>10 DEF A, Unrepeated
      <4>2. k + 1 \in 1 .. n /\ \A i \in 1 .. k : i \in 1 .. n /\ i # k + 1
        BY <1>1, <1>8, <2>2
      <4>3. QED
        BY <4>1, <4>2
    <3> HIDE DEF t
    <3>3. ~Inputs!Contains(t, s[k + 1])
      BY <3>1, <3>2 DEF Inputs!Contains
    <3>4. iter[1 .. (k + 1)] = Append(t, s[k + 1])
      BY <1>8, <3>3 DEF Add, t
    <3>5. Same(k + 1)
      BY <3>1, <3>4
    <3> HIDE DEF Same
    <3>6. QED
      BY <1>1, <1>8, <3>5
  <2> HIDE DEF T
  <2>3. n \in T
    <3>1. \A k \in 0 .. n : k \in T
      BY <1>1, <2>1, <2>2, Induction
    <3>2. QED
      BY <1>1, <3>1
  <2>4. Same(n) /\ iter[1 .. n] \in Seq(S)
    BY <1>1, <1>9, <2>3 DEF T, A, Unrepeated
  <2>5. QED
    BY <1>1, <2>4
<1>11. Inputs!Distinct(l) \in Once(S) /\ Len(Inputs!Distinct(l).items) <= Len(l.items)
  <2>1. iter[1 .. n] \in Unrepeated(S) /\ Len(iter[1 .. n]) <= n
    BY <1>1, <1>9 DEF A
  <2>2. QED
    BY <1>5, <2>1 DEF Once, Lists, Inputs!List, Unrepeated, n, s
<1>12. ASSUME l \in Once(S) PROVE Inputs!Distinct(l) = l
  BY <1>1, <1>5, <1>10, <1>12 DEF Once, A, s
<1>13. QED
  BY <1>11, <1>12

(* A value that may be left out. *)
OrNull(S) == S \cup {Inputs!Null}

(* A text that may be left out stays, or stays out. *)
LEMMA OptionalsStand ==
  /\ \A v \in Value : /\ Inputs!Optional(v) \subseteq OrNull(Clean)
                      /\ Inputs!BlankIsNull(v) \subseteq OrNull(Clean)
                      /\ Inputs!TrimmedOrNull(v) \subseteq OrNull(Clean)
  /\ \A w \in OrNull(Clean) : /\ Inputs!Optional(w) = {w} /\ Inputs!BlankIsNull(w) = {w}
                              /\ Inputs!TrimmedOrNull(w) = {w} /\ w.is \in {"text", "null"}
<1>1. Inputs!Null.is = "null" /\ Inputs!Trimmed(Inputs!Null) = {}
  BY DEF Inputs!Null, Inputs!Trimmed, Inputs!IsText
<1>2. ASSUME NEW v \in Value
      PROVE  /\ Inputs!Optional(v) \subseteq OrNull(Clean)
             /\ Inputs!BlankIsNull(v) \subseteq OrNull(Clean)
             /\ Inputs!TrimmedOrNull(v) \subseteq OrNull(Clean)
  BY TrimmedStands DEF Inputs!Optional, Inputs!BlankIsNull, Inputs!TrimmedOrNull, OrNull
<1>3. ASSUME NEW w \in Clean
      PROVE  /\ Inputs!Optional(w) = {w} /\ Inputs!BlankIsNull(w) = {w}
             /\ Inputs!TrimmedOrNull(w) = {w} /\ w.is \in {"text", "null"}
  <2>1. Inputs!Trimmed(w) = {w} /\ w.is = "text" /\ w # Inputs!Null /\ w.word # ""
    BY TrimmedStands DEF Clean
  <2>2. QED
    BY <2>1 DEF Inputs!Optional, Inputs!BlankIsNull, Inputs!TrimmedOrNull
<1>4. LET w == Inputs!Null
      IN  /\ Inputs!Optional(w) = {w} /\ Inputs!BlankIsNull(w) = {w}
          /\ Inputs!TrimmedOrNull(w) = {w} /\ w.is \in {"text", "null"}
  BY <1>1 DEF Inputs!Optional, Inputs!BlankIsNull, Inputs!TrimmedOrNull
<1>5. QED
  BY <1>2, <1>3, <1>4 DEF OrNull

(* Lists of texts within the limit. *)
FewOf(S) == {l \in Lists(S) : Len(l.items) <= MaxItems}

(* A short list, normalised item by item, stays a short list. *)
LEMMA FewStand ==
  /\ \A v \in Value : /\ Inputs!Few(v) => Inputs!Each(v, Inputs!Trimmed) \subseteq FewOf(Clean)
                      /\ Inputs!Few(v) => Inputs!Each(v, Inputs!EnvPair) \subseteq FewOf(Pairs)
                      /\ Inputs!Few(v) => Inputs!Each(v, Inputs!ProposedWindow) \subseteq FewOf(Windows)
  /\ \A S : \A l \in FewOf(S) : Inputs!Few(l) /\ l \in Lists(S) /\ l.is = "list" /\ l # Inputs!Null
<1>1. ASSUME NEW v \in Value, Inputs!Few(v), NEW s, s = [i \in DOMAIN v.items |-> s[i]]
      PROVE  Len(Inputs!List(s).items) <= MaxItems
  <2>1. v.is = "list" /\ Len(v.items) <= MaxItems
    BY <1>1 DEF Inputs!Few
  <2>2. DOMAIN v.items = 1 .. Len(v.items) /\ Len(v.items) \in Nat
    BY <2>1, ItemsOf
  <2>3. Len(s) = Len(v.items)
    BY <1>1, <2>2
  <2>4. QED
    BY <2>1, <2>3 DEF Inputs!List
<1>2. ASSUME NEW v \in Value, Inputs!Few(v)
      PROVE  /\ \A l \in Inputs!Each(v, Inputs!Trimmed) : Len(l.items) <= MaxItems
             /\ \A l \in Inputs!Each(v, Inputs!EnvPair) : Len(l.items) <= MaxItems
             /\ \A l \in Inputs!Each(v, Inputs!ProposedWindow) : Len(l.items) <= MaxItems
  BY <1>1, <1>2 DEF Inputs!Each
<1>3. ASSUME NEW S, NEW l \in FewOf(S)
      PROVE  Inputs!Few(l) /\ l \in Lists(S) /\ l.is = "list" /\ l # Inputs!Null
  BY ItemsOf DEF FewOf, Inputs!Few
<1>4. QED
  BY <1>2, <1>3, EachTrimmed, EachPair, EachWindow DEF FewOf

(* The limit on lists is a number. *)
LEMMA InputsLimit == MaxItems \in Nat
  BY ServicesAssumption DEF ServicesAssumption, InputsConstants

(* Lists that may be left out. *)
LEMMA StringListStands ==
  /\ \A v \in Value : /\ Inputs!StringList(v) \subseteq FewOf(Clean)
                      /\ Inputs!FewTexts(v) \subseteq FewOf(Clean)
                      /\ Inputs!FewWindows(v) \subseteq FewOf(Windows)
                      /\ Inputs!Env(v) \subseteq FewOf(Pairs)
  /\ \A w \in FewOf(Clean) : Inputs!StringList(w) = {w} /\ Inputs!FewTexts(w) = {w}
  /\ \A w \in FewOf(Windows) : Inputs!FewWindows(w) = {w}
  /\ \A w \in FewOf(Pairs) : Inputs!Env(w) = {w}
<1>1. Len(<< >>) = 0 /\ Inputs!List(<< >>).items = << >>
  BY DEF Inputs!List
<1>2. \A S : Inputs!List(<< >>) \in FewOf(S)
  BY <1>1, ItemsOf, InputsLimit DEF FewOf
<1>3. \A v \in Value : /\ Inputs!StringList(v) \subseteq FewOf(Clean)
                       /\ Inputs!FewTexts(v) \subseteq FewOf(Clean)
                       /\ Inputs!FewWindows(v) \subseteq FewOf(Windows)
                       /\ Inputs!Env(v) \subseteq FewOf(Pairs)
  BY <1>2, FewStand DEF Inputs!StringList, Inputs!FewTexts, Inputs!FewWindows, Inputs!Env
<1>4. ASSUME NEW w \in FewOf(Clean) PROVE Inputs!StringList(w) = {w} /\ Inputs!FewTexts(w) = {w}
  <2>1. Inputs!Few(w) /\ w \in Lists(Clean) /\ w # Inputs!Null
    BY FewStand
  <2>2. QED
    BY <2>1, EachTrimmed DEF Inputs!StringList, Inputs!FewTexts
<1>5. ASSUME NEW w \in FewOf(Pairs) PROVE Inputs!Env(w) = {w}
  <2>1. Inputs!Few(w) /\ w \in Lists(Pairs) /\ w # Inputs!Null
    BY FewStand
  <2>2. QED
    BY <2>1, EachPair DEF Inputs!Env
<1>6. ASSUME NEW w \in FewOf(Windows) PROVE Inputs!FewWindows(w) = {w}
  <2>1. Inputs!Few(w) /\ w \in Lists(Windows)
    BY FewStand
  <2>2. QED
    BY <2>1, EachWindow DEF Inputs!FewWindows
<1>7. QED
  BY <1>3, <1>4, <1>5, <1>6

(* Lists of addresses, without repetitions. *)
LEMMA RecipientsStand ==
  /\ \A v \in Value : Inputs!Recipients(v) \subseteq Once(Mailbox)
  /\ \A l \in Once(Mailbox) : Inputs!Recipients(l) = {l} /\ l.is = "list" /\ l # Inputs!Null
<1>1. Inputs!List(<< >>) \in Once(Mailbox)
  <2>1. Inputs!List(<< >>).items = << >> /\ << >> \in Unrepeated(Mailbox)
    BY DEF Inputs!List, Unrepeated
  <2>2. QED
    BY <2>1, ItemsOf DEF Once
<1>2. ASSUME NEW v \in Value PROVE Inputs!Recipients(v) \subseteq Once(Mailbox)
  <2>1. \A l \in Inputs!Each(v, Inputs!Recipient) : Inputs!Distinct(l) \in Once(Mailbox)
    BY EachRecipient, DistinctStands
  <2>2. QED
    BY <1>1, <2>1 DEF Inputs!Recipients
<1>3. ASSUME NEW l \in Once(Mailbox)
      PROVE  Inputs!Recipients(l) = {l} /\ l.is = "list" /\ l # Inputs!Null
  <2>1. l \in Lists(Mailbox) /\ l.is = "list" /\ l # Inputs!Null
    BY ItemsOf DEF Once
  <2>2. Inputs!Each(l, Inputs!Recipient) = {l} /\ Inputs!Distinct(l) = l
    BY <2>1, EachRecipient, DistinctStands
  <2>3. QED
    BY <2>1, <2>2 DEF Inputs!Recipients
<1>4. QED
  BY <1>2, <1>3

(* Lists of names, without repetitions. *)
Names == Once(Clean) \cap FewOf(Clean)
LEMMA NamesStand ==
  /\ \A v \in Value : Inputs!LabelNames(v) \subseteq Names /\ Inputs!MessageIds(v) \subseteq Names
  /\ \A l \in Names : /\ Inputs!LabelNames(l) = {l} /\ l.is = "list"
                      /\ l.items # << >> => Inputs!MessageIds(l) = {l}
  /\ \A v : \A l \in Inputs!MessageIds(v) : l.items # << >>
<1>1. ASSUME NEW v \in Value PROVE Inputs!LabelNames(v) \subseteq Names
  <2>1. \A l \in Inputs!FewTexts(v) : l \in Lists(Clean) /\ Len(l.items) <= MaxItems
    BY StringListStands DEF FewOf
  <2>2. ASSUME NEW l \in Inputs!FewTexts(v) PROVE Inputs!Distinct(l) \in Names
    <3>1. Inputs!Distinct(l) \in Once(Clean) /\ Len(Inputs!Distinct(l).items) <= Len(l.items)
      BY <2>1, DistinctStands
    <3>2. Len(l.items) \in Nat /\ Len(Inputs!Distinct(l).items) \in Nat
      BY <2>1, <3>1 DEF Lists, Once
    <3>3. QED
      BY <2>1, <3>1, <3>2, InputsLimit DEF Names, FewOf, Once
  <2>3. QED
    BY <2>2 DEF Inputs!LabelNames
<1>2. ASSUME NEW l \in Names PROVE Inputs!LabelNames(l) = {l} /\ l.is = "list"
  <2>1. l \in FewOf(Clean) /\ l \in Lists(Clean) /\ l.is = "list"
    BY FewStand DEF Names
  <2>2. Inputs!FewTexts(l) = {l} /\ Inputs!Distinct(l) = l
    BY <2>1, StringListStands, DistinctStands DEF Names
  <2>3. QED
    BY <2>1, <2>2 DEF Inputs!LabelNames
<1>3. QED
  BY <1>1, <1>2 DEF Inputs!MessageIds

-----------------------------------------------------------------------------
(* Validators. *)

(* What a program passes. *)
Input(r) == \A f \in DOMAIN r : r[f] \in Value
(* A normal input that JSON leaves as it is, with nothing sealed yet.      *)
Fit(n) ==
  /\ n = [f \in DOMAIN n |-> n[f]]
  /\ \A f \in DOMAIN n : n[f].is \notin {"tuple", "sealed"}

(* Its fields are values. *)
LEMMA GetsValue ==
  ASSUME NEW r, Input(r)
  PROVE  \A f : Inputs!Get(r, f) \in Value
  BY DEF Input, Inputs!Get, Value, Item, Simple

(* ExactText: its result passes it unchanged. *)
LEMMA ExactTextStands ==
  ASSUME NEW r, NEW f, NEW n, Input(r), n \in Inputs!ExactText(r, f)
  PROVE  Inputs!ExactText(n, f) = {n} /\ Fit(n) /\ DOMAIN n = {f} /\ n[f] \in Clean
<1>1. PICK w \in Inputs!Trimmed(r[f]) : n = Inputs!Field(f, w) /\ DOMAIN r = {f}
  BY DEF Inputs!ExactText
<1>2. w \in Clean
  BY <1>1, TrimmedStands DEF Input
<1>3. Inputs!Trimmed(w) = {w} /\ w.is = "text"
  BY <1>2, TrimmedStands
<1>4. DOMAIN n = {f} /\ n[f] = w /\ n = [x \in {f} |-> w]
  BY <1>1 DEF Inputs!Field
<1>5. Inputs!Trimmed(n[f]) = {w}
  BY <1>3, <1>4
<1>6. Inputs!ExactText(n, f) = {n}
  BY <1>1, <1>4, <1>5 DEF Inputs!ExactText
<1>7. Fit(n)
  BY <1>3, <1>4 DEF Fit
<1>8. QED
  BY <1>2, <1>4, <1>6, <1>7

(* AttachmentRead: its result passes it unchanged. *)
LEMMA AttachmentReadStands ==
  ASSUME NEW r, Input(r), NEW n \in Inputs!AttachmentRead(r)
  PROVE  Inputs!AttachmentRead(n) = {n} /\ Fit(n)
<1> DEFINE words == {"summarize", "ocr", "transcribe", "extract_text", "answer"}
<1>1. PICK a \in Inputs!Trimmed(r.attachment_ref), i \in Inputs!OneOf(r.intent, words) :
        n = [attachment_ref |-> a, intent |-> i] /\ a.word \notin Slashed
        /\ DOMAIN r = {"attachment_ref", "intent"}
  BY DEF Inputs!AttachmentRead
<1>2. a \in Clean /\ i \in Choices(words)
  BY <1>1, TrimmedStands, ChoicesStand DEF Input
<1>3. Inputs!Trimmed(a) = {a} /\ a.is = "text" /\ Inputs!OneOf(i, words) = {i} /\ i.is = "text"
  BY <1>2, TrimmedStands, ChoicesStand
<1>4. QED
  BY <1>1, <1>3 DEF Inputs!AttachmentRead, Fit

(* WebExtract: its result passes it unchanged. *)
LEMMA WebExtractStands ==
  ASSUME NEW r, Input(r), NEW n \in Inputs!WebExtract(r)
  PROVE  Inputs!WebExtract(n) = {n} /\ Fit(n)
<1>1. PICK u \in Inputs!ExactText(r, "url") :
        u.url.word \in Urls /\ n = [url |-> [u.url EXCEPT !.alt = FALSE]]
  BY DEF Inputs!WebExtract
<1>2. u.url \in Clean
  BY <1>1, ExactTextStands
<1> DEFINE w == [u.url EXCEPT !.alt = FALSE]
<1>3. w \in Plain /\ w.word = u.url.word /\ [w EXCEPT !.alt = FALSE] = w
  BY <1>2 DEF Clean, Plain, TextValue
<1>4. n.url = w /\ DOMAIN n = {"url"} /\ n = [url |-> w]
  BY <1>1
<1> HIDE DEF w
<1>5. Inputs!Trimmed(w) = {w} /\ w.is = "text"
  BY <1>3, TrimmedStands DEF Plain
<1>6. Inputs!Field("url", w) = n
  BY <1>4 DEF Inputs!Field
<1>7. Inputs!ExactText(n, "url") = {n}
  BY <1>4, <1>5, <1>6 DEF Inputs!ExactText
<1>8. Inputs!WebExtract(n) = {n}
  <2>1. {x \in Inputs!ExactText(n, "url") : x.url.word \in Urls} = {n}
    BY <1>1, <1>3, <1>4, <1>7
  <2>2. [url |-> [n.url EXCEPT !.alt = FALSE]] = n
    BY <1>3, <1>4
  <2>3. QED
    BY <2>1, <2>2 DEF Inputs!WebExtract
<1>9. QED
  BY <1>4, <1>5, <1>8 DEF Fit

(* ListCalendars: its result passes it unchanged. *)
LEMMA ListCalendarsStands ==
  ASSUME NEW r, NEW n \in Inputs!ListCalendars(r)
  PROVE  Inputs!ListCalendars(n) = {n} /\ Fit(n)
  BY DEF Inputs!ListCalendars, Inputs!NoField, Fit

(* EmailRead: its result passes it unchanged. *)
LEMMA EmailReadStands ==
  ASSUME NEW r, Input(r), NEW n \in Inputs!EmailRead(r)
  PROVE  Inputs!EmailRead(n) = {n} /\ Fit(n)
<1> DEFINE words == {"message", "thread", "thread_context"}
<1>1. PICK i \in Inputs!Optional(Inputs!Get(r, "message_id")),
           t \in Inputs!Optional(Inputs!Get(r, "thread_id")),
           m \in IF Inputs!Get(r, "mode") = Inputs!Null
                   THEN {Inputs!Text(IF Inputs!Get(r, "message_id") # Inputs!Null THEN "message" ELSE "thread")}
                   ELSE Inputs!OneOf(r.mode, words) :
        /\ n = [message_id |-> i, thread_id |-> t, mode |-> m]
        /\ n.message_id # Inputs!Null \/ n.thread_id # Inputs!Null
        /\ n.mode.word = "message" => n.message_id # Inputs!Null
  BY DEF Inputs!EmailRead
<1>2. i \in OrNull(Clean) /\ t \in OrNull(Clean) /\ m \in Choices(words)
  BY <1>1, OptionalsStand, GetsValue, ChoicesStand DEF Choices
<1>3. /\ Inputs!Optional(i) = {i} /\ Inputs!Optional(t) = {t} /\ Inputs!OneOf(m, words) = {m}
      /\ m # Inputs!Null /\ m.is = "text" /\ i.is \in {"text", "null"} /\ t.is \in {"text", "null"}
  BY <1>2, OptionalsStand, ChoicesStand
<1>4. /\ Inputs!Get(n, "message_id") = i /\ Inputs!Get(n, "thread_id") = t /\ Inputs!Get(n, "mode") = m
      /\ n.mode = m /\ Inputs!Shaped(n, {}, {"message_id", "thread_id", "mode"})
  BY <1>1 DEF Inputs!Get, Inputs!Shaped
<1>5. Inputs!EmailRead(n) = {n}
  BY <1>1, <1>3, <1>4 DEF Inputs!EmailRead
<1>6. QED
  BY <1>1, <1>3, <1>5 DEF Fit

(* A number or a flag in its range is taken as it is. *)
LEMMA RangesStand ==
  ASSUME NEW low, NEW high
  PROVE  /\ \A v : \A w \in Inputs!Within(v, low, high) :
              Inputs!Within(w, low, high) = {w} /\ w.is = "int" /\ w # Inputs!Null
         /\ \A v : \A w \in Inputs!Flag(v) : Inputs!Flag(w) = {w} /\ w.is = "bool" /\ w # Inputs!Null
<1>1. Inputs!Null.is = "null"
  BY DEF Inputs!Null
<1>2. QED
  BY <1>1 DEF Inputs!Within, Inputs!Flag

(* EvidenceRead: its result passes it unchanged. *)
LEMMA EvidenceReadStands ==
  ASSUME NEW r, Input(r), NEW n \in Inputs!EvidenceRead(r)
  PROVE  Inputs!EvidenceRead(n) = {n} /\ Fit(n)
<1> DEFINE all == [is |-> "int", n |-> 12]
<1>1. PICK e \in Inputs!Trimmed(Inputs!Get(r, "provider_evidence_id")),
           b \in Inputs!StringList(Inputs!Get(r, "block_ids")),
           m \in Inputs!Within(Inputs!GetOr(r, "max_blocks", all), 1, 12) :
        n = [provider_evidence_id |-> e, block_ids |-> b, max_blocks |-> m]
  BY DEF Inputs!EvidenceRead
<1>2. e \in Clean /\ b \in FewOf(Clean)
  BY <1>1, GetsValue, TrimmedStands, StringListStands
<1>3. /\ Inputs!Trimmed(e) = {e} /\ Inputs!StringList(b) = {b} /\ Inputs!Within(m, 1, 12) = {m}
      /\ e.is = "text" /\ b.is = "list" /\ m.is = "int"
  BY <1>1, <1>2, TrimmedStands, StringListStands, FewStand, RangesStand
<1>4. /\ Inputs!Get(n, "provider_evidence_id") = e /\ Inputs!Get(n, "block_ids") = b
      /\ Inputs!GetOr(n, "max_blocks", all) = m
      /\ Inputs!Shaped(n, {}, {"provider_evidence_id", "block_ids", "max_blocks"})
  BY <1>1 DEF Inputs!Get, Inputs!GetOr, Inputs!Shaped
<1>5. Inputs!EvidenceRead(n) = {n}
  BY <1>1, <1>3, <1>4 DEF Inputs!EvidenceRead
<1>6. QED
  BY <1>1, <1>3, <1>5 DEF Fit

(* MapsSearchPlaces: its result passes it unchanged. *)
LEMMA MapsSearchPlacesStands ==
  ASSUME NEW r, Input(r), NEW n \in Inputs!MapsSearchPlaces(r)
  PROVE  Inputs!MapsSearchPlaces(n) = {n} /\ Fit(n)
<1> DEFINE usual == [is |-> "int", n |-> 2000]
<1>1. PICK q \in Inputs!Trimmed(Inputs!Get(r, "query")),
           l \in Inputs!BlankIsNull(Inputs!Get(r, "location_context")),
           m \in Inputs!Within(Inputs!GetOr(r, "radius_meters", usual), 100, 50000) :
        n = [query |-> q, location_context |-> l, radius_meters |-> m]
  BY DEF Inputs!MapsSearchPlaces
<1>2. q \in Clean /\ l \in OrNull(Clean)
  BY <1>1, GetsValue, TrimmedStands, OptionalsStand
<1>3. /\ Inputs!Trimmed(q) = {q} /\ Inputs!BlankIsNull(l) = {l} /\ Inputs!Within(m, 100, 50000) = {m}
      /\ q.is = "text" /\ l.is \in {"text", "null"} /\ m.is = "int"
  BY <1>1, <1>2, TrimmedStands, OptionalsStand, RangesStand
<1>4. /\ Inputs!Get(n, "query") = q /\ Inputs!Get(n, "location_context") = l
      /\ Inputs!GetOr(n, "radius_meters", usual) = m
      /\ Inputs!Shaped(n, {}, {"query", "location_context", "radius_meters"})
  BY <1>1 DEF Inputs!Get, Inputs!GetOr, Inputs!Shaped
<1>5. Inputs!MapsSearchPlaces(n) = {n}
  BY <1>1, <1>3, <1>4 DEF Inputs!MapsSearchPlaces
<1>6. QED
  BY <1>1, <1>3, <1>5 DEF Fit

(* A word that may be left blank for the usual one. *)
NoBlank(words) == "" \notin words
LEMMA UsualWord ==
  ASSUME NEW words, NEW usual \in words, NoBlank(words), NEW v, NEW w \in Inputs!OneOfOr(v, words, usual)
  PROVE  w.is = "text" /\ Inputs!OneOfOr(w, words, usual) = {w}
<1>1. w \in Choices(words)
  BY ChoicesStand DEF Choices, Inputs!OneOfOr
<1>2. w.is = "text" /\ w.word \in words /\ Inputs!OneOf(w, words) = {w}
  BY <1>1, ChoicesStand
<1>3. QED
  BY <1>2 DEF Inputs!OneOfOr, NoBlank

(* WeatherForecast: its result passes it unchanged. *)
LEMMA WeatherForecastStands ==
  ASSUME NEW r, Input(r), NEW n \in Inputs!WeatherForecast(r)
  PROVE  Inputs!WeatherForecast(n) = {n} /\ Fit(n)
<1> DEFINE words == {"now", "today", "tomorrow", "next_24h"}
<1>1. PICK l \in Inputs!Trimmed(Inputs!Get(r, "location")),
           t \in Inputs!OneOfOr(Inputs!GetOr(r, "timeframe", Inputs!EmptyText), words, "today") :
        n = [location |-> l, timeframe |-> t]
  BY DEF Inputs!WeatherForecast
<1>2. Inputs!Trimmed(l) = {l} /\ l.is = "text"
  BY <1>1, GetsValue, TrimmedStands
<1>3. Inputs!OneOfOr(t, words, "today") = {t} /\ t.is = "text"
  <2>1. "today" \in words /\ NoBlank(words)
    BY DEF NoBlank
  <2> HIDE DEF words
  <2>2. QED
    BY <1>1, <2>1, UsualWord
<1>4. /\ Inputs!Get(n, "location") = l /\ Inputs!GetOr(n, "timeframe", Inputs!EmptyText) = t
      /\ Inputs!Shaped(n, {}, {"location", "timeframe"})
  BY <1>1 DEF Inputs!Get, Inputs!GetOr, Inputs!Shaped
<1>5. Inputs!WeatherForecast(n) = {n}
  BY <1>1, <1>2, <1>3, <1>4 DEF Inputs!WeatherForecast
<1>6. QED
  BY <1>1, <1>2, <1>3, <1>5 DEF Fit

(* A list that is not empty has an item. *)
LEMMA NotEmpty ==
  ASSUME NEW S, NEW s \in Seq(S), s # << >>
  PROVE  DOMAIN s # {}
  BY EmptySeq

(* Since when, and which kinds of memories. *)
LEMMA FiltersStand ==
  /\ \A v : \A w \in Inputs!Since(v) : Inputs!Since(w) = {w} /\ w.is \in {"text", "null"}
  /\ \A v \in Value : \A w \in Inputs!Kinds(v) : Inputs!Kinds(w) = {w} /\ w.is \in {"list", "null"}
<1>1. Inputs!Null.is = "null"
  BY DEF Inputs!Null
<1>2. ASSUME NEW v, NEW w \in Inputs!Since(v) PROVE Inputs!Since(w) = {w} /\ w.is \in {"text", "null"}
  BY <1>1, TimeStands DEF Inputs!Since
<1>3. ASSUME NEW v \in Value, NEW w \in Inputs!Kinds(v)
      PROVE  Inputs!Kinds(w) = {w} /\ w.is \in {"list", "null"}
  <2>1. CASE v = Inputs!Null
    BY <1>1, <2>1 DEF Inputs!Kinds
  <2>2. CASE v # Inputs!Null
    <3>1. w \in Inputs!Each(v, LAMBDA x : Inputs!Exactly(x, Kind)) /\ v # Inputs!List(<< >>)
      BY <2>2 DEF Inputs!Kinds, Kind
    <3>2. w \in Lists(Choices(Kind)) /\ w.is = "list" /\ w # Inputs!Null
      BY <3>1, EachKind, ItemsOf
    <3>3. Inputs!Each(w, LAMBDA x : Inputs!Exactly(x, Kind)) = {w}
      BY <3>2, EachKind
    <3>4. w # Inputs!List(<< >>)
      <4>1. v.is = "list" /\ v = Inputs!List(v.items) /\ v.items \in Seq(Item)
        <5>1. v.is = "list"
          BY <3>1 DEF Inputs!Each
        <5>2. QED
          BY <5>1, Tags DEF ListValue, Inputs!List
      <4>2. v.items # << >>
        BY <3>1, <4>1
      <4>3. DOMAIN w.items = DOMAIN v.items
        BY <3>1 DEF Inputs!Each, Inputs!List
      <4>4. DOMAIN w.items # {}
        <5>1. v.items \in Seq(Item) /\ v.items # << >>
          BY <4>1, <4>2
        <5>2. QED
          BY <4>3, <5>1, NotEmpty
      <4>5. QED
        BY <4>4 DEF Inputs!List
    <3>5. QED
      BY <3>2, <3>3, <3>4 DEF Inputs!Kinds, Kind
  <2>3. QED
    BY <2>1, <2>2
<1>4. QED
  BY <1>2, <1>3

(* MemorySearch: its result passes it unchanged. *)
LEMMA MemorySearchStands ==
  ASSUME NEW r, Input(r), NEW n \in Inputs!MemorySearch(r)
  PROVE  Inputs!MemorySearch(n) = {n} /\ Fit(n)
<1> DEFINE usual == [is |-> "int", n |-> 24]
<1>1. PICK q \in Inputs!Trimmed(Inputs!Get(r, "query")),
           m \in Inputs!Within(Inputs!GetOr(r, "limit", usual), 1, 100),
           s \in Inputs!Since(Inputs!Get(r, "since")), k \in Inputs!Kinds(Inputs!Get(r, "kinds")) :
        n = [query |-> q, limit |-> m, since |-> s, kinds |-> k]
  BY DEF Inputs!MemorySearch
<1>2. Inputs!Trimmed(q) = {q} /\ q.is = "text"
  BY <1>1, GetsValue, TrimmedStands
<1>3. Inputs!Within(m, 1, 100) = {m} /\ m.is = "int"
  BY <1>1, RangesStand
<1>4. Inputs!Since(s) = {s} /\ s.is \in {"text", "null"} /\ Inputs!Kinds(k) = {k} /\ k.is \in {"list", "null"}
  BY <1>1, GetsValue, FiltersStand
<1>5. /\ Inputs!Get(n, "query") = q /\ Inputs!GetOr(n, "limit", usual) = m
      /\ Inputs!Get(n, "since") = s /\ Inputs!Get(n, "kinds") = k
      /\ Inputs!Shaped(n, {}, {"query", "limit", "since", "kinds"})
  BY <1>1 DEF Inputs!Get, Inputs!GetOr, Inputs!Shaped
<1>6. Inputs!MemorySearch(n) = {n}
  BY <1>1, <1>2, <1>3, <1>4, <1>5 DEF Inputs!MemorySearch
<1>7. QED
  BY <1>1, <1>2, <1>3, <1>4, <1>6 DEF Fit

(* Investigate: its result passes it unchanged. *)
LEMMA InvestigateStands ==
  ASSUME NEW r, Input(r), NEW n \in Inputs!Investigate(r)
  PROVE  Inputs!Investigate(n) = {n} /\ Fit(n)
<1> DEFINE words == {"web", "personal", "memories"}
<1>1. PICK q \in Inputs!Trimmed(r.question), m \in Inputs!Exactly(r.mode, words) :
        n = [question |-> q, mode |-> m] /\ q.word \notin Polls /\ DOMAIN r = {"question", "mode"}
  BY DEF Inputs!Investigate
<1>2. q \in Clean /\ m \in Choices(words)
  BY <1>1, TrimmedStands, ChoicesStand DEF Input
<1>3. Inputs!Trimmed(q) = {q} /\ q.is = "text" /\ Inputs!Exactly(m, words) = {m} /\ m.is = "text"
  BY <1>2, TrimmedStands, ChoicesStand
<1>4. QED
  BY <1>1, <1>3 DEF Inputs!Investigate, Fit

(* NoteEdit: its result passes it unchanged. *)
LEMMA NoteEditStands ==
  ASSUME NEW r, Input(r), NEW n \in Inputs!NoteEdit(r)
  PROVE  Inputs!NoteEdit(n) = {n} /\ Fit(n)
<1>1. PICK i \in Inputs!Trimmed(r.id), c \in Inputs!Trimmed(r.content) :
        n = [id |-> i, content |-> c] /\ DOMAIN r = {"id", "content"}
  BY DEF Inputs!NoteEdit
<1>2. i \in Clean /\ c \in Clean
  BY <1>1, TrimmedStands DEF Input
<1>3. Inputs!Trimmed(i) = {i} /\ i.is = "text" /\ Inputs!Trimmed(c) = {c} /\ c.is = "text"
  BY <1>2, TrimmedStands
<1>4. QED
  BY <1>1, <1>3 DEF Inputs!NoteEdit, Fit

(* Schedule: its result passes it unchanged. *)
LEMMA ScheduleStands ==
  ASSUME NEW r, Input(r), NEW n \in Inputs!Schedule(r)
  PROVE  Inputs!Schedule(n) = {n} /\ Fit(n)
<1>1. PICK t \in Inputs!Time(r.when), c \in Inputs!Trimmed(r.note) :
        n = [when |-> t, note |-> c] /\ DOMAIN r = {"when", "note"}
  BY DEF Inputs!Schedule
<1>2. Inputs!Trimmed(c) = {c} /\ c.is = "text"
  BY <1>1, TrimmedStands DEF Input
<1>3. Inputs!Time(t) = {t} /\ t.is = "text"
  BY <1>1, TimeStands
<1>4. QED
  BY <1>1, <1>2, <1>3 DEF Inputs!Schedule, Fit

(* JobLookup: its result passes it unchanged. *)
LEMMA JobLookupStands ==
  ASSUME NEW r, Input(r), NEW n \in Inputs!JobLookup(r)
  PROVE  /\ Inputs!JobLookup(n) = {n} /\ Fit(n)
         /\ n = [job_id |-> n.job_id, repo_id |-> n.repo_id, task_id |-> n.task_id]
<1>1. PICK j \in Inputs!TrimmedOrNull(Inputs!Get(r, "job_id")),
           p \in Inputs!TrimmedOrNull(Inputs!Get(r, "repo_id")),
           t \in Inputs!TrimmedOrNull(Inputs!Get(r, "task_id")) :
        /\ n = [job_id |-> j, repo_id |-> p, task_id |-> t]
        /\ n.job_id # Inputs!Null \/ (n.repo_id # Inputs!Null /\ n.task_id # Inputs!Null)
  BY DEF Inputs!JobLookup
<1>2. j \in OrNull(Clean) /\ p \in OrNull(Clean) /\ t \in OrNull(Clean)
  BY <1>1, GetsValue, OptionalsStand
<1>3. /\ Inputs!TrimmedOrNull(j) = {j} /\ Inputs!TrimmedOrNull(p) = {p} /\ Inputs!TrimmedOrNull(t) = {t}
      /\ j.is \in {"text", "null"} /\ p.is \in {"text", "null"} /\ t.is \in {"text", "null"}
  BY <1>2, OptionalsStand
<1>4. /\ Inputs!Get(n, "job_id") = j /\ Inputs!Get(n, "repo_id") = p /\ Inputs!Get(n, "task_id") = t
      /\ Inputs!Shaped(n, {}, {"job_id", "repo_id", "task_id"})
  BY <1>1 DEF Inputs!Get, Inputs!Shaped
<1>5. Inputs!JobLookup(n) = {n}
  BY <1>1, <1>3, <1>4 DEF Inputs!JobLookup
<1>6. QED
  BY <1>1, <1>3, <1>5 DEF Fit

(* The waypoints are a tuple until JSON makes a list of them again. *)
LEMMA MapsDirectionsStands ==
  ASSUME NEW r, Input(r), NEW n \in Inputs!MapsDirections(r)
  PROVE  /\ Inputs!MapsDirections(Inputs!InJson(n)) = {n}
         /\ \A f \in DOMAIN n : n[f].is # "sealed"
<1> DEFINE words == {"driving", "walking", "bicycling", "transit"}
           no == [is |-> "bool", b |-> FALSE]
           fields == {"origin", "destination", "travel_mode", "waypoints", "optimize_order"}
<1>1. PICK o \in Inputs!BlankIsNull(Inputs!Get(r, "origin")),
           d \in Inputs!BlankIsNull(Inputs!Get(r, "destination")),
           m \in Inputs!OneOfOr(Inputs!GetOr(r, "travel_mode", Inputs!EmptyText), words, "driving"),
           w \in Inputs!FewTexts(Inputs!GetOr(r, "waypoints", Inputs!List(<< >>))),
           b \in Inputs!Flag(Inputs!GetOr(r, "optimize_order", no)) :
        n = [origin |-> o, destination |-> d, travel_mode |-> m,
             waypoints |-> [w EXCEPT !.is = "tuple"], optimize_order |-> b]
  BY DEF Inputs!MapsDirections
<1>2. /\ Inputs!BlankIsNull(o) = {o} /\ Inputs!BlankIsNull(d) = {d}
      /\ o.is \in {"text", "null"} /\ d.is \in {"text", "null"}
  BY <1>1, GetsValue, OptionalsStand
<1>3. Inputs!OneOfOr(m, words, "driving") = {m} /\ m.is = "text"
  <2>1. "driving" \in words /\ NoBlank(words)
    BY DEF NoBlank
  <2> HIDE DEF words
  <2>2. QED
    BY <1>1, <2>1, UsualWord
<1>4. Inputs!FewTexts(w) = {w} /\ w \in Lists(Clean)
  <2>1. Inputs!GetOr(r, "waypoints", Inputs!List(<< >>)) \in Value
    <3>1. Inputs!List(<< >>) \in Value
      <4>1. << >> \in Seq(Item)
        OBVIOUS
      <4>2. QED
        BY <4>1 DEF Value, ListValue, Inputs!List
    <3>2. QED
      BY <3>1 DEF Inputs!GetOr, Input
  <2>2. w \in FewOf(Clean)
    BY <1>1, <2>1, StringListStands
  <2>3. QED
    BY <2>2, StringListStands, FewStand
<1>5. Inputs!Flag(b) = {b} /\ b.is = "bool"
  BY <1>1, RangesStand
<1> DEFINE tuple == [w EXCEPT !.is = "tuple"]
           k == [origin |-> o, destination |-> d, travel_mode |-> m, waypoints |-> w, optimize_order |-> b]
<1>6. tuple.is = "tuple" /\ Inputs!List(tuple.items) = w
  BY <1>4 DEF Lists, Inputs!List
<1>7. n = [origin |-> o, destination |-> d, travel_mode |-> m, waypoints |-> tuple, optimize_order |-> b]
  BY <1>1
<1> HIDE DEF tuple
<1>8. /\ Inputs!Json(o) = o /\ Inputs!Json(d) = d /\ Inputs!Json(m) = m /\ Inputs!Json(b) = b
      /\ Inputs!Json(tuple) = w
  BY <1>2, <1>3, <1>5, <1>6 DEF Inputs!Json
<1>9. Inputs!InJson(n) = k
  BY <1>7, <1>8 DEF Inputs!InJson
<1>10. /\ Inputs!Get(k, "origin") = o /\ Inputs!Get(k, "destination") = d
       /\ Inputs!GetOr(k, "travel_mode", Inputs!EmptyText) = m
       /\ Inputs!GetOr(k, "waypoints", Inputs!List(<< >>)) = w
       /\ Inputs!GetOr(k, "optimize_order", no) = b /\ Inputs!Shaped(k, {}, fields)
  BY DEF Inputs!Get, Inputs!GetOr, Inputs!Shaped
<1> HIDE DEF k
<1>11. Inputs!MapsDirections(k) = {[origin |-> o, destination |-> d, travel_mode |-> m,
                                    waypoints |-> [w EXCEPT !.is = "tuple"], optimize_order |-> b]}
  BY <1>2, <1>3, <1>4, <1>5, <1>10 DEF Inputs!MapsDirections
<1>12. QED
  BY <1>1, <1>2, <1>3, <1>5, <1>6, <1>7, <1>9, <1>11

(* What is evidence of a time zone, and what constrains the slots. *)
LEMMA TimezoneStands ==
  ASSUME NEW v \in Value, NEW w \in Inputs!TimezoneEvidence(v)
  PROVE  Inputs!TimezoneEvidence(w) = {w} /\ w.is = "timezone"
<1>1. PICK s \in Inputs!Optional(v.source), t \in Inputs!Optional(v.rationale),
           c \in Inputs!Confidence(v.confidence) :
        w = [is |-> "timezone", source |-> s, rationale |-> t, confidence |-> c] /\ v.is = "timezone"
  BY DEF Inputs!TimezoneEvidence
<1>2. v.source \in Value /\ v.rationale \in Value
  BY <1>1, Tags DEF Value, Item
<1>3. Inputs!Optional(s) = {s} /\ Inputs!Optional(t) = {t}
  BY <1>1, <1>2, OptionalsStand
<1>4. Inputs!Confidence(c) = {c}
  BY <1>1, RangesStand DEF Inputs!Confidence
<1>5. QED
  BY <1>1, <1>3, <1>4 DEF Inputs!TimezoneEvidence

(* The constraints of a meeting. *)
LEMMA ConstraintsStand ==
  ASSUME NEW v \in Value, NEW w \in Inputs!Constraints(v)
  PROVE  Inputs!Constraints(w) = {w} /\ w.is = "constraints"
<1>1. PICK h \in Inputs!StringList(v.hard), s \in Inputs!StringList(v.soft),
           n \in Inputs!StringList(v.attendee_notes) :
        w = [is |-> "constraints", hard |-> h, soft |-> s, attendee_notes |-> n] /\ v.is = "constraints"
  BY DEF Inputs!Constraints
<1>2. v.hard \in Value /\ v.soft \in Value /\ v.attendee_notes \in Value
  BY <1>1, Tags DEF Value, Item
<1>3. Inputs!StringList(h) = {h} /\ Inputs!StringList(s) = {s} /\ Inputs!StringList(n) = {n}
  BY <1>1, <1>2, StringListStands
<1>4. QED
  BY <1>1, <1>3 DEF Inputs!Constraints

(* ProposeSlots: its result passes it unchanged. *)
LEMMA ProposeSlotsStands ==
  ASSUME NEW r, Input(r), NEW n \in Inputs!ProposeSlots(r)
  PROVE  Inputs!ProposeSlots(n) = {n} /\ Fit(n)
<1> DEFINE fields == {"window_start", "window_end", "duration_minutes", "attendees", "timezone",
                      "source_evidence_ids", "quoted_content_caveat", "participants",
                      "proposed_windows", "timezone_evidence", "constraints"}
<1>1. PICK w \in Inputs!Window(r.window_start, r.window_end),
           d \in Inputs!Within(r.duration_minutes, 5, 480),
           a \in Inputs!Each(r.attendees, Inputs!Lowered),
           z \in Inputs!Trimmed(r.timezone),
           e \in Inputs!FewTexts(r.source_evidence_ids),
           q \in Inputs!Flag(r.quoted_content_caveat),
           p \in Inputs!FewTexts(r.participants),
           s \in Inputs!FewWindows(r.proposed_windows),
           t \in Inputs!TimezoneEvidence(r.timezone_evidence),
           c \in Inputs!Constraints(r.constraints) :
        /\ n = [window_start |-> w[1], window_end |-> w[2], duration_minutes |-> d, attendees |-> a,
                timezone |-> z, source_evidence_ids |-> e, quoted_content_caveat |-> q,
                participants |-> p, proposed_windows |-> s, timezone_evidence |-> t, constraints |-> c]
        /\ DOMAIN r = fields
  BY DEF Inputs!ProposeSlots
<1>2. /\ w = <<w[1], w[2]>> /\ Inputs!Window(w[1], w[2]) = {w} /\ w[1].is = "text" /\ w[2].is = "text"
  BY <1>1, WindowStands
<1>3. Inputs!Within(d, 5, 480) = {d} /\ d.is = "int" /\ Inputs!Flag(q) = {q} /\ q.is = "bool"
  <2>1. Inputs!Within(d, 5, 480) = {d} /\ d.is = "int"
    BY <1>1, RangesStand
  <2>2. Inputs!Flag(q) = {q} /\ q.is = "bool"
    BY <1>1, RangesStand
  <2>3. QED
    BY <2>1, <2>2
<1>4. /\ r.attendees \in Value /\ r.timezone \in Value /\ r.source_evidence_ids \in Value
      /\ r.participants \in Value /\ r.proposed_windows \in Value /\ r.timezone_evidence \in Value
      /\ r.constraints \in Value
  BY <1>1 DEF Input
<1>5. Inputs!Each(a, Inputs!Lowered) = {a} /\ a.is = "list"
  BY <1>1, <1>4, EachLowered, ItemsOf
<1>6. Inputs!Trimmed(z) = {z} /\ z.is = "text"
  BY <1>1, <1>4, TrimmedStands
<1>7. /\ Inputs!FewTexts(e) = {e} /\ e.is = "list" /\ Inputs!FewTexts(p) = {p} /\ p.is = "list"
      /\ Inputs!FewWindows(s) = {s} /\ s.is = "list"
  BY <1>1, <1>4, StringListStands, FewStand
<1>8. Inputs!TimezoneEvidence(t) = {t} /\ t.is = "timezone" /\ Inputs!Constraints(c) = {c} /\ c.is = "constraints"
  BY <1>1, <1>4, TimezoneStands, ConstraintsStand
<1>9. /\ n.window_start = w[1] /\ n.window_end = w[2] /\ n.duration_minutes = d /\ n.attendees = a
      /\ n.timezone = z /\ n.source_evidence_ids = e /\ n.quoted_content_caveat = q
      /\ n.participants = p /\ n.proposed_windows = s /\ n.timezone_evidence = t /\ n.constraints = c
      /\ DOMAIN n = fields
  BY <1>1
<1>10. Inputs!ProposeSlots(n) = {n}
  BY <1>1, <1>2, <1>3, <1>5, <1>6, <1>7, <1>8, <1>9 DEF Inputs!ProposeSlots
<1>11. Fit(n)
  BY <1>1, <1>2, <1>3, <1>5, <1>6, <1>7, <1>8 DEF Fit
<1>12. QED
  BY <1>10, <1>11

(* A flag that may be left out. *)
LEMMA FlagOrNotStands ==
  ASSUME NEW v, NEW w \in Inputs!FlagOrNot(v)
  PROVE  Inputs!FlagOrNot(w) = {w} /\ w.is = "bool"
  BY RangesStand DEF Inputs!FlagOrNot, Inputs!Flag, Inputs!Null

(* AgencyRun: its result passes it unchanged. *)
LEMMA AgencyRunStands ==
  ASSUME NEW r, Input(r), NEW n \in Inputs!AgencyRun(r)
  PROVE  Inputs!AgencyRun(n) = {n} /\ Fit(n)
<1> DEFINE fields == {"repo_root", "name", "prompt", "base_branch", "runner", "runner_args", "env",
                      "no_include_untracked"}
<1>1. PICK p \in Inputs!Trimmed(Inputs!Get(r, "repo_root")), m \in Inputs!Trimmed(Inputs!Get(r, "name")),
           t \in Inputs!Trimmed(Inputs!Get(r, "prompt")),
           b \in Inputs!TrimmedOrNull(Inputs!Get(r, "base_branch")),
           u \in Inputs!TrimmedOrNull(Inputs!Get(r, "runner")),
           a \in Inputs!StringList(Inputs!Get(r, "runner_args")), e \in Inputs!Env(Inputs!Get(r, "env")),
           x \in Inputs!FlagOrNot(Inputs!Get(r, "no_include_untracked")) :
        n = [repo_root |-> p, name |-> m, prompt |-> t, base_branch |-> b, runner |-> u,
             runner_args |-> a, env |-> e, no_include_untracked |-> x]
  BY DEF Inputs!AgencyRun
<1>2. /\ Inputs!Trimmed(p) = {p} /\ p.is = "text" /\ Inputs!Trimmed(m) = {m} /\ m.is = "text"
      /\ Inputs!Trimmed(t) = {t} /\ t.is = "text"
  BY <1>1, GetsValue, TrimmedStands
<1>3. /\ Inputs!TrimmedOrNull(b) = {b} /\ b.is \in {"text", "null"}
      /\ Inputs!TrimmedOrNull(u) = {u} /\ u.is \in {"text", "null"}
  BY <1>1, GetsValue, OptionalsStand
<1>4. Inputs!StringList(a) = {a} /\ a.is = "list" /\ Inputs!Env(e) = {e} /\ e.is = "list"
  BY <1>1, GetsValue, StringListStands, FewStand
<1>5. Inputs!FlagOrNot(x) = {x} /\ x.is = "bool"
  BY <1>1, FlagOrNotStands
<1>6. /\ Inputs!Get(n, "repo_root") = p /\ Inputs!Get(n, "name") = m /\ Inputs!Get(n, "prompt") = t
      /\ Inputs!Get(n, "base_branch") = b /\ Inputs!Get(n, "runner") = u
      /\ Inputs!Get(n, "runner_args") = a /\ Inputs!Get(n, "env") = e
      /\ Inputs!Get(n, "no_include_untracked") = x /\ Inputs!Shaped(n, {}, fields)
  BY <1>1 DEF Inputs!Get, Inputs!Shaped
<1>7. Inputs!AgencyRun(n) = {n}
  BY <1>1, <1>2, <1>3, <1>4, <1>5, <1>6 DEF Inputs!AgencyRun
<1>8. QED
  BY <1>1, <1>2, <1>3, <1>4, <1>5, <1>7 DEF Fit

(* Parts of an input, put together: a field that one part has is its field.*)
LEMMA TogetherIs ==
  ASSUME NEW S
  PROVE  /\ \A f : f \in DOMAIN Inputs!Together(S) <=> \E x \in S : f \in DOMAIN x
         /\ Inputs!Together(S) = [f \in DOMAIN Inputs!Together(S) |-> Inputs!Together(S)[f]]
<1>1. DOMAIN Inputs!Together(S) = UNION {DOMAIN x : x \in S}
  BY DEF Inputs!Together
<1>2. \A f : f \in UNION {DOMAIN x : x \in S} <=> \E x \in S : f \in DOMAIN x
  OBVIOUS
<1>3. Inputs!Together(S) = [f \in DOMAIN Inputs!Together(S) |-> Inputs!Together(S)[f]]
  BY DEF Inputs!Together
<1>4. QED
  BY <1>1, <1>2, <1>3
(* No other part than x has the field. *)
Only(S, x, f) == x \in S /\ \A y \in S : f \in DOMAIN y => y = x
LEMMA TogetherHas ==
  ASSUME NEW S, NEW x, NEW f, Only(S, x, f)
  PROVE  Inputs!Get(Inputs!Together(S), f) = Inputs!Get(x, f)
<1>1. x \in S /\ \A y \in S : f \in DOMAIN y => y = x
  BY DEF Only
<1>2. CASE f \in DOMAIN x
  <2>1. (CHOOSE y \in S : f \in DOMAIN y) = x
    BY <1>1, <1>2
  <2>2. f \in DOMAIN Inputs!Together(S)
    BY <1>1, <1>2, TogetherIs
  <2>3. Inputs!Together(S)[f] = x[f]
    BY <2>1, <2>2 DEF Inputs!Together
  <2>4. QED
    BY <1>2, <2>2, <2>3 DEF Inputs!Get
<1>3. CASE f \notin DOMAIN x
  <2>1. f \notin DOMAIN Inputs!Together(S)
    BY <1>1, <1>3, TogetherIs
  <2>2. QED
    BY <1>3, <2>1 DEF Inputs!Get
<1>4. QED
  BY <1>2, <1>3

(* Parts that are fit are fit together. *)
LEMMA TogetherFits ==
  ASSUME NEW S, \A x \in S : Fit(x)
  PROVE  Fit(Inputs!Together(S))
<1>1. ASSUME NEW f \in DOMAIN Inputs!Together(S)
      PROVE  Inputs!Together(S)[f].is \notin {"tuple", "sealed"}
  <2> DEFINE y == CHOOSE x \in S : f \in DOMAIN x
  <2>1. \E x \in S : f \in DOMAIN x
    BY TogetherIs
  <2>2. y \in S /\ f \in DOMAIN y
    BY <2>1
  <2>3. Inputs!Together(S)[f] = y[f]
    BY DEF Inputs!Together
  <2> HIDE DEF y
  <2>4. QED
    BY <2>2, <2>3 DEF Fit
<1>2. QED
  BY <1>1, TogetherIs DEF Fit

(* What a write rests on. *)
Basis == {"source_evidence_id", "user_instruction_ref"}
LEMMA KeyAndHas ==
  ASSUME NEW k, NEW w, NEW f \in Basis
  PROVE  /\ DOMAIN Inputs!KeyAnd(k, f, w) = {"idempotency_key", f}
         /\ Inputs!Get(Inputs!KeyAnd(k, f, w), "idempotency_key") = k
         /\ Inputs!Get(Inputs!KeyAnd(k, f, w), f) = w
<1> DEFINE x == Inputs!Field("idempotency_key", k)
           y == Inputs!Field(f, w)
           S == {x, y}
<1>1. /\ DOMAIN x = {"idempotency_key"} /\ DOMAIN y = {f}
      /\ Inputs!Get(x, "idempotency_key") = k /\ Inputs!Get(y, f) = w
  BY DEF Inputs!Field, Inputs!Get
<1>2. Inputs!KeyAnd(k, f, w) = Inputs!Together(S)
  BY DEF Inputs!KeyAnd
<1> HIDE DEF x, y
<1>3. Only(S, x, "idempotency_key") /\ Only(S, y, f)
  BY <1>1 DEF Only, Basis
<1>4. DOMAIN Inputs!Together(S) = {"idempotency_key", f}
  <2>1. \A g : (\E z \in S : g \in DOMAIN z) <=> g \in {"idempotency_key", f}
    BY <1>1
  <2> HIDE DEF S
  <2>2. \A g : g \in DOMAIN Inputs!Together(S) <=> g \in {"idempotency_key", f}
    BY <2>1, TogetherIs
  <2>3. QED
    BY <2>2
<1> HIDE DEF S
<1>5. /\ Inputs!Get(Inputs!Together(S), "idempotency_key") = Inputs!Get(x, "idempotency_key")
      /\ Inputs!Get(Inputs!Together(S), f) = Inputs!Get(y, f)
  BY <1>3, TogetherHas
<1>6. QED
  BY <1>1, <1>2, <1>4, <1>5

(* The one member of a set. *)
LEMMA SoleOf ==
  ASSUME NEW x
  PROVE  Inputs!Sole({x}) = x
  BY DEF Inputs!Sole

(* A write rests on one of the two, and its authority is made of trimmed texts. *)
LEMMA AuthorityIs ==
  ASSUME NEW r, Input(r), NEW a \in Inputs!Authority(r)
  PROVE  \E f \in Basis, k \in Clean, w \in Clean : a = Inputs!KeyAnd(k, f, w)
<1>1. a \in Inputs!AuthorityFrom(r, Inputs!Sole(Inputs!Rests(r)))
  BY DEF Inputs!Authority
<1>2. PICK f \in Inputs!Rests(r) : Inputs!Rests(r) = {f}
  BY DEF Inputs!Authority
<1>3. f \in Basis /\ Inputs!Get(r, f) # Inputs!Null /\ Inputs!Sole(Inputs!Rests(r)) = f
  BY <1>2, SoleOf DEF Inputs!Rests, Basis
<1>4. PICK k \in Inputs!Trimmed(Inputs!Get(r, "idempotency_key")), w \in Inputs!Trimmed(r[f]) :
        a = Inputs!KeyAnd(k, f, w)
  BY <1>1, <1>3 DEF Inputs!AuthorityFrom
<1>5. k \in Clean /\ w \in Clean
  <2>1. r[f] \in Value
    BY <1>3 DEF Inputs!Get, Input
  <2>2. QED
    BY <1>4, <2>1, GetsValue, TrimmedStands
<1>6. QED
  BY <1>3, <1>4, <1>5

(* The authority of an input with the fields of an authority is that one.  *)
LEMMA AuthorityStands ==
  ASSUME NEW r, Input(r), NEW a \in Inputs!Authority(r)
  PROVE  /\ DOMAIN a \subseteq Inputs!AuthorityFields /\ Fit(a)
         /\ \A n : (\A f \in Inputs!AuthorityFields : Inputs!Get(n, f) = Inputs!Get(a, f))
                     => Inputs!Authority(n) = {a}
<1>1. PICK f \in Basis, k \in Clean, w \in Clean : a = Inputs!KeyAnd(k, f, w)
  BY AuthorityIs
<1>2. /\ DOMAIN a = {"idempotency_key", f}
      /\ Inputs!Get(a, "idempotency_key") = k /\ Inputs!Get(a, f) = w
  BY <1>1, KeyAndHas
<1>3. w # Inputs!Null /\ k.is = "text" /\ w.is = "text" /\ Inputs!Trimmed(k) = {k} /\ Inputs!Trimmed(w) = {w}
  BY TrimmedStands
<1>4. ASSUME NEW n, \A g \in Inputs!AuthorityFields : Inputs!Get(n, g) = Inputs!Get(a, g)
      PROVE  Inputs!Authority(n) = {a}
  <2>1. \A g \in Basis : Inputs!Get(n, g) = IF g = f THEN w ELSE Inputs!Null
    BY <1>2, <1>4 DEF Inputs!AuthorityFields, Basis, Inputs!Get
  <2>2. Inputs!Rests(n) = {f}
    BY <1>3, <2>1 DEF Inputs!Rests, Basis
  <2>3. Inputs!Sole(Inputs!Rests(n)) = f
    BY <2>2, SoleOf
  <2>4. Inputs!Trimmed(Inputs!Get(n, "idempotency_key")) = {k}
    BY <1>2, <1>3, <1>4 DEF Inputs!AuthorityFields
  <2>5. n[f] = w
    BY <1>3, <2>1 DEF Inputs!Get
  <2>6. Inputs!AuthorityFrom(n, f) = {a}
    BY <1>1, <1>3, <2>4, <2>5 DEF Inputs!AuthorityFrom
  <2>7. QED
    BY <2>2, <2>3, <2>6 DEF Inputs!Authority
<1>5. DOMAIN a \subseteq Inputs!AuthorityFields
  BY <1>2 DEF Inputs!AuthorityFields, Basis
<1>6. Fit(a)
  <2>1. a = [g \in DOMAIN a |-> a[g]]
    BY <1>1, TogetherIs DEF Inputs!KeyAnd
  <2>2. a["idempotency_key"] = k /\ a[f] = w
    BY <1>2 DEF Inputs!Get
  <2>3. QED
    BY <1>2, <1>3, <2>1, <2>2 DEF Fit
<1>7. QED
  BY <1>4, <1>5, <1>6

(* A calendar, if one is named. *)
LEMMA CalendarIdStands ==
  ASSUME NEW v \in Value, NEW c \in Inputs!CalendarId(v)
  PROVE  /\ DOMAIN c \subseteq {"calendar_id"} /\ Fit(c)
         /\ Inputs!CalendarId(Inputs!Get(c, "calendar_id")) = {c}
<1>1. CASE c = Inputs!NoField
  BY <1>1 DEF Inputs!NoField, Fit, Inputs!Get, Inputs!CalendarId
<1>2. CASE c # Inputs!NoField
  <2>1. v.is = "text" /\ v.word # "" /\ c = Inputs!Field("calendar_id", Inputs!Strip(v))
    BY <1>2 DEF Inputs!CalendarId, Inputs!IsText
  <2> DEFINE w == Inputs!Strip(v)
  <2>2. v \in TextValue
    BY <2>1, Tags
  <2>3. w \in TextValue /\ w.word # "" /\ Inputs!Strip(w) = w
    BY <2>1, <2>2, StripStands
  <2> HIDE DEF w
  <2>4. w.is = "text" /\ w # Inputs!Null
    <3>1. w.is = "text" /\ Inputs!Null.is = "null"
      BY <2>3 DEF TextValue, Inputs!Null
    <3>2. QED
      BY <3>1
  <2>5. c = Inputs!Field("calendar_id", w)
    BY <2>1 DEF w
  <2>6. DOMAIN c = {"calendar_id"} /\ c["calendar_id"] = w /\ Inputs!Get(c, "calendar_id") = w
        /\ c = [f \in DOMAIN c |-> c[f]]
    BY <2>5 DEF Inputs!Field, Inputs!Get
  <2>7. Inputs!CalendarId(w) = {c}
    BY <2>3, <2>4, <2>5 DEF Inputs!CalendarId, Inputs!IsText
  <2>8. QED
    BY <2>4, <2>6, <2>7 DEF Fit
<1>3. QED
  BY <1>1, <1>2

(* A normal input put together of two parts without a common field. *)
LEMMA TwoParts ==
  ASSUME NEW x, NEW y, Fit(x), Fit(y), DOMAIN x \cap DOMAIN y = {}
  PROVE  LET n == Inputs!Together({x, y})
         IN  /\ Fit(n)
             /\ \A f : f \in DOMAIN n <=> f \in DOMAIN x \/ f \in DOMAIN y
             /\ \A f \in DOMAIN x : Inputs!Get(n, f) = x[f] /\ n[f] = x[f]
             /\ \A f : f \notin DOMAIN x => Inputs!Get(n, f) = Inputs!Get(y, f)
<1> DEFINE n == Inputs!Together({x, y})
<1>1. Fit(n)
  BY TogetherFits
<1>2. \A f : f \in DOMAIN n <=> f \in DOMAIN x \/ f \in DOMAIN y
  BY TogetherIs
<1>3. ASSUME NEW f, f \in DOMAIN x PROVE Inputs!Get(n, f) = x[f] /\ n[f] = x[f]
  <2>1. Only({x, y}, x, f)
    BY <1>3 DEF Only
  <2>2. Inputs!Get(n, f) = Inputs!Get(x, f)
    BY <2>1, TogetherHas
  <2> HIDE DEF n
  <2>3. QED
    BY <1>2, <1>3, <2>2 DEF Inputs!Get
<1>4. ASSUME NEW f, f \notin DOMAIN x PROVE Inputs!Get(n, f) = Inputs!Get(y, f)
  <2>1. Only({x, y}, y, f)
    BY <1>4 DEF Only
  <2>2. QED
    BY <2>1, TogetherHas
<1>5. QED
  BY <1>1, <1>2, <1>3, <1>4

(* A write and its authority. *)
LEMMA WithAuthority ==
  ASSUME NEW r, Input(r), NEW a \in Inputs!Authority(r),
         NEW x, Fit(x), DOMAIN x \cap Inputs!AuthorityFields = {}
  PROVE  LET n == Inputs!Together({x, a})
         IN  /\ Fit(n) /\ Inputs!Authority(n) = {a}
             /\ DOMAIN x \subseteq DOMAIN n /\ DOMAIN n \subseteq DOMAIN x \cup Inputs!AuthorityFields
             /\ \A f \in DOMAIN x : Inputs!Get(n, f) = x[f] /\ n[f] = x[f]
<1> DEFINE n == Inputs!Together({x, a})
<1>1. Fit(a) /\ DOMAIN a \subseteq Inputs!AuthorityFields
  BY AuthorityStands
<1>2. DOMAIN x \cap DOMAIN a = {}
  BY <1>1
<1>3. /\ Fit(n)
      /\ \A f : f \in DOMAIN n <=> f \in DOMAIN x \/ f \in DOMAIN a
      /\ \A f \in DOMAIN x : Inputs!Get(n, f) = x[f] /\ n[f] = x[f]
      /\ \A f : f \notin DOMAIN x => Inputs!Get(n, f) = Inputs!Get(a, f)
  BY <1>1, <1>2, TwoParts
<1> HIDE DEF n
<1>4. Inputs!Authority(n) = {a}
  BY <1>3, AuthorityStands
<1>5. QED
  BY <1>1, <1>3, <1>4 DEF n

(* A write, its authority and the calendar it is about. *)
LEMMA WithCalendar ==
  ASSUME NEW r, Input(r), NEW a \in Inputs!Authority(r), NEW v \in Value, NEW c \in Inputs!CalendarId(v),
         NEW x, Fit(x), DOMAIN x \cap Inputs!AuthorityFields = {}, "calendar_id" \notin DOMAIN x
  PROVE  LET n == Inputs!Together({x, a, c})
         IN  /\ Fit(n) /\ Inputs!Authority(n) = {a} /\ Inputs!CalendarId(Inputs!Get(n, "calendar_id")) = {c}
             /\ DOMAIN x \subseteq DOMAIN n
             /\ DOMAIN n \subseteq DOMAIN x \cup Inputs!AuthorityFields \cup {"calendar_id"}
             /\ \A f \in DOMAIN x : Inputs!Get(n, f) = x[f] /\ n[f] = x[f]
<1> DEFINE S == {x, a, c}
           n == Inputs!Together(S)
<1>1. /\ Fit(a) /\ DOMAIN a \subseteq Inputs!AuthorityFields
      /\ Fit(c) /\ DOMAIN c \subseteq {"calendar_id"}
      /\ Inputs!CalendarId(Inputs!Get(c, "calendar_id")) = {c}
      /\ "calendar_id" \notin Inputs!AuthorityFields
  BY AuthorityStands, CalendarIdStands DEF Inputs!AuthorityFields
<1>2. Fit(n)
  BY <1>1, TogetherFits
<1>3. \A f : f \in DOMAIN n <=> f \in DOMAIN x \/ f \in DOMAIN a \/ f \in DOMAIN c
  BY TogetherIs
<1>4. /\ \A f \in DOMAIN x : Only(S, x, f)
      /\ \A f \in Inputs!AuthorityFields : Only(S, a, f)
      /\ Only(S, c, "calendar_id")
  BY <1>1 DEF Only
<1> HIDE DEF S
<1>5. /\ \A f \in DOMAIN x : Inputs!Get(n, f) = Inputs!Get(x, f)
      /\ \A f \in Inputs!AuthorityFields : Inputs!Get(n, f) = Inputs!Get(a, f)
      /\ Inputs!Get(n, "calendar_id") = Inputs!Get(c, "calendar_id")
  BY <1>4, TogetherHas
<1> HIDE DEF n
<1>6. Inputs!Authority(n) = {a}
  BY <1>5, AuthorityStands
<1>7. \A f \in DOMAIN x : Inputs!Get(n, f) = x[f] /\ n[f] = x[f]
  BY <1>3, <1>5 DEF Inputs!Get
<1>8. QED
  BY <1>1, <1>2, <1>3, <1>5, <1>6, <1>7 DEF n, S

(* CalendarList: its result passes it unchanged. *)
LEMMA CalendarListStands ==
  ASSUME NEW r, Input(r), NEW n \in Inputs!CalendarList(r)
  PROVE  Inputs!CalendarList(n) = {n} /\ Fit(n)
<1> DEFINE c == Inputs!CalendarIdAsIs(r)
<1>1. PICK w \in Inputs!Window(r.window_start, r.window_end) :
        n = Inputs!Together({[window_start |-> w[1], window_end |-> w[2]], c})
  BY DEF Inputs!CalendarList
<1>2. "calendar_id" \in DOMAIN r => Inputs!CalendarIdVerbatim(r.calendar_id)
  BY DEF Inputs!CalendarList
<1>3. /\ Inputs!Window(w[1], w[2]) = {w} /\ w[1].is = "text" /\ w[2].is = "text"
  BY <1>1, WindowStands
<1>4. /\ Fit(c) /\ c = [f \in DOMAIN c |-> c[f]] /\ DOMAIN c \subseteq {"calendar_id"}
      /\ "calendar_id" \in DOMAIN c => Inputs!CalendarIdVerbatim(c["calendar_id"])
  BY <1>2 DEF Inputs!CalendarIdAsIs, Inputs!CalendarIdVerbatim, Inputs!IsText, Inputs!Field, Inputs!NoField, Fit
<1> HIDE DEF c
<1> DEFINE x == [window_start |-> w[1], window_end |-> w[2]]
<1>5. Fit(x) /\ DOMAIN x = {"window_start", "window_end"}
  BY <1>3 DEF Fit
<1>6. x["window_start"] = w[1] /\ x["window_end"] = w[2]
  OBVIOUS
<1> HIDE DEF x
<1>7. n = Inputs!Together({x, c})
  BY <1>1 DEF x
<1>8. DOMAIN x \cap DOMAIN c = {}
  BY <1>4, <1>5
<1>9. /\ Fit(n)
      /\ \A f : f \in DOMAIN n <=> f \in {"window_start", "window_end"} \/ f \in DOMAIN c
      /\ n["window_start"] = w[1] /\ n["window_end"] = w[2]
      /\ \A f : f \notin DOMAIN x => Inputs!Get(n, f) = Inputs!Get(c, f)
  BY <1>4, <1>5, <1>6, <1>7, <1>8, TwoParts
<1>10. Inputs!Shaped(n, {"window_start", "window_end"}, {"calendar_id"})
  BY <1>4, <1>9 DEF Inputs!Shaped
<1>11. "calendar_id" \in DOMAIN n => n["calendar_id"] = c["calendar_id"]
  BY <1>4, <1>5, <1>9 DEF Inputs!Get
<1>12. Inputs!CalendarIdAsIs(n) = c
  <2>1. CASE "calendar_id" \in DOMAIN n
    <3>1. DOMAIN c = {"calendar_id"}
      BY <1>4, <1>9, <2>1
    <3>2. QED
      BY <1>4, <1>11, <2>1, <3>1 DEF Inputs!CalendarIdAsIs, Inputs!Field
  <2>2. CASE "calendar_id" \notin DOMAIN n
    <3>1. DOMAIN c = {}
      BY <1>4, <1>9, <2>2
    <3>2. QED
      BY <1>4, <2>2, <3>1 DEF Inputs!CalendarIdAsIs, Inputs!NoField
  <2>3. QED
    BY <2>1, <2>2
<1>13. Inputs!Window(n.window_start, n.window_end) = {w}
  BY <1>3, <1>9
<1>14. Inputs!CalendarList(n) = {Inputs!Together({[window_start |-> v[1], window_end |-> v[2]], c}) : v \in {w}}
  BY <1>4, <1>9, <1>10, <1>11, <1>12, <1>13 DEF Inputs!CalendarList
<1>15. QED
  BY <1>1, <1>9, <1>14

(* DriveShare: its result passes it unchanged. *)
LEMMA DriveShareStands ==
  ASSUME NEW r, Input(r), NEW n \in Inputs!DriveShare(r)
  PROVE  Inputs!DriveShare(n) = {n} /\ Fit(n)
<1> DEFINE words == {"reader", "commenter", "writer"}
           fields == {"file_id", "grantee_email", "role"}
<1>1. PICK a \in Inputs!Authority(r), f \in Inputs!Trimmed(Inputs!Get(r, "file_id")),
           g \in Inputs!Recipient(Inputs!Get(r, "grantee_email")),
           o \in Inputs!OneOf(Inputs!GetOr(r, "role", Inputs!Reader), words) :
        n = Inputs!Together({[file_id |-> f, grantee_email |-> g, role |-> o], a})
  BY DEF Inputs!DriveShare
<1>2. f \in Clean /\ g \in Mailbox /\ o \in Choices(words)
  BY <1>1, GetsValue, TrimmedStands, RecipientStands, ChoicesStand
<1>3. /\ Inputs!Trimmed(f) = {f} /\ Inputs!Recipient(g) = {g} /\ Inputs!OneOf(o, words) = {o}
      /\ f.is = "text" /\ g.is = "text" /\ o.is = "text"
  BY <1>2, TrimmedStands, RecipientStands, LoweredStands, ChoicesStand
<1> DEFINE x == [file_id |-> f, grantee_email |-> g, role |-> o]
<1>4. Fit(x) /\ DOMAIN x = fields /\ x["file_id"] = f /\ x["grantee_email"] = g /\ x["role"] = o
  BY <1>3 DEF Fit
<1> HIDE DEF x
<1>5. n = Inputs!Together({x, a})
  BY <1>1 DEF x
<1>6. DOMAIN x \cap Inputs!AuthorityFields = {}
  BY <1>4 DEF Inputs!AuthorityFields
<1>7. /\ Fit(n) /\ Inputs!Authority(n) = {a} /\ DOMAIN n \subseteq fields \cup Inputs!AuthorityFields
      /\ Inputs!Get(n, "file_id") = f /\ Inputs!Get(n, "grantee_email") = g
      /\ "role" \in DOMAIN n /\ n["role"] = o
  BY <1>4, <1>5, <1>6, WithAuthority
<1>8. Inputs!Shaped(n, {}, fields \cup Inputs!AuthorityFields)
  BY <1>7 DEF Inputs!Shaped
<1>9. Inputs!GetOr(n, "role", Inputs!Reader) = o
  BY <1>7 DEF Inputs!GetOr
<1>10. Inputs!DriveShare(n) = {n}
  <2> DEFINE Made(a1, f1, g1, o1) ==
               Inputs!Together({[file_id |-> f1, grantee_email |-> g1, role |-> o1], a1})
  <2>1. Inputs!DriveShare(n) =
          {Made(a1, f1, g1, o1) :
             a1 \in Inputs!Authority(n), f1 \in Inputs!Trimmed(Inputs!Get(n, "file_id")),
             g1 \in Inputs!Recipient(Inputs!Get(n, "grantee_email")),
             o1 \in Inputs!OneOf(Inputs!GetOr(n, "role", Inputs!Reader), words)}
    BY <1>8 DEF Inputs!DriveShare
  <2>2. n = Made(a, f, g, o)
    BY <1>1
  <2> HIDE DEF Made
  <2>3. QED
    BY <1>3, <1>7, <1>9, <2>1, <2>2
<1>11. QED
  BY <1>7, <1>10

(* BatchMutation: its result passes it unchanged. *)
LEMMA BatchMutationStands ==
  ASSUME NEW r, Input(r), NEW n \in Inputs!BatchMutation(r)
  PROVE  Inputs!BatchMutation(n) = {n} /\ Fit(n)
<1> DEFINE Made(m1, a1) == Inputs!Together({[message_ids |-> m1], a1})
<1>1. PICK a \in Inputs!Authority(r), m \in Inputs!MessageIds(Inputs!Get(r, "message_ids")) : n = Made(m, a)
  BY DEF Inputs!BatchMutation
<1>2. Inputs!MessageIds(m) = {m} /\ m.is = "list"
  BY <1>1, GetsValue, NamesStand
<1> DEFINE x == [message_ids |-> m]
<1>3. Fit(x) /\ DOMAIN x = {"message_ids"} /\ x["message_ids"] = m
  BY <1>2 DEF Fit
<1>4. DOMAIN x \cap Inputs!AuthorityFields = {}
  BY <1>3 DEF Inputs!AuthorityFields
<1> HIDE DEF x
<1>5. n = Inputs!Together({x, a})
  BY <1>1 DEF x
<1>6. /\ Fit(n) /\ Inputs!Authority(n) = {a} /\ DOMAIN n \subseteq {"message_ids"} \cup Inputs!AuthorityFields
      /\ Inputs!Get(n, "message_ids") = m
  BY <1>3, <1>4, <1>5, WithAuthority
<1>7. Inputs!BatchMutation(n) =
        {Made(m1, a1) : a1 \in Inputs!Authority(n), m1 \in Inputs!MessageIds(Inputs!Get(n, "message_ids"))}
  BY <1>6 DEF Inputs!BatchMutation, Inputs!Shaped
<1> HIDE DEF Made
<1>8. QED
  BY <1>1, <1>2, <1>6, <1>7

(* EmailUndo: its result passes it unchanged. *)
LEMMA EmailUndoStands ==
  ASSUME NEW r, Input(r), NEW n \in Inputs!EmailUndo(r)
  PROVE  Inputs!EmailUndo(n) = {n} /\ Fit(n)
<1> DEFINE Made(t1, a1) == Inputs!Together({[undo_token |-> t1], a1})
<1>1. PICK a \in Inputs!Authority(r), t \in Inputs!Trimmed(Inputs!Get(r, "undo_token")) : n = Made(t, a)
  BY DEF Inputs!EmailUndo
<1>2. Inputs!Trimmed(t) = {t} /\ t.is = "text"
  BY <1>1, GetsValue, TrimmedStands
<1> DEFINE x == [undo_token |-> t]
<1>3. Fit(x) /\ DOMAIN x = {"undo_token"} /\ x["undo_token"] = t
  BY <1>2 DEF Fit
<1>4. DOMAIN x \cap Inputs!AuthorityFields = {}
  BY <1>3 DEF Inputs!AuthorityFields
<1> HIDE DEF x
<1>5. n = Inputs!Together({x, a})
  BY <1>1 DEF x
<1>6. /\ Fit(n) /\ Inputs!Authority(n) = {a} /\ DOMAIN n \subseteq {"undo_token"} \cup Inputs!AuthorityFields
      /\ Inputs!Get(n, "undo_token") = t
  BY <1>3, <1>4, <1>5, WithAuthority
<1>7. Inputs!EmailUndo(n) =
        {Made(t1, a1) : a1 \in Inputs!Authority(n), t1 \in Inputs!Trimmed(Inputs!Get(n, "undo_token"))}
  BY <1>6 DEF Inputs!EmailUndo, Inputs!Shaped
<1> HIDE DEF Made
<1>8. QED
  BY <1>1, <1>2, <1>6, <1>7

(* LabelsModify: its result passes it unchanged. *)
LEMMA LabelsModifyStands ==
  ASSUME NEW r, Input(r), NEW n \in Inputs!LabelsModify(r)
  PROVE  Inputs!LabelsModify(n) = {n} /\ Fit(n)
<1> DEFINE fields == {"message_ids", "add_labels", "remove_labels"}
           Made(m1, d1, e1, a1) == Inputs!Together({[message_ids |-> m1, add_labels |-> d1, remove_labels |-> e1], a1})
           Fine(x1) == /\ x1.add_labels.items \o x1.remove_labels.items # << >>
                       /\ Inputs!ToSet(x1.add_labels.items) \cap Inputs!ToSet(x1.remove_labels.items) = {}
<1>1. PICK a \in Inputs!Authority(r), m \in Inputs!MessageIds(Inputs!Get(r, "message_ids")),
           d \in Inputs!LabelNames(Inputs!Get(r, "add_labels")),
           e \in Inputs!LabelNames(Inputs!Get(r, "remove_labels")) :
        n = Made(m, d, e, a) /\ Fine(n)
  BY DEF Inputs!LabelsModify
<1>2. /\ Inputs!MessageIds(m) = {m} /\ Inputs!LabelNames(d) = {d} /\ Inputs!LabelNames(e) = {e}
      /\ m.is = "list" /\ d.is = "list" /\ e.is = "list"
  BY <1>1, GetsValue, NamesStand
<1> DEFINE x == [message_ids |-> m, add_labels |-> d, remove_labels |-> e]
<1>3. Fit(x) /\ DOMAIN x = fields /\ x["message_ids"] = m /\ x["add_labels"] = d /\ x["remove_labels"] = e
  BY <1>2 DEF Fit
<1>4. DOMAIN x \cap Inputs!AuthorityFields = {}
  BY <1>3 DEF Inputs!AuthorityFields
<1> HIDE DEF x
<1>5. n = Inputs!Together({x, a})
  BY <1>1 DEF x
<1>6. /\ Fit(n) /\ Inputs!Authority(n) = {a} /\ DOMAIN n \subseteq fields \cup Inputs!AuthorityFields
      /\ Inputs!Get(n, "message_ids") = m /\ Inputs!Get(n, "add_labels") = d /\ Inputs!Get(n, "remove_labels") = e
  BY <1>3, <1>4, <1>5, WithAuthority
<1>7. Inputs!LabelsModify(n) =
        {x1 \in {Made(m1, d1, e1, a1) : a1 \in Inputs!Authority(n),
                   m1 \in Inputs!MessageIds(Inputs!Get(n, "message_ids")),
                   d1 \in Inputs!LabelNames(Inputs!Get(n, "add_labels")),
                   e1 \in Inputs!LabelNames(Inputs!Get(n, "remove_labels"))} : Fine(x1)}
  BY <1>6 DEF Inputs!LabelsModify, Inputs!Shaped
<1> HIDE DEF Made, Fine
<1>8. QED
  BY <1>1, <1>2, <1>6, <1>7

(* EmailComposition: its result passes it unchanged. *)
LEMMA EmailCompositionStands ==
  ASSUME NEW r, Input(r), NEW n \in Inputs!EmailComposition(r)
  PROVE  Inputs!EmailComposition(n) = {n} /\ Fit(n)
<1> DEFINE fields == {"to", "cc", "bcc", "subject", "body"}
           Made(t1, c1, b1, s1, w1, a1) ==
             Inputs!Together({[to |-> t1, cc |-> c1, bcc |-> b1, subject |-> s1, body |-> w1], a1})
           Fine(x1) == x1.to.items \o x1.cc.items \o x1.bcc.items # << >>
<1>1. PICK a \in Inputs!Authority(r), t \in Inputs!Recipients(r.to),
           c \in Inputs!Recipients(Inputs!Get(r, "cc")), b \in Inputs!Recipients(Inputs!Get(r, "bcc")),
           s \in Inputs!Trimmed(r.subject), w \in Inputs!Trimmed(r.body) :
        n = Made(t, c, b, s, w, a) /\ Fine(n)
  <2>1. n \in {x1 \in {Made(t1, c1, b1, s1, w1, a1) : a1 \in Inputs!Authority(r), t1 \in Inputs!Recipients(r.to),
                   c1 \in Inputs!Recipients(Inputs!Get(r, "cc")), b1 \in Inputs!Recipients(Inputs!Get(r, "bcc")),
                   s1 \in Inputs!Trimmed(r.subject), w1 \in Inputs!Trimmed(r.body)} : Fine(x1)}
    BY DEF Inputs!EmailComposition
  <2> HIDE DEF Made, Fine
  <2>2. QED
    BY <2>1
<1>2. r.to \in Value /\ r.subject \in Value /\ r.body \in Value
  BY DEF Inputs!EmailComposition, Inputs!Shaped, Input
<1>3. /\ Inputs!Recipients(t) = {t} /\ Inputs!Recipients(c) = {c} /\ Inputs!Recipients(b) = {b}
      /\ t.is = "list" /\ c.is = "list" /\ b.is = "list"
  BY <1>1, <1>2, GetsValue, RecipientsStand
<1>4. Inputs!Trimmed(s) = {s} /\ Inputs!Trimmed(w) = {w} /\ s.is = "text" /\ w.is = "text"
  BY <1>1, <1>2, TrimmedStands
<1> DEFINE x == [to |-> t, cc |-> c, bcc |-> b, subject |-> s, body |-> w]
<1>5. /\ Fit(x) /\ DOMAIN x = fields
      /\ x["to"] = t /\ x["cc"] = c /\ x["bcc"] = b /\ x["subject"] = s /\ x["body"] = w
  BY <1>3, <1>4 DEF Fit
<1>6. DOMAIN x \cap Inputs!AuthorityFields = {}
  BY <1>5 DEF Inputs!AuthorityFields
<1> HIDE DEF x
<1>7. n = Inputs!Together({x, a})
  BY <1>1 DEF x
<1>8. /\ Fit(n) /\ Inputs!Authority(n) = {a}
      /\ fields \subseteq DOMAIN n /\ DOMAIN n \subseteq fields \cup Inputs!AuthorityFields
      /\ n.to = t /\ Inputs!Get(n, "cc") = c /\ Inputs!Get(n, "bcc") = b /\ n.subject = s /\ n.body = w
  BY <1>5, <1>6, <1>7, WithAuthority
<1>9. Inputs!EmailComposition(n) =
        {x1 \in {Made(t1, c1, b1, s1, w1, a1) : a1 \in Inputs!Authority(n), t1 \in Inputs!Recipients(n.to),
                   c1 \in Inputs!Recipients(Inputs!Get(n, "cc")), b1 \in Inputs!Recipients(Inputs!Get(n, "bcc")),
                   s1 \in Inputs!Trimmed(n.subject), w1 \in Inputs!Trimmed(n.body)} : Fine(x1)}
  <2>1. Inputs!Shaped(n, {"to", "subject", "body"}, {"cc", "bcc"} \cup Inputs!AuthorityFields)
    BY <1>8 DEF Inputs!Shaped
  <2>2. QED
    BY <2>1 DEF Inputs!EmailComposition
<1> HIDE DEF Made, Fine
<1>10. QED
  BY <1>1, <1>3, <1>4, <1>8, <1>9

(* RequestPr: its result passes it unchanged. *)
LEMMA RequestPrStands ==
  ASSUME NEW r, Input(r), NEW n \in Inputs!RequestPr(r)
  PROVE  Inputs!RequestPr(n) = {n} /\ Fit(n)
<1> DEFINE Job(y) == [f \in {"job_id", "repo_id", "task_id"} |-> Inputs!Get(y, f)]
           Made(j1, i1, w1) == Inputs!Together({j1, [invocation_id |-> i1, worktree_id |-> w1]})
<1>1. PICK j \in Inputs!JobLookup(Job(r)), i \in Inputs!TrimmedOrNull(Inputs!Get(r, "invocation_id")),
           w \in Inputs!TrimmedOrNull(Inputs!Get(r, "worktree_id")) :
        n = Made(j, i, w)
  BY DEF Inputs!RequestPr
<1>2. Input(Job(r))
  BY GetsValue DEF Input
<1>3. /\ Inputs!JobLookup(j) = {j} /\ Fit(j)
      /\ j = [job_id |-> j.job_id, repo_id |-> j.repo_id, task_id |-> j.task_id]
  BY <1>1, <1>2, JobLookupStands
<1>4. /\ Inputs!TrimmedOrNull(i) = {i} /\ Inputs!TrimmedOrNull(w) = {w}
      /\ i.is \in {"text", "null"} /\ w.is \in {"text", "null"}
  BY <1>1, GetsValue, OptionalsStand
<1> DEFINE x == [invocation_id |-> i, worktree_id |-> w]
<1>5. Fit(x) /\ DOMAIN x = {"invocation_id", "worktree_id"} /\ x["invocation_id"] = i /\ x["worktree_id"] = w
  BY <1>4 DEF Fit
<1>6. DOMAIN j = {"job_id", "repo_id", "task_id"}
  BY <1>3
<1> HIDE DEF x
<1>7. n = Inputs!Together({j, x})
  BY <1>1 DEF x
<1>8. /\ Fit(n)
      /\ \A f : f \in DOMAIN n <=> f \in DOMAIN j \/ f \in DOMAIN x
      /\ \A f \in DOMAIN j : Inputs!Get(n, f) = j[f] /\ n[f] = j[f]
      /\ \A f : f \notin DOMAIN j => Inputs!Get(n, f) = Inputs!Get(x, f)
  <2>1. DOMAIN j \cap DOMAIN x = {}
    BY <1>5, <1>6
  <2>2. QED
    BY <1>3, <1>5, <1>7, <2>1, TwoParts
<1>9. Job(n) = j
  <2>1. \A f \in {"job_id", "repo_id", "task_id"} : Inputs!Get(n, f) = j[f]
    BY <1>6, <1>8
  <2>2. j = [f \in DOMAIN j |-> j[f]]
    BY <1>3 DEF Fit
  <2>3. QED
    BY <1>6, <2>1, <2>2
<1>10. Inputs!Get(n, "invocation_id") = i /\ Inputs!Get(n, "worktree_id") = w
  BY <1>5, <1>6, <1>8 DEF Inputs!Get
<1>11. Inputs!RequestPr(n) =
         {Made(j1, i1, w1) : j1 \in Inputs!JobLookup(Job(n)),
            i1 \in Inputs!TrimmedOrNull(Inputs!Get(n, "invocation_id")),
            w1 \in Inputs!TrimmedOrNull(Inputs!Get(n, "worktree_id"))}
  <2>1. Inputs!Shaped(n, {}, {"job_id", "repo_id", "task_id", "invocation_id", "worktree_id"})
    BY <1>5, <1>6, <1>8 DEF Inputs!Shaped
  <2>2. QED
    BY <2>1 DEF Inputs!RequestPr
<1> HIDE DEF Made, Job
<1>12. QED
  BY <1>1, <1>3, <1>4, <1>8, <1>9, <1>10, <1>11

(* The event a write is about. *)
LEMMA EventIdStands ==
  ASSUME NEW v \in Value, NEW w \in Inputs!EventId(v)
  PROVE  Inputs!EventId(w) = {w} /\ w.is = "text"
<1>1. v.is = "text" /\ v.word # "" /\ w = Inputs!Strip(v)
  BY DEF Inputs!EventId, Inputs!IsText
<1>2. v \in TextValue
  BY <1>1, Tags
<1>3. w \in TextValue /\ w.word # "" /\ Inputs!Strip(w) = w
  BY <1>1, <1>2, StripStands
<1>4. w.is = "text"
  BY <1>3 DEF TextValue
<1>5. QED
  BY <1>3, <1>4 DEF Inputs!EventId, Inputs!IsText

(* RespondToEvent: its result passes it unchanged. *)
LEMMA RespondToEventStands ==
  ASSUME NEW r, Input(r), NEW n \in Inputs!RespondToEvent(r)
  PROVE  Inputs!RespondToEvent(n) = {n} /\ Fit(n)
<1> DEFINE fields == {"event_id", "attendee_email", "response_status"}
           words == {"accepted", "declined", "tentative", "needsAction"}
           Made(i1, m1, s1, a1, c1) ==
             Inputs!Together({[event_id |-> i1, attendee_email |-> m1, response_status |-> s1], a1, c1})
<1>1. PICK a \in Inputs!Authority(r), i \in Inputs!EventId(Inputs!Get(r, "event_id")),
           m \in Inputs!Recipient(Inputs!Get(r, "attendee_email")),
           s \in Inputs!Exactly(Inputs!Get(r, "response_status"), words),
           c \in Inputs!CalendarId(Inputs!Get(r, "calendar_id")) :
        n = Made(i, m, s, a, c)
  BY DEF Inputs!RespondToEvent
<1>2. Inputs!EventId(i) = {i} /\ i.is = "text"
  BY <1>1, GetsValue, EventIdStands
<1>3. m \in Mailbox /\ s \in Choices(words)
  BY <1>1, GetsValue, RecipientStands, ChoicesStand
<1>4. /\ Inputs!Recipient(m) = {m} /\ Inputs!Exactly(s, words) = {s} /\ m.is = "text" /\ s.is = "text"
  BY <1>3, TrimmedStands, RecipientStands, LoweredStands, ChoicesStand
<1> DEFINE x == [event_id |-> i, attendee_email |-> m, response_status |-> s]
<1>5. Fit(x) /\ DOMAIN x = fields /\ x["event_id"] = i /\ x["attendee_email"] = m /\ x["response_status"] = s
  BY <1>2, <1>4 DEF Fit
<1>6. DOMAIN x \cap Inputs!AuthorityFields = {} /\ "calendar_id" \notin DOMAIN x
  BY <1>5 DEF Inputs!AuthorityFields
<1> HIDE DEF x
<1>7. n = Inputs!Together({x, a, c})
  BY <1>1 DEF x
<1>8. Inputs!Get(r, "calendar_id") \in Value
  BY GetsValue
<1>9. /\ Fit(n) /\ Inputs!Authority(n) = {a} /\ Inputs!CalendarId(Inputs!Get(n, "calendar_id")) = {c}
      /\ DOMAIN n \subseteq fields \cup Inputs!AuthorityFields \cup {"calendar_id"}
      /\ Inputs!Get(n, "event_id") = i /\ Inputs!Get(n, "attendee_email") = m
      /\ Inputs!Get(n, "response_status") = s
  BY <1>5, <1>6, <1>7, <1>8, WithCalendar
<1>10. Inputs!RespondToEvent(n) =
         {Made(i1, m1, s1, a1, c1) : a1 \in Inputs!Authority(n),
            i1 \in Inputs!EventId(Inputs!Get(n, "event_id")),
            m1 \in Inputs!Recipient(Inputs!Get(n, "attendee_email")),
            s1 \in Inputs!Exactly(Inputs!Get(n, "response_status"), words),
            c1 \in Inputs!CalendarId(Inputs!Get(n, "calendar_id"))}
  <2>1. Inputs!Shaped(n, {}, {"calendar_id", "event_id", "attendee_email", "response_status"}
                               \cup Inputs!AuthorityFields)
    BY <1>9 DEF Inputs!Shaped
  <2>2. QED
    BY <2>1 DEF Inputs!RespondToEvent
<1> HIDE DEF Made, words
<1>11. QED
  BY <1>1, <1>2, <1>4, <1>9, <1>10

(* CreateEvent: its result passes it unchanged. *)
LEMMA CreateEventStands ==
  ASSUME NEW r, Input(r), NEW n \in Inputs!CreateEvent(r)
  PROVE  Inputs!CreateEvent(n) = {n} /\ Fit(n)
<1> DEFINE fields == {"title", "start_time", "end_time", "description", "location", "attendees"}
           Made(t1, w1, d1, l1, e1, a1, c1) ==
             Inputs!Together({[title |-> t1, start_time |-> w1[1], end_time |-> w1[2], description |-> d1,
                               location |-> l1, attendees |-> e1], a1, c1})
<1>1. PICK a \in Inputs!Authority(r), t \in Inputs!Trimmed(Inputs!Get(r, "title")),
           w \in Inputs!Window(Inputs!Get(r, "start_time"), Inputs!Get(r, "end_time")),
           d \in Inputs!BlankIsNull(Inputs!Get(r, "description")),
           l \in Inputs!BlankIsNull(Inputs!Get(r, "location")),
           e \in Inputs!Recipients(Inputs!Get(r, "attendees")),
           c \in Inputs!CalendarId(Inputs!Get(r, "calendar_id")) :
        n = Made(t, w, d, l, e, a, c)
  <2>1. Inputs!Shaped(r, {}, {"calendar_id", "title", "start_time", "end_time", "description", "location",
                              "attendees"} \cup Inputs!AuthorityFields)
    BY DEF Inputs!CreateEvent
  <2>2. Inputs!CreateEvent(r) =
         {Made(t1, w1, d1, l1, e1, a1, c1) : a1 \in Inputs!Authority(r),
            t1 \in Inputs!Trimmed(Inputs!Get(r, "title")),
            w1 \in Inputs!Window(Inputs!Get(r, "start_time"), Inputs!Get(r, "end_time")),
            d1 \in Inputs!BlankIsNull(Inputs!Get(r, "description")),
            l1 \in Inputs!BlankIsNull(Inputs!Get(r, "location")),
            e1 \in Inputs!Recipients(Inputs!Get(r, "attendees")),
            c1 \in Inputs!CalendarId(Inputs!Get(r, "calendar_id"))}
    BY <2>1 DEF Inputs!CreateEvent
  <2> HIDE DEF Made
  <2>3. QED
    BY <2>2
<1>2. Inputs!Trimmed(t) = {t} /\ t.is = "text"
  BY <1>1, GetsValue, TrimmedStands
<1>3. Inputs!Window(w[1], w[2]) = {w} /\ w[1].is = "text" /\ w[2].is = "text"
  BY <1>1, WindowStands
<1>4. /\ Inputs!BlankIsNull(d) = {d} /\ Inputs!BlankIsNull(l) = {l}
      /\ d.is \in {"text", "null"} /\ l.is \in {"text", "null"}
  BY <1>1, GetsValue, OptionalsStand
<1>5. Inputs!Recipients(e) = {e} /\ e.is = "list"
  BY <1>1, GetsValue, RecipientsStand
<1> DEFINE x == [title |-> t, start_time |-> w[1], end_time |-> w[2], description |-> d,
                 location |-> l, attendees |-> e]
<1>6. /\ Fit(x) /\ DOMAIN x = fields
      /\ x["title"] = t /\ x["start_time"] = w[1] /\ x["end_time"] = w[2]
      /\ x["description"] = d /\ x["location"] = l /\ x["attendees"] = e
  BY <1>2, <1>3, <1>4, <1>5 DEF Fit
<1>7. DOMAIN x \cap Inputs!AuthorityFields = {} /\ "calendar_id" \notin DOMAIN x
  BY <1>6 DEF Inputs!AuthorityFields
<1> HIDE DEF x
<1>8. n = Inputs!Together({x, a, c})
  BY <1>1 DEF x
<1>9. Inputs!Get(r, "calendar_id") \in Value
  BY GetsValue
<1>10. /\ Fit(n) /\ Inputs!Authority(n) = {a} /\ Inputs!CalendarId(Inputs!Get(n, "calendar_id")) = {c}
       /\ DOMAIN n \subseteq fields \cup Inputs!AuthorityFields \cup {"calendar_id"}
       /\ Inputs!Get(n, "title") = t /\ Inputs!Get(n, "start_time") = w[1] /\ Inputs!Get(n, "end_time") = w[2]
       /\ Inputs!Get(n, "description") = d /\ Inputs!Get(n, "location") = l /\ Inputs!Get(n, "attendees") = e
  BY <1>6, <1>7, <1>8, <1>9, WithCalendar
<1>11. Inputs!CreateEvent(n) =
         {Made(t1, w1, d1, l1, e1, a1, c1) : a1 \in Inputs!Authority(n),
            t1 \in Inputs!Trimmed(Inputs!Get(n, "title")),
            w1 \in Inputs!Window(Inputs!Get(n, "start_time"), Inputs!Get(n, "end_time")),
            d1 \in Inputs!BlankIsNull(Inputs!Get(n, "description")),
            l1 \in Inputs!BlankIsNull(Inputs!Get(n, "location")),
            e1 \in Inputs!Recipients(Inputs!Get(n, "attendees")),
            c1 \in Inputs!CalendarId(Inputs!Get(n, "calendar_id"))}
  <2>1. Inputs!Shaped(n, {}, {"calendar_id", "title", "start_time", "end_time", "description", "location",
                              "attendees"} \cup Inputs!AuthorityFields)
    BY <1>10 DEF Inputs!Shaped
  <2>2. QED
    BY <2>1 DEF Inputs!CreateEvent
<1> HIDE DEF Made
<1>12. QED
  BY <1>1, <1>2, <1>3, <1>4, <1>5, <1>10, <1>11

(* A field with a value that is none of what JSON or sealing changes.      *)
LEMMA FieldFits ==
  ASSUME NEW f, NEW w, w.is \notin {"tuple", "sealed"}
  PROVE  /\ Fit(Inputs!Field(f, w)) /\ DOMAIN Inputs!Field(f, w) = {f}
         /\ Inputs!Get(Inputs!Field(f, w), f) = w
  BY DEF Inputs!Field, Fit, Inputs!Get

(* No field is fit as well. *)
LEMMA NoFieldFits ==
  /\ Fit(Inputs!NoField) /\ DOMAIN Inputs!NoField = {}
  /\ \A f : Inputs!Get(Inputs!NoField, f) = Inputs!Null
  BY DEF Inputs!NoField, Fit, Inputs!Get

(* The changes of an event: of its title, its time, a text, its attendees. *)
LEMMA TitleChangeStands ==
  ASSUME NEW v \in Value, NEW x \in Inputs!TitleChange(v)
  PROVE  Fit(x) /\ DOMAIN x \subseteq {"title"} /\ Inputs!TitleChange(Inputs!Get(x, "title")) = {x}
<1>1. CASE v = Inputs!Null
  <2>1. x = Inputs!NoField
    BY <1>1 DEF Inputs!TitleChange
  <2>2. QED
    BY <2>1, NoFieldFits DEF Inputs!TitleChange
<1>2. CASE v # Inputs!Null
  <2>1. PICK w \in Inputs!Trimmed(v) : x = Inputs!Field("title", w)
    BY <1>2 DEF Inputs!TitleChange
  <2>2. Inputs!Trimmed(w) = {w} /\ w.is = "text" /\ w # Inputs!Null
    BY <2>1, TrimmedStands
  <2>3. Fit(x) /\ DOMAIN x = {"title"} /\ Inputs!Get(x, "title") = w
    BY <2>1, <2>2, FieldFits
  <2>4. Inputs!TitleChange(w) = {x}
    BY <2>1, <2>2 DEF Inputs!TitleChange
  <2>5. QED
    BY <2>3, <2>4
<1>3. QED
  BY <1>1, <1>2

(* TextChange: its result passes it unchanged. *)
LEMMA TextChangeStands ==
  ASSUME NEW f, NEW v \in Value, NEW x \in Inputs!TextChange(f, v)
  PROVE  Fit(x) /\ DOMAIN x \subseteq {f} /\ Inputs!TextChange(f, Inputs!Get(x, f)) = {x}
<1>1. CASE v = Inputs!Null
  <2>1. x = Inputs!NoField
    BY <1>1 DEF Inputs!TextChange
  <2>2. QED
    BY <2>1, NoFieldFits DEF Inputs!TextChange
<1>2. CASE v # Inputs!Null
  <2> DEFINE w == Inputs!Strip(v)
  <2>1. v.is = "text" /\ (v.size = "fits" \/ (v.size = "full" /\ ~v.pad)) /\ x = Inputs!Field(f, w)
    BY <1>2 DEF Inputs!TextChange, Inputs!IsText
  <2>2. v \in TextValue
    BY <2>1, Tags
  <2>3. w \in TextValue /\ ~w.pad /\ w.size \in {"fits", "full"} /\ Inputs!Strip(w) = w
    BY <2>1, <2>2, StripStands
  <2> HIDE DEF w
  <2>4. w.is = "text" /\ w # Inputs!Null
    <3>1. w.is = "text" /\ Inputs!Null.is = "null"
      BY <2>3 DEF TextValue, Inputs!Null
    <3>2. QED
      BY <3>1
  <2>5. Fit(x) /\ DOMAIN x = {f} /\ Inputs!Get(x, f) = w
    BY <2>1, <2>4, FieldFits
  <2>6. Inputs!TextChange(f, w) = {x}
    BY <2>1, <2>3, <2>4 DEF Inputs!TextChange, Inputs!IsText
  <2>7. QED
    BY <2>5, <2>6
<1>3. QED
  BY <1>1, <1>2

(* AttendeesChange: its result passes it unchanged. *)
LEMMA AttendeesChangeStands ==
  ASSUME NEW v \in Value, NEW x \in Inputs!AttendeesChange(v)
  PROVE  Fit(x) /\ DOMAIN x \subseteq {"attendees"} /\ Inputs!AttendeesChange(Inputs!Get(x, "attendees")) = {x}
<1>1. CASE v = Inputs!Null
  <2>1. x = Inputs!NoField
    BY <1>1 DEF Inputs!AttendeesChange
  <2>2. QED
    BY <2>1, NoFieldFits DEF Inputs!AttendeesChange
<1>2. CASE v # Inputs!Null
  <2>1. PICK w \in Inputs!Recipients(v) : x = Inputs!Field("attendees", w)
    BY <1>2 DEF Inputs!AttendeesChange
  <2>2. Inputs!Recipients(w) = {w} /\ w.is = "list" /\ w # Inputs!Null
    BY <2>1, RecipientsStand
  <2>3. Fit(x) /\ DOMAIN x = {"attendees"} /\ Inputs!Get(x, "attendees") = w
    BY <2>1, <2>2, FieldFits
  <2>4. Inputs!AttendeesChange(w) = {x}
    BY <2>1, <2>2 DEF Inputs!AttendeesChange
  <2>5. QED
    BY <2>3, <2>4
<1>3. QED
  BY <1>1, <1>2

(* TimeChange: its result passes it unchanged. *)
LEMMA TimeChangeStands ==
  ASSUME NEW from, NEW to, NEW x \in Inputs!TimeChange(from, to)
  PROVE  /\ Fit(x) /\ DOMAIN x \subseteq {"start_time", "end_time"}
         /\ Inputs!TimeChange(Inputs!Get(x, "start_time"), Inputs!Get(x, "end_time")) = {x}
<1>1. CASE from = Inputs!Null /\ to = Inputs!Null
  <2>1. x = Inputs!NoField
    BY <1>1 DEF Inputs!TimeChange
  <2>2. QED
    BY <2>1, NoFieldFits DEF Inputs!TimeChange
<1>2. CASE ~(from = Inputs!Null /\ to = Inputs!Null)
  <2>1. PICK w \in Inputs!Window(from, to) : x = [start_time |-> w[1], end_time |-> w[2]]
    BY <1>2 DEF Inputs!TimeChange
  <2>2. /\ Inputs!Window(w[1], w[2]) = {w} /\ w[1].is = "text" /\ w[2].is = "text"
        /\ w[1] # Inputs!Null /\ w[2] # Inputs!Null
    BY <2>1, WindowStands
  <2>3. /\ Fit(x) /\ DOMAIN x = {"start_time", "end_time"}
        /\ Inputs!Get(x, "start_time") = w[1] /\ Inputs!Get(x, "end_time") = w[2]
    BY <2>1, <2>2 DEF Fit, Inputs!Get
  <2>4. Inputs!TimeChange(w[1], w[2]) = {x}
    BY <2>1, <2>2 DEF Inputs!TimeChange
  <2>5. QED
    BY <2>3, <2>4
<1>3. QED
  BY <1>1, <1>2

(* An update of an event, by its parts. *)
Which == {"event_id", "calendar_id"} \cup Inputs!AuthorityFields
Changes == {"title", "start_time", "end_time", "description", "location", "attendees"}
Ids(y) == {Inputs!Field("event_id", v) : v \in Inputs!EventId(Inputs!Get(y, "event_id"))}
Updates(y) ==
  {Inputs!Together({i, a, c, t, w, d, l, e}) :
     i \in Ids(y), a \in Inputs!Authority(y),
     c \in Inputs!CalendarId(Inputs!Get(y, "calendar_id")),
     t \in Inputs!TitleChange(Inputs!Get(y, "title")),
     w \in Inputs!TimeChange(Inputs!Get(y, "start_time"), Inputs!Get(y, "end_time")),
     d \in Inputs!TextChange("description", Inputs!Get(y, "description")),
     l \in Inputs!TextChange("location", Inputs!Get(y, "location")),
     e \in Inputs!AttendeesChange(Inputs!Get(y, "attendees"))}
LEMMA UpdateEventIs ==
  ASSUME NEW y, Inputs!Shaped(y, {}, Which \cup Changes)
  PROVE  Inputs!UpdateEvent(y) = {x \in Updates(y) : ~(DOMAIN x \subseteq Which)}
  BY DEF Inputs!UpdateEvent, Updates, Ids, Which, Changes

(* UpdateEvent: its result passes it unchanged. *)
LEMMA UpdateEventStands ==
  ASSUME NEW r, Input(r), NEW n \in Inputs!UpdateEvent(r)
  PROVE  Inputs!UpdateEvent(n) = {n} /\ Fit(n)
<1> DEFINE Made(i1, a1, c1, t1, w1, d1, l1, e1) == Inputs!Together({i1, a1, c1, t1, w1, d1, l1, e1})
<1>1. Inputs!Shaped(r, {}, Which \cup Changes)
  BY DEF Inputs!UpdateEvent, Which, Changes
<1>2. \A y : Updates(y) =
        {Made(i1, a1, c1, t1, w1, d1, l1, e1) :
           i1 \in Ids(y), a1 \in Inputs!Authority(y),
           c1 \in Inputs!CalendarId(Inputs!Get(y, "calendar_id")),
           t1 \in Inputs!TitleChange(Inputs!Get(y, "title")),
           w1 \in Inputs!TimeChange(Inputs!Get(y, "start_time"), Inputs!Get(y, "end_time")),
           d1 \in Inputs!TextChange("description", Inputs!Get(y, "description")),
           l1 \in Inputs!TextChange("location", Inputs!Get(y, "location")),
           e1 \in Inputs!AttendeesChange(Inputs!Get(y, "attendees"))}
  BY DEF Updates
<1>3. n \in Updates(r) /\ ~(DOMAIN n \subseteq Which)
  BY <1>1, UpdateEventIs
<1>4. PICK i \in Ids(r), a \in Inputs!Authority(r),
           c \in Inputs!CalendarId(Inputs!Get(r, "calendar_id")),
           t \in Inputs!TitleChange(Inputs!Get(r, "title")),
           w \in Inputs!TimeChange(Inputs!Get(r, "start_time"), Inputs!Get(r, "end_time")),
           d \in Inputs!TextChange("description", Inputs!Get(r, "description")),
           l \in Inputs!TextChange("location", Inputs!Get(r, "location")),
           e \in Inputs!AttendeesChange(Inputs!Get(r, "attendees")) :
        n = Made(i, a, c, t, w, d, l, e)
  <2> HIDE DEF Made
  <2>1. QED
    BY <1>2, <1>3
<1>5. Fit(i) /\ DOMAIN i = {"event_id"}
      /\ {Inputs!Field("event_id", v) : v \in Inputs!EventId(Inputs!Get(i, "event_id"))} = {i}
  <2>1. PICK v \in Inputs!EventId(Inputs!Get(r, "event_id")) : i = Inputs!Field("event_id", v)
    BY <1>4 DEF Ids
  <2>2. Inputs!EventId(v) = {v} /\ v.is = "text"
    BY <2>1, GetsValue, EventIdStands
  <2>3. Fit(i) /\ DOMAIN i = {"event_id"} /\ Inputs!Get(i, "event_id") = v
    BY <2>1, <2>2, FieldFits
  <2>4. QED
    BY <2>1, <2>2, <2>3
<1>6. /\ Fit(a) /\ DOMAIN a \subseteq Inputs!AuthorityFields
      /\ \A y : (\A f \in Inputs!AuthorityFields : Inputs!Get(y, f) = Inputs!Get(a, f))
                  => Inputs!Authority(y) = {a}
  BY <1>4, AuthorityStands
<1>7. Fit(c) /\ DOMAIN c \subseteq {"calendar_id"} /\ Inputs!CalendarId(Inputs!Get(c, "calendar_id")) = {c}
  BY <1>4, GetsValue, CalendarIdStands
<1>8. Fit(t) /\ DOMAIN t \subseteq {"title"} /\ Inputs!TitleChange(Inputs!Get(t, "title")) = {t}
  BY <1>4, GetsValue, TitleChangeStands
<1>9. /\ Fit(w) /\ DOMAIN w \subseteq {"start_time", "end_time"}
      /\ Inputs!TimeChange(Inputs!Get(w, "start_time"), Inputs!Get(w, "end_time")) = {w}
  BY <1>4, TimeChangeStands
<1>10. /\ Fit(d) /\ DOMAIN d \subseteq {"description"}
       /\ Inputs!TextChange("description", Inputs!Get(d, "description")) = {d}
  BY <1>4, GetsValue, TextChangeStands
<1>11. /\ Fit(l) /\ DOMAIN l \subseteq {"location"}
       /\ Inputs!TextChange("location", Inputs!Get(l, "location")) = {l}
  BY <1>4, GetsValue, TextChangeStands
<1>12. /\ Fit(e) /\ DOMAIN e \subseteq {"attendees"}
       /\ Inputs!AttendeesChange(Inputs!Get(e, "attendees")) = {e}
  BY <1>4, GetsValue, AttendeesChangeStands
<1> DEFINE S == {i, a, c, t, w, d, l, e}
<1>13. n = Inputs!Together(S)
  BY <1>4
<1>14. Fit(n)
  <2>1. \A x \in S : Fit(x)
    BY <1>5, <1>6, <1>7, <1>8, <1>9, <1>10, <1>11, <1>12
  <2> HIDE DEF S
  <2>2. QED
    BY <1>13, <2>1, TogetherFits
<1>15. \A x \in S : DOMAIN x \subseteq Which \cup Changes
  BY <1>5, <1>6, <1>7, <1>8, <1>9, <1>10, <1>11, <1>12 DEF Which, Changes
<1>16. /\ Only(S, i, "event_id") /\ Only(S, c, "calendar_id") /\ Only(S, t, "title")
       /\ Only(S, w, "start_time") /\ Only(S, w, "end_time") /\ Only(S, d, "description")
       /\ Only(S, l, "location") /\ Only(S, e, "attendees")
       /\ \A f \in Inputs!AuthorityFields : Only(S, a, f)
  BY <1>5, <1>6, <1>7, <1>8, <1>9, <1>10, <1>11, <1>12 DEF Only, Inputs!AuthorityFields
<1> HIDE DEF S
<1>17. Inputs!Shaped(n, {}, Which \cup Changes)
  <2>1. DOMAIN n \subseteq Which \cup Changes
    BY <1>13, <1>15, TogetherIs
  <2>2. QED
    BY <2>1 DEF Inputs!Shaped
<1>18. /\ Inputs!Get(n, "event_id") = Inputs!Get(i, "event_id")
       /\ Inputs!Get(n, "calendar_id") = Inputs!Get(c, "calendar_id")
       /\ Inputs!Get(n, "title") = Inputs!Get(t, "title")
       /\ Inputs!Get(n, "start_time") = Inputs!Get(w, "start_time")
       /\ Inputs!Get(n, "end_time") = Inputs!Get(w, "end_time")
       /\ Inputs!Get(n, "description") = Inputs!Get(d, "description")
       /\ Inputs!Get(n, "location") = Inputs!Get(l, "location")
       /\ Inputs!Get(n, "attendees") = Inputs!Get(e, "attendees")
       /\ \A f \in Inputs!AuthorityFields : Inputs!Get(n, f) = Inputs!Get(a, f)
  BY <1>13, <1>16, TogetherHas
<1>19. /\ Ids(n) = {i} /\ Inputs!Authority(n) = {a}
       /\ Inputs!CalendarId(Inputs!Get(n, "calendar_id")) = {c}
       /\ Inputs!TitleChange(Inputs!Get(n, "title")) = {t}
       /\ Inputs!TimeChange(Inputs!Get(n, "start_time"), Inputs!Get(n, "end_time")) = {w}
       /\ Inputs!TextChange("description", Inputs!Get(n, "description")) = {d}
       /\ Inputs!TextChange("location", Inputs!Get(n, "location")) = {l}
       /\ Inputs!AttendeesChange(Inputs!Get(n, "attendees")) = {e}
  BY <1>5, <1>6, <1>7, <1>8, <1>9, <1>10, <1>11, <1>12, <1>18 DEF Ids
<1>20. Updates(n) = {n}
  <2> HIDE DEF Made
  <2>1. QED
    BY <1>2, <1>4, <1>19
<1>21. Inputs!UpdateEvent(n) = {x1 \in Updates(n) : ~(DOMAIN x1 \subseteq Which)}
  BY <1>17, UpdateEventIs
<1>22. QED
  BY <1>3, <1>14, <1>20, <1>21

(* What is in the catalog. *)
Known ==
  {"email.search", "drive.search", "search.web", "memory.recall", "drive.read", "memory.read",
   "memory.note.delete", "memory.remember", "memory.note.create", "attachment.read", "web.extract",
   "calendar.list", "calendar.list_calendars", "calendar.propose_slots", "email.read",
   "provider_evidence.read", "maps.directions", "maps.search_places", "weather.forecast",
   "memory.search", "research.investigate", "agency.status", "agency.artifacts", "drive.share",
   "calendar.create_event", "calendar.update_event", "calendar.respond_to_event", "email.draft",
   "email.send", "email.archive", "email.trash", "email.labels.modify", "email.undo",
   "memory.note.edit", "proactive.schedule", "agency.run", "agency.request_pr"}

(* The names of a list of entries. *)
LEMMA ListedIs ==
  ASSUME NEW S, NEW entry
  PROVE  DOMAIN Inputs!Listed(S, entry) = S
  BY DEF Inputs!Listed

(* The catalog has no other capability: every one has its validator.       *)
LEMMA CatalogKnown == \A c \in Inputs!Capability : c \in Known
<1>1. ASSUME NEW c \in DOMAIN Inputs!GoogleReads PROVE c \in Known
  BY TogetherIs, ListedIs DEF Inputs!GoogleReads, Known
<1>2. ASSUME NEW c \in DOMAIN Inputs!MapsReads PROVE c \in Known
  BY TogetherIs, ListedIs DEF Inputs!MapsReads, Known
<1>3. ASSUME NEW c \in DOMAIN Inputs!CalendarWrites PROVE c \in Known
  BY TogetherIs, ListedIs DEF Inputs!CalendarWrites, Known
<1>4. ASSUME NEW c \in DOMAIN Inputs!EmailWrites PROVE c \in Known
  BY TogetherIs, ListedIs DEF Inputs!EmailWrites, Known
<1>5. ASSUME NEW c \in DOMAIN Inputs!OtherReads PROVE c \in Known
  BY TogetherIs, ListedIs DEF Inputs!OtherReads, Known
<1>6. ASSUME NEW c \in DOMAIN Inputs!AgencyEntries PROVE c \in Known
  BY TogetherIs, ListedIs DEF Inputs!AgencyEntries, Known
<1>7. ASSUME NEW c \in DOMAIN Inputs!OwnEntries PROVE c \in Known
  BY TogetherIs, ListedIs DEF Inputs!OwnEntries, Known
<1>8. \A c \in Inputs!Capability :
        \/ c \in DOMAIN Inputs!GoogleReads \/ c \in DOMAIN Inputs!MapsReads
        \/ c \in DOMAIN Inputs!CalendarWrites \/ c \in DOMAIN Inputs!EmailWrites
        \/ c \in DOMAIN Inputs!OtherReads \/ c \in DOMAIN Inputs!AgencyEntries
        \/ c \in DOMAIN Inputs!OwnEntries
  BY TogetherIs DEF Inputs!Capability, Inputs!Catalog
<1>9. QED
  BY <1>1, <1>2, <1>3, <1>4, <1>5, <1>6, <1>7, <1>8

(* JSON leaves an input that is fit as it is. *)
LEMMA FitInJson ==
  ASSUME NEW n, Fit(n)
  PROVE  Inputs!InJson(n) = n
  BY DEF Fit, Inputs!InJson, Inputs!Json

(* A normal input that passes its validator again after JSON.              *)
Stands(c, n) ==
  /\ Inputs!Normal(c, Inputs!InJson(n)) = {n}
  /\ \A f \in DOMAIN n : n[f].is # "sealed"

(* JSON leaves it as it is, so one look is as good as two. *)
LEMMA FitStands ==
  ASSUME NEW c, NEW n, Fit(n), Inputs!Normal(c, n) = {n}
  PROVE  Stands(c, n)
  BY FitInJson DEF Stands, Fit

(* What comes out of a validator passes it again, unchanged, after JSON.   *)
LEMMA NormalStands ==
  ASSUME NEW c \in Inputs!Capability, NEW r, Input(r), NEW n \in Inputs!Normal(c, r)
  PROVE  Stands(c, n)
<1>1. c \in Known
  BY CatalogKnown
<1>2. CASE c \in {"email.search", "drive.search", "search.web", "memory.recall"}
  <2>1. \A y : Inputs!Normal(c, y) = Inputs!ExactText(y, "query")
    BY <1>2 DEF Inputs!Normal
  <2>2. n \in Inputs!ExactText(r, "query")
    BY <2>1
  <2>3. Inputs!ExactText(n, "query") = {n} /\ Fit(n)
    BY <2>2, ExactTextStands
  <2>4. QED
    BY <2>1, <2>3, FitStands
<1>3. CASE c \in {"drive.read"}
  <2>1. \A y : Inputs!Normal(c, y) = Inputs!ExactText(y, "file_id")
    BY <1>3 DEF Inputs!Normal
  <2>2. n \in Inputs!ExactText(r, "file_id")
    BY <2>1
  <2>3. Inputs!ExactText(n, "file_id") = {n} /\ Fit(n)
    BY <2>2, ExactTextStands
  <2>4. QED
    BY <2>1, <2>3, FitStands
<1>4. CASE c \in {"memory.read", "memory.note.delete"}
  <2>1. \A y : Inputs!Normal(c, y) = Inputs!ExactText(y, "id")
    BY <1>4 DEF Inputs!Normal
  <2>2. n \in Inputs!ExactText(r, "id")
    BY <2>1
  <2>3. Inputs!ExactText(n, "id") = {n} /\ Fit(n)
    BY <2>2, ExactTextStands
  <2>4. QED
    BY <2>1, <2>3, FitStands
<1>5. CASE c \in {"memory.remember"}
  <2>1. \A y : Inputs!Normal(c, y) = Inputs!ExactText(y, "note")
    BY <1>5 DEF Inputs!Normal
  <2>2. n \in Inputs!ExactText(r, "note")
    BY <2>1
  <2>3. Inputs!ExactText(n, "note") = {n} /\ Fit(n)
    BY <2>2, ExactTextStands
  <2>4. QED
    BY <2>1, <2>3, FitStands
<1>6. CASE c \in {"memory.note.create"}
  <2>1. \A y : Inputs!Normal(c, y) = Inputs!ExactText(y, "content")
    BY <1>6 DEF Inputs!Normal
  <2>2. n \in Inputs!ExactText(r, "content")
    BY <2>1
  <2>3. Inputs!ExactText(n, "content") = {n} /\ Fit(n)
    BY <2>2, ExactTextStands
  <2>4. QED
    BY <2>1, <2>3, FitStands
<1>7. CASE c \in {"attachment.read"}
  <2>1. \A y : Inputs!Normal(c, y) = Inputs!AttachmentRead(y)
    BY <1>7 DEF Inputs!Normal
  <2>2. QED
    BY <2>1, AttachmentReadStands, FitStands
<1>8. CASE c \in {"web.extract"}
  <2>1. \A y : Inputs!Normal(c, y) = Inputs!WebExtract(y)
    BY <1>8 DEF Inputs!Normal
  <2>2. QED
    BY <2>1, WebExtractStands, FitStands
<1>9. CASE c \in {"calendar.list"}
  <2>1. \A y : Inputs!Normal(c, y) = Inputs!CalendarList(y)
    BY <1>9 DEF Inputs!Normal
  <2>2. QED
    BY <2>1, CalendarListStands, FitStands
<1>10. CASE c \in {"calendar.list_calendars"}
  <2>1. \A y : Inputs!Normal(c, y) = Inputs!ListCalendars(y)
    BY <1>10 DEF Inputs!Normal
  <2>2. QED
    BY <2>1, ListCalendarsStands, FitStands
<1>11. CASE c \in {"calendar.propose_slots"}
  <2>1. \A y : Inputs!Normal(c, y) = Inputs!ProposeSlots(y)
    BY <1>11 DEF Inputs!Normal
  <2>2. QED
    BY <2>1, ProposeSlotsStands, FitStands
<1>12. CASE c \in {"email.read"}
  <2>1. \A y : Inputs!Normal(c, y) = Inputs!EmailRead(y)
    BY <1>12 DEF Inputs!Normal
  <2>2. QED
    BY <2>1, EmailReadStands, FitStands
<1>13. CASE c \in {"provider_evidence.read"}
  <2>1. \A y : Inputs!Normal(c, y) = Inputs!EvidenceRead(y)
    BY <1>13 DEF Inputs!Normal
  <2>2. QED
    BY <2>1, EvidenceReadStands, FitStands
<1>14. CASE c \in {"maps.search_places"}
  <2>1. \A y : Inputs!Normal(c, y) = Inputs!MapsSearchPlaces(y)
    BY <1>14 DEF Inputs!Normal
  <2>2. QED
    BY <2>1, MapsSearchPlacesStands, FitStands
<1>15. CASE c \in {"weather.forecast"}
  <2>1. \A y : Inputs!Normal(c, y) = Inputs!WeatherForecast(y)
    BY <1>15 DEF Inputs!Normal
  <2>2. QED
    BY <2>1, WeatherForecastStands, FitStands
<1>16. CASE c \in {"memory.search"}
  <2>1. \A y : Inputs!Normal(c, y) = Inputs!MemorySearch(y)
    BY <1>16 DEF Inputs!Normal
  <2>2. QED
    BY <2>1, MemorySearchStands, FitStands
<1>17. CASE c \in {"research.investigate"}
  <2>1. \A y : Inputs!Normal(c, y) = Inputs!Investigate(y)
    BY <1>17 DEF Inputs!Normal
  <2>2. QED
    BY <2>1, InvestigateStands, FitStands
<1>18. CASE c \in {"agency.status", "agency.artifacts"}
  <2>1. \A y : Inputs!Normal(c, y) = Inputs!JobLookup(y)
    BY <1>18 DEF Inputs!Normal
  <2>2. QED
    BY <2>1, JobLookupStands, FitStands
<1>19. CASE c \in {"drive.share"}
  <2>1. \A y : Inputs!Normal(c, y) = Inputs!DriveShare(y)
    BY <1>19 DEF Inputs!Normal
  <2>2. QED
    BY <2>1, DriveShareStands, FitStands
<1>20. CASE c \in {"calendar.create_event"}
  <2>1. \A y : Inputs!Normal(c, y) = Inputs!CreateEvent(y)
    BY <1>20 DEF Inputs!Normal
  <2>2. QED
    BY <2>1, CreateEventStands, FitStands
<1>21. CASE c \in {"calendar.update_event"}
  <2>1. \A y : Inputs!Normal(c, y) = Inputs!UpdateEvent(y)
    BY <1>21 DEF Inputs!Normal
  <2>2. QED
    BY <2>1, UpdateEventStands, FitStands
<1>22. CASE c \in {"calendar.respond_to_event"}
  <2>1. \A y : Inputs!Normal(c, y) = Inputs!RespondToEvent(y)
    BY <1>22 DEF Inputs!Normal
  <2>2. QED
    BY <2>1, RespondToEventStands, FitStands
<1>23. CASE c \in {"email.draft", "email.send"}
  <2>1. \A y : Inputs!Normal(c, y) = Inputs!EmailComposition(y)
    BY <1>23 DEF Inputs!Normal
  <2>2. QED
    BY <2>1, EmailCompositionStands, FitStands
<1>24. CASE c \in {"email.archive", "email.trash"}
  <2>1. \A y : Inputs!Normal(c, y) = Inputs!BatchMutation(y)
    BY <1>24 DEF Inputs!Normal
  <2>2. QED
    BY <2>1, BatchMutationStands, FitStands
<1>25. CASE c \in {"email.labels.modify"}
  <2>1. \A y : Inputs!Normal(c, y) = Inputs!LabelsModify(y)
    BY <1>25 DEF Inputs!Normal
  <2>2. QED
    BY <2>1, LabelsModifyStands, FitStands
<1>26. CASE c \in {"email.undo"}
  <2>1. \A y : Inputs!Normal(c, y) = Inputs!EmailUndo(y)
    BY <1>26 DEF Inputs!Normal
  <2>2. QED
    BY <2>1, EmailUndoStands, FitStands
<1>27. CASE c \in {"memory.note.edit"}
  <2>1. \A y : Inputs!Normal(c, y) = Inputs!NoteEdit(y)
    BY <1>27 DEF Inputs!Normal
  <2>2. QED
    BY <2>1, NoteEditStands, FitStands
<1>28. CASE c \in {"proactive.schedule"}
  <2>1. \A y : Inputs!Normal(c, y) = Inputs!Schedule(y)
    BY <1>28 DEF Inputs!Normal
  <2>2. QED
    BY <2>1, ScheduleStands, FitStands
<1>29. CASE c \in {"agency.run"}
  <2>1. \A y : Inputs!Normal(c, y) = Inputs!AgencyRun(y)
    BY <1>29 DEF Inputs!Normal
  <2>2. QED
    BY <2>1, AgencyRunStands, FitStands
<1>30. CASE c \in {"agency.request_pr"}
  <2>1. \A y : Inputs!Normal(c, y) = Inputs!RequestPr(y)
    BY <1>30 DEF Inputs!Normal
  <2>2. QED
    BY <2>1, RequestPrStands, FitStands
<1>31. CASE c = "maps.directions"
  <2>1. \A y : Inputs!Normal(c, y) = Inputs!MapsDirections(y)
    BY <1>31 DEF Inputs!Normal
  <2>2. QED
    BY <2>1, MapsDirectionsStands DEF Stands
<1>32. QED
  BY <1>1, <1>2, <1>3, <1>4, <1>5, <1>6, <1>7, <1>8, <1>9, <1>10, <1>11, <1>12, <1>13, <1>14,
     <1>15, <1>16, <1>17, <1>18, <1>19, <1>20, <1>21, <1>22, <1>23, <1>24, <1>25, <1>26, <1>27,
     <1>28, <1>29, <1>30, <1>31
     DEF Known

(* A stored input without a sealed field is the whole of it; one that cannot *)
(* be read has a sealed field.                                             *)
LEMMA StoredWhole ==
  ASSUME NEW a, a.stored = Inputs!Stored(a.cap, a.input), Stands(a.cap, a.input)
  PROVE  /\ Inputs!Full(a) = Inputs!InJson(a.input)
         /\ Inputs!Unreadable(a) => ~keys /\ Inputs!Seals(a.cap, a.input) # {}
<1> DEFINE n == a.input
           sealed == Inputs!Seals(a.cap, a.input)
<1>1. DOMAIN a.stored = DOMAIN n
      /\ \A f \in DOMAIN n : a.stored[f] = IF f \in sealed THEN [is |-> "sealed"] ELSE Inputs!Json(n[f])
  BY DEF Inputs!Stored
<1>2. sealed \subseteq DOMAIN n
  BY DEF Inputs!Seals
<1>3. \A f \in DOMAIN n : Inputs!Json(n[f]).is # "sealed"
  BY DEF Stands, Inputs!Json, Inputs!List
<1>4. \A f \in DOMAIN a.stored : a.stored[f].is = "sealed" <=> f \in sealed
  BY <1>1, <1>3
<1>5. CASE sealed = {}
  <2>1. a.stored = Inputs!InJson(n)
    BY <1>5 DEF Inputs!Stored, Inputs!InJson
  <2>2. ~\E f \in DOMAIN a.stored : a.stored[f].is = "sealed"
    BY <1>4, <1>5
  <2>3. QED
    BY <2>1, <2>2 DEF Inputs!Full, Inputs!Unreadable
<1>6. CASE sealed # {}
  <2>1. \E f \in DOMAIN a.stored : a.stored[f].is = "sealed"
    BY <1>1, <1>2, <1>4, <1>6
  <2>2. QED
    BY <1>6, <2>1 DEF Inputs!Full, Inputs!Unreadable
<1>7. QED
  BY <1>5, <1>6

(* An accepted input that was fit to be asked about. *)
ActionFields == {"status", "cap", "input", "stored", "asked", "error", "ran"}
FitToRun(a) ==
  /\ a.stored = Inputs!Stored(a.cap, a.input) /\ Stands(a.cap, a.input)
  /\ Inputs!Preflight(a.cap, a.input) = ""
LostKey(a) == ~keys /\ Inputs!Seals(a.cap, a.input) # {}
InputsInv ==
  /\ DOMAIN action = ActionFields
  /\ \A n \in action.ran : n = action.input
  /\ action.status \in {"pending", "approved"} => FitToRun(action) /\ action.error = "" /\ action.ran = {}
  /\ action.status = "running" => action.ran # {}
  /\ action.asked /\ action.error # "" =>
       \/ action.error = "private_action_payload_unreadable" /\ LostKey(action)
       \/ action.ran # {}

(* The second and the third look find nothing but a lost key. *)
LEMMA RecheckFinds ==
  ASSUME NEW a, FitToRun(a), Inputs!Recheck(a) # ""
  PROVE  Inputs!Recheck(a) = "private_action_payload_unreadable" /\ LostKey(a)
<1>1. Inputs!Normal(a.cap, Inputs!Full(a)) = {a.input}
  BY StoredWhole DEF FitToRun, Stands
<1>2. Inputs!Sole(Inputs!Normal(a.cap, Inputs!Full(a))) = a.input
  BY <1>1, SoleOf
<1>3. Inputs!Unreadable(a)
  BY <1>1, <1>2 DEF Inputs!Recheck, FitToRun
<1>4. QED
  BY <1>3, StoredWhole DEF FitToRun, LostKey, Inputs!Recheck

(* The invariant holds before anything is proposed. *)
LEMMA InputsInit == Inputs!Init => InputsInv
<1> SUFFICES ASSUME Inputs!Init PROVE InputsInv
  OBVIOUS
<1>1. DOMAIN action = ActionFields
  BY DEF Inputs!Init, Inputs!Idle, ActionFields
<1>2. action.status = "none" /\ ~action.asked /\ action.ran = {}
  BY DEF Inputs!Init, Inputs!Idle
<1>3. QED
  BY <1>1, <1>2 DEF InputsInv

(* Every step keeps it, one case per action. *)
LEMMA InputsStep ==
  ASSUME InputsConstants, InputsInv, [Inputs!Next]_(Inputs!inputs)
  PROVE  InputsInv'
<1>1. CASE UNCHANGED Inputs!inputs
  BY <1>1 DEF Inputs!inputs, InputsInv, LostKey
<1>2. ASSUME NEW c \in Inputs!Capability, NEW tainted \in BOOLEAN, NEW r \in RawInput(c),
             Inputs!Propose(c, r, tainted)
      PROVE  InputsInv'
  <2> DEFINE norm == Inputs!Normal(c, r)
             n == Inputs!Sole(norm)
             accepted == Inputs!Accepted(c, n)
  <2>1. CASE action' = [Inputs!Idle EXCEPT !.status = "rejected"]
    BY <2>1 DEF Inputs!Idle, InputsInv, ActionFields
  <2>2. CASE norm # {}
    <3>1. Input(r)
      BY DEF InputsConstants, Input
    <3>2. n \in norm
      BY <2>2 DEF Inputs!Sole
    <3>3. Stands(c, n)
      BY <3>1, <3>2, NormalStands
    <3> HIDE DEF n, norm
    <3>4. /\ DOMAIN accepted = ActionFields /\ accepted.cap = c /\ accepted.input = n
          /\ accepted.stored = Inputs!Stored(c, n) /\ ~accepted.asked
          /\ accepted.error = "" /\ accepted.ran = {}
      BY DEF Inputs!Accepted, Inputs!Idle, ActionFields
    <3> HIDE DEF accepted
    <3>5. CASE action' = Inputs!Failed(accepted, Inputs!Preflight(c, n))
      BY <3>4, <3>5 DEF Inputs!Failed, InputsInv, ActionFields
    <3>6. CASE action' = [accepted EXCEPT !.status = "running", !.ran = {n}]
      BY <3>4, <3>6 DEF InputsInv, ActionFields
    <3>7. CASE action' = [accepted EXCEPT !.status = "pending", !.asked = TRUE] /\ Inputs!Preflight(c, n) = ""
      BY <3>3, <3>4, <3>7 DEF InputsInv, ActionFields, FitToRun
    <3>8. QED
      BY <1>2, <2>1, <2>2, <3>5, <3>6, <3>7 DEF Inputs!Propose, accepted, n, norm
  <2>3. QED
    BY <1>2, <2>1, <2>2 DEF Inputs!Propose
<1>3. ASSUME Inputs!Approve
      PROVE  InputsInv'
  <2>1. FitToRun(action) /\ action.error = "" /\ action.ran = {} /\ keys' = keys /\ DOMAIN action = ActionFields
    BY <1>3 DEF Inputs!Approve, InputsInv
  <2>2. CASE Inputs!Recheck(action) = "" /\ action' = [action EXCEPT !.status = "approved"]
    BY <2>1, <2>2 DEF InputsInv, FitToRun, ActionFields
  <2>3. CASE Inputs!Recheck(action) # "" /\ action' = Inputs!Failed(action, Inputs!Recheck(action))
    BY <2>1, <2>3, RecheckFinds DEF Inputs!Failed, InputsInv, LostKey, ActionFields
  <2>4. QED
    BY <1>3, <2>2, <2>3 DEF Inputs!Approve
<1>4. ASSUME Inputs!Dispatch
      PROVE  InputsInv'
  <2>1. FitToRun(action) /\ action.error = "" /\ action.ran = {} /\ keys' = keys /\ DOMAIN action = ActionFields
    BY <1>4 DEF Inputs!Dispatch, InputsInv
  <2>2. CASE action' = [action EXCEPT !.status = "running",
                                      !.ran = Inputs!Normal(action.cap, Inputs!Full(action))]
    <3>1. Inputs!Normal(action.cap, Inputs!Full(action)) = {action.input}
      BY <2>1, StoredWhole DEF FitToRun, Stands
    <3>2. QED
      BY <2>1, <2>2, <3>1 DEF InputsInv, ActionFields
  <2>3. CASE Inputs!Recheck(action) # "" /\ action' = Inputs!Failed(action, Inputs!Recheck(action))
    BY <2>1, <2>3, RecheckFinds DEF Inputs!Failed, InputsInv, LostKey, ActionFields
  <2>4. QED
    BY <1>4, <2>2, <2>3 DEF Inputs!Dispatch
<1>5. ASSUME NEW answer \in {"clean", "provider_error", "guardrail_post_output_blocked"},
             Inputs!Finish(answer)
      PROVE  InputsInv'
  <2>1. action.ran # {} /\ DOMAIN action = ActionFields /\ \A n \in action.ran : n = action.input
    BY <1>5 DEF Inputs!Finish, InputsInv
  <2>2. CASE action' = [action EXCEPT !.status = "succeeded"]
    BY <2>1, <2>2 DEF InputsInv, ActionFields
  <2>3. CASE action' = Inputs!Failed(action, answer)
    BY <2>1, <2>3 DEF Inputs!Failed, InputsInv, ActionFields
  <2>4. QED
    BY <1>5, <2>2, <2>3 DEF Inputs!Finish
<1>6. ASSUME Inputs!RotateKeys
      PROVE  InputsInv'
  BY <1>6 DEF Inputs!RotateKeys, InputsInv, LostKey, FitToRun
<1>7. QED
  BY <1>1, <1>2, <1>3, <1>4, <1>5, <1>6 DEF Inputs!Next

(* Every validator takes what it returned, read back from JSON, for normal,*)
(* and returns it again (capability_registry.py).                          *)
THEOREM ValidatorsAreIdempotent ==
  \A c \in Inputs!Capability : \A r \in RawInput(c) :
    \A n \in Inputs!Normal(c, r) : Inputs!Normal(c, Inputs!InJson(n)) = {n}
<1> USE ServicesAssumption DEF ServicesAssumption
<1>1. ASSUME NEW c \in Inputs!Capability, NEW r \in RawInput(c), NEW n \in Inputs!Normal(c, r)
      PROVE  Inputs!Normal(c, Inputs!InJson(n)) = {n}
  <2>1. Input(r)
    BY DEF InputsConstants, Input
  <2>2. QED
    BY <2>1, NormalStands DEF Stands
<1>2. QED
  BY <1>1

(* What a program proposed and the owner approved is what runs, however    *)
(* late and in whichever process, and only a lost key or the provider stops*)
(* it (action_runtime.py:4540, 4965): the validators are idempotent.       *)
THEOREM ApprovedInputsRun ==
  Inputs!Init /\ [][Inputs!Next]_(Inputs!inputs) => []ApprovedInputsStand
<1> USE ServicesAssumption DEF ServicesAssumption
<1>1. Inputs!Init => InputsInv
  BY InputsInit
<1>2. InputsInv /\ [Inputs!Next]_(Inputs!inputs) => InputsInv'
  BY InputsStep
<1>3. InputsInv => ApprovedInputsStand
  BY DEF InputsInv, LostKey, ApprovedInputsStand, Inputs!ApprovedInputsStand
<1>4. QED
  BY <1>1, <1>2, <1>3, PTL
=============================================================================
