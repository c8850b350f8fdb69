------------------------ MODULE ProviderWriteProofs -------------------------
(***************************************************************************)
(* Theorems about ProviderWrite, for every set of attempts and writes, any *)
(* sharing of keys between them and any retry limit.                       *)
(*                                                                         *)
(* CallsJustified is not inductive.  What makes it so is the trace that a  *)
(* dispatch leaves in the database before the call (InFlightTraced,        *)
(* UntracedUncalled, AttemptKnows), together with where the one worker is  *)
(* (PhaseOK, CalledOnce).                                                  *)
(***************************************************************************)
EXTENDS ProviderWrite, TLAPS

(* From the dispatch to the transaction that records the answer. *)
InFlight == {"capture", "call", "record"}

(* What the worker's position says of the attempt and write it works on. *)
PhaseOK ==
  /\ phase \in InFlight \cup {"decide"} => act \in Attempt /\ rec = WriteOf[act]
  /\ phase \in {"inspect", "learn"} => act = NoAttempt /\ rec \in Write
  /\ phase \in {"finish", "raise"} => rec \in Write
  /\ phase = "capture" => Kind[rec] = "email"
  /\ phase = "call" => Kind[rec] \in ReceiptKinds \cup {"run"}
  /\ phase = "record" => Kind[rec] # "host"
  /\ phase = "call" /\ Kind[rec] = "undo" => receipt[Target[rec]].before # "none"

(* A call is about to be the first, or was the first. *)
CalledOnce ==
  /\ \A w \in Write : calls[w] <= 1
  /\ phase \in {"capture", "call"} => calls[rec] = 0
  /\ phase = "record" /\ result = "retry" => calls[rec] = 1

(* The traces from which the next decision knows of a call.  While it is   *)
(* in flight both are there; ...                                           *)
InFlightTraced ==
  phase \in InFlight =>
    /\ Kind[rec] \in ReceiptKinds => receipt[rec].st = "executing"
    /\ marker[act] \/ Kind[rec] = "memory"

(* ... without a receipt, or with a failure to retry, there was no call;   *)
UntracedUncalled ==
  \A w \in Write :
    Kind[w] \in ReceiptKinds /\ (receipt[w].st = "none" \/ RetryableEmail(w))
      => calls[w] = 0

(* ... and of writes without a receipt the attempt itself knows.           *)
AttemptKnows ==
  \A a \in Attempt : calls[WriteOf[a]] # 0 =>
    /\ Kind[WriteOf[a]] = "run" => marker[a] \/ status[a] \in Terminal
    /\ Kind[WriteOf[a]] = "host" => status[a] \in Terminal

IInv ==
  /\ TypeOK /\ PhaseOK /\ CalledOnce
  /\ InFlightTraced /\ UntracedUncalled /\ AttemptKnows

-----------------------------------------------------------------------------
(* Recording a receipt keeps its type and touches no other receipt; unless *)
(* the receipt has succeeded, it takes the new status.                     *)
LEMMA RecordReceiptEffect ==
  ASSUME receipt \in [Write -> Receipt],
         NEW a \in Attempt \cup {NoAttempt}, NEW w \in Write,
         NEW s \in {"executing", "succeeded", "failed", "ambiguous"},
         NEW retry \in BOOLEAN, RecordReceipt(a, w, s, retry)
  PROVE  /\ receipt' \in [Write -> Receipt]
         /\ \A x \in Write \ {w} : receipt'[x] = receipt[x]
         /\ receipt'[w].before = receipt[w].before
         /\ receipt[w].st = "succeeded" => receipt'[w] = receipt[w]
         /\ receipt[w].st # "succeeded" => receipt'[w].st = s
         /\ receipt[w].st # "succeeded" => receipt'[w].retryable = retry
<1> DEFINE r == receipt[w]
           new == [r EXCEPT !.st = s, !.retryable = retry, !.checked = FALSE,
                            !.owner = IF r.owner = NoAttempt THEN a ELSE r.owner]
<1>1. r \in Receipt
  OBVIOUS
<1>2. new \in Receipt /\ new.st = s /\ new.retryable = retry /\ new.before = r.before
  BY <1>1, ZenonT(60) DEF Receipt
<1>3. receipt' = IF r.st = "succeeded" THEN receipt ELSE [receipt EXCEPT ![w] = new]
  BY DEF RecordReceipt
<1> HIDE DEF r, new
<1>4. r = receipt[w]
  BY DEF r
<1> QED
  BY <1>1, <1>2, <1>3, <1>4

(* Settling an attempt keeps the types and touches no other attempt. *)
LEMMA SettleEffect ==
  ASSUME status \in [Attempt -> {"proposed", "executing"} \cup Terminal],
         marker \in [Attempt -> BOOLEAN],
         NEW a \in Attempt \cup {NoAttempt}, NEW s \in Terminal, Settle(a, s)
  PROVE  /\ status' \in [Attempt -> {"proposed", "executing"} \cup Terminal]
         /\ marker' \in [Attempt -> BOOLEAN]
         /\ \A x \in Attempt : x # a => status'[x] = status[x] /\ marker'[x] = marker[x]
         /\ a \in Attempt => status'[a] = s
BY DEF Settle, Terminal

(* Storing the labels read before a mail mutation (CaptureBeforeState)      *)
(* leaves every receipt's status alone.                                    *)
LEMMA BeforeEffect ==
  ASSUME receipt \in [Write -> Receipt], NEW w \in Write, NEW b \in WorldState,
         receipt' = [receipt EXCEPT ![w].before = b]
  PROVE  /\ receipt' \in [Write -> Receipt]
         /\ \A x \in Write : receipt'[x].st = receipt[x].st
                             /\ receipt'[x].retryable = receipt[x].retryable
BY DEF Receipt, WorldState

(* So does noting that a reconciliation looked and could not tell. *)
LEMMA CheckedEffect ==
  ASSUME receipt \in [Write -> Receipt], NEW w \in Write,
         receipt' = [receipt EXCEPT ![w].checked = TRUE]
  PROVE  /\ receipt' \in [Write -> Receipt]
         /\ \A x \in Write : receipt'[x].st = receipt[x].st
                             /\ receipt'[x].retryable = receipt[x].retryable
BY DEF Receipt, WorldState

(* A successful undo u of w makes u's receipt succeeded and w's undone.     *)
LEMMA RecordUndoEffect ==
  ASSUME receipt \in [Write -> Receipt], NEW u \in Write, NEW w \in Write, u # w,
         RecordUndo(u, w)
  PROVE  /\ receipt' \in [Write -> Receipt]
         /\ receipt'[u].st = "succeeded"
         /\ receipt'[w].retryable = receipt[w].retryable
         /\ receipt[w].st # "succeeded" => receipt'[w].st = receipt[w].st
         /\ receipt[w].st = "succeeded" => receipt'[w].st = "undone"
         /\ \A x \in Write \ {u, w} : receipt'[x] = receipt[x]
<1> DEFINE ru == [receipt[u] EXCEPT !.st = "succeeded", !.retryable = FALSE]
           rw == [receipt[w] EXCEPT
                    !.st = IF receipt[w].st = "succeeded" THEN "undone" ELSE receipt[w].st]
<1>1. receipt' = [receipt EXCEPT ![u] = ru, ![w] = rw]
  BY Zenon DEF RecordUndo, Receipt
<1>2. /\ ru \in Receipt /\ ru.st = "succeeded"
      /\ rw \in Receipt /\ rw.retryable = receipt[w].retryable
      /\ receipt[w].st # "succeeded" => rw.st = receipt[w].st
      /\ receipt[w].st = "succeeded" => rw.st = "undone"
  BY DEF Receipt
<1> HIDE DEF ru, rw
<1> QED
  BY <1>1, <1>2

(* A provider call leaves the object it is about in one of its states. *)
LEMMA WorldAfterType ==
  ASSUME NEW k, NEW r, NEW now \in WorldState, NEW goal \in WorldState,
         NEW x \in WorldAfter(k, r, now, goal)
  PROVE  x \in WorldState
BY DEF WorldAfter, WorldState

(* What a call aims at is a state of the object: for an undo, the labels    *)
(* captured by the mutation it reverses.                                   *)
LEMMA GoalType ==
  ASSUME receipt \in [Write -> Receipt], NEW w \in Write, Target[w] \in Write,
         Kind[w] = "undo" => receipt[Target[w]].before # "none"
  PROVE  Goal(w) \in WorldState
BY DEF Goal, Receipt, WorldState

(* Queueing a reconciliation keeps the type of the queue. *)
LEMMA ReconcileEffect ==
  ASSUME reconTask \in [Write -> -1 .. MaxTaskAttempts - 1], NEW w \in Write,
         EnqueueReconcile(w)
  PROVE  reconTask' \in [Write -> -1 .. MaxTaskAttempts - 1]
BY WriteAssumption DEF EnqueueReconcile

(* The attempt count of a failed task stays below MaxTaskAttempts. *)
LEMMA AfterFailureType ==
  ASSUME NEW n \in -1 .. MaxTaskAttempts - 1
  PROVE  AfterFailure(n) \in -1 .. MaxTaskAttempts - 1
BY WriteAssumption DEF AfterFailure

(* Settling attempts keeps AttemptKnows. *)
LEMMA AttemptStillKnows ==
  ASSUME AttemptKnows, calls' = calls, NEW a,
         \A x \in Attempt : x # a => status'[x] = status[x] /\ marker'[x] = marker[x],
         a \in Attempt => status'[a] \in Terminal
  PROVE  AttemptKnows'
<1> SUFFICES ASSUME NEW x \in Attempt, calls'[WriteOf[x]] # 0
             PROVE  /\ Kind[WriteOf[x]] = "run" => marker'[x] \/ status'[x] \in Terminal
                    /\ Kind[WriteOf[x]] = "host" => status'[x] \in Terminal
  BY DEF AttemptKnows
<1>1. CASE x = a
  BY <1>1
<1>2. CASE x # a
  BY <1>2 DEF AttemptKnows
<1> QED
  BY <1>1, <1>2

(* A receipt whose new status is that of a known call keeps                *)
(* UntracedUncalled.                                                       *)
LEMMA ReceiptStillTraces ==
  ASSUME UntracedUncalled, calls' = calls,
         \A x \in Write : \/ /\ receipt'[x].st = receipt[x].st
                             /\ receipt'[x].retryable = receipt[x].retryable
                          \/ receipt'[x].st \in {"executing", "succeeded", "ambiguous", "undone"}
                          \/ receipt'[x].st = "failed" /\ receipt'[x].retryable = FALSE
  PROVE  UntracedUncalled'
<1> SUFFICES ASSUME NEW x \in Write, Kind[x] \in ReceiptKinds,
                    receipt'[x].st = "none" \/ RetryableEmail(x)'
             PROVE  calls'[x] = 0
  BY DEF UntracedUncalled
<1>1. receipt'[x].st = receipt[x].st /\ receipt'[x].retryable = receipt[x].retryable
  BY DEF RetryableEmail
<1>2. receipt[x].st = "none" \/ RetryableEmail(x)
  BY <1>1 DEF RetryableEmail
<1> QED
  BY <1>2 DEF UntracedUncalled

-----------------------------------------------------------------------------
(* The worker takes, finishes, gives up or loses a task; the API queues one. *)
LEMMA TaskStepsKeepIInv ==
  ASSUME IInv,
         \/ \E a \in Attempt : Authorize(a) \/ StartExecution(a) \/ AlreadySettled(a)
         \/ \E w \in Write : StartReconcile(w)
         \/ FinishTask \/ Raise \/ FailTask \/ Crash
  PROVE  IInv'
<1> USE WriteAssumption DEF IInv, db, worker, history
<1>1. ASSUME NEW a \in Attempt, Authorize(a) PROVE IInv'
  <2>1. TypeOK'
    BY <1>1 DEF Authorize, TypeOK
  <2>2. PhaseOK'
    BY <1>1 DEF Authorize, PhaseOK
  <2>3. CalledOnce'
    BY <1>1 DEF Authorize, CalledOnce
  <2>4. InFlightTraced'
    BY <1>1 DEF Authorize, InFlightTraced
  <2>5. UntracedUncalled'
    BY <1>1 DEF Authorize, UntracedUncalled, RetryableEmail
  <2>6. AttemptKnows'
    BY <1>1 DEF Authorize, AttemptKnows, InFlightTraced, InFlight, CalledOnce,
       PhaseOK, TypeOK, Terminal
  <2> QED
    BY <2>1, <2>2, <2>3, <2>4, <2>5, <2>6
<1>2. ASSUME NEW a \in Attempt, StartExecution(a) PROVE IInv'
  <2>1. TypeOK'
    BY <1>2 DEF StartExecution, TypeOK, Results
  <2>2. PhaseOK'
    BY <1>2 DEF StartExecution, PhaseOK
  <2>3. CalledOnce'
    BY <1>2 DEF StartExecution, CalledOnce
  <2>4. InFlightTraced'
    BY <1>2 DEF StartExecution, InFlightTraced, InFlight, PhaseOK
  <2>5. UntracedUncalled'
    BY <1>2 DEF StartExecution, UntracedUncalled, RetryableEmail
  <2>6. AttemptKnows'
    BY <1>2 DEF StartExecution, AttemptKnows
  <2> QED
    BY <2>1, <2>2, <2>3, <2>4, <2>5, <2>6
<1>3. ASSUME NEW a \in Attempt, AlreadySettled(a) PROVE IInv'
  <2>1. TypeOK'
    BY <1>3 DEF AlreadySettled, Goto, TypeOK
  <2>2. PhaseOK'
    BY <1>3 DEF AlreadySettled, Goto, PhaseOK
  <2>3. CalledOnce'
    BY <1>3 DEF AlreadySettled, Goto, CalledOnce
  <2>4. InFlightTraced'
    BY <1>3 DEF AlreadySettled, Goto, InFlightTraced, InFlight, PhaseOK
  <2>5. UntracedUncalled'
    BY <1>3 DEF AlreadySettled, Goto, UntracedUncalled, RetryableEmail
  <2>6. AttemptKnows'
    BY <1>3 DEF AlreadySettled, Goto, AttemptKnows
  <2> QED
    BY <2>1, <2>2, <2>3, <2>4, <2>5, <2>6
<1>4. ASSUME NEW w \in Write, StartReconcile(w) PROVE IInv'
  <2>1. TypeOK'
    BY <1>4 DEF StartReconcile, TypeOK, Results
  <2>2. PhaseOK'
    BY <1>4 DEF StartReconcile, PhaseOK, InFlight
  <2>3. CalledOnce'
    BY <1>4 DEF StartReconcile, CalledOnce
  <2>4. InFlightTraced'
    BY <1>4 DEF StartReconcile, InFlightTraced, InFlight, PhaseOK
  <2>5. UntracedUncalled'
    BY <1>4 DEF StartReconcile, UntracedUncalled, RetryableEmail
  <2>6. AttemptKnows'
    BY <1>4 DEF StartReconcile, AttemptKnows
  <2> QED
    BY <2>1, <2>2, <2>3, <2>4, <2>5, <2>6
<1>5. CASE FinishTask
  <2>1. TypeOK'
    BY <1>5 DEF FinishTask, Idle, TypeOK, Results
  <2>2. PhaseOK'
    BY <1>5 DEF FinishTask, Idle, PhaseOK, InFlight
  <2>3. CalledOnce'
    BY <1>5 DEF FinishTask, Idle, CalledOnce
  <2>4. InFlightTraced'
    BY <1>5 DEF FinishTask, Idle, InFlightTraced, InFlight, PhaseOK
  <2>5. UntracedUncalled'
    BY <1>5 DEF FinishTask, Idle, UntracedUncalled, RetryableEmail
  <2>6. AttemptKnows'
    BY <1>5 DEF FinishTask, Idle, AttemptKnows
  <2> QED
    BY <2>1, <2>2, <2>3, <2>4, <2>5, <2>6
<1>6. CASE Raise
  <2>1. TypeOK'
    BY <1>6 DEF Raise, Goto, TypeOK
  <2>2. PhaseOK'
    BY <1>6 DEF Raise, Goto, PhaseOK, InFlight
  <2>3. CalledOnce'
    BY <1>6 DEF Raise, Goto, CalledOnce
  <2>4. InFlightTraced'
    BY <1>6 DEF Raise, Goto, InFlightTraced, InFlight, PhaseOK
  <2>5. UntracedUncalled'
    BY <1>6 DEF Raise, Goto, UntracedUncalled, RetryableEmail
  <2>6. AttemptKnows'
    BY <1>6 DEF Raise, Goto, AttemptKnows
  <2> QED
    BY <2>1, <2>2, <2>3, <2>4, <2>5, <2>6
<1>7. CASE FailTask
  <2>1. /\ execTask' \in [Attempt -> -1 .. MaxTaskAttempts - 1]
        /\ reconTask' \in [Write -> -1 .. MaxTaskAttempts - 1]
    BY <1>7, AfterFailureType DEF FailTask, TypeOK, PhaseOK
  <2>2. gaveUp' \subseteq Attempt \cup Write
    BY <1>7 DEF FailTask, TypeOK, PhaseOK
  <2>3. TypeOK'
    BY <1>7, <2>1, <2>2 DEF FailTask, Idle, TypeOK, Results
  <2>4. PhaseOK'
    BY <1>7, <2>1, <2>2 DEF FailTask, Idle, PhaseOK, InFlight
  <2>5. CalledOnce'
    BY <1>7, <2>1, <2>2 DEF FailTask, Idle, CalledOnce
  <2>6. InFlightTraced'
    BY <1>7, <2>1, <2>2 DEF FailTask, Idle, InFlightTraced, InFlight, PhaseOK
  <2>7. UntracedUncalled'
    BY <1>7, <2>1, <2>2 DEF FailTask, Idle, UntracedUncalled, RetryableEmail
  <2>8. AttemptKnows'
    BY <1>7, <2>1, <2>2 DEF FailTask, Idle, AttemptKnows
  <2> QED
    BY <2>3, <2>4, <2>5, <2>6, <2>7, <2>8
<1>8. CASE Crash
  <2>1. TypeOK'
    BY <1>8 DEF Crash, Idle, TypeOK, Results
  <2>2. PhaseOK'
    BY <1>8 DEF Crash, Idle, PhaseOK, InFlight
  <2>3. CalledOnce'
    BY <1>8 DEF Crash, Idle, CalledOnce
  <2>4. InFlightTraced'
    BY <1>8 DEF Crash, Idle, InFlightTraced, InFlight, PhaseOK
  <2>5. UntracedUncalled'
    BY <1>8 DEF Crash, Idle, UntracedUncalled, RetryableEmail
  <2>6. AttemptKnows'
    BY <1>8 DEF Crash, Idle, AttemptKnows
  <2> QED
    BY <2>1, <2>2, <2>3, <2>4, <2>5, <2>6
<1> QED
  BY <1>1, <1>2, <1>3, <1>4, <1>5, <1>6, <1>7, <1>8

-----------------------------------------------------------------------------
(* Every decision, whether it dispatches or settles the attempt. *)
LEMMA DecideKeepsIInv ==
  ASSUME IInv, NEW a \in Attempt, NEW w \in Write, w = WriteOf[a], Decide(a, w)
  PROVE  IInv'
<1> USE WriteAssumption DEF IInv, db, worker, history
<1>1. CASE ReplayReceipt(a, w)
  <2>1. /\ status' \in [Attempt -> {"proposed", "executing"} \cup Terminal]
        /\ marker' \in [Attempt -> BOOLEAN]
        /\ \A x \in Attempt : x # a => status'[x] = status[x] /\ marker'[x] = marker[x]
        /\ a \in Attempt => status'[a] \in Terminal
    BY <1>1, SettleEffect DEF ReplayReceipt, TypeOK, Terminal
  <2>2. TypeOK'
    BY <1>1, <2>1 DEF ReplayReceipt, Deciding, Goto, TypeOK
  <2>3. PhaseOK'
    BY <1>1, <2>1 DEF ReplayReceipt, Deciding, Goto, PhaseOK
  <2>4. CalledOnce'
    BY <1>1, <2>1 DEF ReplayReceipt, Deciding, Goto, CalledOnce
  <2>5. InFlightTraced'
    BY <1>1, <2>1 DEF ReplayReceipt, Deciding, Goto, InFlightTraced, InFlight,
       PhaseOK
  <2>6. UntracedUncalled'
    BY <1>1, <2>1 DEF ReplayReceipt, Deciding, Goto, UntracedUncalled,
       RetryableEmail
  <2>7. AttemptKnows'
    BY <1>1, <2>1, AttemptStillKnows DEF ReplayReceipt
  <2> QED
    BY <2>2, <2>3, <2>4, <2>5, <2>6, <2>7
<1>2. CASE Refuse(a, w)
  <2>1. /\ status' \in [Attempt -> {"proposed", "executing"} \cup Terminal]
        /\ marker' \in [Attempt -> BOOLEAN]
        /\ \A x \in Attempt : x # a => status'[x] = status[x] /\ marker'[x] = marker[x]
        /\ a \in Attempt => status'[a] \in Terminal
    BY <1>2, SettleEffect DEF Refuse, TypeOK, Terminal
  <2>2. TypeOK'
    BY <1>2, <2>1 DEF Refuse, Deciding, Goto, TypeOK
  <2>3. PhaseOK'
    BY <1>2, <2>1 DEF Refuse, Deciding, Goto, PhaseOK
  <2>4. CalledOnce'
    BY <1>2, <2>1 DEF Refuse, Deciding, Goto, CalledOnce
  <2>5. InFlightTraced'
    BY <1>2, <2>1 DEF Refuse, Deciding, Goto, InFlightTraced, InFlight,
       PhaseOK
  <2>6. UntracedUncalled'
    BY <1>2, <2>1 DEF Refuse, Deciding, Goto, UntracedUncalled, RetryableEmail
  <2>7. AttemptKnows'
    BY <1>2, <2>1, AttemptStillKnows DEF Refuse
  <2> QED
    BY <2>2, <2>3, <2>4, <2>5, <2>6, <2>7
<1>3. CASE MarkUnknown(a, w)
  <2>1. /\ status' \in [Attempt -> {"proposed", "executing"} \cup Terminal]
        /\ marker' \in [Attempt -> BOOLEAN]
        /\ \A x \in Attempt : x # a => status'[x] = status[x] /\ marker'[x] = marker[x]
        /\ a \in Attempt => status'[a] \in Terminal
    BY <1>3, SettleEffect DEF MarkUnknown, TypeOK, Terminal
  <2>2. /\ receipt' \in [Write -> Receipt]
        /\ \A x \in Write \ {w} : receipt'[x] = receipt[x]
        /\ receipt'[w].st = "ambiguous"
    BY <1>3, RecordReceiptEffect DEF MarkUnknown, TypeOK
  <2>3. reconTask' \in [Write -> -1 .. MaxTaskAttempts - 1]
    BY <1>3, ReconcileEffect DEF MarkUnknown, TypeOK
  <2>4. TypeOK'
    BY <1>3, <2>1, <2>2, <2>3 DEF MarkUnknown, Deciding, Goto, TypeOK
  <2>5. PhaseOK'
    BY <1>3, <2>1, <2>2, <2>3 DEF MarkUnknown, Deciding, Goto, PhaseOK
  <2>6. CalledOnce'
    BY <1>3, <2>1, <2>2, <2>3 DEF MarkUnknown, Deciding, Goto, CalledOnce
  <2>7. InFlightTraced'
    BY <1>3, <2>1, <2>2, <2>3 DEF MarkUnknown, Deciding, Goto, InFlightTraced,
       InFlight, PhaseOK
  <2>8. UntracedUncalled'
    BY <1>3, <2>2, ReceiptStillTraces DEF MarkUnknown
  <2>9. AttemptKnows'
    BY <1>3, <2>1, AttemptStillKnows DEF MarkUnknown
  <2> QED
    BY <2>4, <2>5, <2>6, <2>7, <2>8, <2>9
<1>4. CASE GateFails(a, w)
  <2>1. /\ status' \in [Attempt -> {"proposed", "executing"} \cup Terminal]
        /\ marker' \in [Attempt -> BOOLEAN]
        /\ \A x \in Attempt : x # a => status'[x] = status[x] /\ marker'[x] = marker[x]
        /\ a \in Attempt => status'[a] \in Terminal
    BY <1>4, SettleEffect DEF GateFails, TypeOK, Terminal
  <2>2. TypeOK'
    BY <1>4, <2>1 DEF GateFails, Undispatched, Deciding, Goto, TypeOK
  <2>3. PhaseOK'
    BY <1>4, <2>1 DEF GateFails, Undispatched, Deciding, Goto, PhaseOK
  <2>4. CalledOnce'
    BY <1>4, <2>1 DEF GateFails, Undispatched, Deciding, Goto, CalledOnce
  <2>5. InFlightTraced'
    BY <1>4, <2>1 DEF GateFails, Undispatched, Deciding, Goto, InFlightTraced,
       InFlight, PhaseOK
  <2>6. UntracedUncalled'
    BY <1>4, <2>1 DEF GateFails, Undispatched, Deciding, Goto,
       UntracedUncalled, RetryableEmail
  <2>7. AttemptKnows'
    BY <1>4, <2>1, AttemptStillKnows DEF GateFails
  <2> QED
    BY <2>2, <2>3, <2>4, <2>5, <2>6, <2>7
<1>5. CASE ExecuteOnHost(a, w)
  <2>1. /\ status' \in [Attempt -> {"proposed", "executing"} \cup Terminal]
        /\ marker' \in [Attempt -> BOOLEAN]
        /\ \A x \in Attempt : x # a => status'[x] = status[x] /\ marker'[x] = marker[x]
        /\ a \in Attempt => status'[a] \in Terminal
    BY <1>5, SettleEffect DEF ExecuteOnHost, TypeOK, Terminal
  <2>2. TypeOK'
    BY <1>5, <2>1 DEF ExecuteOnHost, Undispatched, Deciding, Goto, TypeOK,
       WorldState
  <2>3. PhaseOK'
    BY <1>5, <2>1 DEF ExecuteOnHost, Undispatched, Deciding, Goto, PhaseOK
  <2>4. CalledOnce'
    <3>1. calls[w] = 0
      BY <1>5 DEF ExecuteOnHost, Undispatched, Deciding, AttemptKnows, Terminal
    <3>2. \A x \in Write : calls'[x] = IF x = w THEN 1 ELSE calls[x]
      BY <1>5, <3>1 DEF ExecuteOnHost, TypeOK
    <3>3. phase' = "finish"
      BY <1>5 DEF ExecuteOnHost, Goto
    <3> QED
      BY <3>2, <3>3 DEF CalledOnce
  <2>5. InFlightTraced'
    BY <1>5, <2>1 DEF ExecuteOnHost, Undispatched, Deciding, Goto,
       InFlightTraced, InFlight, PhaseOK
  <2>6. UntracedUncalled'
    BY <1>5, <2>1 DEF ExecuteOnHost, Undispatched, Deciding, Goto,
       UntracedUncalled, InFlightTraced, InFlight, RetryableEmail, CalledOnce,
       PhaseOK, TypeOK, EmailKinds, GoogleKinds, ReceiptKinds
  <2>7. AttemptKnows'
    <3> SUFFICES ASSUME NEW x \in Attempt, calls'[WriteOf[x]] # 0
                 PROVE  /\ Kind[WriteOf[x]] = "run" => marker'[x] \/ status'[x] \in Terminal
                        /\ Kind[WriteOf[x]] = "host" => status'[x] \in Terminal
      BY DEF AttemptKnows
    <3>1. CASE WriteOf[x] = w
      <4>1. x = a
        BY <1>5, <3>1 DEF ExecuteOnHost, GoogleKinds, EmailKinds
      <4> QED
        BY <2>1, <4>1
    <3>2. CASE WriteOf[x] # w
      <4>1. x # a /\ calls[WriteOf[x]] # 0
        BY <1>5, <3>2 DEF ExecuteOnHost, TypeOK
      <4> QED
        BY <2>1, <4>1 DEF AttemptKnows
    <3> QED
      BY <3>1, <3>2
  <2> QED
    BY <2>2, <2>3, <2>4, <2>5, <2>6, <2>7
<1>6. CASE ExecuteMemory(a, w)
  <2>1. TypeOK'
    BY <1>6 DEF ExecuteMemory, Undispatched, Deciding, TypeOK, WorldState,
       Results
  <2>2. PhaseOK'
    BY <1>6 DEF ExecuteMemory, Undispatched, Deciding, PhaseOK
  <2>3. CalledOnce'
    BY <1>6 DEF ExecuteMemory, Undispatched, Deciding, CalledOnce
  <2>4. InFlightTraced'
    BY <1>6 DEF ExecuteMemory, Undispatched, Deciding, InFlightTraced,
       InFlight, PhaseOK, TypeOK, EmailKinds, GoogleKinds, ReceiptKinds
  <2>5. UntracedUncalled'
    BY <1>6 DEF ExecuteMemory, Undispatched, Deciding, UntracedUncalled,
       RetryableEmail
  <2>6. AttemptKnows'
    BY <1>6 DEF ExecuteMemory, Undispatched, Deciding, AttemptKnows
  <2> QED
    BY <2>1, <2>2, <2>3, <2>4, <2>5, <2>6
<1>7. CASE Dispatch(a, w)
  <2>1. /\ receipt' \in [Write -> Receipt]
        /\ \A x \in Write \ {w} : receipt'[x] = receipt[x]
        /\ Kind[w] \in ReceiptKinds => receipt'[w].st = "executing"
    BY <1>7, RecordReceiptEffect DEF Dispatch, MayDispatch, RetryableEmail,
       TypeOK
  <2>2. TypeOK'
    BY <1>7, <2>1 DEF Dispatch, Undispatched, Deciding, Goto, TypeOK
  <2>3. PhaseOK'
    BY <1>7, <2>1 DEF Dispatch, Undispatched, Deciding, Goto, MayDispatch,
       MustCapture, UndoAvailable, PhaseOK, InFlight, TypeOK
  <2>4. CalledOnce'
    <3>1. CASE Kind[w] \in ReceiptKinds
      <4>1. calls[w] = 0
        BY <1>7, <3>1 DEF Dispatch, MayDispatch, UntracedUncalled
      <4> QED
        BY <1>7, <4>1 DEF Dispatch, Undispatched, Deciding, CalledOnce, Goto
    <3>2. CASE Kind[w] = "run"
      <4>1. ~marker[a] /\ status[a] \notin Terminal
        BY <1>7, <3>2 DEF Dispatch, Undispatched, Deciding, RetryableEmail, EmailKinds, Terminal
      <4>2. calls[w] = 0
        BY <1>7, <3>2, <4>1 DEF AttemptKnows
      <4> QED
        BY <1>7, <4>2 DEF Dispatch, Undispatched, Deciding, CalledOnce, Goto
    <3> QED
      BY <1>7, <3>1, <3>2 DEF Dispatch
  <2>5. InFlightTraced'
    BY <1>7, <2>1 DEF Dispatch, Undispatched, Deciding, Goto, MayDispatch,
       MustCapture, UndoAvailable, InFlightTraced, InFlight, PhaseOK, TypeOK
  <2>6. UntracedUncalled'
    BY <1>7, <2>1 DEF Dispatch, Undispatched, Deciding, Goto,
       UntracedUncalled, RetryableEmail
  <2>7. AttemptKnows'
    BY <1>7, <2>1 DEF Dispatch, Undispatched, Deciding, Goto, AttemptKnows
  <2> QED
    BY <2>2, <2>3, <2>4, <2>5, <2>6, <2>7
<1> QED
  BY <1>1, <1>2, <1>3, <1>4, <1>5, <1>6, <1>7 DEF Decide

-----------------------------------------------------------------------------
(* The call and what precedes it. *)
LEMMA CarryKeepsIInv ==
  ASSUME IInv, NEW a \in Attempt, NEW w \in Write, w = WriteOf[a], Carry(a, w)
  PROVE  IInv'
<1> USE WriteAssumption DEF IInv, db, worker, history
<1>1. CASE CaptureBeforeState(a, w)
  <2>1. /\ receipt' \in [Write -> Receipt]
        /\ \A x \in Write : receipt'[x].st = receipt[x].st
                            /\ receipt'[x].retryable = receipt[x].retryable
    BY <1>1, BeforeEffect DEF CaptureBeforeState, TypeOK
  <2>2. TypeOK'
    BY <1>1, <2>1 DEF CaptureBeforeState, Goto, TypeOK
  <2>3. PhaseOK'
    BY <1>1, <2>1 DEF CaptureBeforeState, Goto, PhaseOK, InFlight, TypeOK,
       EmailKinds, GoogleKinds, ReceiptKinds
  <2>4. CalledOnce'
    BY <1>1, <2>1 DEF CaptureBeforeState, Goto, CalledOnce
  <2>5. InFlightTraced'
    BY <1>1, <2>1 DEF CaptureBeforeState, Goto, InFlightTraced, InFlight,
       PhaseOK
  <2>6. UntracedUncalled'
    BY <1>1, <2>1 DEF CaptureBeforeState, Goto, UntracedUncalled,
       RetryableEmail
  <2>7. AttemptKnows'
    BY <1>1, <2>1 DEF CaptureBeforeState, Goto, AttemptKnows
  <2> QED
    BY <2>2, <2>3, <2>4, <2>5, <2>6, <2>7
<1>2. CASE CallProvider(a, w)
  <2>1. Goal(w) \in WorldState
    BY <1>2, GoalType DEF CallProvider, PhaseOK, TypeOK
  <2>2. world' \in [Write -> WorldState]
    BY <1>2, <2>1, WorldAfterType DEF CallProvider, TypeOK
  <2>3. result' \in Results
    BY <1>2 DEF CallProvider, TypeOK, Answers, Results
  <2>4. TypeOK'
    BY <1>2, <2>1, <2>2, <2>3 DEF CallProvider, TypeOK
  <2>5. PhaseOK'
    BY <1>2, <2>1, <2>2, <2>3 DEF CallProvider, PhaseOK, InFlight, TypeOK,
       EmailKinds, GoogleKinds, ReceiptKinds
  <2>6. CalledOnce'
    BY <1>2, <2>1, <2>2, <2>3 DEF CallProvider, CalledOnce, PhaseOK, TypeOK
  <2>7. InFlightTraced'
    BY <1>2, <2>1, <2>2, <2>3 DEF CallProvider, InFlightTraced, InFlight,
       PhaseOK
  <2>8. UntracedUncalled'
    BY <1>2, <2>1, <2>2, <2>3 DEF CallProvider, UntracedUncalled,
       InFlightTraced, InFlight, RetryableEmail, CalledOnce, PhaseOK, TypeOK
  <2>9. AttemptKnows'
    BY <1>2, <2>1, <2>2, <2>3 DEF CallProvider, AttemptKnows, InFlightTraced,
       InFlight, CalledOnce, PhaseOK, TypeOK, Terminal, EmailKinds,
       GoogleKinds, ReceiptKinds
  <2> QED
    BY <2>4, <2>5, <2>6, <2>7, <2>8, <2>9
<1> QED
  BY <1>1, <1>2 DEF Carry

-----------------------------------------------------------------------------
(* Every answer and the way it is recorded. *)
LEMMA RecordKeepsIInv ==
  ASSUME IInv, NEW a \in Attempt, NEW w \in Write, w = WriteOf[a], Record(a, w)
  PROVE  IInv'
<1> USE WriteAssumption DEF IInv, db, worker, history
<1>1. CASE RecordSuccess(a, w)
  <2>1. /\ status' \in [Attempt -> {"proposed", "executing"} \cup Terminal]
        /\ marker' \in [Attempt -> BOOLEAN]
        /\ \A x \in Attempt : x # a => status'[x] = status[x] /\ marker'[x] = marker[x]
        /\ a \in Attempt => status'[a] \in Terminal
    BY <1>1, SettleEffect DEF RecordSuccess, TypeOK, Terminal
  <2>2. /\ receipt' \in [Write -> Receipt]
        /\ \A x \in Write :
             \/ /\ receipt'[x].st = receipt[x].st
                /\ receipt'[x].retryable = receipt[x].retryable
             \/ receipt'[x].st \in {"succeeded", "undone"}
    <3>1. CASE Kind[w] = "undo"
      <4>1. Target[w] \in Write /\ w # Target[w]
        BY <3>1
      <4>2. RecordUndo(w, Target[w])
        BY <1>1, <3>1 DEF RecordSuccess, ReceiptKinds, GoogleKinds, EmailKinds
      <4>3. receipt \in [Write -> Receipt] /\ Target[w] \in Write /\ w # Target[w]
        BY <4>1 DEF TypeOK
      <4> DEFINE u == Target[w]
      <4>4. /\ receipt' \in [Write -> Receipt]
            /\ receipt'[w].st = "succeeded"
            /\ receipt'[u].retryable = receipt[u].retryable
            /\ receipt[u].st # "succeeded" => receipt'[u].st = receipt[u].st
            /\ receipt[u].st = "succeeded" => receipt'[u].st = "undone"
            /\ \A x \in Write \ {w, u} : receipt'[x] = receipt[x]
        <5> HIDE DEF IInv
        <5> QED
          BY <4>2, <4>3, RecordUndoEffect
      <4> HIDE DEF u
      <4> QED
        BY <4>4
    <3>2. CASE Kind[w] \in ReceiptKinds \ {"undo"}
      BY <1>1, <3>2, RecordReceiptEffect, ZenonT(60) DEF RecordSuccess, TypeOK
    <3>3. CASE Kind[w] \notin ReceiptKinds
      BY <1>1, <3>3 DEF RecordSuccess, TypeOK, ReceiptKinds, GoogleKinds, EmailKinds
    <3> QED
      BY <3>1, <3>2, <3>3
  <2>3. TypeOK'
    BY <1>1, <2>1, <2>2 DEF RecordSuccess, Recording, Goto, TypeOK
  <2>4. PhaseOK'
    BY <1>1, <2>1, <2>2 DEF RecordSuccess, Recording, Goto, PhaseOK
  <2>5. CalledOnce'
    BY <1>1, <2>1, <2>2 DEF RecordSuccess, Recording, Goto, CalledOnce
  <2>6. InFlightTraced'
    BY <1>1, <2>1, <2>2 DEF RecordSuccess, Recording, Goto, InFlightTraced,
       InFlight, PhaseOK
  <2>7. UntracedUncalled'
    BY <1>1, <2>2, ReceiptStillTraces DEF RecordSuccess
  <2>8. AttemptKnows'
    BY <1>1, <2>1, AttemptStillKnows DEF RecordSuccess
  <2> QED
    BY <2>3, <2>4, <2>5, <2>6, <2>7, <2>8
<1>2. CASE RecordRetry(a, w)
  <2>1. /\ receipt' \in [Write -> Receipt]
        /\ \A x \in Write \ {w} : receipt'[x] = receipt[x]
        /\ receipt'[w].before = receipt[w].before
        /\ receipt[w].st = "succeeded" => receipt'[w] = receipt[w]
        /\ receipt[w].st # "succeeded" => receipt'[w].st = "failed"
        /\ receipt[w].st # "succeeded" => receipt'[w].retryable = TRUE
    BY <1>2, RecordReceiptEffect DEF RecordRetry, TypeOK
  <2>2. TypeOK'
    <3>1. calls[w] = 1
      BY <1>2 DEF RecordRetry, Recording, CalledOnce
    <3>2. calls' \in [Write -> Nat]
      BY <1>2, <3>1 DEF RecordRetry, TypeOK
    <3> QED
      BY <1>2, <2>1, <3>2 DEF RecordRetry, Goto, TypeOK
  <2>3. PhaseOK'
    BY <1>2, <2>1 DEF RecordRetry, Recording, Goto, PhaseOK
  <2>4. CalledOnce'
    BY <1>2, <2>1 DEF RecordRetry, Recording, Goto, CalledOnce
  <2>5. InFlightTraced'
    BY <1>2, <2>1 DEF RecordRetry, Recording, Goto, InFlightTraced, InFlight,
       PhaseOK
  <2>6. UntracedUncalled'
    BY <1>2, <2>1 DEF RecordRetry, Recording, Goto, UntracedUncalled,
       InFlightTraced, InFlight, RetryableEmail, CalledOnce, PhaseOK, TypeOK
  <2>7. AttemptKnows'
    BY <1>2, <2>1 DEF RecordRetry, Recording, Goto, AttemptKnows,
       InFlightTraced, InFlight, CalledOnce, PhaseOK, TypeOK, Terminal
  <2> QED
    BY <2>2, <2>3, <2>4, <2>5, <2>6, <2>7
<1>3. CASE RecordFailure(a, w)
  <2>1. /\ status' \in [Attempt -> {"proposed", "executing"} \cup Terminal]
        /\ marker' \in [Attempt -> BOOLEAN]
        /\ \A x \in Attempt : x # a => status'[x] = status[x] /\ marker'[x] = marker[x]
        /\ a \in Attempt => status'[a] \in Terminal
    BY <1>3, SettleEffect DEF RecordFailure, TypeOK, Terminal
  <2>2. /\ receipt' \in [Write -> Receipt]
        /\ \A x \in Write \ {w} : receipt'[x] = receipt[x]
        /\ receipt'[w].before = receipt[w].before
        /\ receipt[w].st = "succeeded" => receipt'[w] = receipt[w]
        /\ receipt[w].st # "succeeded" => receipt'[w].st = "failed"
        /\ receipt[w].st # "succeeded" => receipt'[w].retryable = FALSE
    BY <1>3, RecordReceiptEffect DEF RecordFailure, TypeOK
  <2>3. TypeOK'
    BY <1>3, <2>1, <2>2 DEF RecordFailure, Recording, Goto, TypeOK
  <2>4. PhaseOK'
    BY <1>3, <2>1, <2>2 DEF RecordFailure, Recording, Goto, PhaseOK
  <2>5. CalledOnce'
    BY <1>3, <2>1, <2>2 DEF RecordFailure, Recording, Goto, CalledOnce
  <2>6. InFlightTraced'
    BY <1>3, <2>1, <2>2 DEF RecordFailure, Recording, Goto, InFlightTraced,
       InFlight, PhaseOK
  <2>7. UntracedUncalled'
    <3>1. receipt[w].st # "succeeded" => receipt'[w].retryable = FALSE
      BY <2>2
    <3> QED
      BY <1>3, <2>2, <3>1, ReceiptStillTraces DEF RecordFailure
  <2>8. AttemptKnows'
    BY <1>3, <2>1, AttemptStillKnows DEF RecordFailure
  <2> QED
    BY <2>3, <2>4, <2>5, <2>6, <2>7, <2>8
<1>4. CASE RecordUnknown(a, w)
  <2>1. /\ status' \in [Attempt -> {"proposed", "executing"} \cup Terminal]
        /\ marker' \in [Attempt -> BOOLEAN]
        /\ \A x \in Attempt : x # a => status'[x] = status[x] /\ marker'[x] = marker[x]
        /\ a \in Attempt => status'[a] \in Terminal
    BY <1>4, SettleEffect DEF RecordUnknown, TypeOK, Terminal
  <2>2. /\ receipt' \in [Write -> Receipt]
        /\ \A x \in Write :
             \/ receipt'[x] = receipt[x]
             \/ receipt'[x].st \in {"succeeded", "ambiguous"}
    BY <1>4, RecordReceiptEffect DEF RecordUnknown, TypeOK
  <2>3. reconTask' \in [Write -> -1 .. MaxTaskAttempts - 1]
    BY <1>4, ReconcileEffect DEF RecordUnknown, TypeOK
  <2>4. TypeOK'
    BY <1>4, <2>1, <2>2, <2>3 DEF RecordUnknown, Recording, Goto, TypeOK
  <2>5. PhaseOK'
    BY <1>4, <2>1, <2>2, <2>3 DEF RecordUnknown, Recording, Goto, PhaseOK
  <2>6. CalledOnce'
    BY <1>4, <2>1, <2>2, <2>3 DEF RecordUnknown, Recording, Goto, CalledOnce
  <2>7. InFlightTraced'
    BY <1>4, <2>1, <2>2, <2>3 DEF RecordUnknown, Recording, Goto,
       InFlightTraced, InFlight, PhaseOK
  <2>8. UntracedUncalled'
    BY <1>4, <2>2, ReceiptStillTraces DEF RecordUnknown
  <2>9. AttemptKnows'
    BY <1>4, <2>1, AttemptStillKnows DEF RecordUnknown
  <2> QED
    BY <2>4, <2>5, <2>6, <2>7, <2>8, <2>9
<1> QED
  BY <1>1, <1>2, <1>3, <1>4 DEF Record

-----------------------------------------------------------------------------
(* Reconciliation. *)
LEMMA ReconcileKeepsIInv ==
  ASSUME IInv, NEW w \in Write, Reconcile(w)
  PROVE  IInv'
<1> USE WriteAssumption DEF IInv, db, worker, history
<1>1. CASE NothingToReconcile(w)
  <2>1. TypeOK'
    BY <1>1 DEF NothingToReconcile, Goto, TypeOK
  <2>2. PhaseOK'
    BY <1>1 DEF NothingToReconcile, Goto, PhaseOK, InFlight
  <2>3. CalledOnce'
    BY <1>1 DEF NothingToReconcile, Goto, CalledOnce
  <2>4. InFlightTraced'
    BY <1>1 DEF NothingToReconcile, Goto, InFlightTraced, InFlight, PhaseOK
  <2>5. UntracedUncalled'
    BY <1>1 DEF NothingToReconcile, Goto, UntracedUncalled, RetryableEmail
  <2>6. AttemptKnows'
    BY <1>1 DEF NothingToReconcile, Goto, AttemptKnows
  <2> QED
    BY <2>1, <2>2, <2>3, <2>4, <2>5, <2>6
<1>2. CASE MarkIndeterminate(w)
  <2>1. /\ receipt' \in [Write -> Receipt]
        /\ \A x \in Write : receipt'[x].st = receipt[x].st
                            /\ receipt'[x].retryable = receipt[x].retryable
    BY <1>2, CheckedEffect DEF MarkIndeterminate, TypeOK
  <2>2. TypeOK'
    BY <1>2, <2>1 DEF MarkIndeterminate, Goto, TypeOK
  <2>3. PhaseOK'
    BY <1>2, <2>1 DEF MarkIndeterminate, Goto, PhaseOK, InFlight
  <2>4. CalledOnce'
    BY <1>2, <2>1 DEF MarkIndeterminate, Goto, CalledOnce
  <2>5. InFlightTraced'
    BY <1>2, <2>1 DEF MarkIndeterminate, Goto, InFlightTraced, InFlight,
       PhaseOK
  <2>6. UntracedUncalled'
    BY <1>2, <2>1 DEF MarkIndeterminate, Goto, UntracedUncalled,
       RetryableEmail
  <2>7. AttemptKnows'
    BY <1>2, <2>1 DEF MarkIndeterminate, Goto, AttemptKnows
  <2> QED
    BY <2>2, <2>3, <2>4, <2>5, <2>6, <2>7
<1>3. CASE Probe(w)
  <2>1. world' \in [Write -> WorldState]
    BY <1>3 DEF Probe, TypeOK, WorldState
  <2>2. result' \in Results
    BY <1>3 DEF Probe, Results
  <2>3. TypeOK'
    BY <1>3, <2>1, <2>2 DEF Probe, TypeOK
  <2>4. PhaseOK'
    BY <1>3, <2>1, <2>2 DEF Probe, PhaseOK, InFlight
  <2>5. CalledOnce'
    BY <1>3, <2>1, <2>2 DEF Probe, CalledOnce
  <2>6. InFlightTraced'
    BY <1>3, <2>1, <2>2 DEF Probe, InFlightTraced, InFlight, PhaseOK
  <2>7. UntracedUncalled'
    BY <1>3, <2>1, <2>2 DEF Probe, UntracedUncalled, RetryableEmail
  <2>8. AttemptKnows'
    BY <1>3, <2>1, <2>2 DEF Probe, AttemptKnows
  <2> QED
    BY <2>3, <2>4, <2>5, <2>6, <2>7, <2>8
<1>4. CASE LearnSuccess(w)
  <2>1. receipt[w].owner \in Attempt \cup {NoAttempt}
    BY <1>4 DEF TypeOK, Receipt
  <2>2. /\ status' \in [Attempt -> {"proposed", "executing"} \cup Terminal]
        /\ marker' \in [Attempt -> BOOLEAN]
        /\ \A x \in Attempt : x # receipt[w].owner => status'[x] = status[x] /\ marker'[x] = marker[x]
        /\ receipt[w].owner \in Attempt => status'[receipt[w].owner] \in Terminal
    BY <1>4, <2>1, SettleEffect DEF LearnSuccess, TypeOK, Terminal
  <2>3. /\ receipt' \in [Write -> Receipt]
        /\ \A x \in Write \ {w} : receipt'[x] = receipt[x]
        /\ receipt'[w].before = receipt[w].before
        /\ receipt[w].st = "succeeded" => receipt'[w] = receipt[w]
        /\ receipt[w].st # "succeeded" => receipt'[w].st = "succeeded"
        /\ receipt[w].st # "succeeded" => receipt'[w].retryable = FALSE
    BY <1>4, <2>1, RecordReceiptEffect DEF LearnSuccess, TypeOK
  <2>4. TypeOK'
    BY <1>4, <2>1, <2>2, <2>3 DEF LearnSuccess, Learning, Goto, TypeOK
  <2>5. PhaseOK'
    BY <1>4, <2>1, <2>2, <2>3 DEF LearnSuccess, Learning, Goto, PhaseOK,
       InFlight
  <2>6. CalledOnce'
    BY <1>4, <2>1, <2>2, <2>3 DEF LearnSuccess, Learning, Goto, CalledOnce
  <2>7. InFlightTraced'
    BY <1>4, <2>1, <2>2, <2>3 DEF LearnSuccess, Learning, Goto,
       InFlightTraced, InFlight, PhaseOK
  <2>8. UntracedUncalled'
    BY <1>4, <2>3, ReceiptStillTraces DEF LearnSuccess, Learning
  <2>9. AttemptKnows'
    BY <1>4, <2>2, AttemptStillKnows DEF LearnSuccess
  <2> QED
    BY <2>4, <2>5, <2>6, <2>7, <2>8, <2>9
<1>5. CASE LearnNothing(w)
  <2>1. /\ receipt' \in [Write -> Receipt]
        /\ \A x \in Write : receipt'[x].st = receipt[x].st
                            /\ receipt'[x].retryable = receipt[x].retryable
    BY <1>5, CheckedEffect DEF LearnNothing, TypeOK
  <2>2. TypeOK'
    BY <1>5, <2>1 DEF LearnNothing, Learning, Goto, TypeOK
  <2>3. PhaseOK'
    BY <1>5, <2>1 DEF LearnNothing, Learning, Goto, PhaseOK, InFlight
  <2>4. CalledOnce'
    BY <1>5, <2>1 DEF LearnNothing, Learning, Goto, CalledOnce
  <2>5. InFlightTraced'
    BY <1>5, <2>1 DEF LearnNothing, Learning, Goto, InFlightTraced, InFlight,
       PhaseOK
  <2>6. UntracedUncalled'
    BY <1>5, <2>1 DEF LearnNothing, Learning, Goto, UntracedUncalled,
       RetryableEmail
  <2>7. AttemptKnows'
    BY <1>5, <2>1 DEF LearnNothing, Learning, Goto, AttemptKnows
  <2> QED
    BY <2>2, <2>3, <2>4, <2>5, <2>6, <2>7
<1> QED
  BY <1>1, <1>2, <1>3, <1>4, <1>5 DEF Reconcile

-----------------------------------------------------------------------------
(* The empty tables and the idle worker satisfy the invariant. *)
LEMMA InitIInv == Init => IInv
BY WriteAssumption
DEF Init, IInv, TypeOK, PhaseOK, CalledOnce, InFlight, InFlightTraced,
    UntracedUncalled, AttemptKnows, Receipt, NoReceipt, Results, WorldState

(* Every step of the API process and of the worker keeps the invariant. *)
LEMMA NextKeepsIInv == IInv /\ [Next]_vars => IInv'
<1> SUFFICES ASSUME IInv, [Next]_vars PROVE IInv'
  OBVIOUS
<1>1. ASSUME NEW a \in Attempt PROVE WriteOf[a] \in Write
  BY WriteAssumption
<1>2. CASE UNCHANGED vars
  BY <1>2 DEF vars, IInv, TypeOK, PhaseOK, CalledOnce, InFlightTraced,
              UntracedUncalled, AttemptKnows, RetryableEmail
<1>3. CASE \E a \in Attempt :
             \/ Decide(a, WriteOf[a]) \/ Carry(a, WriteOf[a]) \/ Record(a, WriteOf[a])
  BY <1>1, <1>3, DecideKeepsIInv, CarryKeepsIInv, RecordKeepsIInv
<1>4. CASE \E w \in Write : Reconcile(w)
  BY <1>4, ReconcileKeepsIInv
<1> QED
  BY <1>2, <1>3, <1>4, TaskStepsKeepIInv DEF Next

(* The invariant behind the theorems below: the worker's position, the     *)
(* number of calls and the traces agree in every reachable state.          *)
THEOREM InvariantHolds == Spec => []IInv
BY InitIInv, NextKeepsIInv, PTL DEF Spec

(* The tables and the worker's local variables keep their types; among     *)
(* them the count of a queued row, which never reaches MaxTaskAttempts.    *)
THEOREM TypeCorrect == Spec => []TypeOK
<1>1. IInv => TypeOK
  BY DEF IInv
<1> QED
  BY <1>1, InvariantHolds, PTL

(* process_action_execution_task calls the provider once per logical write *)
(* and once more only after each recorded failure that may be retried,     *)
(* for all crashes, repeated tasks and attempts that share a key.          *)
THEOREM CallsAreJustified == Spec => []CallsJustified
<1>1. IInv => CallsJustified
  BY DEF IInv, CalledOnce, CallsJustified
<1> QED
  BY <1>1, InvariantHolds, PTL

-----------------------------------------------------------------------------
(* The property AmbiguousIsFrozen of one step. *)
FrozenStep ==
  \A w \in Write : receipt[w].st = "ambiguous" =>
    /\ receipt'[w].st \in {"ambiguous", "succeeded"}
    /\ calls'[w] = calls[w]

(* Only the capabilities that keep receipts have one that is not "none". *)
ReceiptsOfKinds ==
  \A w \in Write : Kind[w] \notin ReceiptKinds => receipt[w].st = "none"

(* The steps that leave receipts and call counts alone. *)
LEMMA QuietStepsKeepFrozen ==
  ASSUME IInv, NEW a, NEW w \in Write,
         \/ Authorize(a) \/ StartExecution(a) \/ AlreadySettled(a)
         \/ ReplayReceipt(a, w) \/ Refuse(a, w) \/ GateFails(a, w)
         \/ ExecuteMemory(a, w) \/ StartReconcile(w) \/ NothingToReconcile(w)
         \/ Probe(w) \/ FinishTask \/ Raise \/ FailTask \/ Crash
  PROVE  FrozenStep
<1>1. receipt' = receipt /\ calls' = calls
  BY DEF Authorize, StartExecution, AlreadySettled, ReplayReceipt, Refuse,
         GateFails, ExecuteMemory, StartReconcile, NothingToReconcile, Probe,
         FinishTask, Raise, FailTask, Crash, db, history
<1> QED
  BY <1>1 DEF FrozenStep

(* A decision never dispatches over an ambiguous receipt. *)
LEMMA DecideKeepsFrozen ==
  ASSUME IInv, ReceiptsOfKinds, NEW a \in Attempt, NEW w \in Write, w = WriteOf[a], Decide(a, w)
  PROVE  FrozenStep
<1> USE DEF IInv, history
<1>1. CASE ReplayReceipt(a, w) \/ Refuse(a, w) \/ GateFails(a, w) \/ ExecuteMemory(a, w)
  BY <1>1, QuietStepsKeepFrozen
<1>2. CASE MarkUnknown(a, w)
  <2>1. /\ receipt' \in [Write -> Receipt]
        /\ \A x \in Write \ {w} : receipt'[x] = receipt[x]
        /\ receipt'[w].st = "ambiguous"
    BY <1>2, RecordReceiptEffect DEF MarkUnknown, TypeOK
  <2> QED
    BY <1>2, <2>1 DEF MarkUnknown, FrozenStep
<1>3. CASE ExecuteOnHost(a, w)
  <2>1. receipt[w].st = "none"
    BY <1>3 DEF ExecuteOnHost, ReceiptsOfKinds, ReceiptKinds, GoogleKinds, EmailKinds
  <2> QED
    BY <1>3, <2>1 DEF ExecuteOnHost, FrozenStep, TypeOK
<1>4. CASE Dispatch(a, w)
  <2>1. /\ receipt[w].st # "ambiguous"
        /\ \A x \in Write \ {w} : receipt'[x] = receipt[x]
        /\ calls' = calls
    BY <1>4, RecordReceiptEffect DEF Dispatch, MayDispatch, RetryableEmail, TypeOK
  <2> QED
    BY <2>1 DEF FrozenStep
<1> QED
  BY <1>1, <1>2, <1>3, <1>4 DEF Decide

(* The call is for a receipt in executing. *)
LEMMA CarryKeepsFrozen ==
  ASSUME IInv, ReceiptsOfKinds, NEW a \in Attempt, NEW w \in Write, w = WriteOf[a],
         Carry(a, w)
  PROVE  FrozenStep
<1> USE DEF IInv, history
<1>1. CASE CaptureBeforeState(a, w)
  <2>1. \A x \in Write : receipt'[x].st = receipt[x].st
    BY <1>1, BeforeEffect DEF CaptureBeforeState, TypeOK
  <2> QED
    BY <1>1, <2>1 DEF CaptureBeforeState, FrozenStep
<1>2. CASE CallProvider(a, w)
  <2>1. receipt[w].st \in {"none", "executing"} /\ receipt' = receipt
    BY <1>2 DEF CallProvider, InFlightTraced, InFlight, ReceiptsOfKinds, db
  <2> QED
    BY <1>2, <2>1 DEF CallProvider, FrozenStep, TypeOK
<1> QED
  BY <1>1, <1>2 DEF Carry

(* So is the answer that is recorded. *)
LEMMA RecordKeepsFrozen ==
  ASSUME IInv, ReceiptsOfKinds, NEW a \in Attempt, NEW w \in Write, w = WriteOf[a],
         Record(a, w)
  PROVE  FrozenStep
<1> USE WriteAssumption DEF IInv, history
<1>1. receipt[w].st # "ambiguous"
  <2>1. phase = "record" /\ rec = w
    BY DEF Record, RecordSuccess, RecordRetry, RecordFailure, RecordUnknown, Recording
  <2> QED
    BY <2>1 DEF InFlightTraced, InFlight, ReceiptsOfKinds
<1>2. CASE RecordSuccess(a, w)
  <2>1. \A x \in Write \ {w} : receipt[x].st = "ambiguous" => receipt'[x] = receipt[x]
    <3>1. CASE Kind[w] = "undo"
      <4>1. RecordUndo(w, Target[w])
        BY <1>2, <3>1 DEF RecordSuccess, ReceiptKinds, GoogleKinds, EmailKinds
      <4>2. receipt \in [Write -> Receipt] /\ Target[w] \in Write
        BY <3>1 DEF TypeOK
      <4> HIDE DEF IInv
      <4> QED
        BY <4>1, <4>2 DEF RecordUndo, Receipt
    <3>2. CASE Kind[w] # "undo"
      BY <1>2, <3>2, RecordReceiptEffect DEF RecordSuccess, TypeOK
    <3> QED
      BY <3>1, <3>2
  <2> QED
    BY <1>1, <1>2, <2>1 DEF RecordSuccess, FrozenStep
<1>3. CASE RecordRetry(a, w)
  <2>1. \A x \in Write \ {w} : receipt'[x] = receipt[x]
    BY <1>3, RecordReceiptEffect DEF RecordRetry, TypeOK
  <2> QED
    BY <1>1, <1>3, <2>1 DEF RecordRetry, FrozenStep, TypeOK
<1>4. CASE RecordFailure(a, w) \/ RecordUnknown(a, w)
  <2>1. \A x \in Write \ {w} : receipt'[x] = receipt[x]
    BY <1>4, RecordReceiptEffect, ZenonT(60) DEF RecordFailure, RecordUnknown, TypeOK
  <2> QED
    BY <1>1, <1>4, <2>1 DEF RecordFailure, RecordUnknown, FrozenStep
<1> QED
  BY <1>2, <1>3, <1>4 DEF Record

(* A reconciliation may only turn it into succeeded. *)
LEMMA ReconcileKeepsFrozen ==
  ASSUME IInv, NEW w \in Write, Reconcile(w)
  PROVE  FrozenStep
<1> USE DEF IInv, history
<1>1. CASE NothingToReconcile(w) \/ Probe(w)
  BY <1>1, QuietStepsKeepFrozen
<1>2. CASE MarkIndeterminate(w) \/ LearnNothing(w)
  <2>1. \A x \in Write : receipt'[x].st = receipt[x].st
    BY <1>2, CheckedEffect DEF MarkIndeterminate, LearnNothing, TypeOK
  <2> QED
    BY <1>2, <2>1 DEF MarkIndeterminate, LearnNothing, FrozenStep
<1>3. CASE LearnSuccess(w)
  <2>1. receipt[w].owner \in Attempt \cup {NoAttempt}
    BY DEF TypeOK, Receipt
  <2>2. /\ \A x \in Write \ {w} : receipt'[x] = receipt[x]
        /\ receipt[w].st # "succeeded" => receipt'[w].st = "succeeded"
    BY <1>3, <2>1, RecordReceiptEffect DEF LearnSuccess, TypeOK
  <2> QED
    BY <1>3, <2>2 DEF LearnSuccess, FrozenStep
<1> QED
  BY <1>1, <1>2, <1>3 DEF Reconcile

(* Only the Google clients report a definite error. *)
AnswersOfKinds ==
  phase = "record" /\ result \in {"retry", "final", "refused"} => Kind[rec] \in ReceiptKinds

(* A step to "record" carries an answer the capability can give. *)
LEMMA NextKeepsAnswersOfKinds ==
  ASSUME IInv, AnswersOfKinds, [Next]_vars
  PROVE  AnswersOfKinds'
<1> USE DEF AnswersOfKinds, Goto, Idle, worker
<1>1. ASSUME NEW a \in Attempt, CallProvider(a, WriteOf[a]) PROVE AnswersOfKinds'
  BY <1>1 DEF CallProvider, Answers, ReceiptKinds, GoogleKinds
<1>2. ASSUME NEW a \in Attempt, ExecuteMemory(a, WriteOf[a]) PROVE AnswersOfKinds'
  BY <1>2 DEF ExecuteMemory
<1>3. ASSUME NEW a \in Attempt, Record(a, WriteOf[a]) PROVE AnswersOfKinds'
  BY <1>3 DEF Record, RecordSuccess, RecordRetry, RecordFailure, RecordUnknown
<1>4. ASSUME NEW a \in Attempt,
             \/ Authorize(a) \/ StartExecution(a) \/ AlreadySettled(a)
             \/ ReplayReceipt(a, WriteOf[a]) \/ Refuse(a, WriteOf[a])
             \/ MarkUnknown(a, WriteOf[a]) \/ GateFails(a, WriteOf[a])
             \/ ExecuteOnHost(a, WriteOf[a]) \/ Dispatch(a, WriteOf[a])
             \/ CaptureBeforeState(a, WriteOf[a])
      PROVE AnswersOfKinds'
  BY <1>4 DEF Authorize, StartExecution, AlreadySettled, ReplayReceipt, Refuse,
              MarkUnknown, GateFails, ExecuteOnHost, Dispatch, CaptureBeforeState
<1>5. ASSUME NEW w \in Write, StartReconcile(w) \/ Reconcile(w) PROVE AnswersOfKinds'
  BY <1>5 DEF StartReconcile, Reconcile, NothingToReconcile, MarkIndeterminate,
              Probe, LearnSuccess, LearnNothing
<1>6. CASE FinishTask \/ Raise \/ FailTask \/ Crash \/ UNCHANGED vars
  BY <1>6 DEF FinishTask, Raise, FailTask, Crash, vars
<1> QED
  BY <1>1, <1>2, <1>3, <1>4, <1>5, <1>6 DEF Next, Decide, Carry

(* No handler writes a receipt for the other capabilities. *)
LEMMA NextKeepsReceiptsOfKinds ==
  ASSUME IInv, AnswersOfKinds, ReceiptsOfKinds, [Next]_vars
  PROVE  ReceiptsOfKinds'
<1> USE WriteAssumption DEF IInv
<1> DEFINE Only(w) ==
      /\ \A x \in Write \ {w} : receipt'[x].st = receipt[x].st
      /\ Kind[w] \notin ReceiptKinds => receipt'[w].st = "none"
<1>1. ASSUME NEW w \in Write, Only(w) PROVE ReceiptsOfKinds'
  BY <1>1 DEF ReceiptsOfKinds
<1>2. CASE receipt' = receipt
  BY <1>2 DEF ReceiptsOfKinds
<1>3. ASSUME NEW a \in Attempt, NEW w \in Write, w = WriteOf[a],
             Decide(a, w) \/ Carry(a, w) \/ Record(a, w)
      PROVE  ReceiptsOfKinds'
  <2>1. CASE MarkUnknown(a, w) \/ Dispatch(a, w)
    <3>1. \A x \in Write \ {w} : receipt'[x] = receipt[x]
      BY <2>1, RecordReceiptEffect DEF MarkUnknown, Dispatch, TypeOK
    <3>2. Kind[w] \notin ReceiptKinds => receipt' = receipt
      BY <2>1 DEF MarkUnknown, Dispatch, ReceiptsOfKinds
    <3> QED
      BY <3>1, <3>2, <1>1 DEF ReceiptsOfKinds
  <2>2. CASE CaptureBeforeState(a, w)
    <3>1. \A x \in Write : receipt'[x].st = receipt[x].st
      BY <2>2, BeforeEffect DEF CaptureBeforeState, TypeOK
    <3> QED
      BY <3>1, <1>1 DEF ReceiptsOfKinds
  <2>3. CASE RecordSuccess(a, w)
    <3>1. CASE Kind[w] = "undo"
      <4>1. RecordUndo(w, Target[w])
        BY <2>3, <3>1 DEF RecordSuccess, ReceiptKinds, GoogleKinds, EmailKinds
      <4>2. receipt \in [Write -> Receipt] /\ Target[w] \in Write
        BY <3>1 DEF TypeOK
      <4>3. {Kind[w], Kind[Target[w]]} \subseteq ReceiptKinds
        BY <3>1 DEF ReceiptKinds, GoogleKinds, EmailKinds
      <4>4. \A x \in Write \ {w, Target[w]} : receipt'[x] = receipt[x]
        <5> HIDE DEF IInv
        <5> QED
          BY <4>1, <4>2 DEF RecordUndo, Receipt
      <4> QED
        BY <4>3, <4>4 DEF ReceiptsOfKinds
    <3>2. CASE Kind[w] \in ReceiptKinds \ {"undo"}
      <4>1. \A x \in Write \ {w} : receipt'[x] = receipt[x]
        BY <2>3, <3>2, RecordReceiptEffect DEF RecordSuccess, TypeOK
      <4> QED
        BY <4>1, <3>2, <1>1
    <3>3. CASE Kind[w] \notin ReceiptKinds
      BY <2>3, <3>3, <1>2 DEF RecordSuccess, ReceiptKinds, GoogleKinds, EmailKinds
    <3> QED
      BY <3>1, <3>2, <3>3
  <2>4. CASE RecordRetry(a, w) \/ RecordFailure(a, w) \/ RecordUnknown(a, w)
    <3>1. \A x \in Write \ {w} : receipt'[x] = receipt[x]
      BY <2>4, RecordReceiptEffect DEF RecordRetry, RecordFailure, RecordUnknown, TypeOK
    <3>2. Kind[w] \notin ReceiptKinds => receipt' = receipt
      BY <2>4 DEF RecordRetry, RecordFailure, RecordUnknown, Recording, AnswersOfKinds
    <3> QED
      BY <3>1, <3>2, <1>1, <1>2
  <2>5. CASE ReplayReceipt(a, w) \/ Refuse(a, w) \/ GateFails(a, w)
             \/ ExecuteOnHost(a, w) \/ ExecuteMemory(a, w) \/ CallProvider(a, w)
    BY <2>5, <1>2 DEF ReplayReceipt, Refuse, GateFails, ExecuteOnHost,
                      ExecuteMemory, CallProvider, db
  <2> QED
    BY <1>3, <2>1, <2>2, <2>3, <2>4, <2>5 DEF Decide, Carry, Record
<1>4. ASSUME NEW w \in Write, Reconcile(w) PROVE ReceiptsOfKinds'
  <2>1. CASE NothingToReconcile(w) \/ Probe(w)
    BY <2>1, <1>2 DEF NothingToReconcile, Probe, db
  <2>2. CASE MarkIndeterminate(w) \/ LearnNothing(w)
    <3>1. \A x \in Write : receipt'[x].st = receipt[x].st
      BY <2>2, CheckedEffect DEF MarkIndeterminate, LearnNothing, TypeOK
    <3> QED
      BY <3>1, <1>1 DEF ReceiptsOfKinds
  <2>3. CASE LearnSuccess(w)
    <3>1. receipt[w].owner \in Attempt \cup {NoAttempt}
      BY DEF TypeOK, Receipt
    <3>2. \A x \in Write \ {w} : receipt'[x] = receipt[x]
      BY <2>3, <3>1, RecordReceiptEffect DEF LearnSuccess, TypeOK
    <3>3. Kind[w] \in ReceiptKinds
      BY <2>3 DEF LearnSuccess, Learning, ReceiptsOfKinds
    <3> QED
      BY <3>2, <3>3, <1>1
  <2> QED
    BY <1>4, <2>1, <2>2, <2>3 DEF Reconcile
<1>5. CASE \E a \in Attempt : Authorize(a) \/ StartExecution(a) \/ AlreadySettled(a)
  BY <1>5, <1>2 DEF Authorize, StartExecution, AlreadySettled, db
<1>6. CASE \/ \E w \in Write : StartReconcile(w)
           \/ FinishTask \/ Raise \/ FailTask \/ Crash \/ UNCHANGED vars
  BY <1>6, <1>2 DEF StartReconcile, FinishTask, Raise, FailTask, Crash, vars, db
<1>7. \A a \in Attempt : WriteOf[a] \in Write
  OBVIOUS
<1> QED
  BY <1>3, <1>4, <1>5, <1>6, <1>7 DEF Next

(* A step of [Next]_vars freezes ambiguous receipts. *)
LEMMA NextKeepsFrozen ==
  ASSUME IInv, ReceiptsOfKinds, [Next]_vars
  PROVE  FrozenStep
<1>1. \A a \in Attempt : WriteOf[a] \in Write
  BY WriteAssumption
<1>2. CASE UNCHANGED vars
  BY <1>2 DEF vars, db, history, FrozenStep
<1>3. CASE \E a \in Attempt :
             \/ Decide(a, WriteOf[a]) \/ Carry(a, WriteOf[a]) \/ Record(a, WriteOf[a])
  BY <1>1, <1>3, DecideKeepsFrozen, CarryKeepsFrozen, RecordKeepsFrozen
<1>4. CASE \E w \in Write : Reconcile(w)
  BY <1>4, ReconcileKeepsFrozen
<1>5. CASE \/ \E a \in Attempt : Authorize(a) \/ StartExecution(a) \/ AlreadySettled(a)
           \/ \E w \in Write : StartReconcile(w)
           \/ FinishTask \/ Raise \/ FailTask \/ Crash
  <2>1. receipt' = receipt /\ calls' = calls
    BY <1>5 DEF Authorize, StartExecution, AlreadySettled, StartReconcile,
                FinishTask, Raise, FailTask, Crash, db, history
  <2> QED
    BY <2>1 DEF FrozenStep
<1> QED
  BY <1>2, <1>3, <1>4, <1>5 DEF Next

(* process_action_execution_task and process_provider_write_reconcile_due: *)
(* an ambiguous receipt stays ambiguous until a reconciliation finds that  *)
(* the write happened, and meanwhile nobody calls the provider for it.     *)
THEOREM AmbiguousStaysFrozen == Spec => AmbiguousIsFrozen
<1>1. Init => ReceiptsOfKinds /\ AnswersOfKinds
  BY DEF Init, ReceiptsOfKinds, AnswersOfKinds, NoReceipt
<1>2. IInv /\ ReceiptsOfKinds /\ AnswersOfKinds /\ [Next]_vars
      => ReceiptsOfKinds' /\ AnswersOfKinds'
  BY NextKeepsReceiptsOfKinds, NextKeepsAnswersOfKinds
<1>3. IInv /\ ReceiptsOfKinds /\ [Next]_vars => [FrozenStep]_vars
  BY NextKeepsFrozen
<1>4. Spec => [][FrozenStep]_vars
  BY <1>1, <1>2, <1>3, InvariantHolds, PTL DEF Spec
<1> QED
  BY <1>4 DEF AmbiguousIsFrozen, FrozenStep

=============================================================================
