----------------------- MODULE ProviderAnswersProofs ------------------------
(***************************************************************************)
(* More theorems about ProviderWrite, for every set of attempts and        *)
(* writes, any sharing of keys and any retry limit: what attempts and      *)
(* receipts say is true of the provider, no receipt stays open with nobody *)
(* to close it, a settled attempt is corrected in one way only, and        *)
(* execution implements LogicalWrite.                                      *)
(*                                                                         *)
(* None of this is inductive.  A receipt is true because the worker that   *)
(* writes it still knows, from its dispatch on, what the provider's state  *)
(* was and became (WorkerTrue), and because receipts stand by what they    *)
(* say while the keys they belong to are used again (OwnerSound,           *)
(* MarkerMatches, ReceiptsTrue).                                           *)
(***************************************************************************)
EXTENDS ProviderWriteProofs

(* The receipt of a write is made by an attempt that asked for it. *)
OwnerSound ==
  \A w \in Write :
    /\ receipt[w].st = "none" <=> receipt[w].owner = NoAttempt
    /\ receipt[w].owner # NoAttempt => WriteOf[receipt[w].owner] = w

(* The answer in the worker's memory is one the capability can give. *)
AnswerFits ==
  phase = "record" => result \in Answers(Kind[rec])

(* A dispatched attempt found the receipt's key to be for its own input. *)
MarkerMatches ==
  \A a \in Attempt :
    marker[a] /\ Kind[WriteOf[a]] \in ReceiptKinds =>
      /\ receipt[WriteOf[a]].owner # NoAttempt
      /\ Digest[receipt[WriteOf[a]].owner] = Digest[a]

(* What the worker may rely on while it carries out a dispatch. *)
WorkerTrue ==
  /\ phase \in InFlight => status[act] = "executing"
  /\ phase = "capture" => receipt[rec].before = "none"
  /\ phase \in {"call", "record"} /\ Kind[rec] = "email" => receipt[rec].before # "none"
  /\ phase \in {"call", "record"} /\ Kind[rec] = "undo" =>
       receipt[Target[rec]].st = "succeeded" /\ receipt[Target[rec]].before # "none"
  /\ phase = "record" /\ result = "ok" => world[Target[rec]] = Goal(rec)
  /\ phase = "call" /\ Kind[rec] \in {"calendar", "google"} => world[rec] = "orig"
  /\ phase = "record" /\ result = "refused" /\ Kind[rec] \in {"calendar", "google"} =>
       world[rec] = "orig"
  /\ phase = "learn" /\ result = "match" => world[rec] = "changed" /\ Kind[rec] # "undo"

(* What a receipt says of the provider's state. *)
ReceiptTrue(w) ==
  /\ receipt[w].st \in {"succeeded", "undone"} /\ Kind[w] # "undo" =>
       world[w] = "changed" \/ \E u \in Write : Undoes(u, w) /\ receipt[u].st # "none"
  /\ receipt[w].st = "succeeded" /\ Kind[w] = "undo" => receipt[Target[w]].st = "undone"
  /\ receipt[w].st = "undone" => Kind[w] = "email" /\ world[w] = "orig"
  /\ receipt[w].st \in {"none", "failed"} /\ Kind[w] \in {"calendar", "google"} =>
       world[w] = "orig"
  /\ Kind[w] = "email" => receipt[w].before \in {"none", "orig"}
  /\ Kind[w] = "email" /\ receipt[w].before = "none" => world[w] = "orig"

ReceiptsTrue == \A w \in Write : ReceiptTrue(w)

(* What an attempt's success rests on; without a receipt, on the effect.   *)
AttemptsTrue ==
  \A a \in Attempt : status[a] = "succeeded" =>
    IF Kind[WriteOf[a]] \in ReceiptKinds
    THEN /\ receipt[WriteOf[a]].st \in {"succeeded", "undone"}
         /\ Digest[receipt[WriteOf[a]].owner] = Digest[a]
    ELSE world[WriteOf[a]] = "changed"

(* An approved attempt has its task, or the task was given up. *)
RunnersQueued ==
  \A a \in Attempt : status[a] = "executing" => execTask[a] >= 0 \/ a \in gaveUp

(* A handler that returns leaves its attempt settled, or its receipt       *)
(* looked at, so that the row may be deleted.                              *)
FinishedWork ==
  phase = "finish" =>
    IF act # NoAttempt THEN status[act] \in Terminal
    ELSE receipt[rec].st # "ambiguous" \/ receipt[rec].checked

(* An open receipt has a dispatched attempt that has not been settled. *)
ExecutingDispatched ==
  \A w \in Write : receipt[w].st = "executing" =>
    \E a \in Attempt : WriteOf[a] = w /\ status[a] = "executing" /\ marker[a]

-----------------------------------------------------------------------------
(* What is known already of every state. *)
Base == IInv /\ ReceiptsOfKinds /\ AnswersOfKinds

(* The receipt of w goes from status s to status t in the name of a. *)
Moved(a, w, s, t) ==
  /\ \A x \in Write \ {w} : receipt'[x] = receipt[x]
  /\ receipt[w].st = s /\ receipt'[w].st = t
  /\ receipt'[w].before = receipt[w].before
  /\ receipt'[w].owner = IF receipt[w].owner = NoAttempt THEN a ELSE receipt[w].owner

(* Attempt a is settled as s. *)
Settled(a, s) ==
  /\ \A x \in Attempt \ {a} : status'[x] = status[x] /\ marker'[x] = marker[x]
  /\ status'[a] = s /\ marker'[a] = FALSE

(* No receipt changes in any field but checked. *)
OnlyChecked ==
  \A x \in Write : /\ receipt'[x].st = receipt[x].st
                   /\ receipt'[x].retryable = receipt[x].retryable
                   /\ receipt'[x].owner = receipt[x].owner
                   /\ receipt'[x].before = receipt[x].before

(* _record_provider_write_receipt, unless the receipt has succeeded. *)
LEMMA RecordReceiptMoves ==
  ASSUME receipt \in [Write -> Receipt], NEW a \in Attempt \cup {NoAttempt},
         NEW w \in Write,
         NEW s \in {"executing", "succeeded", "failed", "ambiguous"},
         NEW retry \in BOOLEAN, RecordReceipt(a, w, s, retry),
         receipt[w].st # "succeeded"
  PROVE  /\ Moved(a, w, receipt[w].st, s)
         /\ receipt'[w].checked = FALSE
         /\ receipt'[w].retryable = retry
<1> DEFINE r == receipt[w]
           new == [r EXCEPT !.st = s, !.retryable = retry, !.checked = FALSE,
                            !.owner = IF r.owner = NoAttempt THEN a ELSE r.owner]
<1>1. r \in Receipt
  OBVIOUS
<1>2. /\ new.st = s /\ new.retryable = retry /\ new.before = r.before
      /\ new.checked = FALSE
      /\ new.owner = IF r.owner = NoAttempt THEN a ELSE r.owner
  BY <1>1 DEF Receipt
<1>3. receipt' = [receipt EXCEPT ![w] = new]
  BY DEF RecordReceipt
<1> HIDE DEF new
<1>4. receipt'[w] = new /\ \A x \in Write \ {w} : receipt'[x] = receipt[x]
  BY <1>3
<1> QED
  BY <1>2, <1>4 DEF Moved

(* The settling of an attempt, as first-order facts. *)
LEMMA SettleSettles ==
  ASSUME TypeOK, NEW a \in Attempt, NEW s, Settle(a, s)
  PROVE  Settled(a, s)
BY DEF TypeOK, Settle, Settled

(* A reconciliation that could not tell only says that it looked. *)
LEMMA CheckedMoves ==
  ASSUME receipt \in [Write -> Receipt], NEW w \in Write,
         receipt' = [receipt EXCEPT ![w].checked = TRUE]
  PROVE  /\ OnlyChecked /\ receipt'[w].checked = TRUE
         /\ \A x \in Write : receipt[x].checked => receipt'[x].checked
BY DEF Receipt, OnlyChecked

(* The labels read before a mail mutation are stored with its receipt. *)
LEMMA CaptureMoves ==
  ASSUME TypeOK, NEW a, NEW w \in Write, CaptureBeforeState(a, w)
  PROVE  /\ \A x \in Write \ {w} : receipt'[x] = receipt[x]
         /\ receipt'[w].st = receipt[w].st /\ receipt'[w].owner = receipt[w].owner
         /\ receipt'[w].retryable = receipt[w].retryable
         /\ receipt'[w].checked = receipt[w].checked
         /\ receipt'[w].before = world[w]
BY DEF TypeOK, CaptureBeforeState, Receipt

(* A successful undo u of w. *)
LEMMA UndoMoves ==
  ASSUME receipt \in [Write -> Receipt], NEW u \in Write, NEW w \in Write, u # w,
         RecordUndo(u, w)
  PROVE  /\ \A x \in Write \ {u, w} : receipt'[x] = receipt[x]
         /\ receipt'[u].st = "succeeded" /\ receipt'[u].owner = receipt[u].owner
         /\ receipt'[u].before = receipt[u].before
         /\ receipt[w].st = "succeeded" => receipt'[w].st = "undone"
         /\ receipt[w].st # "succeeded" => receipt'[w].st = receipt[w].st
         /\ receipt'[w].owner = receipt[w].owner
         /\ receipt'[w].before = receipt[w].before
         /\ receipt'[w].retryable = receipt[w].retryable
         /\ receipt'[w].checked = receipt[w].checked
<1> DEFINE ru == [receipt[u] EXCEPT !.st = "succeeded", !.retryable = FALSE]
           rw == [receipt[w] EXCEPT
                    !.st = IF receipt[w].st = "succeeded" THEN "undone" ELSE receipt[w].st]
<1>1. receipt' = [receipt EXCEPT ![u] = ru, ![w] = rw]
  BY Zenon DEF RecordUndo, Receipt
<1>2. receipt[u] \in Receipt /\ receipt[w] \in Receipt
  OBVIOUS
<1>3. /\ ru.st = "succeeded" /\ ru.owner = receipt[u].owner
      /\ ru.before = receipt[u].before
  BY <1>2 DEF Receipt
<1>4. /\ receipt[w].st = "succeeded" => rw.st = "undone"
      /\ receipt[w].st # "succeeded" => rw.st = receipt[w].st
      /\ rw.owner = receipt[w].owner /\ rw.before = receipt[w].before
      /\ rw.retryable = receipt[w].retryable /\ rw.checked = receipt[w].checked
  BY <1>2 DEF Receipt
<1> HIDE DEF ru, rw
<1>5. /\ receipt'[u] = ru /\ receipt'[w] = rw
      /\ \A x \in Write \ {u, w} : receipt'[x] = receipt[x]
  BY <1>1
<1> QED
  BY <1>3, <1>4, <1>5

-----------------------------------------------------------------------------
(* What the transactions of a handler do to receipts and attempts. *)
LEMMA MarkUnknownMoves ==
  ASSUME Base, NEW a \in Attempt, NEW w \in Write, MarkUnknown(a, w)
  PROVE  /\ Settled(a, "failed")
         /\ \/ Moved(a, w, "executing", "ambiguous") /\ Kind[w] \in ReceiptKinds
            \/ receipt' = receipt /\ receipt[w].st = "ambiguous"
<1>1. TypeOK
  BY DEF Base, IInv
<1>2. Settled(a, "failed")
  BY <1>1, SettleSettles DEF MarkUnknown
<1>3. CASE receipt[w].st = "executing"
  <2>1. RecordReceipt(a, w, "ambiguous", FALSE) /\ receipt \in [Write -> Receipt]
    BY <1>1, <1>3 DEF MarkUnknown, TypeOK
  <2>2. Moved(a, w, "executing", "ambiguous")
    BY <1>3, <2>1, RecordReceiptMoves
  <2>3. Kind[w] \in ReceiptKinds
    BY <1>3 DEF Base, ReceiptsOfKinds
  <2> QED
    BY <1>2, <2>2, <2>3
<1>4. CASE receipt[w].st # "executing"
  BY <1>2, <1>4 DEF MarkUnknown
<1> QED
  BY <1>3, <1>4

(* A dispatch opens the receipt and marks the attempt, one of each. *)
LEMMA DispatchMoves ==
  ASSUME Base, NEW a \in Attempt, NEW w \in Write, Dispatch(a, w)
  PROVE  /\ status' = status /\ world' = world /\ marker'[a] = TRUE
         /\ \A x \in Attempt \ {a} : marker'[x] = marker[x]
         /\ IF Kind[w] \in ReceiptKinds
            THEN \E s \in {"none", "failed"} : Moved(a, w, s, "executing")
            ELSE receipt' = receipt
<1>1. TypeOK
  BY DEF Base, IInv
<1>2. /\ status' = status /\ world' = world /\ marker'[a] = TRUE
      /\ \A x \in Attempt \ {a} : marker'[x] = marker[x]
  BY <1>1 DEF Dispatch, TypeOK, history
<1>3. ASSUME Kind[w] \in ReceiptKinds
      PROVE  \E s \in {"none", "failed"} : Moved(a, w, s, "executing")
  <2>1. RecordReceipt(a, w, "executing", FALSE) /\ receipt[w].st \in {"none", "failed"}
    BY <1>3 DEF Dispatch, MayDispatch, RetryableEmail
  <2> QED
    BY <1>1, <2>1, RecordReceiptMoves DEF TypeOK
<1>4. Kind[w] \notin ReceiptKinds => receipt' = receipt
  BY DEF Dispatch
<1> QED
  BY <1>2, <1>3, <1>4

(* What an answer is recorded on. *)
LEMMA RecordingOpen ==
  ASSUME Base, NEW a \in Attempt, NEW w \in Write, w = WriteOf[a],
         phase = "record", act = a, rec = w
  PROVE  Kind[w] \in ReceiptKinds => receipt[w].st = "executing"
BY DEF Base, IInv, InFlightTraced, InFlight

(* A recorded success settles the attempt and closes the receipt; an undo  *)
(* also moves the receipt it reversed.                                     *)
LEMMA RecordSuccessMoves ==
  ASSUME Base, NEW a \in Attempt, NEW w \in Write, w = WriteOf[a], RecordSuccess(a, w)
  PROVE  /\ Settled(a, "succeeded")
         /\ Kind[w] \notin ReceiptKinds => receipt' = receipt
         /\ Kind[w] \in ReceiptKinds \ {"undo"} => Moved(a, w, "executing", "succeeded")
         /\ Kind[w] = "undo" => RecordUndo(w, Target[w]) /\ receipt[w].st = "executing"
<1>1. TypeOK
  BY DEF Base, IInv
<1>2. Settled(a, "succeeded")
  BY <1>1, SettleSettles DEF RecordSuccess
<1>3. Kind[w] \in ReceiptKinds => receipt[w].st = "executing"
  BY RecordingOpen DEF RecordSuccess, Recording
<1>4. "undo" \in ReceiptKinds
  BY DEF ReceiptKinds, GoogleKinds, EmailKinds
<1>5. ASSUME Kind[w] \in ReceiptKinds \ {"undo"}
      PROVE  Moved(a, w, "executing", "succeeded")
  <2>1. RecordReceipt(a, w, "succeeded", FALSE) /\ receipt \in [Write -> Receipt]
    BY <1>1, <1>5 DEF RecordSuccess, TypeOK
  <2>2. receipt[w].st = "executing"
    BY <1>3, <1>5
  <2> QED
    BY <2>1, <2>2, RecordReceiptMoves
<1>6. /\ Kind[w] \notin ReceiptKinds => receipt' = receipt
      /\ Kind[w] = "undo" => RecordUndo(w, Target[w])
  BY <1>4 DEF RecordSuccess
<1> QED
  BY <1>2, <1>3, <1>4, <1>5, <1>6

(* A recorded error that may be retried leaves the attempt as it is. *)
LEMMA RecordRetryMoves ==
  ASSUME Base, AnswerFits, NEW a \in Attempt, NEW w \in Write, w = WriteOf[a],
         RecordRetry(a, w)
  PROVE  /\ status' = status /\ marker' = marker /\ world' = world
         /\ Kind[w] \in EmailKinds
         /\ Moved(a, w, "executing", "failed") /\ receipt'[w].retryable = TRUE
<1>1. TypeOK
  BY DEF Base, IInv
<1>2. Kind[w] \in EmailKinds
  BY DEF AnswerFits, RecordRetry, Recording, Answers
<1>3. receipt[w].st = "executing"
  BY <1>2, RecordingOpen DEF RecordRetry, Recording, ReceiptKinds, GoogleKinds
<1>4. RecordReceipt(a, w, "failed", TRUE) /\ receipt \in [Write -> Receipt]
  BY <1>1 DEF RecordRetry, TypeOK
<1>5. Moved(a, w, "executing", "failed") /\ receipt'[w].retryable = TRUE
  BY <1>3, <1>4, RecordReceiptMoves
<1> QED
  BY <1>2, <1>5 DEF RecordRetry

(* A recorded definite failure: for the Google writes other than mail it can *)
(* only be a refusal.                                                      *)
LEMMA RecordFailureMoves ==
  ASSUME Base, AnswerFits, NEW a \in Attempt, NEW w \in Write, w = WriteOf[a],
         RecordFailure(a, w)
  PROVE  /\ Settled(a, "failed") /\ world' = world
         /\ Kind[w] \in ReceiptKinds
         /\ Kind[w] \in {"calendar", "google"} => result = "refused"
         /\ Moved(a, w, "executing", "failed") /\ receipt'[w].retryable = FALSE
<1>1. TypeOK
  BY DEF Base, IInv
<1>2. phase = "record" /\ act = a /\ rec = w /\ result \in {"final", "refused"}
  BY DEF RecordFailure, Recording
<1>3. Kind[w] \in ReceiptKinds
  BY <1>2 DEF Base, AnswersOfKinds
<1>4. Kind[w] \in {"calendar", "google"} => result = "refused"
  BY <1>2 DEF AnswerFits, Answers, EmailKinds
<1>5. receipt[w].st = "executing"
  BY <1>2, <1>3, RecordingOpen
<1>6. RecordReceipt(a, w, "failed", FALSE) /\ receipt \in [Write -> Receipt]
  BY <1>1 DEF RecordFailure, TypeOK
<1>7. Moved(a, w, "executing", "failed") /\ receipt'[w].retryable = FALSE
  BY <1>5, <1>6, RecordReceiptMoves
<1>8. Settled(a, "failed") /\ world' = world
  BY <1>1, SettleSettles DEF RecordFailure, history
<1> QED
  BY <1>3, <1>4, <1>7, <1>8

(* A recorded unknown answer leaves an ambiguous receipt, if one is kept. *)
LEMMA RecordUnknownMoves ==
  ASSUME Base, NEW a \in Attempt, NEW w \in Write, w = WriteOf[a], RecordUnknown(a, w)
  PROVE  /\ Settled(a, "failed") /\ world' = world
         /\ IF Kind[w] \in ReceiptKinds
            THEN Moved(a, w, "executing", "ambiguous") ELSE receipt' = receipt
<1>1. TypeOK
  BY DEF Base, IInv
<1>2. Settled(a, "failed") /\ world' = world
  BY <1>1, SettleSettles DEF RecordUnknown, history
<1>3. ASSUME Kind[w] \in ReceiptKinds PROVE Moved(a, w, "executing", "ambiguous")
  <2>1. receipt[w].st = "executing"
    BY <1>3, RecordingOpen DEF RecordUnknown, Recording
  <2>2. RecordReceipt(a, w, "ambiguous", FALSE) /\ receipt \in [Write -> Receipt]
    BY <1>1, <1>3 DEF RecordUnknown, TypeOK
  <2> QED
    BY <2>1, <2>2, RecordReceiptMoves
<1>4. Kind[w] \notin ReceiptKinds => receipt' = receipt
  BY DEF RecordUnknown
<1> QED
  BY <1>2, <1>3, <1>4

(* A probe that finds the write done settles the attempt that owns it. *)
LEMMA LearnSuccessMoves ==
  ASSUME Base, OwnerSound, NEW w \in Write, LearnSuccess(w)
  PROVE  /\ receipt[w].owner \in Attempt /\ WriteOf[receipt[w].owner] = w
         /\ Settled(receipt[w].owner, "succeeded") /\ world' = world
         /\ Kind[w] \in ReceiptKinds
         /\ Moved(receipt[w].owner, w, "ambiguous", "succeeded")
<1>1. TypeOK
  BY DEF Base, IInv
<1>2. receipt[w].st = "ambiguous" /\ Kind[w] \in ReceiptKinds
  BY DEF LearnSuccess, Learning, Base, ReceiptsOfKinds
<1>3. receipt[w].owner \in Attempt /\ WriteOf[receipt[w].owner] = w
  BY <1>1, <1>2 DEF OwnerSound, TypeOK, Receipt
<1>4. Settled(receipt[w].owner, "succeeded") /\ world' = world
  BY <1>1, <1>3, SettleSettles DEF LearnSuccess, history
<1>5. RecordReceipt(receipt[w].owner, w, "succeeded", FALSE) /\ receipt \in [Write -> Receipt]
  BY <1>1 DEF LearnSuccess, TypeOK
<1>6. Moved(receipt[w].owner, w, "ambiguous", "succeeded")
  BY <1>2, <1>3, <1>5, RecordReceiptMoves
<1> QED
  BY <1>2, <1>3, <1>4, <1>6

-----------------------------------------------------------------------------
(* What a receipt owes to the steps of all actors: its owner, its having   *)
(* been made and its success last.                                         *)
ReceiptsLast ==
  \A w \in Write :
    /\ receipt[w].owner # NoAttempt => receipt'[w].owner = receipt[w].owner
    /\ receipt[w].st # "none" => receipt'[w].st # "none"
    /\ receipt[w].st \in {"succeeded", "undone"} => receipt'[w].st \in {"succeeded", "undone"}
    /\ receipt[w].before # "none" => receipt'[w].before # "none"

(* Receipts made or moved keep their owners, and last. *)
LEMMA MovedLasts ==
  ASSUME OwnerSound, NEW a \in Attempt, NEW w \in Write, NEW s, NEW t, WriteOf[a] = w,
         s \notin {"succeeded", "undone"}, t # "none", Moved(a, w, s, t)
  PROVE  OwnerSound' /\ ReceiptsLast
<1>1. NoAttempt \notin Attempt
  BY WriteAssumption
<1>2. ASSUME NEW x \in Write
      PROVE  /\ receipt'[x].st = "none" <=> receipt'[x].owner = NoAttempt
             /\ receipt'[x].owner # NoAttempt => WriteOf[receipt'[x].owner] = x
             /\ receipt[x].owner # NoAttempt => receipt'[x].owner = receipt[x].owner
             /\ receipt[x].st # "none" => receipt'[x].st # "none"
             /\ receipt[x].st \in {"succeeded", "undone"}
                  => receipt'[x].st \in {"succeeded", "undone"}
             /\ receipt[x].before # "none" => receipt'[x].before # "none"
  <2>1. CASE x = w
    BY <1>1, <2>1 DEF OwnerSound, Moved
  <2>2. CASE x # w
    BY <2>2 DEF OwnerSound, Moved
  <2> QED
    BY <2>1, <2>2
<1> QED
  BY <1>2 DEF OwnerSound, ReceiptsLast

(* So they do when only other fields change. *)
LEMMA SameStatusLasts ==
  ASSUME OwnerSound,
         \A x \in Write : /\ receipt'[x].st = receipt[x].st
                          /\ receipt'[x].owner = receipt[x].owner
                          /\ receipt[x].before # "none" => receipt'[x].before # "none"
  PROVE  OwnerSound' /\ ReceiptsLast
BY DEF OwnerSound, ReceiptsLast

(* And when a mutation is undone. *)
LEMMA UndoLasts ==
  ASSUME Base, OwnerSound, NEW u \in Write, Kind[u] = "undo",
         receipt[u].st = "executing", RecordUndo(u, Target[u])
  PROVE  OwnerSound' /\ ReceiptsLast
<1> DEFINE w == Target[u]
<1>1. w \in Write /\ u # w
  BY WriteAssumption
<1>2. receipt \in [Write -> Receipt]
  BY DEF Base, IInv, TypeOK
<1>3. RecordUndo(u, w)
  OBVIOUS
<1> HIDE DEF w
<1>4. /\ \A x \in Write \ {u, w} : receipt'[x] = receipt[x]
      /\ receipt'[u].st = "succeeded" /\ receipt'[u].owner = receipt[u].owner
      /\ receipt'[u].before = receipt[u].before
      /\ receipt[w].st = "succeeded" => receipt'[w].st = "undone"
      /\ receipt[w].st # "succeeded" => receipt'[w].st = receipt[w].st
      /\ receipt'[w].owner = receipt[w].owner
      /\ receipt'[w].before = receipt[w].before
  BY <1>1, <1>2, <1>3, UndoMoves
<1>5. ASSUME NEW x \in Write
      PROVE  /\ receipt'[x].st = "none" <=> receipt[x].st = "none"
             /\ receipt'[x].owner = receipt[x].owner
             /\ receipt[x].st \in {"succeeded", "undone"}
                  => receipt'[x].st \in {"succeeded", "undone"}
             /\ receipt'[x].before = receipt[x].before
  <2>1. CASE x = u
    BY <1>4, <2>1
  <2>2. CASE x = w
    BY <1>4, <2>2
  <2>3. CASE x \notin {u, w}
    BY <1>4, <2>3
  <2> QED
    BY <2>1, <2>2, <2>3
<1> QED
  BY <1>5 DEF OwnerSound, ReceiptsLast

(* The steps that leave receipts alone. *)
Quiet(a, w) ==
  \/ Authorize(a) \/ StartExecution(a) \/ AlreadySettled(a)
  \/ ReplayReceipt(a, w) \/ Refuse(a, w) \/ GateFails(a, w) \/ ExecuteOnHost(a, w)
  \/ ExecuteMemory(a, w) \/ CallProvider(a, w)
  \/ StartReconcile(w) \/ NothingToReconcile(w) \/ Probe(w)
  \/ FinishTask \/ Raise \/ FailTask \/ Crash

(* They do. *)
LEMMA QuietReceipts ==
  ASSUME NEW a, NEW w, Quiet(a, w)
  PROVE  receipt' = receipt
BY DEF Quiet, Authorize, StartExecution, AlreadySettled, ReplayReceipt, Refuse,
       GateFails, ExecuteOnHost, ExecuteMemory, CallProvider, StartReconcile,
       NothingToReconcile, Probe, FinishTask, Raise, FailTask, Crash, db

(* The steps that write one. *)
Writing(a, w) ==
  \/ MarkUnknown(a, w) \/ Dispatch(a, w) \/ CaptureBeforeState(a, w)
  \/ RecordSuccess(a, w) \/ RecordRetry(a, w) \/ RecordFailure(a, w)
  \/ RecordUnknown(a, w)
Looking(w) == MarkIndeterminate(w) \/ LearnNothing(w)

(* A step of [Next]_vars is one of these. *)
LEMMA StepKinds ==
  ASSUME [Next]_vars
  PROVE  \/ UNCHANGED vars
         \/ FinishTask \/ Raise \/ FailTask \/ Crash
         \/ \E a \in Attempt : WriteOf[a] \in Write /\ Quiet(a, WriteOf[a])
         \/ \E a \in Attempt : WriteOf[a] \in Write /\ Writing(a, WriteOf[a])
         \/ \E w \in Write : StartReconcile(w) \/ NothingToReconcile(w) \/ Probe(w)
         \/ \E w \in Write : Looking(w)
         \/ \E w \in Write : LearnSuccess(w)
<1>1. \A a \in Attempt : WriteOf[a] \in Write
  BY WriteAssumption
<1> QED
  BY <1>1, Zenon DEF Next, Decide, Carry, Record, Reconcile, Quiet, Writing, Looking

(* So receipts last in every step. *)
LEMMA NextKeepsOwners ==
  ASSUME Base, AnswerFits, OwnerSound, [Next]_vars
  PROVE  OwnerSound' /\ ReceiptsLast
<1>1. CASE receipt' = receipt
  BY <1>1, SameStatusLasts
<1>2. CASE \/ UNCHANGED vars
           \/ FinishTask \/ Raise \/ FailTask \/ Crash
           \/ \E w \in Write : StartReconcile(w) \/ NothingToReconcile(w) \/ Probe(w)
  BY <1>1, <1>2 DEF vars, FinishTask, Raise, FailTask, Crash, StartReconcile,
                    NothingToReconcile, Probe, db
<1>3. ASSUME NEW a \in Attempt, Quiet(a, WriteOf[a]) PROVE OwnerSound' /\ ReceiptsLast
  BY <1>1, <1>3, QuietReceipts
<1>4. ASSUME NEW a \in Attempt, NEW w \in Write, w = WriteOf[a], Writing(a, w)
      PROVE  OwnerSound' /\ ReceiptsLast
  <2>1. CASE MarkUnknown(a, w)
    BY <1>1, <1>4, <2>1, MarkUnknownMoves, MovedLasts
  <2>2. CASE Dispatch(a, w)
    <3>1. CASE Kind[w] \in ReceiptKinds
      <4>1. PICK s \in {"none", "failed"} : Moved(a, w, s, "executing")
        BY <2>2, <3>1, DispatchMoves
      <4>2. s \notin {"succeeded", "undone"}
        OBVIOUS
      <4> QED
        BY <1>4, <4>1, <4>2, MovedLasts
    <3>2. CASE Kind[w] \notin ReceiptKinds
      BY <1>1, <2>2, <3>2, DispatchMoves
    <3> QED
      BY <3>1, <3>2
  <2>3. CASE CaptureBeforeState(a, w)
    <3>1. TypeOK
      BY DEF Base, IInv
    <3>2. world[w] \in WorldState
      BY <3>1 DEF TypeOK
    <3>3. \A x \in Write : /\ receipt'[x].st = receipt[x].st
                           /\ receipt'[x].owner = receipt[x].owner
                           /\ receipt[x].before # "none" => receipt'[x].before # "none"
      BY <2>3, <3>1, <3>2, CaptureMoves DEF WorldState
    <3> QED
      BY <3>3, SameStatusLasts
  <2>4. CASE RecordSuccess(a, w)
    <3>1. CASE Kind[w] = "undo"
      BY <1>4, <2>4, <3>1, RecordSuccessMoves, UndoLasts
    <3>2. CASE Kind[w] \in ReceiptKinds \ {"undo"}
      <4>1. Moved(a, w, "executing", "succeeded")
        BY <1>4, <2>4, <3>2, RecordSuccessMoves
      <4> QED
        BY <1>4, <4>1, MovedLasts
    <3>3. CASE Kind[w] \notin ReceiptKinds
      BY <1>1, <1>4, <2>4, <3>3, RecordSuccessMoves
    <3> QED
      BY <3>1, <3>2, <3>3
  <2>5. CASE RecordRetry(a, w)
    <3>1. Moved(a, w, "executing", "failed")
      BY <1>4, <2>5, RecordRetryMoves
    <3> QED
      BY <1>4, <3>1, MovedLasts
  <2>6. CASE RecordFailure(a, w)
    <3>1. Moved(a, w, "executing", "failed")
      BY <1>4, <2>6, RecordFailureMoves
    <3> QED
      BY <1>4, <3>1, MovedLasts
  <2>7. CASE RecordUnknown(a, w)
    <3>1. Moved(a, w, "executing", "ambiguous") \/ receipt' = receipt
      BY <1>4, <2>7, RecordUnknownMoves
    <3> QED
      BY <1>1, <1>4, <3>1, MovedLasts
  <2> QED
    BY <1>4, <2>1, <2>2, <2>3, <2>4, <2>5, <2>6, <2>7 DEF Writing
<1>5. ASSUME NEW w \in Write, Looking(w) PROVE OwnerSound' /\ ReceiptsLast
  <2>1. receipt' = [receipt EXCEPT ![w].checked = TRUE] /\ receipt \in [Write -> Receipt]
    BY <1>5 DEF Looking, MarkIndeterminate, LearnNothing, Base, IInv, TypeOK
  <2>2. OnlyChecked
    BY <2>1, CheckedMoves
  <2>3. \A x \in Write : /\ receipt'[x].st = receipt[x].st
                         /\ receipt'[x].owner = receipt[x].owner
                         /\ receipt[x].before # "none" => receipt'[x].before # "none"
    BY <2>2 DEF OnlyChecked
  <2> QED
    BY <2>3, SameStatusLasts
<1>6. ASSUME NEW w \in Write, LearnSuccess(w) PROVE OwnerSound' /\ ReceiptsLast
  <2>1. /\ receipt[w].owner \in Attempt /\ WriteOf[receipt[w].owner] = w
        /\ Moved(receipt[w].owner, w, "ambiguous", "succeeded")
    BY <1>6, LearnSuccessMoves
  <2> QED
    BY <2>1, MovedLasts
<1> QED
  BY <1>2, <1>3, <1>4, <1>5, <1>6, StepKinds

-----------------------------------------------------------------------------
(* A settling or a dispatch concerns one attempt; a settled one is unmarked. *)
LEMMA MarkersStay ==
  ASSUME MarkerMatches, ReceiptsLast, \A x \in Attempt : marker'[x] => marker[x]
  PROVE  MarkerMatches'
<1> SUFFICES ASSUME NEW x \in Attempt, marker'[x], Kind[WriteOf[x]] \in ReceiptKinds
             PROVE  /\ receipt'[WriteOf[x]].owner # NoAttempt
                    /\ Digest[receipt'[WriteOf[x]].owner] = Digest[x]
  BY DEF MarkerMatches
<1>1. WriteOf[x] \in Write
  BY WriteAssumption
<1>2. /\ receipt[WriteOf[x]].owner # NoAttempt
      /\ Digest[receipt[WriteOf[x]].owner] = Digest[x]
  BY DEF MarkerMatches
<1> QED
  BY <1>1, <1>2 DEF ReceiptsLast

(* Settling an attempt marks none. *)
LEMMA SettledUnmarks ==
  ASSUME NEW a \in Attempt, NEW s, Settled(a, s)
  PROVE  \A x \in Attempt : marker'[x] => marker[x]
BY DEF Settled

(* The steps that leave the attempts' rows alone, or only a status. *)
SameMarkers(a, w) ==
  \/ Authorize(a) \/ StartExecution(a) \/ AlreadySettled(a) \/ ExecuteMemory(a, w)
  \/ CallProvider(a, w) \/ CaptureBeforeState(a, w) \/ RecordRetry(a, w)
  \/ StartReconcile(w) \/ NothingToReconcile(w) \/ Probe(w) \/ Looking(w)
  \/ FinishTask \/ Raise \/ FailTask \/ Crash
Settling(a, w) ==
  \/ ReplayReceipt(a, w) \/ Refuse(a, w) \/ GateFails(a, w) \/ ExecuteOnHost(a, w)
  \/ MarkUnknown(a, w) \/ RecordSuccess(a, w) \/ RecordFailure(a, w)
  \/ RecordUnknown(a, w)

(* They do. *)
LEMMA SameMarkersSame ==
  ASSUME NEW a, NEW w, SameMarkers(a, w)
  PROVE  marker' = marker
BY DEF SameMarkers, Authorize, StartExecution, AlreadySettled, ExecuteMemory,
       CallProvider, CaptureBeforeState, RecordRetry, StartReconcile,
       NothingToReconcile, Probe, Looking, MarkIndeterminate, LearnNothing,
       FinishTask, Raise, FailTask, Crash, db

(* An attempt that is settled was executing. *)
LEMMA SettlingSettles ==
  ASSUME Base, NEW a \in Attempt, NEW w \in Write, Settling(a, w)
  PROVE  \E s \in Terminal : Settled(a, s)
<1>1. TypeOK
  BY DEF Base, IInv
<1>2. Settle(a, "succeeded") \/ Settle(a, "failed")
  BY DEF Settling, ReplayReceipt, Refuse, GateFails, ExecuteOnHost, MarkUnknown,
         RecordSuccess, RecordFailure, RecordUnknown
<1> QED
  BY <1>1, <1>2, SettleSettles DEF Terminal

(* A step of [Next]_vars, by what it does to the markers. *)
LEMMA StepsByMarker ==
  ASSUME [Next]_vars
  PROVE  \/ UNCHANGED vars
         \/ FinishTask \/ Raise \/ FailTask \/ Crash
         \/ \E a \in Attempt : WriteOf[a] \in Write /\ SameMarkers(a, WriteOf[a])
         \/ \E a \in Attempt : WriteOf[a] \in Write /\ Settling(a, WriteOf[a])
         \/ \E a \in Attempt : WriteOf[a] \in Write /\ Dispatch(a, WriteOf[a])
         \/ \E w \in Write : StartReconcile(w) \/ NothingToReconcile(w) \/ Probe(w)
         \/ \E w \in Write : Looking(w)
         \/ \E w \in Write : LearnSuccess(w)
<1>1. \A a \in Attempt : WriteOf[a] \in Write
  BY WriteAssumption
<1> QED
  BY <1>1, Zenon DEF Next, Decide, Carry, Record, Reconcile, SameMarkers, Settling, Looking

(* A mark stands for a receipt that was of the same input and still is. *)
LEMMA NextKeepsMarkers ==
  ASSUME Base, AnswerFits, OwnerSound, MarkerMatches, [Next]_vars
  PROVE  MarkerMatches'
<1>1. ReceiptsLast
  BY NextKeepsOwners
<1>2. CASE marker' = marker
  BY <1>1, <1>2, MarkersStay
<1>3. CASE \/ UNCHANGED vars \/ FinishTask \/ Raise \/ FailTask \/ Crash
           \/ \E w \in Write : StartReconcile(w) \/ NothingToReconcile(w) \/ Probe(w)
           \/ \E w \in Write : Looking(w)
  <2>1. marker' = marker
    BY <1>3, SameMarkersSame DEF SameMarkers, vars
  <2> QED
    BY <1>2, <2>1
<1>4. ASSUME NEW a \in Attempt, SameMarkers(a, WriteOf[a]) PROVE MarkerMatches'
  BY <1>2, <1>4, SameMarkersSame
<1>5. ASSUME NEW a \in Attempt, WriteOf[a] \in Write, Settling(a, WriteOf[a])
      PROVE  MarkerMatches'
  <2>1. PICK s \in Terminal : Settled(a, s)
    BY <1>5, SettlingSettles
  <2> QED
    BY <1>1, <2>1, SettledUnmarks, MarkersStay
<1>6. ASSUME NEW w \in Write, LearnSuccess(w) PROVE MarkerMatches'
  BY <1>1, <1>6, LearnSuccessMoves, SettledUnmarks, MarkersStay
<1>7. ASSUME NEW a \in Attempt, NEW w \in Write, w = WriteOf[a], Dispatch(a, w)
      PROVE  MarkerMatches'
  <2> SUFFICES ASSUME NEW x \in Attempt, marker'[x], Kind[WriteOf[x]] \in ReceiptKinds
               PROVE  /\ receipt'[WriteOf[x]].owner # NoAttempt
                      /\ Digest[receipt'[WriteOf[x]].owner] = Digest[x]
    BY DEF MarkerMatches
  <2>1. WriteOf[x] \in Write
    BY WriteAssumption
  <2>2. CASE x = a
    <3>1. \E s \in {"none", "failed"} : Moved(a, w, s, "executing")
      BY <1>7, <2>2, DispatchMoves
    <3>2. receipt'[w].owner = IF receipt[w].owner = NoAttempt THEN a ELSE receipt[w].owner
      BY <3>1 DEF Moved
    <3>3. receipt[w].owner # NoAttempt => Digest[receipt[w].owner] = Digest[a]
      BY <1>7 DEF Dispatch, Conflict
    <3>4. a # NoAttempt
      BY WriteAssumption
    <3> QED
      BY <1>7, <2>2, <3>2, <3>3, <3>4
  <2>3. CASE x # a
    <3>1. marker[x]
      BY <1>7, <2>3, DispatchMoves
    <3>2. /\ receipt[WriteOf[x]].owner # NoAttempt
          /\ Digest[receipt[WriteOf[x]].owner] = Digest[x]
      BY <3>1 DEF MarkerMatches
    <3> QED
      BY <1>1, <2>1, <3>2 DEF ReceiptsLast
  <2> QED
    BY <2>2, <2>3
<1> QED
  BY <1>3, <1>4, <1>5, <1>6, <1>7, StepsByMarker

-----------------------------------------------------------------------------
(* CallProvider and ExecuteMemory alone put an answer in the worker's memory. *)
LEMMA NextKeepsAnswers ==
  ASSUME AnswerFits, [Next]_vars
  PROVE  AnswerFits'
<1> USE DEF AnswerFits, Goto, Idle, worker
<1>1. ASSUME NEW a \in Attempt, CallProvider(a, WriteOf[a]) PROVE AnswerFits'
  BY <1>1 DEF CallProvider, Answers
<1>2. ASSUME NEW a \in Attempt, ExecuteMemory(a, WriteOf[a]) PROVE AnswerFits'
  BY <1>2 DEF ExecuteMemory, Undispatched, Deciding, Answers, EmailKinds
<1>3. ASSUME NEW a \in Attempt, Authorize(a) PROVE AnswerFits'
  BY <1>3 DEF Authorize
<1>4. ASSUME NEW a, NEW w, \/ StartExecution(a) \/ AlreadySettled(a) \/ Settling(a, w)
                           \/ Dispatch(a, w) \/ CaptureBeforeState(a, w)
                           \/ RecordRetry(a, w)
      PROVE  AnswerFits'
  <2>1. phase' # "record"
    BY <1>4 DEF StartExecution, AlreadySettled, Settling, ReplayReceipt, Refuse,
                GateFails, ExecuteOnHost, MarkUnknown, RecordSuccess, RecordFailure,
                RecordUnknown, Dispatch, CaptureBeforeState, RecordRetry
  <2> QED
    BY <2>1
<1>5. ASSUME NEW w, \/ StartReconcile(w) \/ NothingToReconcile(w) \/ Probe(w)
                    \/ Looking(w) \/ LearnSuccess(w)
      PROVE  AnswerFits'
  <2>1. phase' # "record"
    BY <1>5 DEF StartReconcile, NothingToReconcile, Probe, Looking,
                MarkIndeterminate, LearnNothing, LearnSuccess
  <2> QED
    BY <2>1
<1>6. CASE FinishTask \/ Raise \/ FailTask \/ Crash \/ UNCHANGED vars
  BY <1>6 DEF FinishTask, Raise, FailTask, Crash, vars
<1> HIDE DEF AnswerFits
<1> QED
  BY <1>1, <1>2, <1>3, <1>4, <1>5, <1>6, Zenon DEF Next, Decide, Carry, Record,
     Reconcile, Settling, Looking

-----------------------------------------------------------------------------
(* What the worker relies on it brought about itself: the API process only *)
(* touches attempts that nobody executes yet.                              *)
LEMMA NextKeepsWorker ==
  ASSUME Base, WorkerTrue, ReceiptsTrue, [Next]_vars
  PROVE  WorkerTrue'
<1>1. TypeOK /\ PhaseOK
  BY DEF Base, IInv
<1>2. ASSUME phase' \notin InFlight \cup {"learn"} PROVE WorkerTrue'
  BY <1>2 DEF WorkerTrue, InFlight
<1>3. ASSUME NEW a \in Attempt, Authorize(a) PROVE WorkerTrue'
  <2>1. \A x \in Attempt : status[x] = "executing" => status'[x] = "executing"
    BY <1>1, <1>3 DEF Authorize, TypeOK
  <2>2. UNCHANGED <<phase, act, rec, result, world, receipt>>
    BY <1>3 DEF Authorize, worker
  <2>3. phase \in InFlight => act \in Attempt
    BY <1>1 DEF PhaseOK
  <2> QED
    BY <2>1, <2>2, <2>3 DEF WorkerTrue, Goal, InFlight
<1>4. ASSUME NEW a \in Attempt, NEW w \in Write, w = WriteOf[a], Dispatch(a, w)
      PROVE  WorkerTrue'
  <2>1. /\ status' = status /\ world' = world /\ status[a] = "executing"
        /\ act = a /\ rec = w /\ act' = act /\ rec' = rec
        /\ phase' = IF MustCapture(w) THEN "capture" ELSE "call"
    BY <1>4 DEF Dispatch, Undispatched, Deciding, Goto, history
  <2>2. /\ \A x \in Write \ {w} : receipt'[x] = receipt[x]
        /\ receipt'[w].before = receipt[w].before
    BY <1>4, DispatchMoves DEF Moved
  <2>3. /\ phase' = "capture" => receipt'[w].before = "none"
        /\ phase' = "call" /\ Kind[w] = "email" => receipt'[w].before # "none"
    BY <2>1, <2>2 DEF MustCapture
  <2>4. ASSUME Kind[w] = "undo"
        PROVE  receipt'[Target[w]].st = "succeeded" /\ receipt'[Target[w]].before # "none"
    <3>1. Target[w] \in Write \ {w}
      BY <2>4, WriteAssumption
    <3> QED
      BY <1>4, <2>2, <2>4, <3>1 DEF Dispatch, UndoAvailable
  <2>5. ASSUME Kind[w] \in {"calendar", "google"} PROVE world'[w] = "orig"
    <3>1. receipt[w].st = "none"
      BY <1>4, <2>5 DEF Dispatch, MayDispatch, RetryableEmail, EmailKinds
    <3>2. ReceiptTrue(w)
      BY DEF ReceiptsTrue
    <3> QED
      BY <2>1, <2>5, <3>1, <3>2 DEF ReceiptTrue
  <2> QED
    BY <2>1, <2>3, <2>4, <2>5 DEF WorkerTrue, InFlight
<1>5. ASSUME NEW a \in Attempt, NEW w \in Write, w = WriteOf[a], CaptureBeforeState(a, w)
      PROVE  WorkerTrue'
  <2>1. /\ phase = "capture" /\ phase' = "call" /\ act = a /\ rec = w /\ act' = act
        /\ rec' = rec /\ status' = status
    BY <1>5 DEF CaptureBeforeState, Goto
  <2>2. Kind[w] = "email" /\ status[a] = "executing"
    BY <1>1, <2>1 DEF PhaseOK, WorkerTrue, InFlight
  <2>3. receipt'[w].before = world[w] /\ world[w] # "none"
    BY <1>1, <1>5, CaptureMoves DEF TypeOK, WorldState
  <2> QED
    BY <2>1, <2>2, <2>3 DEF WorkerTrue, InFlight
<1>6. ASSUME NEW a \in Attempt, NEW w \in Write, w = WriteOf[a], CallProvider(a, w)
      PROVE  WorkerTrue'
  <2>1. /\ phase = "call" /\ act = a /\ rec = w /\ act' = act /\ rec' = rec
        /\ status' = status /\ receipt' = receipt
    BY <1>6 DEF CallProvider, db
  <2>2. CASE phase' = "record"
    <3>1. PICK x \in WorldAfter(Kind[w], result', world[Target[w]], Goal(w)) :
                 world' = [world EXCEPT ![Target[w]] = x]
      BY <1>6, <2>2 DEF CallProvider
    <3>2. Target[w] \in Write
      BY WriteAssumption
    <3>3. world'[Target[w]] = x
      BY <1>1, <3>1, <3>2 DEF TypeOK
    <3>4. Goal(w)' = Goal(w)
      BY <2>1 DEF Goal
    <3>5. result' = "ok" => world'[Target[w]] = Goal(w)'
      BY <3>1, <3>3, <3>4 DEF WorldAfter
    <3>6. ASSUME result' = "refused", Kind[w] \in {"calendar", "google"}
          PROVE  world'[w] = "orig"
      <4>1. Target[w] = w /\ world[w] = "orig"
        BY <2>1, <3>6, WriteAssumption DEF WorkerTrue
      <4> QED
        BY <3>1, <3>3, <3>6, <4>1 DEF WorldAfter
    <3>7. /\ status[a] = "executing"
          /\ Kind[w] = "email" => receipt[w].before # "none"
          /\ Kind[w] = "undo" => receipt[Target[w]].st = "succeeded"
                                 /\ receipt[Target[w]].before # "none"
      BY <2>1 DEF WorkerTrue, InFlight
    <3>8. Goal(rec)' = Goal(w)'
      BY <2>1 DEF Goal
    <3> QED
      BY <2>1, <2>2, <3>5, <3>6, <3>7, <3>8 DEF WorkerTrue
  <2>3. CASE phase' # "record"
    BY <1>2, <1>6, <2>3 DEF CallProvider, InFlight
  <2> QED
    BY <2>2, <2>3
<1>7. ASSUME NEW a \in Attempt, NEW w \in Write, w = WriteOf[a], ExecuteMemory(a, w)
      PROVE  WorkerTrue'
  <2>1. /\ phase' = "record" /\ act' = a /\ rec' = w /\ status' = status
        /\ result' = "ok" /\ Kind[w] = "memory" /\ status[a] = "executing"
    BY <1>7 DEF ExecuteMemory, Undispatched, Deciding, db
  <2>2. Target[w] = w
    BY <2>1, WriteAssumption
  <2>3. world'[w] = "changed"
    BY <1>1, <1>7 DEF ExecuteMemory, TypeOK
  <2>4. Goal(rec)' = "changed"
    BY <2>1 DEF Goal
  <2> QED
    BY <2>1, <2>2, <2>3, <2>4 DEF WorkerTrue
<1>8. ASSUME NEW w \in Write, Probe(w) PROVE WorkerTrue'
  <2>1. phase' = "learn" /\ rec' = w /\ Kind[w] # "undo"
    BY <1>8 DEF Probe
  <2>2. result' = "match" => world'[w] = "changed"
    BY <1>1, <1>8 DEF Probe, TypeOK
  <2> QED
    BY <2>1, <2>2 DEF WorkerTrue, InFlight
<1>9. CASE UNCHANGED vars
  BY <1>9 DEF WorkerTrue, Goal, vars
<1>10. ASSUME NEW a, NEW w,
              \/ StartExecution(a) \/ AlreadySettled(a) \/ Settling(a, w) \/ RecordRetry(a, w)
              \/ StartReconcile(w) \/ NothingToReconcile(w) \/ Looking(w) \/ LearnSuccess(w)
              \/ FinishTask \/ Raise \/ FailTask \/ Crash
       PROVE  WorkerTrue'
  BY <1>2, <1>10 DEF StartExecution, AlreadySettled, Settling, ReplayReceipt, Refuse,
     GateFails, ExecuteOnHost, MarkUnknown, RecordSuccess, RecordFailure, RecordUnknown,
     RecordRetry, StartReconcile, NothingToReconcile, Looking, MarkIndeterminate,
     LearnNothing, LearnSuccess, FinishTask, Raise, FailTask, Crash, Goto, Idle, InFlight
<1>11. \A a \in Attempt : WriteOf[a] \in Write
  BY WriteAssumption
<1> QED
  BY <1>3, <1>4, <1>5, <1>6, <1>7, <1>8, <1>9, <1>10, <1>11, Zenon
  DEF Next, Decide, Carry, Record, Reconcile, Settling, Looking

-----------------------------------------------------------------------------
(* A step that changes neither the provider nor what a receipt says. *)
LEMMA ReceiptsStayTrue ==
  ASSUME ReceiptsTrue, world' = world,
         \A x \in Write : receipt'[x].st = receipt[x].st
                          /\ receipt'[x].before = receipt[x].before
  PROVE  ReceiptsTrue'
<1> SUFFICES ASSUME NEW x \in Write PROVE ReceiptTrue(x)'
  BY DEF ReceiptsTrue
<1>1. Target[x] \in Write /\ ReceiptTrue(x)
  BY WriteAssumption DEF ReceiptsTrue
<1> QED
  BY <1>1 DEF ReceiptTrue, Undoes

(* A receipt that has not succeeded moves on, for a true reason. *)
LEMMA MovedStaysTrue ==
  ASSUME ReceiptsTrue, world' = world,
         NEW a \in Attempt, NEW w \in Write, NEW s \in {"none", "executing", "failed", "ambiguous"},
         NEW t \in {"executing", "failed", "ambiguous", "succeeded"}, Moved(a, w, s, t),
         t = "failed" /\ Kind[w] \in {"calendar", "google"} => world[w] = "orig",
         t = "succeeded" => Kind[w] # "undo" /\ world[w] = "changed"
  PROVE  ReceiptsTrue'
<1> SUFFICES ASSUME NEW x \in Write PROVE ReceiptTrue(x)'
  BY DEF ReceiptsTrue
<1>1. Target[x] \in Write /\ ReceiptTrue(x)
  BY WriteAssumption DEF ReceiptsTrue
<1>2. \A u \in Write : receipt[u].st # "none" => receipt'[u].st # "none"
  BY DEF Moved
<1>3. CASE x = w
  BY <1>1, <1>2, <1>3 DEF ReceiptTrue, Undoes, Moved
<1>4. CASE x # w
  <2>1. receipt'[x] = receipt[x]
    BY <1>4 DEF Moved
  <2>2. receipt[Target[x]].st = "undone" => receipt'[Target[x]].st = "undone"
    BY <1>1 DEF Moved
  <2> QED
    BY <1>1, <1>2, <2>1, <2>2 DEF ReceiptTrue, Undoes
<1> QED
  BY <1>3, <1>4

(* The calls, the probes and the effects in process change the provider's  *)
(* state where no receipt says otherwise.                                  *)
LEMMA WorldStaysTrue ==
  ASSUME ReceiptsTrue, receipt' = receipt, NEW v \in Write,
         \A x \in Write \ {v} : world'[x] = world[x],
         \/ world'[v] = "changed" /\ receipt[v].st # "undone" /\ Kind[v] # "email"
            /\ ~(receipt[v].st \in {"none", "failed"} /\ Kind[v] \in {"calendar", "google"})
         \/ /\ receipt[v].st \in {"succeeded", "executing"}
            /\ receipt[v].st = "succeeded" =>
                 \E u \in Write : Undoes(u, v) /\ receipt[u].st # "none"
            /\ Kind[v] = "email" => receipt[v].before # "none"
         \/ Kind[v] \notin ReceiptKinds /\ receipt[v].st = "none"
  PROVE  ReceiptsTrue'
<1> SUFFICES ASSUME NEW x \in Write PROVE ReceiptTrue(x)'
  BY DEF ReceiptsTrue
<1>1. Target[x] \in Write /\ ReceiptTrue(x)
  BY WriteAssumption DEF ReceiptsTrue
<1>2. CASE x = v
  BY <1>1, <1>2 DEF ReceiptTrue, Undoes, ReceiptKinds, GoogleKinds, EmailKinds
<1>3. CASE x # v
  BY <1>1, <1>3 DEF ReceiptTrue, Undoes
<1> QED
  BY <1>2, <1>3

(* An undo restored the labels captured before the mutation. *)
LEMMA UndoStaysTrue ==
  ASSUME Base, ReceiptsTrue, world' = world, NEW u \in Write, Kind[u] = "undo",
         RecordUndo(u, Target[u]), receipt[Target[u]].st = "succeeded",
         world[Target[u]] = receipt[Target[u]].before, receipt[Target[u]].before # "none"
  PROVE  ReceiptsTrue'
<1> DEFINE w == Target[u]
<1>1. w \in Write /\ u # w /\ Kind[w] = "email"
  BY WriteAssumption
<1>2. receipt \in [Write -> Receipt]
  BY DEF Base, IInv, TypeOK
<1>3. /\ RecordUndo(u, w) /\ receipt[w].st = "succeeded" /\ w = Target[u]
      /\ world[w] = receipt[w].before /\ receipt[w].before # "none"
  OBVIOUS
<1> HIDE DEF w
<1>4. /\ \A x \in Write \ {u, w} : receipt'[x] = receipt[x]
      /\ receipt'[u].st = "succeeded" /\ receipt'[u].before = receipt[u].before
      /\ receipt'[w].st = "undone" /\ receipt'[w].before = receipt[w].before
  BY <1>1, <1>2, <1>3, UndoMoves
<1>5. world[w] = "orig"
  BY <1>1, <1>3 DEF ReceiptsTrue, ReceiptTrue
<1>6. \A x \in Write : receipt[x].st # "none" => receipt'[x].st # "none"
  BY <1>4
<1>7. \A x \in Write : receipt[x].st = "undone" => receipt'[x].st = "undone"
  <2>1. receipt[u].st # "undone"
    BY DEF ReceiptsTrue, ReceiptTrue
  <2> QED
    BY <1>4, <2>1
<1> SUFFICES ASSUME NEW x \in Write PROVE ReceiptTrue(x)'
  BY DEF ReceiptsTrue
<1>8. Target[x] \in Write /\ ReceiptTrue(x)
  BY WriteAssumption DEF ReceiptsTrue
<1>9. CASE x = u
  BY <1>3, <1>4, <1>9 DEF ReceiptTrue
<1>10. CASE x = w
  <2>1. \E y \in Write : Undoes(y, w) /\ receipt'[y].st # "none"
    BY <1>3, <1>4 DEF Undoes
  <2> QED
    BY <1>1, <1>4, <1>5, <1>8, <1>10, <2>1 DEF ReceiptTrue, Undoes
<1>11. CASE x \notin {u, w}
  <2>1. receipt'[x] = receipt[x]
    BY <1>4, <1>11
  <2> QED
    BY <1>6, <1>7, <1>8, <2>1 DEF ReceiptTrue, Undoes
<1> QED
  BY <1>9, <1>10, <1>11

(* A step of an actor leaves the receipts true. *)
LEMMA NextKeepsReceipts ==
  ASSUME Base, AnswerFits, OwnerSound, WorkerTrue, ReceiptsTrue, [Next]_vars
  PROVE  ReceiptsTrue'
<1>1. TypeOK /\ PhaseOK /\ InFlightTraced /\ ReceiptsOfKinds
  BY DEF Base, IInv
<1>2. ASSUME receipt' = receipt, world' = world PROVE ReceiptsTrue'
  BY <1>2, ReceiptsStayTrue
<1>3. ASSUME NEW a \in Attempt, NEW w \in Write, w = WriteOf[a], CallProvider(a, w)
      PROVE  ReceiptsTrue'
  <2> DEFINE v == Target[w]
  <2>1. v \in Write
    BY WriteAssumption
  <2>2. /\ phase = "call" /\ act = a /\ rec = w /\ receipt' = receipt
        /\ Kind[w] \in ReceiptKinds \cup {"run"}
    BY <1>1, <1>3 DEF CallProvider, db, PhaseOK
  <2>3. \A x \in Write \ {v} : world'[x] = world[x]
    BY <1>1, <1>3, <2>1 DEF CallProvider, TypeOK
  <2>4. Kind[w] \in ReceiptKinds => receipt[w].st = "executing"
    BY <1>1, <2>2 DEF InFlightTraced, InFlight
  <2>5. CASE Kind[w] = "undo"
    <3>1. receipt[w].st = "executing"
      BY <2>4, <2>5 DEF ReceiptKinds, GoogleKinds, EmailKinds
    <3>2. receipt[v].st = "succeeded" /\ receipt[v].before # "none"
      BY <2>2, <2>5 DEF WorkerTrue
    <3>3. \E u \in Write : Undoes(u, v) /\ receipt[u].st # "none"
      BY <2>5, <3>1 DEF Undoes
    <3> HIDE DEF v
    <3> QED
      BY <2>1, <2>2, <2>3, <3>2, <3>3, WorldStaysTrue
  <2>6. CASE Kind[w] \in ReceiptKinds \ {"undo"}
    <3>1. v = w
      BY <2>6, WriteAssumption
    <3>2. receipt[v].st = "executing" /\ (Kind[v] = "email" => receipt[v].before # "none")
      BY <2>2, <2>4, <2>6, <3>1 DEF WorkerTrue
    <3> HIDE DEF v
    <3> QED
      BY <2>1, <2>2, <2>3, <3>2, WorldStaysTrue
  <2>7. CASE Kind[w] \notin ReceiptKinds
    <3>1. v = w
      BY <2>7, WriteAssumption DEF ReceiptKinds, GoogleKinds, EmailKinds
    <3>2. Kind[v] \notin ReceiptKinds /\ receipt[v].st = "none"
      BY <1>1, <2>7, <3>1 DEF ReceiptsOfKinds
    <3> HIDE DEF v
    <3> QED
      BY <2>1, <2>2, <2>3, <3>2, WorldStaysTrue
  <2> QED
    BY <2>5, <2>6, <2>7
<1>4. ASSUME NEW a \in Attempt, NEW w \in Write, ExecuteOnHost(a, w) \/ ExecuteMemory(a, w)
      PROVE  ReceiptsTrue'
  <2>1. /\ receipt' = receipt /\ Kind[w] \notin ReceiptKinds
        /\ world' = [world EXCEPT ![w] = "changed"]
    BY <1>4 DEF ExecuteOnHost, ExecuteMemory, db, ReceiptKinds, GoogleKinds, EmailKinds
  <2>2. \A x \in Write \ {w} : world'[x] = world[x]
    BY <1>1, <2>1 DEF TypeOK
  <2>3. receipt[w].st = "none"
    BY <1>1, <2>1 DEF ReceiptsOfKinds
  <2> QED
    BY <2>1, <2>2, <2>3, WorldStaysTrue
<1>5. ASSUME NEW w \in Write, Probe(w) PROVE ReceiptsTrue'
  <2>1. receipt' = receipt /\ receipt[w].st = "ambiguous"
    BY <1>5 DEF Probe, db
  <2>2. CASE world' = world
    BY <1>2, <2>1, <2>2
  <2>3. CASE world' = [world EXCEPT ![w] = "changed"] /\ Kind[w] = "request_pr"
    <3>1. world'[w] = "changed" /\ \A x \in Write \ {w} : world'[x] = world[x]
      BY <1>1, <2>3 DEF TypeOK
    <3> QED
      BY <2>1, <2>3, <3>1, WorldStaysTrue
  <2> QED
    BY <1>5, <2>2, <2>3 DEF Probe
<1>6. ASSUME NEW a \in Attempt, NEW w \in Write, w = WriteOf[a], Writing(a, w)
      PROVE  ReceiptsTrue'
  <2>1. CASE MarkUnknown(a, w)
    <3>1. world' = world
      BY <2>1 DEF MarkUnknown, history
    <3> QED
      BY <1>2, <2>1, <3>1, MarkUnknownMoves, MovedStaysTrue
  <2>2. CASE Dispatch(a, w)
    <3>1. CASE Kind[w] \in ReceiptKinds
      <4>1. PICK s \in {"none", "failed"} : Moved(a, w, s, "executing")
        BY <2>2, <3>1, DispatchMoves
      <4>2. world' = world
        BY <2>2, DispatchMoves
      <4> QED
        BY <4>1, <4>2, MovedStaysTrue
    <3>2. CASE Kind[w] \notin ReceiptKinds
      BY <1>2, <2>2, <3>2, DispatchMoves
    <3> QED
      BY <3>1, <3>2
  <2>3. CASE CaptureBeforeState(a, w)
    <3>1. /\ \A x \in Write \ {w} : receipt'[x] = receipt[x]
          /\ receipt'[w].st = receipt[w].st /\ receipt'[w].before = world[w]
      BY <1>1, <2>3, CaptureMoves
    <3>2. /\ Kind[w] = "email" /\ receipt[w].before = "none" /\ world' = world
          /\ receipt[w].st = "executing"
      BY <1>1, <2>3 DEF CaptureBeforeState, PhaseOK, WorkerTrue, InFlightTraced, InFlight,
         ReceiptKinds, GoogleKinds, EmailKinds, history
    <3>3. world[w] = "orig"
      BY <3>2 DEF ReceiptsTrue, ReceiptTrue
    <3> SUFFICES ASSUME NEW x \in Write PROVE ReceiptTrue(x)'
      BY DEF ReceiptsTrue
    <3>4. Target[x] \in Write /\ ReceiptTrue(x)
      BY WriteAssumption DEF ReceiptsTrue
    <3>5. \A u \in Write : receipt'[u].st = receipt[u].st
      BY <3>1
    <3>6. CASE x = w
      BY <3>1, <3>2, <3>3, <3>4, <3>5, <3>6 DEF ReceiptTrue
    <3>7. CASE x # w
      BY <3>1, <3>2, <3>4, <3>5, <3>7 DEF ReceiptTrue, Undoes
    <3> QED
      BY <3>6, <3>7
  <2>4. CASE RecordSuccess(a, w)
    <3>1. /\ phase = "record" /\ result = "ok" /\ rec = w /\ world' = world
      BY <2>4 DEF RecordSuccess, Recording, history
    <3>2. world[Target[w]] = Goal(w)
      BY <3>1 DEF WorkerTrue
    <3>3. CASE Kind[w] = "undo"
      <4>1. /\ receipt[Target[w]].st = "succeeded" /\ receipt[Target[w]].before # "none"
            /\ world[Target[w]] = receipt[Target[w]].before
        BY <3>1, <3>2, <3>3 DEF WorkerTrue, Goal
      <4>2. RecordUndo(w, Target[w])
        BY <1>6, <2>4, <3>3, RecordSuccessMoves
      <4> QED
        BY <3>1, <3>3, <4>1, <4>2, UndoStaysTrue
    <3>4. CASE Kind[w] \in ReceiptKinds \ {"undo"}
      <4>1. Moved(a, w, "executing", "succeeded")
        BY <1>6, <2>4, <3>4, RecordSuccessMoves
      <4>2. world[w] = "changed"
        BY <3>2, <3>4, WriteAssumption DEF Goal
      <4> QED
        BY <3>1, <3>4, <4>1, <4>2, MovedStaysTrue
    <3>5. CASE Kind[w] \notin ReceiptKinds
      BY <1>2, <1>6, <2>4, <3>1, <3>5, RecordSuccessMoves
    <3> QED
      BY <3>3, <3>4, <3>5
  <2>5. CASE RecordRetry(a, w)
    <3>1. Moved(a, w, "executing", "failed") /\ world' = world /\ Kind[w] \in EmailKinds
      BY <1>6, <2>5, RecordRetryMoves
    <3>2. Kind[w] \notin {"calendar", "google"}
      BY <3>1 DEF EmailKinds
    <3> QED
      BY <3>1, <3>2, MovedStaysTrue
  <2>6. CASE RecordFailure(a, w)
    <3>1. /\ Moved(a, w, "executing", "failed") /\ world' = world
          /\ Kind[w] \in {"calendar", "google"} => result = "refused"
      BY <1>6, <2>6, RecordFailureMoves
    <3>2. phase = "record" /\ rec = w
      BY <2>6 DEF RecordFailure, Recording
    <3>3. Kind[w] \in {"calendar", "google"} => world[w] = "orig"
      BY <3>1, <3>2 DEF WorkerTrue
    <3> QED
      BY <3>1, <3>3, MovedStaysTrue
  <2>7. CASE RecordUnknown(a, w)
    <3>1. world' = world /\ (Moved(a, w, "executing", "ambiguous") \/ receipt' = receipt)
      BY <1>6, <2>7, RecordUnknownMoves
    <3> QED
      BY <1>2, <3>1, MovedStaysTrue
  <2> QED
    BY <1>6, <2>1, <2>2, <2>3, <2>4, <2>5, <2>6, <2>7 DEF Writing
<1>7. ASSUME NEW w \in Write, Looking(w) PROVE ReceiptsTrue'
  <2>1. /\ receipt' = [receipt EXCEPT ![w].checked = TRUE] /\ receipt \in [Write -> Receipt]
        /\ world' = world
    BY <1>1, <1>7 DEF Looking, MarkIndeterminate, LearnNothing, TypeOK, history
  <2>2. OnlyChecked
    BY <2>1, CheckedMoves
  <2>3. \A x \in Write : receipt'[x].st = receipt[x].st
                         /\ receipt'[x].before = receipt[x].before
    BY <2>2 DEF OnlyChecked
  <2> QED
    BY <2>1, <2>3, ReceiptsStayTrue
<1>8. ASSUME NEW w \in Write, LearnSuccess(w) PROVE ReceiptsTrue'
  <2>1. /\ receipt[w].owner \in Attempt /\ world' = world
        /\ Moved(receipt[w].owner, w, "ambiguous", "succeeded")
    BY <1>8, LearnSuccessMoves
  <2>2. world[w] = "changed" /\ Kind[w] # "undo"
    BY <1>8 DEF LearnSuccess, Learning, WorkerTrue
  <2> QED
    BY <2>1, <2>2, MovedStaysTrue
<1>9. ASSUME NEW a, NEW w,
             \/ Authorize(a) \/ StartExecution(a) \/ AlreadySettled(a)
             \/ ReplayReceipt(a, w) \/ Refuse(a, w) \/ GateFails(a, w)
             \/ StartReconcile(w) \/ NothingToReconcile(w)
             \/ FinishTask \/ Raise \/ FailTask \/ Crash \/ UNCHANGED vars
      PROVE  ReceiptsTrue'
  <2>1. receipt' = receipt /\ world' = world
    BY <1>9 DEF Authorize, StartExecution, AlreadySettled, ReplayReceipt, Refuse,
       GateFails, StartReconcile, NothingToReconcile, FinishTask, Raise, FailTask,
       Crash, vars, db, history
  <2> QED
    BY <1>2, <2>1
<1>10. \A a \in Attempt : WriteOf[a] \in Write
  BY WriteAssumption
<1> QED
  BY <1>3, <1>4, <1>5, <1>6, <1>7, <1>8, <1>9, <1>10, StepKinds, Zenon DEF Quiet

-----------------------------------------------------------------------------
(* What the provider did for a capability without receipts stays done. *)
LEMMA NextKeepsEffects ==
  ASSUME Base, [Next]_vars, NEW w \in Write, Kind[w] \notin ReceiptKinds,
         world[w] = "changed"
  PROVE  world'[w] = "changed"
<1>1. TypeOK /\ PhaseOK
  BY DEF Base, IInv
<1>2. ASSUME NEW v \in Write, world' = [world EXCEPT ![v] = "changed"]
      PROVE  world'[w] = "changed"
  BY <1>1, <1>2 DEF TypeOK
<1>3. ASSUME NEW a \in Attempt, NEW v \in Write, v = WriteOf[a], CallProvider(a, v)
      PROVE  world'[w] = "changed"
  <2>1. PICK r \in Results : \E x \in WorldAfter(Kind[v], r, world[Target[v]], Goal(v)) :
               world' = [world EXCEPT ![Target[v]] = x]
    BY <1>3 DEF CallProvider, Answers, Results
  <2>2. PICK x \in WorldAfter(Kind[v], r, world[Target[v]], Goal(v)) :
               world' = [world EXCEPT ![Target[v]] = x]
    BY <2>1
  <2>3. Target[v] \in Write
    BY WriteAssumption
  <2>4. CASE Target[v] = w
    <3>1. Kind[v] # "undo" /\ v = w
      BY <2>4, WriteAssumption DEF ReceiptKinds, GoogleKinds, EmailKinds
    <3>2. Goal(v) = "changed" /\ Kind[v] \notin EmailKinds
      BY <3>1 DEF Goal, ReceiptKinds, GoogleKinds
    <3>3. x = "changed"
      BY <2>4, <3>2 DEF WorldAfter
    <3> QED
      BY <1>1, <2>2, <2>4, <3>3 DEF TypeOK
  <2>5. CASE Target[v] # w
    BY <1>1, <2>2, <2>3, <2>5 DEF TypeOK
  <2> QED
    BY <2>4, <2>5
<1>4. ASSUME NEW a \in Attempt, NEW v \in Write, ExecuteOnHost(a, v) \/ ExecuteMemory(a, v)
      PROVE  world'[w] = "changed"
  BY <1>2, <1>4 DEF ExecuteOnHost, ExecuteMemory
<1>5. ASSUME NEW v \in Write, Probe(v) PROVE world'[w] = "changed"
  BY <1>2, <1>5 DEF Probe
<1>6. ASSUME NEW a, NEW v,
             \/ Authorize(a) \/ StartExecution(a) \/ AlreadySettled(a)
             \/ ReplayReceipt(a, v) \/ Refuse(a, v) \/ GateFails(a, v) \/ Writing(a, v)
             \/ StartReconcile(v) \/ NothingToReconcile(v) \/ Looking(v) \/ LearnSuccess(v)
             \/ FinishTask \/ Raise \/ FailTask \/ Crash \/ UNCHANGED vars
      PROVE  world'[w] = "changed"
  <2>1. world' = world
    BY <1>6 DEF Authorize, StartExecution, AlreadySettled, ReplayReceipt, Refuse,
       GateFails, Writing, MarkUnknown, Dispatch, CaptureBeforeState, RecordSuccess,
       RecordRetry, RecordFailure, RecordUnknown, StartReconcile, NothingToReconcile,
       Looking, MarkIndeterminate, LearnNothing, LearnSuccess, FinishTask, Raise,
       FailTask, Crash, vars, history
  <2> QED
    BY <2>1
<1> QED
  BY <1>3, <1>4, <1>5, <1>6, StepKinds, Zenon DEF Quiet

(* An attempt that reports success keeps its grounds. *)
LEMMA SuccessLasts ==
  ASSUME Base, AnswerFits, OwnerSound, AttemptsTrue, [Next]_vars,
         NEW x \in Attempt, status[x] = "succeeded"
  PROVE  IF Kind[WriteOf[x]] \in ReceiptKinds
         THEN /\ receipt'[WriteOf[x]].st \in {"succeeded", "undone"}
              /\ Digest[receipt'[WriteOf[x]].owner] = Digest[x]
         ELSE world'[WriteOf[x]] = "changed"
<1>1. WriteOf[x] \in Write /\ ReceiptsLast
  BY WriteAssumption, NextKeepsOwners
<1>2. CASE Kind[WriteOf[x]] \in ReceiptKinds
  <2>1. /\ receipt[WriteOf[x]].st \in {"succeeded", "undone"}
        /\ Digest[receipt[WriteOf[x]].owner] = Digest[x]
    BY <1>2 DEF AttemptsTrue
  <2>2. receipt[WriteOf[x]].owner # NoAttempt
    BY <1>1, <2>1 DEF OwnerSound
  <2> QED
    BY <1>1, <1>2, <2>1, <2>2 DEF ReceiptsLast
<1>3. CASE Kind[WriteOf[x]] \notin ReceiptKinds
  <2>1. world[WriteOf[x]] = "changed"
    BY <1>3 DEF AttemptsTrue
  <2> QED
    BY <1>1, <1>3, <2>1, NextKeepsEffects
<1> QED
  BY <1>2, <1>3

(* An attempt comes to report success with good grounds: the receipt       *)
(* replayed to it, its own call's answer, or what a probe learnt.          *)
LEMMA NextKeepsAttempts ==
  ASSUME Base, AnswerFits, OwnerSound, MarkerMatches, WorkerTrue, AttemptsTrue, [Next]_vars
  PROVE  AttemptsTrue'
<1>1. TypeOK /\ PhaseOK /\ InFlightTraced /\ ReceiptsOfKinds
  BY DEF Base, IInv
<1> DEFINE Grounds(x) ==
      IF Kind[WriteOf[x]] \in ReceiptKinds
      THEN /\ receipt'[WriteOf[x]].st \in {"succeeded", "undone"}
           /\ Digest[receipt'[WriteOf[x]].owner] = Digest[x]
      ELSE world'[WriteOf[x]] = "changed"
<1>2. \A x \in Attempt : status[x] = "succeeded" => Grounds(x)
  BY SuccessLasts
<1>3. (\A x \in Attempt : status'[x] = "succeeded" => Grounds(x)) => AttemptsTrue'
  BY DEF AttemptsTrue
<1>4. ASSUME NEW a \in Attempt, Grounds(a),
             \A x \in Attempt \ {a} : status'[x] = "succeeded" => status[x] = "succeeded"
      PROVE  AttemptsTrue'
  BY <1>2, <1>3, <1>4
<1>5. ASSUME \A x \in Attempt : status'[x] = "succeeded" => status[x] = "succeeded"
      PROVE  AttemptsTrue'
  BY <1>2, <1>3, <1>5
<1>6. ASSUME NEW a \in Attempt, Settled(a, "failed") PROVE AttemptsTrue'
  BY <1>5, <1>6 DEF Settled
<1>7. ASSUME NEW a \in Attempt, Settled(a, "succeeded")
      PROVE  \A x \in Attempt \ {a} : status'[x] = "succeeded" => status[x] = "succeeded"
  BY <1>7 DEF Settled
<1>8. ASSUME NEW a \in Attempt, NEW w \in Write, w = WriteOf[a], ReplayReceipt(a, w)
      PROVE  AttemptsTrue'
  <2>1. /\ Settled(a, "succeeded") /\ receipt' = receipt /\ ~Conflict(a, w)
        /\ receipt[w].st \in {"succeeded", "undone"}
    BY <1>1, <1>8, SettleSettles DEF ReplayReceipt
  <2>2. Kind[w] \in ReceiptKinds /\ receipt[w].owner # NoAttempt
    BY <1>1, <2>1 DEF ReceiptsOfKinds, OwnerSound
  <2>3. Grounds(a)
    BY <1>8, <2>1, <2>2 DEF Conflict
  <2> HIDE DEF Grounds
  <2> QED
    BY <1>4, <1>7, <2>1, <2>3
<1>9. ASSUME NEW a \in Attempt, NEW w \in Write, w = WriteOf[a], ExecuteOnHost(a, w)
      PROVE  AttemptsTrue'
  <2>1. Settled(a, "succeeded") /\ Kind[w] \notin ReceiptKinds
    BY <1>1, <1>9, SettleSettles DEF ExecuteOnHost, ReceiptKinds, GoogleKinds, EmailKinds
  <2>2. world'[w] = "changed"
    BY <1>1, <1>9 DEF ExecuteOnHost, TypeOK
  <2>3. Grounds(a)
    BY <1>9, <2>1, <2>2
  <2> HIDE DEF Grounds
  <2> QED
    BY <1>4, <1>7, <2>1, <2>3
<1>10. ASSUME NEW a \in Attempt, NEW w \in Write, w = WriteOf[a], RecordSuccess(a, w)
       PROVE  AttemptsTrue'
  <2>1. /\ Settled(a, "succeeded") /\ phase = "record" /\ act = a /\ rec = w
        /\ result = "ok" /\ world' = world
    BY <1>10, RecordSuccessMoves DEF RecordSuccess, Recording, history
  <2>2. CASE Kind[w] \in ReceiptKinds
    <3>1. marker[a] /\ receipt[w].st = "executing"
      BY <1>1, <2>1, <2>2 DEF InFlightTraced, InFlight, ReceiptKinds, GoogleKinds, EmailKinds
    <3>2. receipt[w].owner # NoAttempt /\ Digest[receipt[w].owner] = Digest[a]
      BY <1>10, <2>2, <3>1 DEF MarkerMatches
    <3>3. ReceiptsLast
      BY NextKeepsOwners
    <3>4. receipt'[w].st = "succeeded"
      <4>1. CASE Kind[w] = "undo"
        <5>1. RecordUndo(w, Target[w]) /\ Target[w] \in Write /\ w # Target[w]
          BY <1>10, <4>1, RecordSuccessMoves, WriteAssumption
        <5>2. receipt \in [Write -> Receipt]
          BY <1>1 DEF TypeOK
        <5> QED
          BY <5>1, <5>2, UndoMoves
      <4>2. CASE Kind[w] # "undo"
        BY <1>10, <2>2, <4>2, RecordSuccessMoves DEF Moved
      <4> QED
        BY <4>1, <4>2
    <3>5. Grounds(a)
      BY <1>10, <2>2, <3>2, <3>3, <3>4 DEF ReceiptsLast
    <3> HIDE DEF Grounds
    <3> QED
      BY <1>4, <1>7, <2>1, <3>5
  <2>3. CASE Kind[w] \notin ReceiptKinds
    <3>1. Kind[w] # "undo" /\ Target[w] = w
      BY <2>3, WriteAssumption DEF ReceiptKinds, GoogleKinds, EmailKinds
    <3>2. world[w] = "changed"
      BY <2>1, <3>1 DEF WorkerTrue, Goal
    <3>3. Grounds(a)
      BY <1>10, <2>1, <2>3, <3>2
    <3> HIDE DEF Grounds
    <3> QED
      BY <1>4, <1>7, <2>1, <3>3
  <2> QED
    BY <2>2, <2>3
<1>11. ASSUME NEW w \in Write, LearnSuccess(w) PROVE AttemptsTrue'
  <2> DEFINE a == receipt[w].owner
  <2>1. /\ a \in Attempt /\ WriteOf[a] = w /\ Settled(a, "succeeded")
        /\ Kind[w] \in ReceiptKinds /\ Moved(a, w, "ambiguous", "succeeded")
    BY <1>11, LearnSuccessMoves
  <2>2. receipt'[w].st = "succeeded" /\ receipt'[w].owner = a
    BY <2>1 DEF Moved
  <2> HIDE DEF a
  <2>3. Grounds(a)
    BY <2>1, <2>2
  <2> HIDE DEF Grounds
  <2> QED
    BY <1>4, <1>7, <2>1, <2>3
<1>12. ASSUME NEW a \in Attempt, NEW w \in Write, w = WriteOf[a],
              \/ Refuse(a, w) \/ GateFails(a, w) \/ MarkUnknown(a, w)
              \/ RecordFailure(a, w) \/ RecordUnknown(a, w)
       PROVE  AttemptsTrue'
  BY <1>1, <1>6, <1>12, SettleSettles DEF Refuse, GateFails, MarkUnknown,
     RecordFailure, RecordUnknown
<1>13. ASSUME NEW a, NEW w,
              \/ Authorize(a) \/ StartExecution(a) \/ AlreadySettled(a)
              \/ ExecuteMemory(a, w) \/ CallProvider(a, w)
              \/ Dispatch(a, w) \/ CaptureBeforeState(a, w) \/ RecordRetry(a, w)
              \/ StartReconcile(w) \/ NothingToReconcile(w) \/ Probe(w) \/ Looking(w)
              \/ FinishTask \/ Raise \/ FailTask \/ Crash \/ UNCHANGED vars
       PROVE  AttemptsTrue'
  <2>1. status' = status \/ status' = [status EXCEPT ![a] = "executing"]
    BY <1>13 DEF Authorize, StartExecution, AlreadySettled, ExecuteMemory,
       CallProvider, Dispatch, CaptureBeforeState, RecordRetry, StartReconcile,
       NothingToReconcile, Probe, Looking, MarkIndeterminate, LearnNothing,
       FinishTask, Raise, FailTask, Crash, vars, db
  <2>2. \A x \in Attempt : status'[x] = "succeeded" => status[x] = "succeeded"
    BY <1>1, <2>1 DEF TypeOK
  <2> QED
    BY <1>5, <2>2
<1>14. \A a \in Attempt : WriteOf[a] \in Write
  BY WriteAssumption
<1> QED
  BY <1>8, <1>9, <1>10, <1>11, <1>12, <1>13, <1>14, StepKinds, Zenon DEF Quiet, Writing

-----------------------------------------------------------------------------
(* The inductive invariant. *)
AInv ==
  /\ Base /\ OwnerSound /\ AnswerFits /\ MarkerMatches
  /\ WorkerTrue /\ ReceiptsTrue /\ AttemptsTrue

(* The empty tables and the idle worker satisfy it. *)
LEMMA InitAInv == Init => AInv
<1> SUFFICES ASSUME Init PROVE AInv
  OBVIOUS
<1>1. \A w \in Write : receipt[w] = NoReceipt /\ world[w] = "orig"
  BY DEF Init
<1>2. /\ NoReceipt.st = "none" /\ NoReceipt.owner = NoAttempt /\ NoReceipt.before = "none"
  BY DEF NoReceipt
<1>3. Base
  BY InitIInv, <1>1, <1>2 DEF Base, Init, ReceiptsOfKinds, AnswersOfKinds
<1>4. OwnerSound /\ ReceiptsTrue
  BY <1>1, <1>2 DEF OwnerSound, ReceiptsTrue, ReceiptTrue
<1>5. AnswerFits /\ MarkerMatches /\ WorkerTrue /\ AttemptsTrue
  BY DEF Init, AnswerFits, MarkerMatches, WorkerTrue, AttemptsTrue, InFlight
<1> QED
  BY <1>3, <1>4, <1>5 DEF AInv

(* Every step keeps it. *)
LEMMA NextKeepsAInv == AInv /\ [Next]_vars => AInv'
<1> SUFFICES ASSUME AInv, [Next]_vars PROVE AInv'
  OBVIOUS
<1> USE DEF AInv
<1>1. Base'
  BY NextKeepsIInv, NextKeepsReceiptsOfKinds, NextKeepsAnswersOfKinds DEF Base
<1>2. OwnerSound' /\ AnswerFits'
  BY NextKeepsOwners, NextKeepsAnswers
<1>3. MarkerMatches' /\ WorkerTrue' /\ ReceiptsTrue' /\ AttemptsTrue'
  BY NextKeepsMarkers, NextKeepsWorker, NextKeepsReceipts, NextKeepsAttempts
<1> QED
  BY <1>1, <1>2, <1>3

(* The invariant behind the theorems of this module. *)
THEOREM AnswersInvariant == Spec => []AInv
BY InitAInv, NextKeepsAInv, PTL DEF Spec

(* process_action_execution_task and process_provider_write_reconcile_due: *)
(* success is backed by the receipt and the provider and was asked for     *)
(* with this input; a failed receipt hides no effect outside mail, and     *)
(* undone mail is as it was; whoever shares the key and whatever crashed.  *)
THEOREM AnswersTrue == Spec => []AnswersAreTrue
<1>1. AInv => AnswersAreTrue
  <2> SUFFICES ASSUME AInv PROVE AnswersAreTrue
    OBVIOUS
  <2> USE DEF AInv
  <2>1. SuccessIsReal
    <3> SUFFICES ASSUME NEW a \in Attempt, status[a] = "succeeded"
                 PROVE  /\ Kind[WriteOf[a]] \in ReceiptKinds
                             => receipt[WriteOf[a]].st \in {"succeeded", "undone"}
                        /\ Kind[WriteOf[a]] = "undo"
                             => receipt[Target[WriteOf[a]]].st = "undone"
                        /\ Kind[WriteOf[a]] # "undo" =>
                             \/ world[WriteOf[a]] = "changed"
                             \/ \E u \in Write : Undoes(u, WriteOf[a]) /\ receipt[u].st # "none"
      BY DEF SuccessIsReal
    <3>1. WriteOf[a] \in Write
      BY WriteAssumption
    <3>2. ReceiptTrue(WriteOf[a])
      BY <3>1 DEF ReceiptsTrue
    <3>3. IF Kind[WriteOf[a]] \in ReceiptKinds
          THEN receipt[WriteOf[a]].st \in {"succeeded", "undone"}
          ELSE world[WriteOf[a]] = "changed"
      BY DEF AttemptsTrue
    <3> QED
      BY <3>2, <3>3 DEF ReceiptTrue, ReceiptKinds, GoogleKinds, EmailKinds
  <2>2. ReceiptMatchesInput
    BY DEF AttemptsTrue, ReceiptMatchesInput
  <2>3. FailureIsReal /\ UndoneIsRestored
    BY DEF ReceiptsTrue, ReceiptTrue, FailureIsReal, UndoneIsRestored
  <2> QED
    BY <2>1, <2>2, <2>3 DEF AnswersAreTrue
<1> QED
  BY <1>1, AnswersInvariant, PTL

-----------------------------------------------------------------------------
(* A task row leaves the queue when its attempt is settled or given up. *)
LEMMA NextKeepsRunners ==
  ASSUME Base, OwnerSound, RunnersQueued, FinishedWork, [Next]_vars
  PROVE  RunnersQueued'
<1>1. TypeOK /\ PhaseOK
  BY DEF Base, IInv
<1>2. ASSUME \A x \in Attempt : status'[x] = "executing" => status[x] = "executing",
             execTask' = execTask, gaveUp' = gaveUp
      PROVE  RunnersQueued'
  BY <1>2 DEF RunnersQueued
<1>3. ASSUME NEW a \in Attempt, Authorize(a) PROVE RunnersQueued'
  <2>1. /\ execTask'[a] = 0 /\ gaveUp' = gaveUp
        /\ \A x \in Attempt \ {a} : execTask'[x] = execTask[x] /\ status'[x] = status[x]
    BY <1>1, <1>3 DEF Authorize, TypeOK, history
  <2> QED
    BY <2>1 DEF RunnersQueued
<1>4. CASE FinishTask
  <2>1. status' = status /\ gaveUp' = gaveUp
    BY <1>4 DEF FinishTask, history
  <2>2. CASE act # NoAttempt
    <3>1. status[act] \in Terminal
      BY <1>4, <2>2 DEF FinishTask, FinishedWork
    <3>2. \A x \in Attempt \ {act} : execTask'[x] = execTask[x]
      BY <1>1, <1>4, <2>2 DEF FinishTask, TypeOK
    <3> QED
      BY <2>1, <3>1, <3>2 DEF RunnersQueued, Terminal
  <2>3. CASE act = NoAttempt
    BY <1>2, <1>4, <2>1, <2>3 DEF FinishTask
  <2> QED
    BY <2>2, <2>3
<1>5. CASE FailTask
  <2>1. status' = status /\ gaveUp \subseteq gaveUp'
    BY <1>5 DEF FailTask
  <2>2. CASE act # NoAttempt
    <3>1. act \in Attempt /\ execTask' = [execTask EXCEPT ![act] = AfterFailure(execTask[act])]
      BY <1>1, <1>5, <2>2 DEF FailTask, TypeOK
    <3>2. execTask'[act] = AfterFailure(execTask[act]) /\ execTask[act] \in -1 .. MaxTaskAttempts - 1
      BY <1>1, <3>1 DEF TypeOK
    <3>3. execTask'[act] >= 0 \/ execTask'[act] = -1
      BY <3>2, WriteAssumption DEF AfterFailure
    <3>4. execTask'[act] = -1 => act \in gaveUp'
      BY <1>5, <2>2 DEF FailTask
    <3>5. \A x \in Attempt \ {act} : execTask'[x] = execTask[x]
      BY <1>1, <3>1 DEF TypeOK
    <3> QED
      BY <2>1, <3>3, <3>4, <3>5 DEF RunnersQueued
  <2>3. CASE act = NoAttempt
    <3>1. execTask' = execTask
      BY <1>5, <2>3 DEF FailTask
    <3> QED
      BY <2>1, <3>1 DEF RunnersQueued
  <2> QED
    BY <2>2, <2>3
<1>6. ASSUME NEW a \in Attempt, NEW w, Settling(a, w) PROVE RunnersQueued'
  <2>1. Settle(a, "succeeded") \/ Settle(a, "failed")
    BY <1>6 DEF Settling, ReplayReceipt, Refuse, GateFails, ExecuteOnHost, MarkUnknown,
       RecordSuccess, RecordFailure, RecordUnknown
  <2>2. \A x \in Attempt : status'[x] = "executing" => status[x] = "executing"
    BY <1>1, <2>1, SettleSettles DEF Settled
  <2>3. execTask' = execTask /\ gaveUp' = gaveUp
    BY <1>6 DEF Settling, ReplayReceipt, Refuse, GateFails, ExecuteOnHost, MarkUnknown,
       RecordSuccess, RecordFailure, RecordUnknown, history
  <2> QED
    BY <1>2, <2>2, <2>3
<1>7. ASSUME NEW w \in Write, LearnSuccess(w) PROVE RunnersQueued'
  <2>1. \A x \in Attempt : status'[x] = "executing" => status[x] = "executing"
    BY <1>7, LearnSuccessMoves DEF Settled
  <2>2. execTask' = execTask /\ gaveUp' = gaveUp
    BY <1>7 DEF LearnSuccess, history
  <2> QED
    BY <1>2, <2>1, <2>2
<1>8. ASSUME NEW a, NEW w,
             \/ StartExecution(a) \/ AlreadySettled(a) \/ ExecuteMemory(a, w)
             \/ Dispatch(a, w) \/ CaptureBeforeState(a, w) \/ CallProvider(a, w)
             \/ RecordRetry(a, w) \/ StartReconcile(w) \/ NothingToReconcile(w)
             \/ Probe(w) \/ Looking(w) \/ Raise \/ Crash \/ UNCHANGED vars
      PROVE  RunnersQueued'
  <2>1. status' = status /\ execTask' = execTask /\ gaveUp' = gaveUp
    BY <1>8 DEF StartExecution, AlreadySettled, ExecuteMemory, Dispatch, CaptureBeforeState,
       CallProvider, RecordRetry, StartReconcile, NothingToReconcile, Probe, Looking,
       MarkIndeterminate, LearnNothing, Raise, Crash, vars, db, history
  <2> QED
    BY <1>2, <2>1
<1> QED
  BY <1>3, <1>4, <1>5, <1>6, <1>7, <1>8, Zenon
  DEF Next, Decide, Carry, Record, Reconcile, Settling, Looking

(* A handler returns when its attempt is settled or its receipt looked at. *)
LEMMA NextKeepsFinished ==
  ASSUME Base, OwnerSound, FinishedWork, [Next]_vars
  PROVE  FinishedWork'
<1>1. TypeOK /\ PhaseOK
  BY DEF Base, IInv
<1>2. ASSUME phase' # "finish" PROVE FinishedWork'
  BY <1>2 DEF FinishedWork
<1>3. ASSUME NEW a \in Attempt, Authorize(a) PROVE FinishedWork'
  <2>1. \A x \in Attempt : status[x] \in Terminal => status'[x] \in Terminal
    BY <1>1, <1>3 DEF Authorize, TypeOK, Terminal
  <2>2. UNCHANGED <<phase, act, rec, receipt>>
    BY <1>3 DEF Authorize, worker
  <2>3. act # NoAttempt => act \in Attempt
    BY <1>1 DEF TypeOK
  <2> QED
    BY <2>1, <2>2, <2>3, Zenon DEF FinishedWork
<1>4. ASSUME NEW a \in Attempt, NEW w \in Write, Settling(a, w) PROVE FinishedWork'
  <2>1. PICK s \in Terminal : Settled(a, s)
    BY <1>4, SettlingSettles
  <2>2. act' = a
    BY <1>4 DEF Settling, ReplayReceipt, Refuse, GateFails, ExecuteOnHost, MarkUnknown,
       RecordSuccess, RecordFailure, RecordUnknown, Undispatched, Deciding, Recording, Goto
  <2>3. a # NoAttempt
    BY WriteAssumption
  <2> QED
    BY <2>1, <2>2, <2>3 DEF FinishedWork, Settled
<1>5. ASSUME NEW a \in Attempt, AlreadySettled(a) PROVE FinishedWork'
  <2>1. act' = a /\ status'[a] \in Terminal /\ a # NoAttempt
    BY <1>5, WriteAssumption DEF AlreadySettled, Goto, db
  <2> QED
    BY <2>1 DEF FinishedWork
<1>6. ASSUME NEW w \in Write, NothingToReconcile(w) PROVE FinishedWork'
  <2>1. act' = NoAttempt /\ rec' = w /\ receipt'[w].st # "ambiguous"
    BY <1>1, <1>6 DEF NothingToReconcile, PhaseOK, Goto, db
  <2> QED
    BY <2>1, Zenon DEF FinishedWork
<1>7. ASSUME NEW w \in Write, Looking(w) PROVE FinishedWork'
  <2>1. act' = NoAttempt /\ rec' = w
    BY <1>1, <1>7 DEF Looking, MarkIndeterminate, LearnNothing, Learning, PhaseOK, Goto
  <2>2. receipt' = [receipt EXCEPT ![w].checked = TRUE] /\ receipt \in [Write -> Receipt]
    BY <1>1, <1>7 DEF Looking, MarkIndeterminate, LearnNothing, TypeOK
  <2>3. receipt'[w].checked = TRUE
    BY <2>2, CheckedMoves
  <2> QED
    BY <2>1, <2>3, Zenon DEF FinishedWork
<1>8. ASSUME NEW w \in Write, LearnSuccess(w) PROVE FinishedWork'
  <2>1. receipt'[w].st = "succeeded"
    BY <1>8, LearnSuccessMoves DEF Moved
  <2>2. act' = NoAttempt /\ rec' = w
    BY <1>1, <1>8 DEF LearnSuccess, Learning, PhaseOK, Goto
  <2>3. receipt'[w].st # "ambiguous"
    BY <2>1
  <2> QED
    BY <2>2, <2>3, Zenon DEF FinishedWork
<1>9. ASSUME NEW a, NEW w,
             \/ StartExecution(a) \/ ExecuteMemory(a, w) \/ Dispatch(a, w)
             \/ CaptureBeforeState(a, w) \/ CallProvider(a, w) \/ RecordRetry(a, w)
             \/ StartReconcile(w) \/ Probe(w) \/ FinishTask \/ Raise \/ FailTask \/ Crash
      PROVE  FinishedWork'
  BY <1>2, <1>9 DEF StartExecution, ExecuteMemory, Dispatch, CaptureBeforeState,
     CallProvider, RecordRetry, StartReconcile, Probe, FinishTask, Raise, FailTask,
     Crash, Goto, Idle
<1>10. CASE UNCHANGED vars
  <2>1. UNCHANGED <<phase, act, rec, receipt, status>>
    BY <1>10 DEF vars
  <2> QED
    BY <2>1, Zenon DEF FinishedWork
<1>11. \A a \in Attempt : WriteOf[a] \in Write
  BY WriteAssumption
<1> QED
  BY <1>3, <1>4, <1>5, <1>6, <1>7, <1>8, <1>9, <1>10, <1>11, Zenon
  DEF Next, Decide, Carry, Record, Reconcile, Settling, Looking

(* An attempt that answers for its write's open receipt is not settled     *)
(* without closing it.                                                     *)
LEMMA SettlingCloses ==
  ASSUME Base, AnswerFits, MarkerMatches, NEW a \in Attempt, NEW w \in Write,
         w = WriteOf[a], Settling(a, w), marker[a], receipt'[w].st = "executing"
  PROVE  FALSE
<1>1. TypeOK /\ ReceiptsOfKinds
  BY DEF Base, IInv
<1>2. CASE Kind[w] \notin ReceiptKinds
  <2>1. receipt[w].st = "none"
    BY <1>1, <1>2 DEF ReceiptsOfKinds
  <2>2. receipt' = receipt
    <3>1. CASE MarkUnknown(a, w)
      BY <1>2, <2>1, <3>1 DEF MarkUnknown
    <3>2. CASE RecordSuccess(a, w) \/ RecordUnknown(a, w)
      BY <1>2, <3>2, RecordSuccessMoves, RecordUnknownMoves
    <3>3. CASE RecordFailure(a, w)
      BY <1>2, <3>3, RecordFailureMoves
    <3> QED
      BY <3>1, <3>2, <3>3 DEF Settling, ReplayReceipt, Refuse, GateFails, ExecuteOnHost
  <2> QED
    BY <2>1, <2>2
<1>3. CASE Kind[w] \in ReceiptKinds
  <2>1. ~Conflict(a, w)
    BY <1>3 DEF MarkerMatches, Conflict
  <2>2. CASE ReplayReceipt(a, w)
    BY <2>2 DEF ReplayReceipt
  <2>3. CASE Refuse(a, w)
    BY <1>3, <2>1, <2>3 DEF Refuse, ReceiptKinds, GoogleKinds, EmailKinds
  <2>4. CASE GateFails(a, w) \/ ExecuteOnHost(a, w)
    BY <2>4 DEF GateFails, ExecuteOnHost, Undispatched, RetryableEmail
  <2>5. CASE MarkUnknown(a, w)
    BY <2>5, MarkUnknownMoves DEF Moved
  <2>6. CASE RecordSuccess(a, w)
    <3>1. CASE Kind[w] = "undo"
      <4>1. RecordUndo(w, Target[w]) /\ Target[w] \in Write /\ w # Target[w]
        BY <2>6, <3>1, RecordSuccessMoves, WriteAssumption
      <4>2. receipt \in [Write -> Receipt]
        BY <1>1 DEF TypeOK
      <4> QED
        BY <4>1, <4>2, UndoMoves
    <3>2. CASE Kind[w] # "undo"
      BY <1>3, <2>6, <3>2, RecordSuccessMoves DEF Moved
    <3> QED
      BY <3>1, <3>2
  <2>7. CASE RecordFailure(a, w)
    BY <2>7, RecordFailureMoves DEF Moved
  <2>8. CASE RecordUnknown(a, w)
    BY <1>3, <2>8, RecordUnknownMoves DEF Moved
  <2> QED
    BY <2>2, <2>3, <2>4, <2>5, <2>6, <2>7, <2>8 DEF Settling
<1> QED
  BY <1>2, <1>3

(* Only a dispatch opens a receipt. *)
LEMMA OpenWasOpen ==
  ASSUME Base, AnswerFits, OwnerSound, [Next]_vars, NEW x \in Write,
         receipt'[x].st = "executing"
  PROVE  \/ receipt[x].st = "executing"
         \/ \E a \in Attempt : WriteOf[a] = x /\ Dispatch(a, x)
<1>1. CASE receipt' = receipt
  BY <1>1
<1>2. CASE \/ UNCHANGED vars
           \/ FinishTask \/ Raise \/ FailTask \/ Crash
           \/ \E w \in Write : StartReconcile(w) \/ NothingToReconcile(w) \/ Probe(w)
  BY <1>1, <1>2 DEF vars, FinishTask, Raise, FailTask, Crash, StartReconcile,
                    NothingToReconcile, Probe, db
<1>3. CASE \E a \in Attempt : Quiet(a, WriteOf[a])
  BY <1>1, <1>3, QuietReceipts
<1>4. ASSUME NEW a \in Attempt, NEW w \in Write, w = WriteOf[a], Writing(a, w)
      PROVE  \/ receipt[x].st = "executing"
             \/ \E b \in Attempt : WriteOf[b] = x /\ Dispatch(b, x)
  <2>1. CASE MarkUnknown(a, w)
    BY <2>1, MarkUnknownMoves DEF Moved
  <2>2. CASE Dispatch(a, w)
    <3>1. CASE x = w
      BY <1>4, <2>2, <3>1
    <3>2. CASE x # w
      <4>1. receipt' = receipt \/ \E s \in {"none", "failed"} : Moved(a, w, s, "executing")
        BY <2>2, DispatchMoves
      <4> QED
        BY <3>2, <4>1 DEF Moved
    <3> QED
      BY <3>1, <3>2
  <2>3. CASE CaptureBeforeState(a, w)
    <3>1. TypeOK
      BY DEF Base, IInv
    <3> QED
      BY <2>3, <3>1, CaptureMoves
  <2>4. CASE RecordSuccess(a, w)
    <3>1. CASE Kind[w] = "undo"
      <4>1. RecordUndo(w, Target[w]) /\ Target[w] \in Write /\ w # Target[w]
        BY <1>4, <2>4, <3>1, RecordSuccessMoves, WriteAssumption
      <4>2. receipt \in [Write -> Receipt]
        BY DEF Base, IInv, TypeOK
      <4> DEFINE v == Target[w]
      <4>3. /\ \A y \in Write \ {w, v} : receipt'[y] = receipt[y]
            /\ receipt'[w].st = "succeeded"
            /\ receipt[v].st = "succeeded" => receipt'[v].st = "undone"
            /\ receipt[v].st # "succeeded" => receipt'[v].st = receipt[v].st
        BY <4>1, <4>2, UndoMoves
      <4> HIDE DEF v
      <4> QED
        BY <4>3
    <3>2. CASE Kind[w] # "undo"
      BY <1>4, <2>4, <3>2, RecordSuccessMoves DEF Moved
    <3> QED
      BY <3>1, <3>2
  <2>5. CASE RecordRetry(a, w)
    BY <1>4, <2>5, RecordRetryMoves DEF Moved
  <2>6. CASE RecordFailure(a, w)
    BY <1>4, <2>6, RecordFailureMoves DEF Moved
  <2>7. CASE RecordUnknown(a, w)
    BY <1>4, <2>7, RecordUnknownMoves DEF Moved
  <2> QED
    BY <1>4, <2>1, <2>2, <2>3, <2>4, <2>5, <2>6, <2>7 DEF Writing
<1>5. ASSUME NEW w \in Write, Looking(w) PROVE receipt[x].st = "executing"
  <2>1. receipt' = [receipt EXCEPT ![w].checked = TRUE] /\ receipt \in [Write -> Receipt]
    BY <1>5 DEF Looking, MarkIndeterminate, LearnNothing, Base, IInv, TypeOK
  <2> QED
    BY <2>1, CheckedMoves DEF OnlyChecked
<1>6. ASSUME NEW w \in Write, LearnSuccess(w) PROVE receipt[x].st = "executing"
  BY <1>6, LearnSuccessMoves DEF Moved
<1> QED
  BY <1>2, <1>3, <1>4, <1>5, <1>6, StepKinds

(* An open receipt keeps an attempt that answers for it. *)
LEMMA NextKeepsDispatched ==
  ASSUME Base, AnswerFits, OwnerSound, MarkerMatches, ExecutingDispatched, [Next]_vars
  PROVE  ExecutingDispatched'
<1>1. TypeOK
  BY DEF Base, IInv
<1> SUFFICES ASSUME NEW x \in Write, receipt'[x].st = "executing"
             PROVE  \E b \in Attempt :
                      WriteOf[b] = x /\ status'[b] = "executing" /\ marker'[b]
  BY DEF ExecutingDispatched
<1>2. ASSUME NEW a \in Attempt, NEW w \in Write, w = WriteOf[a], Dispatch(a, w), x = w
      PROVE  \E b \in Attempt :
                      WriteOf[b] = x /\ status'[b] = "executing" /\ marker'[b]
  <2>1. status[a] = "executing" /\ status' = status /\ marker'[a] = TRUE
    BY <1>2, DispatchMoves DEF Dispatch, Undispatched, Deciding
  <2> QED
    BY <1>2, <2>1
<1>3. CASE \E a \in Attempt : WriteOf[a] = x /\ Dispatch(a, x)
  BY <1>2, <1>3
<1>4. CASE receipt[x].st = "executing"
  <2>1. PICK b \in Attempt : WriteOf[b] = x /\ status[b] = "executing" /\ marker[b]
    BY <1>4 DEF ExecutingDispatched
  <2> SUFFICES status'[b] = "executing" /\ marker'[b]
    BY <2>1
  <2>2. CASE UNCHANGED <<status, marker>>
    BY <2>1, <2>2
  <2>3. ASSUME NEW a \in Attempt, SameMarkers(a, WriteOf[a])
        PROVE  status'[b] = "executing" /\ marker'[b]
    <3>1. marker' = marker
      BY <2>3, SameMarkersSame
    <3>2. status' = status \/ status' = [status EXCEPT ![a] = "executing"]
      BY <2>3 DEF SameMarkers, Authorize, StartExecution, AlreadySettled, ExecuteMemory,
         CallProvider, CaptureBeforeState, RecordRetry, StartReconcile,
         NothingToReconcile, Probe, Looking, MarkIndeterminate, LearnNothing,
         FinishTask, Raise, FailTask, Crash, db
    <3> QED
      BY <1>1, <2>1, <3>1, <3>2 DEF TypeOK
  <2>4. ASSUME NEW a \in Attempt, NEW w \in Write, w = WriteOf[a], Settling(a, w)
        PROVE  status'[b] = "executing" /\ marker'[b]
    <3>1. PICK s \in Terminal : Settled(a, s)
      BY <2>4, SettlingSettles
    <3>2. b # a
      BY <2>1, <2>4, SettlingCloses
    <3> QED
      BY <2>1, <3>1, <3>2 DEF Settled
  <2>5. ASSUME NEW a \in Attempt, NEW w \in Write, Dispatch(a, w)
        PROVE  status'[b] = "executing" /\ marker'[b]
    <3>1. /\ status' = status /\ marker'[a] = TRUE
          /\ \A y \in Attempt \ {a} : marker'[y] = marker[y]
      BY <2>5, DispatchMoves
    <3>2. CASE b = a
      BY <2>1, <3>1, <3>2
    <3>3. CASE b # a
      BY <2>1, <3>1, <3>3
    <3> QED
      BY <3>2, <3>3
  <2>6. ASSUME NEW w \in Write, LearnSuccess(w)
        PROVE  status'[b] = "executing" /\ marker'[b]
    <3>1. /\ receipt[w].owner \in Attempt /\ WriteOf[receipt[w].owner] = w
          /\ Settled(receipt[w].owner, "succeeded")
          /\ Moved(receipt[w].owner, w, "ambiguous", "succeeded")
      BY <2>6, LearnSuccessMoves
    <3>2. x # w
      BY <3>1 DEF Moved
    <3>3. b # receipt[w].owner
      BY <2>1, <3>1, <3>2
    <3> QED
      BY <2>1, <3>1, <3>3 DEF Settled
  <2>7. CASE \/ UNCHANGED vars \/ FinishTask \/ Raise \/ FailTask \/ Crash
             \/ \E w \in Write : StartReconcile(w) \/ NothingToReconcile(w) \/ Probe(w)
             \/ \E w \in Write : Looking(w)
    BY <2>2, <2>7 DEF vars, FinishTask, Raise, FailTask, Crash, StartReconcile,
       NothingToReconcile, Probe, Looking, MarkIndeterminate, LearnNothing, db
  <2> QED
    BY <2>3, <2>4, <2>5, <2>6, <2>7, StepsByMarker
<1> QED
  BY <1>3, <1>4, OpenWasOpen

-----------------------------------------------------------------------------
(* A receipt that stays ambiguous stays followed up; one that becomes so    *)
(* has its reconciliation queued by the same transaction.                  *)
LEMMA FollowUpStays ==
  ASSUME AmbiguousIsFollowedUp,
         \A x \in Write : receipt'[x].st = "ambiguous" =>
           \/ reconTask'[x] >= 0
           \/ x \in gaveUp'
           \/ receipt'[x].checked = TRUE
           \/ /\ receipt[x].st = "ambiguous"
              /\ receipt[x].checked => receipt'[x].checked
              /\ reconTask'[x] = reconTask[x]
              /\ gaveUp \subseteq gaveUp'
  PROVE  AmbiguousIsFollowedUp'
<1> SUFFICES ASSUME NEW x \in Write, receipt'[x].st = "ambiguous"
             PROVE  reconTask'[x] >= 0 \/ receipt'[x].checked \/ x \in gaveUp'
  BY DEF AmbiguousIsFollowedUp
<1>1. CASE reconTask'[x] >= 0 \/ x \in gaveUp' \/ receipt'[x].checked = TRUE
  BY <1>1
<1>2. CASE /\ receipt[x].st = "ambiguous"
           /\ receipt[x].checked => receipt'[x].checked
           /\ reconTask'[x] = reconTask[x]
           /\ gaveUp \subseteq gaveUp'
  <2>1. reconTask[x] >= 0 \/ receipt[x].checked \/ x \in gaveUp
    BY <1>2 DEF AmbiguousIsFollowedUp
  <2> QED
    BY <1>2, <2>1
<1> QED
  BY <1>1, <1>2

(* Queueing a reconciliation queues this one. *)
LEMMA EnqueueEffect ==
  ASSUME TypeOK, NEW w \in Write, EnqueueReconcile(w)
  PROVE  reconTask'[w] >= 0 /\ \A x \in Write \ {w} : reconTask'[x] = reconTask[x]
BY DEF TypeOK, EnqueueReconcile

(* No step leaves an ambiguous receipt without a follow-up. *)
LEMMA NextKeepsFollowUp ==
  ASSUME Base, AnswerFits, OwnerSound, FinishedWork, AmbiguousIsFollowedUp, [Next]_vars
  PROVE  AmbiguousIsFollowedUp'
<1>1. TypeOK /\ PhaseOK
  BY DEF Base, IInv
<1>2. ASSUME receipt' = receipt, reconTask' = reconTask, gaveUp \subseteq gaveUp'
      PROVE  AmbiguousIsFollowedUp'
  BY <1>2, FollowUpStays
<1>3. ASSUME NEW a \in Attempt, NEW w \in Write, NEW s, NEW t, Moved(a, w, s, t),
             t # "ambiguous" \/ reconTask'[w] >= 0,
             \A x \in Write \ {w} : reconTask'[x] = reconTask[x], gaveUp' = gaveUp
      PROVE  AmbiguousIsFollowedUp'
  <2>1. ASSUME NEW x \in Write, receipt'[x].st = "ambiguous"
        PROVE  \/ reconTask'[x] >= 0
               \/ /\ receipt'[x] = receipt[x]
                  /\ reconTask'[x] = reconTask[x]
    BY <1>3, <2>1 DEF Moved
  <2>2. ASSUME NEW x \in Write, receipt'[x].st = "ambiguous"
        PROVE  \/ reconTask'[x] >= 0
               \/ x \in gaveUp'
               \/ receipt'[x].checked = TRUE
               \/ /\ receipt[x].st = "ambiguous"
                  /\ receipt[x].checked => receipt'[x].checked
                  /\ reconTask'[x] = reconTask[x]
                  /\ gaveUp \subseteq gaveUp'
    <3>1. CASE reconTask'[x] >= 0
      BY <3>1
    <3>2. CASE receipt'[x] = receipt[x] /\ reconTask'[x] = reconTask[x]
      BY <1>3, <2>2, <3>2
    <3> QED
      BY <2>1, <2>2, <3>1, <3>2
  <2> QED
    BY <2>2, FollowUpStays
<1>4. ASSUME NEW a \in Attempt, NEW w \in Write, w = WriteOf[a], Writing(a, w)
      PROVE  AmbiguousIsFollowedUp'
  <2>1. CASE MarkUnknown(a, w)
    <3>1. /\ reconTask'[w] >= 0 /\ \A x \in Write \ {w} : reconTask'[x] = reconTask[x]
          /\ gaveUp' = gaveUp
      BY <1>1, <2>1, EnqueueEffect DEF MarkUnknown, history
    <3>2. CASE Moved(a, w, "executing", "ambiguous")
      BY <1>3, <3>1, <3>2
    <3>3. CASE receipt' = receipt
      BY <3>1, <3>3, FollowUpStays
    <3> QED
      BY <2>1, <3>2, <3>3, MarkUnknownMoves
  <2>2. CASE Dispatch(a, w)
    <3>1. reconTask' = reconTask /\ gaveUp' = gaveUp
      BY <2>2 DEF Dispatch, history
    <3>2. receipt' = receipt \/ \E s \in {"none", "failed"} : Moved(a, w, s, "executing")
      BY <2>2, DispatchMoves
    <3> QED
      BY <1>2, <1>3, <3>1, <3>2
  <2>3. CASE CaptureBeforeState(a, w)
    <3>1. reconTask' = reconTask /\ gaveUp' = gaveUp
      BY <2>3 DEF CaptureBeforeState, history
    <3>2. /\ \A x \in Write \ {w} : receipt'[x] = receipt[x]
          /\ receipt'[w].st = receipt[w].st /\ receipt'[w].checked = receipt[w].checked
      BY <1>1, <2>3, CaptureMoves
    <3>3. \A x \in Write : /\ receipt'[x].st = receipt[x].st
                           /\ receipt[x].checked => receipt'[x].checked
      BY <3>2
    <3> QED
      BY <3>1, <3>3, FollowUpStays
  <2>4. CASE RecordSuccess(a, w)
    <3>1. reconTask' = reconTask /\ gaveUp' = gaveUp
      BY <2>4 DEF RecordSuccess, history
    <3>2. CASE Kind[w] = "undo"
      <4> DEFINE v == Target[w]
      <4>1. RecordUndo(w, v) /\ v \in Write /\ w # v /\ receipt \in [Write -> Receipt]
        BY <1>1, <1>4, <2>4, <3>2, RecordSuccessMoves, WriteAssumption DEF TypeOK
      <4> HIDE DEF v
      <4>2. /\ \A x \in Write \ {w, v} : receipt'[x] = receipt[x]
            /\ receipt'[w].st = "succeeded"
            /\ receipt[v].st = "succeeded" => receipt'[v].st = "undone"
            /\ receipt[v].st # "succeeded" => receipt'[v].st = receipt[v].st
            /\ receipt'[v].checked = receipt[v].checked
        BY <4>1, UndoMoves
      <4>3. \A x \in Write : receipt'[x].st = "ambiguous" =>
              /\ receipt[x].st = "ambiguous"
              /\ receipt[x].checked => receipt'[x].checked
        BY <4>2
      <4> QED
        BY <3>1, <4>3, FollowUpStays
    <3>3. CASE Kind[w] # "undo"
      <4>1. receipt' = receipt \/ Moved(a, w, "executing", "succeeded")
        BY <1>4, <2>4, <3>3, RecordSuccessMoves
      <4> QED
        BY <1>2, <1>3, <3>1, <4>1
    <3> QED
      BY <3>2, <3>3
  <2>5. CASE RecordRetry(a, w)
    <3>1. reconTask' = reconTask /\ gaveUp' = gaveUp
      BY <2>5 DEF RecordRetry
    <3>2. Moved(a, w, "executing", "failed")
      BY <1>4, <2>5, RecordRetryMoves
    <3> QED
      BY <1>3, <3>1, <3>2
  <2>6. CASE RecordFailure(a, w)
    <3>1. reconTask' = reconTask /\ gaveUp' = gaveUp
      BY <2>6 DEF RecordFailure, history
    <3>2. Moved(a, w, "executing", "failed")
      BY <1>4, <2>6, RecordFailureMoves
    <3> QED
      BY <1>3, <3>1, <3>2
  <2>7. CASE RecordUnknown(a, w)
    <3>1. gaveUp' = gaveUp
      BY <2>7 DEF RecordUnknown, history
    <3>2. CASE Kind[w] \in ReceiptKinds
      <4>1. Moved(a, w, "executing", "ambiguous")
        BY <1>4, <2>7, <3>2, RecordUnknownMoves
      <4>2. reconTask'[w] >= 0 /\ \A x \in Write \ {w} : reconTask'[x] = reconTask[x]
        BY <1>1, <2>7, <3>2, EnqueueEffect DEF RecordUnknown
      <4> QED
        BY <1>3, <3>1, <4>1, <4>2
    <3>3. CASE Kind[w] \notin ReceiptKinds
      BY <1>2, <2>7, <3>1, <3>3 DEF RecordUnknown
    <3> QED
      BY <3>2, <3>3
  <2> QED
    BY <1>4, <2>1, <2>2, <2>3, <2>4, <2>5, <2>6, <2>7 DEF Writing
<1>5. ASSUME NEW w \in Write, Looking(w) PROVE AmbiguousIsFollowedUp'
  <2>1. /\ receipt' = [receipt EXCEPT ![w].checked = TRUE] /\ receipt \in [Write -> Receipt]
        /\ reconTask' = reconTask /\ gaveUp' = gaveUp
    BY <1>1, <1>5 DEF Looking, MarkIndeterminate, LearnNothing, TypeOK, history
  <2>2. \A x \in Write : /\ receipt'[x].st = receipt[x].st
                         /\ receipt[x].checked => receipt'[x].checked
    BY <2>1, CheckedMoves DEF OnlyChecked
  <2> QED
    BY <2>1, <2>2, FollowUpStays
<1>6. ASSUME NEW w \in Write, LearnSuccess(w) PROVE AmbiguousIsFollowedUp'
  <2>1. /\ receipt[w].owner \in Attempt
        /\ Moved(receipt[w].owner, w, "ambiguous", "succeeded")
    BY <1>6, LearnSuccessMoves
  <2>2. reconTask' = reconTask /\ gaveUp' = gaveUp
    BY <1>6 DEF LearnSuccess, history
  <2> QED
    BY <1>3, <2>1, <2>2
<1>7. CASE FinishTask
  <2>1. receipt' = receipt /\ gaveUp' = gaveUp
    BY <1>7 DEF FinishTask, history
  <2>2. CASE act # NoAttempt
    BY <1>2, <1>7, <2>1, <2>2 DEF FinishTask
  <2>3. CASE act = NoAttempt
    <3>1. receipt[rec].st # "ambiguous" \/ receipt[rec].checked
      BY <1>7, <2>3 DEF FinishTask, FinishedWork
    <3>2. \A x \in Write \ {rec} : reconTask'[x] = reconTask[x]
      BY <1>1, <1>7, <2>3 DEF FinishTask, TypeOK
    <3>3. ASSUME NEW x \in Write, receipt[x].st = "ambiguous"
          PROVE  reconTask'[x] >= 0 \/ receipt[x].checked \/ x \in gaveUp
      <4>1. CASE x = rec
        BY <3>1, <3>3, <4>1
      <4>2. CASE x # rec
        BY <3>2, <3>3, <4>2 DEF AmbiguousIsFollowedUp
      <4> QED
        BY <4>1, <4>2
    <3> QED
      BY <2>1, <3>3 DEF AmbiguousIsFollowedUp
  <2> QED
    BY <2>2, <2>3
<1>8. CASE FailTask
  <2>1. receipt' = receipt /\ gaveUp \subseteq gaveUp'
    BY <1>8 DEF FailTask
  <2>2. CASE act # NoAttempt
    <3>1. reconTask' = reconTask
      BY <1>8, <2>2 DEF FailTask
    <3> QED
      BY <1>2, <2>1, <3>1
  <2>3. CASE act = NoAttempt
    <3>1. rec \in Write /\ reconTask' = [reconTask EXCEPT ![rec] = AfterFailure(reconTask[rec])]
      BY <1>1, <1>8, <2>3 DEF FailTask, PhaseOK
    <3>2. /\ reconTask'[rec] = AfterFailure(reconTask[rec])
          /\ reconTask[rec] \in -1 .. MaxTaskAttempts - 1
          /\ \A x \in Write \ {rec} : reconTask'[x] = reconTask[x]
      BY <1>1, <3>1 DEF TypeOK
    <3>3. reconTask'[rec] >= 0 \/ reconTask'[rec] = -1
      BY <3>2, WriteAssumption DEF AfterFailure
    <3>4. reconTask'[rec] = -1 => rec \in gaveUp'
      BY <1>8, <2>3 DEF FailTask
    <3>5. \A x \in Write : \/ reconTask'[x] >= 0 \/ x \in gaveUp'
                           \/ reconTask'[x] = reconTask[x]
      BY <3>2, <3>3, <3>4
    <3> QED
      BY <2>1, <3>5, FollowUpStays
  <2> QED
    BY <2>2, <2>3
<1>9. ASSUME NEW a, NEW w,
             \/ Authorize(a) \/ StartExecution(a) \/ AlreadySettled(a)
             \/ ReplayReceipt(a, w) \/ Refuse(a, w) \/ GateFails(a, w)
             \/ ExecuteOnHost(a, w) \/ ExecuteMemory(a, w) \/ CallProvider(a, w)
             \/ StartReconcile(w) \/ NothingToReconcile(w) \/ Probe(w)
             \/ Raise \/ Crash \/ UNCHANGED vars
      PROVE  AmbiguousIsFollowedUp'
  <2>1. receipt' = receipt /\ reconTask' = reconTask /\ gaveUp' = gaveUp
    BY <1>9 DEF Authorize, StartExecution, AlreadySettled, ReplayReceipt, Refuse,
       GateFails, ExecuteOnHost, ExecuteMemory, CallProvider, StartReconcile,
       NothingToReconcile, Probe, Raise, Crash, vars, db, history
  <2> QED
    BY <1>2, <2>1
<1> QED
  BY <1>4, <1>5, <1>6, <1>7, <1>8, <1>9, StepKinds, Zenon DEF Quiet

-----------------------------------------------------------------------------
(* The same with what keeps receipts from being left open. *)
OInv ==
  /\ AInv
  /\ RunnersQueued /\ FinishedWork /\ ExecutingDispatched /\ AmbiguousIsFollowedUp

(* process_action_execution_task, process_provider_write_reconcile_due and *)
(* the queue: an ambiguous receipt has a reconciliation queued, made or    *)
(* given up; an executing one a dispatched attempt whose task is queued or *)
(* was given up.                                                           *)
THEOREM OpenReceiptsHaveSomebody == Spec => []OpenReceiptsAnsweredFor
<1>1. Init => OInv
  <2> SUFFICES ASSUME Init PROVE OInv
    OBVIOUS
  <2>1. \A w \in Write : receipt[w].st = "none"
    BY DEF Init, NoReceipt
  <2>2. RunnersQueued /\ FinishedWork
    BY DEF Init, RunnersQueued, FinishedWork
  <2>3. ExecutingDispatched /\ AmbiguousIsFollowedUp
    BY <2>1 DEF ExecutingDispatched, AmbiguousIsFollowedUp
  <2> QED
    BY <2>2, <2>3, InitAInv DEF OInv
<1>2. OInv /\ [Next]_vars => OInv'
  <2> SUFFICES ASSUME OInv, [Next]_vars PROVE OInv'
    OBVIOUS
  <2> USE DEF OInv
  <2>1. AInv'
    BY NextKeepsAInv
  <2>2. Base /\ AnswerFits /\ OwnerSound /\ MarkerMatches
    BY DEF AInv
  <2>3. RunnersQueued' /\ FinishedWork'
    BY <2>2, NextKeepsRunners, NextKeepsFinished
  <2>4. ExecutingDispatched' /\ AmbiguousIsFollowedUp'
    BY <2>2, NextKeepsDispatched, NextKeepsFollowUp
  <2> QED
    BY <2>1, <2>3, <2>4
<1>3. OInv => OpenReceiptsAnsweredFor
  <2> SUFFICES ASSUME OInv, NEW w \in Write, receipt[w].st = "executing"
               PROVE  \E a \in Attempt :
                        /\ WriteOf[a] = w /\ status[a] = "executing" /\ marker[a]
                        /\ execTask[a] >= 0 \/ a \in gaveUp
    BY DEF OpenReceiptsAnsweredFor, ExecutingHasRunner, OInv
  <2>1. PICK a \in Attempt : WriteOf[a] = w /\ status[a] = "executing" /\ marker[a]
    BY DEF OInv, ExecutingDispatched
  <2>2. execTask[a] >= 0 \/ a \in gaveUp
    BY <2>1 DEF OInv, RunnersQueued
  <2> QED
    BY <2>1, <2>2
<1> QED
  BY <1>1, <1>2, <1>3, PTL DEF Spec

-----------------------------------------------------------------------------
(* Whom a transaction settles was executing until then. *)
LEMMA SettlingWasExecuting ==
  ASSUME Base, WorkerTrue, NEW a \in Attempt, NEW w \in Write, Settling(a, w)
  PROVE  status[a] = "executing"
<1>1. CASE \/ ReplayReceipt(a, w) \/ Refuse(a, w) \/ GateFails(a, w)
           \/ ExecuteOnHost(a, w) \/ MarkUnknown(a, w)
  BY <1>1 DEF ReplayReceipt, Refuse, GateFails, ExecuteOnHost, MarkUnknown,
     Undispatched, Deciding
<1>2. CASE RecordSuccess(a, w) \/ RecordFailure(a, w) \/ RecordUnknown(a, w)
  <2>1. phase = "record" /\ act = a
    BY <1>2 DEF RecordSuccess, RecordFailure, RecordUnknown, Recording
  <2> QED
    BY <2>1 DEF WorkerTrue, InFlight
<1> QED
  BY <1>1, <1>2 DEF Settling

(* The property SettledStays of one step. *)
StaysStep ==
  \A a \in Attempt : status[a] \in Terminal /\ status'[a] # status[a] =>
    /\ status'[a] = "succeeded"
    /\ receipt[WriteOf[a]].owner = a
    /\ receipt[WriteOf[a]].st = "ambiguous"
    /\ receipt'[WriteOf[a]].st = "succeeded"

(* Every step keeps what is settled, but for the correction. *)
LEMMA NextKeepsSettled ==
  ASSUME Base, OwnerSound, WorkerTrue, [Next]_vars
  PROVE  StaysStep
<1>1. TypeOK
  BY DEF Base, IInv
<1>2. CASE status' = status
  BY <1>2 DEF StaysStep
<1>3. ASSUME NEW a \in Attempt, SameMarkers(a, WriteOf[a]) PROVE StaysStep
  <2>1. status' = status \/ Authorize(a)
    BY <1>3 DEF SameMarkers, StartExecution, AlreadySettled, ExecuteMemory,
       CallProvider, CaptureBeforeState, RecordRetry, StartReconcile,
       NothingToReconcile, Probe, Looking, MarkIndeterminate, LearnNothing,
       FinishTask, Raise, FailTask, Crash, db
  <2>2. CASE Authorize(a)
    <3>1. status[a] = "proposed" /\ \A x \in Attempt \ {a} : status'[x] = status[x]
      BY <1>1, <2>2 DEF Authorize, TypeOK
    <3> QED
      BY <3>1 DEF StaysStep, Terminal
  <2> QED
    BY <1>2, <2>1, <2>2
<1>4. ASSUME NEW a \in Attempt, NEW w \in Write, Settling(a, w) PROVE StaysStep
  <2>1. status[a] = "executing" /\ \E s \in Terminal : Settled(a, s)
    BY <1>4, SettlingWasExecuting, SettlingSettles
  <2> QED
    BY <2>1 DEF StaysStep, Settled, Terminal
<1>5. ASSUME NEW a \in Attempt, NEW w \in Write, Dispatch(a, w) PROVE StaysStep
  BY <1>2, <1>5 DEF Dispatch
<1>6. ASSUME NEW w \in Write, LearnSuccess(w) PROVE StaysStep
  <2> DEFINE a == receipt[w].owner
  <2>1. /\ a \in Attempt /\ WriteOf[a] = w /\ Settled(a, "succeeded")
        /\ Moved(a, w, "ambiguous", "succeeded") /\ a = receipt[w].owner
    BY <1>6, LearnSuccessMoves
  <2> HIDE DEF a
  <2> QED
    BY <2>1 DEF StaysStep, Settled, Moved
<1>7. CASE \/ UNCHANGED vars \/ FinishTask \/ Raise \/ FailTask \/ Crash
           \/ \E w \in Write : StartReconcile(w) \/ NothingToReconcile(w) \/ Probe(w)
           \/ \E w \in Write : Looking(w)
  BY <1>2, <1>7 DEF vars, FinishTask, Raise, FailTask, Crash, StartReconcile,
     NothingToReconcile, Probe, Looking, MarkIndeterminate, LearnNothing, db
<1> QED
  BY <1>3, <1>4, <1>5, <1>6, <1>7, StepsByMarker

(* process_action_execution_task executes nothing that is settled; only    *)
(* process_provider_write_reconcile_due corrects an answer, from failed to *)
(* succeeded, together with the ambiguous receipt the attempt owns.        *)
THEOREM SettledAnswersStay == Spec => SettledStays
<1>1. AInv /\ [Next]_vars => [StaysStep]_vars
  BY NextKeepsSettled DEF AInv
<1>2. Spec => [][StaysStep]_vars
  BY <1>1, AnswersInvariant, PTL DEF Spec
<1> QED
  BY <1>2 DEF SettledStays, StaysStep

-----------------------------------------------------------------------------
(* Refinement.  What a step does to the outcome of a write, ...            *)
LEMMA OutcomeOfReceipt ==
  ASSUME NEW w \in Write, Kind[w] \in ReceiptKinds
  PROVE  /\ receipt[w].st \in {"succeeded", "undone"} => Outcome(w) = "done"
         /\ receipt[w].st = "ambiguous" => Outcome(w) = "unknown"
         /\ receipt[w].st = "failed" /\ ~RetryableEmail(w) => Outcome(w) = "refused"
         /\ receipt[w].st \in {"none", "executing"} => Outcome(w) = "open"
         /\ RetryableEmail(w) => Outcome(w) = "open"
BY DEF Outcome, RetryableEmail

(* The same after the step. *)
LEMMA OutcomeOfReceiptNext ==
  ASSUME NEW w \in Write, Kind[w] \in ReceiptKinds
  PROVE  /\ receipt'[w].st \in {"succeeded", "undone"} => Outcome(w)' = "done"
         /\ receipt'[w].st = "ambiguous" => Outcome(w)' = "unknown"
         /\ receipt'[w].st = "failed" /\ ~receipt'[w].retryable => Outcome(w)' = "refused"
         /\ receipt'[w].st \in {"none", "executing"} => Outcome(w)' = "open"
         /\ Kind[w] \in EmailKinds /\ receipt'[w].st = "failed" /\ receipt'[w].retryable
              => Outcome(w)' = "open"
BY DEF Outcome, RetryableEmail

(* ... which for a capability without receipts its one attempt decides.    *)
LEMMA OutcomeOfAttempt ==
  ASSUME ReceiptsOfKinds, NEW a \in Attempt, Kind[WriteOf[a]] \notin ReceiptKinds
  PROVE  Outcome(WriteOf[a]) = IF status[a] = "succeeded" THEN "done" ELSE "open"
<1>1. WriteOf[a] \in Write /\ \A b \in Attempt : WriteOf[b] = WriteOf[a] => b = a
  BY WriteAssumption DEF ReceiptKinds
<1>2. receipt[WriteOf[a]].st = "none"
  BY <1>1 DEF ReceiptsOfKinds
<1> QED
  BY <1>1, <1>2 DEF Outcome

(* The same after the step. *)
LEMMA OutcomeOfAttemptNext ==
  ASSUME ReceiptsOfKinds', NEW a \in Attempt, Kind[WriteOf[a]] \notin ReceiptKinds
  PROVE  Outcome(WriteOf[a])' = IF status'[a] = "succeeded" THEN "done" ELSE "open"
<1>1. WriteOf[a] \in Write /\ \A b \in Attempt : WriteOf[b] = WriteOf[a] => b = a
  BY WriteAssumption DEF ReceiptKinds
<1>2. receipt'[WriteOf[a]].st = "none"
  BY <1>1 DEF ReceiptsOfKinds
<1> QED
  BY <1>1, <1>2 DEF Outcome

(* A write that the step is not about keeps its outcome. *)
LEMMA SameOutcome ==
  ASSUME ReceiptsOfKinds, ReceiptsOfKinds', NEW w \in Write,
         Kind[w] \in ReceiptKinds => receipt'[w].st = receipt[w].st
                                     /\ receipt'[w].retryable = receipt[w].retryable,
         \A a \in Attempt : Kind[w] \notin ReceiptKinds /\ WriteOf[a] = w =>
           (status'[a] = "succeeded" <=> status[a] = "succeeded")
  PROVE  Outcome(w)' = Outcome(w)
<1>1. CASE Kind[w] \in ReceiptKinds
  BY <1>1 DEF Outcome, RetryableEmail
<1>2. CASE Kind[w] \notin ReceiptKinds
  <2>1. receipt[w].st = "none" /\ receipt'[w].st = "none"
    BY <1>2 DEF ReceiptsOfKinds
  <2> QED
    BY <1>2, <2>1 DEF Outcome, RetryableEmail
<1> QED
  BY <1>1, <1>2

(* A step of LogicalWrite, or none, read off outcomes and answers. *)
LEMMA AbstractStep ==
  ASSUME NEW w \in Write,
         \A x \in Write \ {w} : Outcome(x)' = Outcome(x),
         Outcome(w)' = Outcome(w) \/ Abstract!Resolves(Outcome(w), Outcome(w)'),
         NEW a \in Attempt, WriteOf[a] = w,
         \A x \in Attempt \ {a} : Answer(x)' = Answer(x),
         \/ Answer(a)' = Answer(a)
         \/ Abstract!Follows(Answer(a), Answer(a)', Outcome(w), Outcome(w)')
  PROVE  Abstract!Step(w)
<1> DEFINE o == [x \in Write |-> Outcome(x)]
           p == [x \in Attempt |-> Answer(x)]
<1>1. o[w] = Outcome(w) /\ o'[w] = Outcome(w)' /\ p[a] = Answer(a) /\ p'[a] = Answer(a)'
  OBVIOUS
<1>2. \/ o' = o
      \/ \E q \in {"done", "refused", "unknown"} :
           Abstract!Resolves(o[w], q) /\ o' = [o EXCEPT ![w] = q]
  <2>1. CASE Outcome(w)' = Outcome(w)
    BY <2>1
  <2>2. CASE Abstract!Resolves(Outcome(w), Outcome(w)')
    <3>1. Outcome(w)' \in {"done", "refused", "unknown"}
      BY <2>2 DEF Abstract!Resolves
    <3>2. o' = [o EXCEPT ![w] = Outcome(w)']
      OBVIOUS
    <3> QED
      BY <1>1, <2>2, <3>1, <3>2
  <2> QED
    BY <2>1, <2>2
<1>3. \/ p' = p
      \/ \E b \in Attempt, y \in {"ok", "error"} :
           /\ WriteOf[b] = w
           /\ Abstract!Follows(p[b], y, o[w], o'[w])
           /\ p' = [p EXCEPT ![b] = y]
  <2>1. CASE Answer(a)' = Answer(a)
    BY <2>1
  <2>2. CASE Abstract!Follows(Answer(a), Answer(a)', Outcome(w), Outcome(w)')
    <3>1. Answer(a)' \in {"ok", "error"}
      BY <2>2 DEF Abstract!Follows
    <3>2. p' = [p EXCEPT ![a] = Answer(a)']
      OBVIOUS
    <3> QED
      BY <1>1, <2>2, <3>1, <3>2
  <2> QED
    BY <2>1, <2>2
<1> QED
  BY <1>2, <1>3 DEF Abstract!Step

(* Answers and outcomes that stay make a stuttering step. *)
LEMMA AbstractStutter ==
  ASSUME \A x \in Write : Outcome(x)' = Outcome(x),
         \A x \in Attempt : Answer(x)' = Answer(x)
  PROVE  UNCHANGED Abstract!vars
BY DEF Abstract!vars

(* Settling an attempt that was executing answers it, and only it. *)
LEMMA SettledAnswers ==
  ASSUME NEW a \in Attempt, NEW s \in Terminal, Settled(a, s)
  PROVE  /\ status[a] \notin Terminal => Answer(a) = "pending"
         /\ status[a] = "failed" => Answer(a) = "error"
         /\ status[a] = "succeeded" => Answer(a) = "ok"
         /\ s = "succeeded" => Answer(a)' = "ok"
         /\ s = "failed" => Answer(a)' = "error"
         /\ \A x \in Attempt \ {a} : Answer(x)' = Answer(x)
BY DEF Answer, Settled, Terminal

(* A transaction that settles an attempt resolves its write in accordance  *)
(* with the answer, or leaves it alone.                                    *)
LEMMA SettlingRefines ==
  ASSUME Base, Base', AnswerFits, OwnerSound, WorkerTrue,
         NEW a \in Attempt, NEW w \in Write, w = WriteOf[a], Settling(a, w)
  PROVE  Abstract!Step(w)
<1>1. TypeOK /\ ReceiptsOfKinds /\ ReceiptsOfKinds'
  BY DEF Base, IInv
<1>2. status[a] = "executing" /\ status[a] \notin Terminal
  BY SettlingWasExecuting DEF Terminal
<1>3. PICK s \in Terminal : Settled(a, s)
  BY SettlingSettles
<1>4. /\ Answer(a) = "pending" /\ Answer(a)' \in {"ok", "error"}
      /\ Answer(a)' = "ok" <=> status'[a] = "succeeded"
      /\ \A x \in Attempt \ {a} : Answer(x)' = Answer(x)
  BY <1>2, <1>3, SettledAnswers DEF Terminal, Settled
<1>5. \A x \in Write \ {w}, b \in Attempt : WriteOf[b] = x => status'[b] = status[b]
  BY <1>3 DEF Settled
<1>6. ASSUME NEW x \in Write \ {w}, receipt'[x].st = receipt[x].st,
             receipt'[x].retryable = receipt[x].retryable
      PROVE  Outcome(x)' = Outcome(x)
  <2>1. \A b \in Attempt : WriteOf[b] = x => status'[b] = status[b]
    BY <1>5
  <2> QED
    BY <1>1, <1>6, <2>1, SameOutcome
\* It remains to see what becomes of the write.
<1>7. ASSUME \A x \in Write \ {w} : Outcome(x)' = Outcome(x),
             \/ Outcome(w)' = Outcome(w)
             \/ Outcome(w) = "open" /\ Outcome(w)' \in {"done", "refused", "unknown"},
             status'[a] = "succeeded" => Outcome(w)' = "done"
      PROVE  Abstract!Step(w)
  <2>1. Outcome(w)' = Outcome(w) \/ Abstract!Resolves(Outcome(w), Outcome(w)')
    BY <1>7 DEF Abstract!Resolves
  <2>2. Abstract!Follows(Answer(a), Answer(a)', Outcome(w), Outcome(w)')
    BY <1>4, <1>7 DEF Abstract!Follows
  <2> QED
    BY <1>4, <1>7, <2>1, <2>2, AbstractStep
<1>8. ASSUME receipt' = receipt, Kind[w] \notin ReceiptKinds PROVE Abstract!Step(w)
  <2>1. \A x \in Write \ {w} : Outcome(x)' = Outcome(x)
    BY <1>6, <1>8
  <2>2. Outcome(w) = "open" /\ Outcome(w)' = IF status'[a] = "succeeded" THEN "done" ELSE "open"
    BY <1>1, <1>2, <1>8, OutcomeOfAttempt, OutcomeOfAttemptNext DEF Terminal
  <2> QED
    BY <1>7, <2>1, <2>2
<1>9. ASSUME receipt' = receipt, Kind[w] \in ReceiptKinds,
             status'[a] = "succeeded" => receipt[w].st \in {"succeeded", "undone"}
      PROVE  Abstract!Step(w)
  <2>1. \A x \in Write \ {w} : Outcome(x)' = Outcome(x)
    BY <1>6, <1>9
  <2>2. Outcome(w)' = Outcome(w)
    BY <1>1, <1>9, SameOutcome
  <2>3. status'[a] = "succeeded" => Outcome(w)' = "done"
    BY <1>9, <2>2, OutcomeOfReceipt
  <2> QED
    BY <1>7, <2>1, <2>2, <2>3
<1>10. ASSUME Kind[w] \in ReceiptKinds,
              NEW t \in {"succeeded", "failed", "ambiguous"}, Moved(a, w, "executing", t),
              t = "failed" => receipt'[w].retryable = FALSE,
              status'[a] = "succeeded" => t = "succeeded"
       PROVE  Abstract!Step(w)
  <2>1. \A x \in Write \ {w} : Outcome(x)' = Outcome(x)
    BY <1>6, <1>10 DEF Moved
  <2>2. Outcome(w) = "open"
    BY <1>10, OutcomeOfReceipt DEF Moved
  <2>3. receipt'[w].st = t
    BY <1>10 DEF Moved
  <2>4. Outcome(w)' = CASE t = "succeeded" -> "done" [] t = "failed" -> "refused"
                        [] t = "ambiguous" -> "unknown"
    BY <1>10, <2>3, OutcomeOfReceiptNext
  <2> QED
    BY <1>7, <1>10, <2>1, <2>2, <2>4
<1>11. ASSUME Settled(a, "failed") PROVE status'[a] # "succeeded"
  BY <1>11 DEF Settled
<1>12. CASE ReplayReceipt(a, w)
  <2>1. receipt' = receipt /\ receipt[w].st \in {"succeeded", "undone"}
    BY <1>12 DEF ReplayReceipt
  <2>2. Kind[w] \in ReceiptKinds
    BY <1>1, <2>1 DEF ReceiptsOfKinds
  <2> QED
    BY <1>9, <2>1, <2>2
<1>13. CASE Refuse(a, w) \/ GateFails(a, w)
  <2>1. receipt' = receipt /\ Settled(a, "failed")
    BY <1>1, <1>13, SettleSettles DEF Refuse, GateFails
  <2> QED
    BY <1>8, <1>9, <1>11, <2>1
<1>14. CASE ExecuteOnHost(a, w)
  BY <1>8, <1>14 DEF ExecuteOnHost, ReceiptKinds, GoogleKinds, EmailKinds
<1>15. CASE MarkUnknown(a, w)
  <2>1. /\ Settled(a, "failed")
        /\ \/ Moved(a, w, "executing", "ambiguous") /\ Kind[w] \in ReceiptKinds
           \/ receipt' = receipt /\ receipt[w].st = "ambiguous"
    BY <1>15, MarkUnknownMoves
  <2> QED
    BY <1>8, <1>9, <1>10, <1>11, <2>1
<1>16. CASE RecordFailure(a, w)
  <2>1. /\ Settled(a, "failed") /\ Kind[w] \in ReceiptKinds
        /\ Moved(a, w, "executing", "failed") /\ receipt'[w].retryable = FALSE
    BY <1>16, RecordFailureMoves
  <2> QED
    BY <1>10, <1>11, <2>1
<1>17. CASE RecordUnknown(a, w)
  <2>1. /\ Settled(a, "failed")
        /\ IF Kind[w] \in ReceiptKinds
           THEN Moved(a, w, "executing", "ambiguous") ELSE receipt' = receipt
    BY <1>17, RecordUnknownMoves
  <2> QED
    BY <1>8, <1>10, <1>11, <2>1
<1>18. CASE RecordSuccess(a, w)
  <2>1. CASE Kind[w] \notin ReceiptKinds
    BY <1>8, <1>18, <2>1, RecordSuccessMoves
  <2>2. CASE Kind[w] \in ReceiptKinds \ {"undo"}
    BY <1>10, <1>18, <2>2, RecordSuccessMoves
  <2>3. CASE Kind[w] = "undo"
    <3> DEFINE v == Target[w]
    <3>1. /\ RecordUndo(w, v) /\ v \in Write /\ w # v /\ receipt \in [Write -> Receipt]
          /\ receipt[w].st = "executing" /\ Kind[v] = "email"
      BY <1>1, <1>18, <2>3, RecordSuccessMoves, WriteAssumption DEF TypeOK
    <3> HIDE DEF v
    <3>2. /\ \A x \in Write \ {w, v} : receipt'[x] = receipt[x]
          /\ receipt'[w].st = "succeeded"
          /\ receipt[v].st = "succeeded" => receipt'[v].st = "undone"
          /\ receipt[v].st # "succeeded" => receipt'[v].st = receipt[v].st
          /\ receipt'[v].retryable = receipt[v].retryable
      BY <3>1, UndoMoves
    <3>3. {Kind[w], Kind[v]} \subseteq ReceiptKinds
      BY <2>3, <3>1 DEF ReceiptKinds, GoogleKinds, EmailKinds
    <3>4. Outcome(w) = "open" /\ Outcome(w)' = "done"
      BY <3>1, <3>2, <3>3, OutcomeOfReceipt, OutcomeOfReceiptNext
    <3>5. Outcome(v)' = Outcome(v)
      <4>1. CASE receipt[v].st = "succeeded"
        BY <3>1, <3>2, <3>3, <4>1, OutcomeOfReceipt, OutcomeOfReceiptNext
      <4>2. CASE receipt[v].st # "succeeded"
        BY <1>6, <3>1, <3>2, <4>2
      <4> QED
        BY <4>1, <4>2
    <3>6. \A x \in Write \ {w} : Outcome(x)' = Outcome(x)
      BY <1>6, <3>2, <3>5
    <3> QED
      BY <1>7, <3>4, <3>6
  <2> QED
    BY <2>1, <2>2, <2>3
<1> QED
  BY <1>12, <1>13, <1>14, <1>15, <1>16, <1>17, <1>18 DEF Settling

(* A probe that finds the write done resolves it and corrects its owner. *)
LEMMA LearnRefines ==
  ASSUME Base, Base', OwnerSound, NEW w \in Write, LearnSuccess(w)
  PROVE  Abstract!Step(w)
<1>1. PICK a \in Attempt :
        /\ WriteOf[a] = w /\ Settled(a, "succeeded")
        /\ Kind[w] \in ReceiptKinds /\ Moved(a, w, "ambiguous", "succeeded")
  BY LearnSuccessMoves
<1>2. ReceiptsOfKinds /\ ReceiptsOfKinds' /\ status[a] \in {"proposed", "executing"} \cup Terminal
  BY <1>1 DEF Base, IInv, TypeOK
<1>3. \A x \in Write \ {w} : Outcome(x)' = Outcome(x)
  <2> SUFFICES ASSUME NEW x \in Write \ {w} PROVE Outcome(x)' = Outcome(x)
    OBVIOUS
  <2>1. receipt'[x] = receipt[x]
    BY <1>1 DEF Moved
  <2>2. \A b \in Attempt : WriteOf[b] = x => status'[b] = status[b]
    BY <1>1 DEF Settled
  <2> QED
    BY <1>2, <2>1, <2>2, SameOutcome
<1>4. Outcome(w) = "unknown" /\ Outcome(w)' = "done"
  BY <1>1, OutcomeOfReceipt, OutcomeOfReceiptNext DEF Moved
<1>5. /\ Answer(a) \in {"pending", "error", "ok"} /\ Answer(a)' = "ok"
      /\ \A x \in Attempt \ {a} : Answer(x)' = Answer(x)
  BY <1>1, SettledAnswers DEF Answer, Terminal
<1>6. Abstract!Resolves(Outcome(w), Outcome(w)')
  BY <1>4 DEF Abstract!Resolves
<1>7. \/ Answer(a)' = Answer(a)
      \/ Abstract!Follows(Answer(a), Answer(a)', Outcome(w), Outcome(w)')
  BY <1>4, <1>5 DEF Abstract!Follows
<1> QED
  BY <1>1, <1>3, <1>5, <1>6, <1>7, AbstractStep

(* Dispatches and retries leave the write open; nothing else is recorded.  *)
LEMMA DispatchRefines ==
  ASSUME Base, Base', AnswerFits, NEW a \in Attempt, NEW w \in Write, w = WriteOf[a],
         Dispatch(a, w) \/ RecordRetry(a, w)
  PROVE  UNCHANGED Abstract!vars
<1>1. ReceiptsOfKinds /\ ReceiptsOfKinds'
  BY DEF Base
<1>2. status' = status
  BY DispatchMoves, RecordRetryMoves
<1>3. \A x \in Attempt : Answer(x)' = Answer(x)
  BY <1>2 DEF Answer
<1>4. ASSUME NEW x \in Write, Kind[x] \in ReceiptKinds => receipt'[x] = receipt[x]
      PROVE  Outcome(x)' = Outcome(x)
  BY <1>1, <1>2, <1>4, SameOutcome
<1>5. \A x \in Write \ {w} : Outcome(x)' = Outcome(x)
  <2>1. receipt' = receipt \/ \A x \in Write \ {w} : receipt'[x] = receipt[x]
    BY DispatchMoves, RecordRetryMoves, ZenonT(60) DEF Moved
  <2> QED
    BY <1>4, <2>1
<1>6. Outcome(w)' = Outcome(w)
  <2>1. CASE Kind[w] \notin ReceiptKinds
    BY <1>4, <2>1
  <2>2. CASE Kind[w] \in ReceiptKinds /\ Dispatch(a, w)
    <3>1. Outcome(w) = "open"
      BY <2>2, OutcomeOfReceipt DEF Dispatch, MayDispatch
    <3>2. receipt'[w].st = "executing"
      BY <2>2, DispatchMoves DEF Moved
    <3> QED
      BY <2>2, <3>1, <3>2, OutcomeOfReceiptNext
  <2>3. CASE Kind[w] \in ReceiptKinds /\ RecordRetry(a, w)
    <3>1. /\ Moved(a, w, "executing", "failed") /\ receipt'[w].retryable = TRUE
          /\ Kind[w] \in EmailKinds
      BY <2>3, RecordRetryMoves
    <3>2. receipt[w].st = "executing" /\ receipt'[w].st = "failed"
      BY <3>1 DEF Moved
    <3> QED
      BY <2>3, <3>1, <3>2, OutcomeOfReceipt, OutcomeOfReceiptNext
  <2> QED
    BY <2>1, <2>2, <2>3
<1>7. \A x \in Write : Outcome(x)' = Outcome(x)
  BY <1>5, <1>6
<1> QED
  BY <1>3, <1>7, AbstractStutter

(* Every step is a step of LogicalWrite or a stutter. *)
LEMMA NextRefines ==
  ASSUME AInv, AInv', [Next]_vars
  PROVE  [Abstract!Next]_(Abstract!vars)
<1>1. Base /\ Base' /\ AnswerFits /\ OwnerSound /\ WorkerTrue /\ TypeOK
  BY DEF AInv, Base, IInv
<1>2. ReceiptsOfKinds /\ ReceiptsOfKinds'
  BY <1>1 DEF Base
<1>3. ASSUME \A x \in Write : receipt'[x].st = receipt[x].st
                              /\ receipt'[x].retryable = receipt[x].retryable,
             status' = status \/ \E a \in Attempt : Authorize(a)
      PROVE  UNCHANGED Abstract!vars
  <2>1. \A x \in Attempt : /\ status'[x] = "succeeded" <=> status[x] = "succeeded"
                           /\ status'[x] = "failed" <=> status[x] = "failed"
    BY <1>1, <1>3 DEF Authorize, TypeOK
  <2>2. \A x \in Attempt : Answer(x)' = Answer(x)
    BY <2>1 DEF Answer
  <2>3. \A x \in Write : Outcome(x)' = Outcome(x)
    BY <1>2, <1>3, <2>1, SameOutcome
  <2> QED
    BY <2>2, <2>3, AbstractStutter
<1>4. ASSUME NEW w \in Write, Abstract!Step(w) PROVE Abstract!Next
  BY <1>4 DEF Abstract!Next
<1>5. ASSUME NEW a \in Attempt, NEW w \in Write, w = WriteOf[a], Settling(a, w)
      PROVE  Abstract!Next
  BY <1>1, <1>4, <1>5, SettlingRefines
<1>6. ASSUME NEW w \in Write, LearnSuccess(w) PROVE Abstract!Next
  BY <1>1, <1>4, <1>6, LearnRefines
<1>7. ASSUME NEW a \in Attempt, NEW w \in Write, w = WriteOf[a],
             Dispatch(a, w) \/ RecordRetry(a, w)
      PROVE  UNCHANGED Abstract!vars
  BY <1>1, <1>7, DispatchRefines
<1>8. ASSUME NEW a \in Attempt, NEW w \in Write, CaptureBeforeState(a, w)
      PROVE  UNCHANGED Abstract!vars
  <2>1. \A x \in Write : receipt'[x].st = receipt[x].st
                         /\ receipt'[x].retryable = receipt[x].retryable
    BY <1>1, <1>8, CaptureMoves
  <2> QED
    BY <1>3, <1>8, <2>1 DEF CaptureBeforeState
<1>9. ASSUME NEW w \in Write, Looking(w) PROVE UNCHANGED Abstract!vars
  <2>1. /\ receipt' = [receipt EXCEPT ![w].checked = TRUE] /\ receipt \in [Write -> Receipt]
        /\ status' = status
    BY <1>1, <1>9 DEF Looking, MarkIndeterminate, LearnNothing, TypeOK
  <2>2. \A x \in Write : receipt'[x].st = receipt[x].st
                         /\ receipt'[x].retryable = receipt[x].retryable
    BY <2>1, CheckedMoves DEF OnlyChecked
  <2> QED
    BY <1>3, <2>1, <2>2
<1>10. ASSUME NEW a \in Attempt, Authorize(a) PROVE UNCHANGED Abstract!vars
  <2>1. receipt' = receipt
    BY <1>10 DEF Authorize
  <2> QED
    BY <1>3, <1>10, <2>1
<1>11. ASSUME NEW a, NEW w,
              \/ StartExecution(a) \/ AlreadySettled(a) \/ ExecuteMemory(a, w)
              \/ CallProvider(a, w) \/ StartReconcile(w) \/ NothingToReconcile(w)
              \/ Probe(w) \/ FinishTask \/ Raise \/ FailTask \/ Crash \/ UNCHANGED vars
       PROVE  UNCHANGED Abstract!vars
  <2>1. receipt' = receipt /\ status' = status
    BY <1>11 DEF StartExecution, AlreadySettled, ExecuteMemory, CallProvider,
       StartReconcile, NothingToReconcile, Probe, FinishTask, Raise, FailTask, Crash,
       vars, db
  <2> QED
    BY <1>3, <2>1
<1>12. \A a \in Attempt : WriteOf[a] \in Write
  BY WriteAssumption
<1> QED
  BY <1>5, <1>6, <1>7, <1>8, <1>9, <1>10, <1>11, <1>12, Zenon
  DEF Next, Decide, Carry, Record, Reconcile, Settling, Looking

(* process_action_execution_task and process_provider_write_reconcile_due  *)
(* implement LogicalWrite: a write that several attempts name has one      *)
(* outcome, never reopened, and each attempt is answered once and          *)
(* corrected at most once, when its unknown write turns out to be done.    *)
THEOREM WritesAreLogical == Spec => ImplementsLogicalWrite
<1>1. Init => Abstract!Init
  <2> SUFFICES ASSUME Init PROVE Abstract!Init
    OBVIOUS
  <2>1. \A w \in Write : receipt[w].st = "none"
    BY DEF Init, NoReceipt
  <2>2. \A a \in Attempt : status[a] = "proposed"
    BY DEF Init
  <2>3. \A w \in Write : Outcome(w) = "open"
    BY <2>1, <2>2, WriteAssumption DEF Outcome, RetryableEmail
  <2>4. \A a \in Attempt : Answer(a) = "pending"
    BY <2>2 DEF Answer
  <2> QED
    BY <2>3, <2>4 DEF Abstract!Init
<1>2. AInv /\ AInv' /\ [Next]_vars => [Abstract!Next]_(Abstract!vars)
  BY NextRefines
<1>3. Spec => Abstract!Spec
  BY <1>1, <1>2, AnswersInvariant, PTL DEF Spec, Abstract!Spec
<1> QED
  BY <1>3 DEF ImplementsLogicalWrite

=============================================================================
