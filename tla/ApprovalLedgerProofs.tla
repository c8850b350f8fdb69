------------------------- MODULE ApprovalLedgerProofs -------------------------
(***************************************************************************)
(* Proofs about ApprovalLedger, for any number of attempts, programs and    *)
(* runs: types; that a decision on an approval is final although the        *)
(* running turn may hold an older view of it; that tables and event log     *)
(* tell one story, a turn asks one thing at a time, and no side effect is   *)
(* begun without leave.                                                     *)
(***************************************************************************)
EXTENDS ApprovalLedger, FiniteSetTheorems, TLAPS

TurnStatus == {"none", "in_progress", "completed", "failed"}
Place == {"idle", "between", "program", "recall", "ending", "raised"}
AttemptRow == [status : Status, escalated : BOOLEAN]
View == [turn : TurnStatus, attempt : [Attempt -> AttemptRow],
         approval : [Attempt -> ApprovalStatus], queued : SUBSET Attempt]

TableTypes ==
  /\ turn \in TurnStatus
  /\ attempt \in [Attempt -> AttemptRow]
  /\ approval \in [Attempt -> ApprovalStatus]
  /\ events \in Seq(Event)
  /\ execTask \subseteq Attempt

SessionTypes ==
  /\ view \in View
  /\ dirty \subseteq Attempt
  /\ fresh \in Seq(Event)
  /\ sequence \in Nat

RunTypes ==
  /\ taint \in BOOLEAN
  /\ staged \subseteq Attempt
  /\ programs \in 0..MaxPrograms
  /\ failedLast \in BOOLEAN

OtherTypes ==
  /\ turnTask \in -1..(MaxTaskAttempts - 1)
  /\ lapsed \subseteq Attempt
  /\ pc \in Place
  /\ influenced \subseteq Attempt

(* TypeOK in the four parts the actions keep or change as a whole. *)
LEMMA TypesSplit ==
  /\ TypeOK <=> TableTypes /\ SessionTypes /\ RunTypes /\ OtherTypes
  /\ TableTypes' /\ SessionTypes' /\ RunTypes' /\ OtherTypes' => TypeOK'
  BY DEF TypeOK, TableTypes, SessionTypes, RunTypes, OtherTypes, TurnStatus, Place,
         AttemptRow, View

(* The events the actions write are events. *)
LEMMA EventTypes ==
  /\ \A a \in Attempt : \A t \in {"proposed", "requested", "approved", "denied", "expired",
                                  "executing", "succeeded", "failed"} : Evt(t, a) \in Event
  /\ \A t \in {"started", "model", "recalled", "turn_failed", "turn_completed"} :
       TurnEvt(t) \in Event
  /\ \A S \in SUBSET Attempt : [type |-> "expired", of |-> S] \in Event
  BY DEF Evt, TurnEvt, Event

(* A session that has read nothing is well-typed. *)
LEMMA EmptyViewType == EmptyView \in View
  BY DEF EmptyView, View, TurnStatus, AttemptRow, NoAttempts, NoApprovals, Status,
         ApprovalStatus

(* A commit of well-typed data leaves well-typed tables and session. *)
LEMMA CommitTypes ==
  ASSUME TableTypes, SessionTypes,
         NEW v \in View, NEW d \in SUBSET Attempt, NEW more \in Seq(Event),
         NEW next \in Place, Commit(v, d, more, next)
  PROVE  TableTypes' /\ SessionTypes' /\ pc' \in Place
<1> DEFINE f == fresh \o more
<1>1. f \in Seq(Event)
  BY DEF SessionTypes
<1>2. SessionTypes'
  <2>1. view' \in View
    BY DEF Commit, View
  <2>2. QED
    BY <2>1 DEF Commit, SessionTypes
<1>3. CASE pc' = "raised" /\ UNCHANGED tables
  BY <1>2, <1>3 DEF tables, TableTypes, Place
<1>4. CASE /\ turn' = v.turn
           /\ attempt' = [a \in Attempt |-> IF a \in d THEN v.attempt[a] ELSE attempt[a]]
           /\ approval' = [a \in Attempt |-> IF a \in d THEN v.approval[a] ELSE approval[a]]
           /\ events' = events \o f
           /\ execTask' = execTask \cup v.queued
           /\ pc' = next
  <2>1. v.turn \in TurnStatus /\ v.attempt \in [Attempt -> AttemptRow]
        /\ v.approval \in [Attempt -> ApprovalStatus] /\ v.queued \subseteq Attempt
    BY DEF View
  <2>2. QED
    BY <1>1, <1>2, <1>4, <2>1 DEF TableTypes
<1>5. QED
  BY <1>3, <1>4 DEF Commit, Save

(* Initially the types are right. *)
LEMMA InitTypes == Init => TypeOK
<1> SUFFICES ASSUME Init PROVE TypeOK
  OBVIOUS
<1> USE LedgerAssumption DEF Init, LedgerAssumption
<1>1. TableTypes
  BY DEF TableTypes, TurnStatus, AttemptRow, NoAttempts, NoApprovals, Status, ApprovalStatus
<1>2. SessionTypes
  BY EmptyViewType DEF SessionTypes
<1>3. RunTypes
  <2>1. programs \in 0..MaxPrograms
    OBVIOUS
  <2>2. QED
    BY <2>1, Zenon DEF RunTypes
<1>4. OtherTypes
  BY DEF OtherTypes, Place
<1>5. QED
  BY <1>1, <1>2, <1>3, <1>4, TypesSplit

(* Other transactions on the tables.  *)
LEMMA ResolveTypes ==
  ASSUME TableTypes, NEW a \in Attempt, NEW ap \in ApprovalStatus, NEW st \in Status,
         NEW log \in Seq(Event), Resolve(a, ap, st, log)
  PROVE  /\ turn' \in TurnStatus
         /\ attempt' \in [Attempt -> AttemptRow]
         /\ approval' \in [Attempt -> ApprovalStatus]
         /\ events' \in Seq(Event)
<1>1. attempt' \in [Attempt -> AttemptRow]
  BY DEF TableTypes, Resolve, AttemptRow
<1>2. QED
  BY <1>1 DEF TableTypes, Resolve

(* A run that ends leaves no view and no program behind. *)
LEMMA CloseTypes == Close /\ MaxPrograms \in Nat => SessionTypes' /\ RunTypes'
<1> SUFFICES ASSUME Close, MaxPrograms \in Nat PROVE SessionTypes' /\ RunTypes'
  OBVIOUS
<1>1. SessionTypes'
  BY EmptyViewType DEF Close, SessionTypes
<1>2. programs' \in 0..MaxPrograms
  BY DEF Close
<1>3. RunTypes'
  BY <1>2, Zenon DEF Close, RunTypes
<1>4. QED
  BY <1>1, <1>3

(* What a call leaves in the session. *)
LEMMA ProposeTypes ==
  ASSUME SessionTypes, NEW a \in Attempt, NEW st \in Status, NEW esc \in BOOLEAN,
         NEW ap \in ApprovalStatus, NEW type, Evt(type, a) \in Event,
         Propose(a, st, esc, ap, type)
  PROVE  SessionTypes'
<1>1. view' \in View
  <2>1. view.attempt \in [Attempt -> AttemptRow] /\ view.approval \in [Attempt -> ApprovalStatus]
    BY DEF SessionTypes, View
  <2>2. [status |-> st, escalated |-> esc] \in AttemptRow
    BY Zenon DEF AttemptRow
  <2>3. view' = [view EXCEPT !.attempt = [view.attempt EXCEPT ![a] = [status |-> st, escalated |-> esc]],
                             !.approval = [view.approval EXCEPT ![a] = ap]]
    BY DEF Propose, SessionTypes, View
  <2> DEFINE row == [status |-> st, escalated |-> esc]
  <2>4. [view.attempt EXCEPT ![a] = row] \in [Attempt -> AttemptRow]
    <3> HIDE DEF row
    <3> QED  BY <2>1, <2>2 DEF row
  <2>5. [view.approval EXCEPT ![a] = ap] \in [Attempt -> ApprovalStatus]
    BY <2>1
  <2>6. QED
    BY <2>3, <2>4, <2>5 DEF SessionTypes, View
<1>2. fresh' \in Seq(Event) /\ sequence' \in Nat
  BY DEF Propose, Add, SessionTypes
<1>3. QED
  BY <1>1, <1>2 DEF Propose, SessionTypes

(* A step keeps the types of what it does not touch. *)
LEMMA Kept ==
  /\ TableTypes /\ UNCHANGED tables => TableTypes'
  /\ SessionTypes /\ UNCHANGED session => SessionTypes'
  /\ RunTypes /\ UNCHANGED run => RunTypes'
<1>1. TableTypes /\ UNCHANGED tables => TableTypes'
  BY DEF tables, TableTypes
<1>2. SessionTypes /\ UNCHANGED session => SessionTypes'
  BY DEF session, SessionTypes
<1>3. RunTypes /\ UNCHANGED run => RunTypes'
  BY Zenon DEF run, RunTypes
<1>4. QED
  BY <1>1, <1>2, <1>3

(* Types of the parts that most actions of a program keep. *)
LEMMA RunKept ==
  ASSUME RunTypes, staged' \subseteq Attempt, taint' \in BOOLEAN,
         UNCHANGED <<programs, failedLast>>
  PROVE  RunTypes'
  BY Zenon DEF RunTypes

(* A turn starts with a view of its own. *)
LEMMA StartTypes == TypeOK /\ StartTurn => TypeOK'
<1> SUFFICES ASSUME TypeOK, StartTurn PROVE TypeOK'
  OBVIOUS
<1> USE TypesSplit, LedgerAssumption DEF StartTurn
<1>1. TableTypes'
  BY Kept
<1>2. SessionTypes'
  <2>1. EmptyView \in View /\ TurnEvt("started") \in Event
    BY EmptyViewType, EventTypes
  <2>2. view' \in View
    BY <2>1 DEF View, TurnStatus
  <2>3. fresh' \in Seq(Event) /\ sequence' \in Nat
    BY <2>1
  <2>4. QED
    BY <2>2, <2>3 DEF SessionTypes
<1>3. RunTypes'
  <2>1. programs' \in 0..MaxPrograms
    BY DEF LedgerAssumption
  <2>2. QED
    BY <2>1, Zenon DEF RunTypes
<1>4. OtherTypes'
  BY DEF OtherTypes, Place
<1>5. QED
  BY <1>1, <1>2, <1>3, <1>4

(* Steps between two calls: what fails, is given up, settles or begins. *)
LEMMA BetweenTypes ==
  TypeOK /\ (FailInterrupted \/ SettleTurn \/ FailTask \/ Crash \/ GiveUp \/ Raise
             \/ FailProgramAgain \/ BeginProgram) => TypeOK'
<1> SUFFICES ASSUME TypeOK,
                    FailInterrupted \/ SettleTurn \/ FailTask \/ Crash \/ GiveUp \/ Raise
                    \/ FailProgramAgain \/ BeginProgram
             PROVE  TypeOK'
  OBVIOUS
<1>0. TableTypes /\ SessionTypes /\ RunTypes /\ OtherTypes
  BY TypesSplit
<1>m. MaxPrograms \in Nat /\ MaxTaskAttempts \in Nat \ {0}
  BY LedgerAssumption DEF LedgerAssumption
<1>1. CASE FailInterrupted
  <2>1. TurnEvt("turn_failed") \in Event
    BY EventTypes
  <2>2. TableTypes'
    BY <1>0, <1>1, <2>1 DEF FailInterrupted, TableTypes, TurnStatus
  <2>3. OtherTypes'
    BY <1>0, <1>1 DEF FailInterrupted, OtherTypes
  <2>4. QED
    BY <1>0, <1>1, <2>2, <2>3, Kept, TypesSplit DEF FailInterrupted
<1>2. CASE SettleTurn \/ FailTask \/ Crash
  <2>1. TableTypes' /\ SessionTypes' /\ RunTypes'
    BY <1>0, <1>m, <1>2, Kept, CloseTypes DEF SettleTurn, FailTask, Crash
  <2>2. OtherTypes'
    BY <1>0, <1>m, <1>2 DEF SettleTurn, FailTask, Crash, OtherTypes, Place
  <2>3. QED
    BY <2>1, <2>2, TypesSplit
<1>3. CASE GiveUp \/ Raise \/ FailProgramAgain
  <2>1. TableTypes' /\ SessionTypes' /\ RunTypes'
    BY <1>0, <1>3, Kept DEF GiveUp, Raise, FailProgramAgain
  <2>2. OtherTypes'
    BY <1>0, <1>3 DEF GiveUp, Raise, FailProgramAgain, OtherTypes, Place
  <2>3. QED
    BY <2>1, <2>2, TypesSplit
<1>4. CASE BeginProgram
  <2>1. SessionTypes'
    <3>1. TurnEvt("model") \in Event
      BY EventTypes
    <3>2. QED
      BY <1>0, <1>4, <3>1 DEF BeginProgram, Add, SessionTypes
  <2>2. RunTypes'
    <3>1. programs' \in 0..MaxPrograms
      BY <1>0, <1>m, <1>4 DEF BeginProgram, RunTypes
    <3>2. QED
      BY <1>0, <1>4, <3>1, Zenon DEF BeginProgram, RunTypes
  <2>3. OtherTypes'
    BY <1>0, <1>4 DEF BeginProgram, OtherTypes, Place
  <2>4. TableTypes'
    BY <1>0, <1>4, Kept DEF BeginProgram
  <2>5. QED
    BY <2>1, <2>2, <2>3, <2>4, TypesSplit
<1>5. QED
  BY <1>1, <1>2, <1>3, <1>4

(* A call is denied, fails, needs leave or returns. *)
LEMMA CallTypes ==
  ASSUME TypeOK, NEW a \in Attempt,
         CallDenied(a) \/ CallFails(a) \/ CallNeedsApproval(a) \/ CallReturns(a)
  PROVE  TypeOK'
<1>0. TableTypes /\ SessionTypes /\ RunTypes /\ OtherTypes
  BY TypesSplit
<1>1. PICK st \in {"rejected", "failed", "awaiting_approval", "succeeded"}, esc \in BOOLEAN,
           ap \in {"none", "pending"},
           type \in {"proposed", "failed", "requested", "succeeded"} :
        Propose(a, st, esc, ap, type)
  <2>1. CASE CallDenied(a)
    BY <2>1 DEF CallDenied
  <2>2. CASE CallFails(a)
    BY <2>2 DEF CallFails
  <2>3. CASE CallNeedsApproval(a)
    <3> DEFINE esc == taint /\ Impact[a] # "read"
    <3>1. esc \in BOOLEAN
      OBVIOUS
    <3>2. Propose(a, "awaiting_approval", esc, "pending", "requested")
      BY <2>3 DEF CallNeedsApproval
    <3> HIDE DEF esc
    <3>3. QED
      BY <3>1, <3>2
  <2>4. CASE CallReturns(a)
    BY <2>4 DEF CallReturns
  <2>5. QED
    BY <2>1, <2>2, <2>3, <2>4
<1>2. SessionTypes'
  <2>1. st \in Status /\ ap \in ApprovalStatus
    BY DEF Status, ApprovalStatus
  <2>2. Evt(type, a) \in Event
    BY EventTypes
  <2>3. QED
    BY <1>0, <1>1, <2>1, <2>2, ProposeTypes
<1>3. taint' \in BOOLEAN
  BY <1>0, Zenon DEF CallDenied, CallFails, CallNeedsApproval, CallReturns, RunTypes
<1>4. TableTypes' /\ staged' \subseteq Attempt /\ OtherTypes'
  <2>1. staged' \subseteq Attempt
    BY <1>0, <1>1 DEF Propose, RunTypes
  <2>2. influenced' \subseteq Attempt
    BY <1>0, <1>1 DEF Propose, OtherTypes
  <2>3. TableTypes' /\ UNCHANGED <<turnTask, lapsed, pc>>
    BY <1>0, <1>1, Kept DEF Propose
  <2>4. QED
    BY <1>0, <2>1, <2>2, <2>3 DEF OtherTypes
<1>5. RunTypes'
  <2>1. UNCHANGED <<programs, failedLast>>
    BY <1>1 DEF Propose
  <2>2. QED
    BY <1>0, <1>3, <1>4, <2>1, RunKept
<1>6. QED
  BY <1>2, <1>4, <1>5, TypesSplit

(* The view with another status of one attempt. *)
LEMMA ViewWith ==
  ASSUME view \in View, NEW a \in Attempt, NEW st \in Status
  PROVE  [view EXCEPT !.attempt[a].status = st] \in View
<1>1. view.attempt \in [Attempt -> AttemptRow]
  BY DEF View
<1>2. [view.attempt[a] EXCEPT !.status = st] \in AttemptRow
  BY <1>1 DEF AttemptRow
<1>3. [view.attempt EXCEPT ![a].status = st] \in [Attempt -> AttemptRow]
  BY <1>1, <1>2
<1>4. QED
  BY <1>3 DEF View

(* A call queues its side effect. *)
LEMMA QueueTypes ==
  ASSUME TypeOK, NEW a \in Attempt, CallQueues(a)
  PROVE  TypeOK'
<1>0. TableTypes /\ SessionTypes /\ RunTypes /\ OtherTypes
  BY TypesSplit
<1>1. SessionTypes'
  <2> DEFINE row == [status |-> "executing", escalated |-> FALSE]
  <2>1. row \in AttemptRow
    BY DEF AttemptRow, Status
  <2>2. view' \in View
    <3>1. view' = [view EXCEPT !.attempt[a] = row, !.queued = @ \cup {a}]
      BY DEF CallQueues
    <3> HIDE DEF row
    <3>2. QED
      BY <1>0, <2>1, <3>1 DEF SessionTypes, View
  <2>3. Evt("executing", a) \in Event
    BY EventTypes
  <2>4. fresh' \in Seq(Event) /\ sequence' \in Nat
    BY <1>0, <2>3 DEF CallQueues, Add, SessionTypes
  <2>5. QED
    BY <1>0, <2>2, <2>4 DEF CallQueues, SessionTypes
<1>2. RunTypes'
  <2>1. staged' \subseteq Attempt /\ UNCHANGED <<taint, programs, failedLast>>
    BY <1>0 DEF CallQueues, RunTypes
  <2>2. QED
    BY <1>0, <2>1, Zenon DEF RunTypes
<1>3. OtherTypes' /\ TableTypes'
  BY <1>0, Kept DEF CallQueues, OtherTypes
<1>4. QED
  BY <1>1, <1>2, <1>3, TypesSplit

(* A call names an attempt it has proposed before. *)
LEMMA RecallTypes ==
  ASSUME TypeOK, NEW a \in Attempt, CallRecalls(a) \/ RecallReturns(a)
  PROVE  TypeOK'
<1>0. TableTypes /\ SessionTypes /\ RunTypes /\ OtherTypes
  BY TypesSplit
<1>1. CASE CallRecalls(a)
  <2> DEFINE v == [view EXCEPT !.attempt[a].status = "executing"]
             more == <<Evt("executing", a), TurnEvt("recalled")>>
  <2>1. v \in View
    BY <1>0, ViewWith DEF SessionTypes, Status
  <2>2. more \in Seq(Event)
    <3>1. Evt("executing", a) \in Event /\ TurnEvt("recalled") \in Event
      BY EventTypes
    <3>2. QED
      BY <3>1
  <2>3. Commit(v, dirty \cup {a}, more, "recall")
    BY <1>1 DEF CallRecalls
  <2>4. TableTypes' /\ SessionTypes' /\ pc' \in Place
    <3> HIDE DEF v, more
    <3>1. dirty \cup {a} \in SUBSET Attempt /\ "recall" \in Place
      BY <1>0 DEF SessionTypes, Place
    <3>2. QED
      BY <1>0, <2>1, <2>2, <2>3, <3>1, CommitTypes
  <2>5. RunTypes'
    <3>1. staged' \subseteq Attempt /\ UNCHANGED <<taint, programs, failedLast>>
      BY <1>0, <1>1 DEF CallRecalls, RunTypes
    <3>2. QED
      BY <1>0, <3>1, Zenon DEF RunTypes
  <2>6. OtherTypes'
    BY <1>0, <1>1, <2>4 DEF CallRecalls, OtherTypes
  <2>7. QED
    BY <2>4, <2>5, <2>6, TypesSplit
<1>2. CASE RecallReturns(a)
  <2>1. PICK st \in {"succeeded", "failed"} :
          /\ view' = [view EXCEPT !.attempt[a].status = st]
          /\ Add(<<Evt(st, a)>>)
    BY <1>2 DEF RecallReturns
  <2>2. view' \in View
    BY <1>0, <2>1, ViewWith DEF SessionTypes, Status
  <2>3. Evt(st, a) \in Event
    BY EventTypes
  <2>4. SessionTypes'
    BY <1>0, <1>2, <2>1, <2>2, <2>3 DEF RecallReturns, Add, SessionTypes
  <2>5. RunTypes'
    <3>1. taint' \in BOOLEAN /\ UNCHANGED <<staged, programs, failedLast>>
      BY <1>0, <1>2, Zenon DEF RecallReturns, RunTypes
    <3>2. QED
      BY <1>0, <3>1, Zenon DEF RunTypes
  <2>6. OtherTypes' /\ TableTypes'
    BY <1>0, <1>2, Kept DEF RecallReturns, OtherTypes, Place
  <2>7. QED
    BY <2>4, <2>5, <2>6, TypesSplit
<1>3. QED
  BY <1>1, <1>2

(* A recall before the loop is an event of the turn. *)
LEMMA RecallForTurnTypes == TypeOK /\ RecallForTurn => TypeOK'
<1> SUFFICES ASSUME TypeOK, RecallForTurn PROVE TypeOK'
  OBVIOUS
<1>0. TableTypes /\ SessionTypes /\ RunTypes /\ OtherTypes
  BY TypesSplit
<1> DEFINE more == <<TurnEvt("recalled")>>
<1>1. more \in Seq(Event)
  <2>1. TurnEvt("recalled") \in Event
    BY EventTypes
  <2>2. QED
    BY <2>1
<1>2. Commit(view, dirty, more, "between")
  BY DEF RecallForTurn
<1>3. TableTypes' /\ SessionTypes' /\ pc' \in Place
  <2> HIDE DEF more
  <2>1. view \in View /\ dirty \in SUBSET Attempt /\ "between" \in Place
    BY <1>0 DEF SessionTypes, Place
  <2>2. QED
    BY <1>0, <1>1, <1>2, <2>1, CommitTypes
<1>4. RunTypes'
  BY <1>0, Kept DEF RecallForTurn
<1>5. OtherTypes'
  BY <1>0, <1>3 DEF RecallForTurn, OtherTypes
<1>6. QED
  BY <1>3, <1>4, <1>5, TypesSplit

(* What FailProgram commits. *)
VoidedView ==
  [view EXCEPT !.attempt = [a \in Attempt |->
                  IF a \in Voided THEN [@[a] EXCEPT !.status = "expired"] ELSE @[a]],
               !.approval = [a \in Attempt |->
                  IF a \in Voided /\ @[a] = "pending" THEN "expired" ELSE @[a]]]

(* Approvals a program's failure voids become expired, and no other. *)
LEMMA VoidedViewType ==
  view \in View =>
    /\ VoidedView \in View
    /\ VoidedView.approval = [a \in Attempt |->
         IF a \in Voided /\ view.approval[a] = "pending" THEN "expired" ELSE view.approval[a]]
    /\ VoidedView.attempt = [a \in Attempt |->
         IF a \in Voided THEN [view.attempt[a] EXCEPT !.status = "expired"]
         ELSE view.attempt[a]]
    /\ VoidedView.turn = view.turn /\ VoidedView.queued = view.queued
<1> SUFFICES ASSUME view \in View
             PROVE  /\ VoidedView \in View
                    /\ VoidedView.approval = [a \in Attempt |->
                         IF a \in Voided /\ view.approval[a] = "pending" THEN "expired"
                         ELSE view.approval[a]]
                    /\ VoidedView.attempt = [a \in Attempt |->
                         IF a \in Voided THEN [view.attempt[a] EXCEPT !.status = "expired"]
                         ELSE view.attempt[a]]
                    /\ VoidedView.turn = view.turn /\ VoidedView.queued = view.queued
  OBVIOUS
<1> DEFINE at == [a \in Attempt |->
                    IF a \in Voided THEN [view.attempt[a] EXCEPT !.status = "expired"]
                    ELSE view.attempt[a]]
           ap == [a \in Attempt |->
                    IF a \in Voided /\ view.approval[a] = "pending" THEN "expired"
                    ELSE view.approval[a]]
<1>1. VoidedView = [view EXCEPT !.attempt = at, !.approval = ap]
  BY DEF VoidedView
<1>2. at \in [Attempt -> AttemptRow]
  BY DEF View, AttemptRow, Status
<1>3. ap \in [Attempt -> ApprovalStatus]
  BY DEF View, ApprovalStatus
<1>4. QED
  <2> HIDE DEF at, ap
  <2>1. /\ VoidedView \in View /\ VoidedView.approval = ap /\ VoidedView.attempt = at
        /\ VoidedView.turn = view.turn /\ VoidedView.queued = view.queued
    BY <1>1, <1>2, <1>3 DEF View
  <2>2. QED
    BY <2>1 DEF at, ap

(* The event of a voided approval names attempts. *)
LEMMA VoidEventType ==
  ASSUME staged \subseteq Attempt
  PROVE  VoidEvent \in Seq(Event) /\ Voided \subseteq Attempt
<1>1. Voided \subseteq Attempt
  BY DEF Voided
<1>2. [type |-> "expired", of |-> Voided] \in Event
  BY <1>1, EventTypes
<1>3. QED
  BY <1>1, <1>2 DEF VoidEvent

(* A program ends or fails, or the loop finishes. *)
LEMMA EndTypes == TypeOK /\ (EndProgram \/ FailProgram \/ Finish) => TypeOK'
<1> SUFFICES ASSUME TypeOK, EndProgram \/ FailProgram \/ Finish PROVE TypeOK'
  OBVIOUS
<1>0. TableTypes /\ SessionTypes /\ RunTypes /\ OtherTypes
  BY TypesSplit
<1>1. PICK v \in View, d \in SUBSET Attempt, more \in Seq(Event), next \in Place :
        Commit(v, d, more, next)
  <2>m. <<TurnEvt("model")>> \in Seq(Event) /\ <<TurnEvt("turn_completed")>> \in Seq(Event)
        /\ <<TurnEvt("turn_failed")>> \in Seq(Event)
    <3>1. /\ TurnEvt("model") \in Event /\ TurnEvt("turn_completed") \in Event
          /\ TurnEvt("turn_failed") \in Event
      BY EventTypes
    <3>2. QED
      BY <3>1
  <2>d. dirty \in SUBSET Attempt /\ view \in View
    BY <1>0 DEF SessionTypes
  <2>1. CASE EndProgram
    <3>1. PICK next \in {"between", "ending"} :
            Commit(view, dirty, <<TurnEvt("model")>>, next)
      BY <2>1 DEF EndProgram
    <3>2. next \in Place
      BY DEF Place
    <3>3. QED
      BY <2>m, <2>d, <3>1, <3>2
  <2>2. CASE FailProgram
    <3>1. Commit(VoidedView, dirty \cup Voided, <<TurnEvt("model")>> \o VoidEvent, "between")
      BY <2>2 DEF FailProgram, VoidedView
    <3>2. staged \subseteq Attempt
      BY <1>0 DEF RunTypes
    <3>3. VoidEvent \in Seq(Event) /\ Voided \subseteq Attempt
      BY <3>2, VoidEventType
    <3>4. <<TurnEvt("model")>> \o VoidEvent \in Seq(Event)
      BY <2>m, <3>3
    <3>5. VoidedView \in View
      BY <2>d, VoidedViewType
    <3>6. dirty \cup Voided \in SUBSET Attempt /\ "between" \in Place
      BY <2>d, <3>3 DEF Place
    <3>7. QED
      BY <3>1, <3>4, <3>5, <3>6
  <2>3. CASE Finish
    <3>1. [view EXCEPT !.turn = "completed"] \in View /\ [view EXCEPT !.turn = "failed"] \in View
      BY <2>d DEF View, TurnStatus
    <3>2. "idle" \in Place
      BY DEF Place
    <3>3. QED
      BY <2>3, <2>m, <2>d, <3>1, <3>2 DEF Finish
  <2>4. QED
    BY <2>1, <2>2, <2>3
<1>2. TableTypes' /\ SessionTypes' /\ pc' \in Place
  BY <1>0, <1>1, CommitTypes
<1>3. OtherTypes'
  BY <1>0, <1>2 DEF EndProgram, FailProgram, Finish, run, OtherTypes
<1>4. RunTypes'
  <2>1. CASE Finish
    BY <1>0, <2>1, Kept DEF Finish
  <2>2. CASE EndProgram \/ FailProgram
    BY <1>0, <2>2, Zenon DEF EndProgram, FailProgram, RunTypes
  <2>3. QED
    BY <2>1, <2>2
<1>5. QED
  BY <1>2, <1>3, <1>4, TypesSplit

(* Every decision writes one row and adds events. *)
LEMMA UserResolves ==
  ASSUME NEW a \in Attempt, User(a)
  PROVE  \E ap \in ApprovalStatus, st \in Status, log \in Seq(Event) :
           log # <<>> /\ Resolve(a, ap, st, log)
<1>1. /\ Evt("expired", a) \in Event /\ Evt("denied", a) \in Event
      /\ Evt("failed", a) \in Event /\ Evt("approved", a) \in Event
      /\ Evt("executing", a) \in Event
  BY EventTypes
<1>2. ASSUME NEW e \in Event, NEW g \in Event
      PROVE  <<e>> \in Seq(Event) /\ <<e>> # <<>> /\ <<e, g>> \in Seq(Event) /\ <<e, g>> # <<>>
  OBVIOUS
<1>3. /\ {"expired", "denied", "approved"} \subseteq ApprovalStatus
      /\ {"expired", "denied", "failed", "executing"} \subseteq Status
  BY DEF ApprovalStatus, Status
<1>4. CASE DecideLate(a)
  BY <1>1, <1>2, <1>3, <1>4, Zenon DEF DecideLate
<1>5. CASE Deny(a)
  BY <1>1, <1>2, <1>3, <1>5, Zenon DEF Deny
<1>6. CASE ApproveInvalid(a)
  BY <1>1, <1>2, <1>3, <1>6, Zenon DEF ApproveInvalid
<1>7. CASE ApproveUnexecutable(a)
  BY <1>1, <1>2, <1>3, <1>7, Zenon DEF ApproveUnexecutable
<1>8. CASE Approve(a)
  BY <1>1, <1>2, <1>3, <1>8, Zenon DEF Approve
<1>9. QED
  BY <1>4, <1>5, <1>6, <1>7, <1>8 DEF User

(* One event appended. *)
LEMMA AppendIsConcat ==
  ASSUME NEW s \in Seq(Event), NEW e \in Event
  PROVE  Append(s, e) = s \o <<e>> /\ <<e>> \in Seq(Event) /\ <<e>> # <<>>
  OBVIOUS

(* The user, the execution worker and the sweep act beside the loop. *)
LEMMA OthersTypes ==
  ASSUME TypeOK, ReconcileExpired \/ \E a \in Attempt : User(a) \/ Execute(a) \/ Lapse(a)
  PROVE  TypeOK'
<1>0. TableTypes /\ SessionTypes /\ RunTypes /\ OtherTypes
  BY TypesSplit
<1>1. CASE ReconcileExpired
  <2>1. Expirable \subseteq Attempt
    BY DEF Expirable
  <2>2. [type |-> "expired", of |-> Expirable] \in Event
    BY <2>1, EventTypes
  <2>3. TableTypes'
    <3>1. approval' \in [Attempt -> ApprovalStatus]
      BY <1>0, <1>1 DEF ReconcileExpired, TableTypes, ApprovalStatus
    <3>2. attempt' \in [Attempt -> AttemptRow]
      BY <1>0, <1>1 DEF ReconcileExpired, TableTypes, AttemptRow, Status
    <3>3. events' \in Seq(Event)
      BY <1>0, <1>1, <2>2 DEF ReconcileExpired, TableTypes
    <3>4. QED
      BY <1>0, <1>1, <3>1, <3>2, <3>3 DEF ReconcileExpired, TableTypes
  <2>4. SessionTypes' /\ RunTypes' /\ OtherTypes'
    BY <1>0, <1>1, Kept DEF ReconcileExpired, worker, OtherTypes
  <2>5. QED
    BY <2>3, <2>4, TypesSplit
<1>2. CASE \E a \in Attempt : User(a)
  <2>1. PICK a \in Attempt : User(a)
    BY <1>2
  <2>2. PICK ap \in ApprovalStatus, st \in Status, log \in Seq(Event) :
          Resolve(a, ap, st, log)
    BY <2>1, UserResolves
  <2>3. execTask' \subseteq Attempt
    BY <1>0, <2>1 DEF User, DecideLate, Deny, ApproveInvalid, ApproveUnexecutable, Approve,
                      TableTypes
  <2>4. TableTypes'
    <3>1. /\ turn' \in TurnStatus /\ attempt' \in [Attempt -> AttemptRow]
          /\ approval' \in [Attempt -> ApprovalStatus] /\ events' \in Seq(Event)
      BY <1>0, <2>2, ResolveTypes
    <3>2. QED
      BY <2>3, <3>1 DEF TableTypes
  <2>5. SessionTypes' /\ RunTypes' /\ OtherTypes'
    BY <1>0, <2>2, Kept DEF Resolve, worker, OtherTypes
  <2>6. QED
    BY <2>4, <2>5, TypesSplit
<1>3. CASE \E a \in Attempt : Execute(a)
  <2>1. PICK a \in Attempt : Execute(a)
    BY <1>3
  <2>2. TableTypes'
    <3>1. PICK st \in {"succeeded", "failed"} :
            \/ /\ attempt' = [attempt EXCEPT ![a].status = st]
               /\ events' = Append(events, Evt(st, a))
            \/ UNCHANGED <<attempt, events>>
      BY <2>1 DEF Execute
    <3>2. Evt(st, a) \in Event
      BY EventTypes
    <3>3. attempt' \in [Attempt -> AttemptRow]
      BY <1>0, <3>1 DEF TableTypes, AttemptRow, Status
    <3>4. events' \in Seq(Event)
      BY <1>0, <3>1, <3>2 DEF TableTypes
    <3>5. QED
      BY <1>0, <2>1, <3>3, <3>4 DEF Execute, TableTypes
  <2>3. SessionTypes' /\ RunTypes' /\ OtherTypes'
    BY <1>0, <2>1, Kept DEF Execute, worker, OtherTypes
  <2>4. QED
    BY <2>2, <2>3, TypesSplit
<1>4. CASE \E a \in Attempt : Lapse(a)
  <2>1. TableTypes' /\ SessionTypes' /\ RunTypes' /\ OtherTypes'
    BY <1>0, <1>4, Kept DEF Lapse, worker, OtherTypes
  <2>2. QED
    BY <2>1, TypesSplit
<1>5. QED
  BY <1>1, <1>2, <1>3, <1>4

(* Each step keeps the types. *)
LEMMA StepTypes == TypeOK /\ [Next]_vars => TypeOK'
<1> SUFFICES ASSUME TypeOK, [Next]_vars PROVE TypeOK'
  OBVIOUS
<1>1. CASE Run
  <2>1. CASE \E a \in Attempt : CallDenied(a) \/ CallFails(a) \/ CallNeedsApproval(a)
                                \/ CallReturns(a)
    BY <2>1, CallTypes
  <2>2. CASE \E a \in Attempt : CallQueues(a)
    BY <2>2, QueueTypes
  <2>3. CASE \E a \in Attempt : CallRecalls(a) \/ RecallReturns(a)
    BY <2>3, RecallTypes
  <2>4. CASE RecallForTurn
    BY <2>4, RecallForTurnTypes
  <2>5. QED
    BY <1>1, <2>1, <2>2, <2>3, <2>4, StartTypes, BetweenTypes, EndTypes DEF Run
<1>2. CASE Crash
  BY <1>2, BetweenTypes
<1>3. CASE ReconcileExpired \/ \E a \in Attempt : User(a) \/ Execute(a) \/ Lapse(a)
  BY <1>3, OthersTypes
<1>4. CASE UNCHANGED vars
  <2>1. TableTypes' /\ SessionTypes' /\ RunTypes' /\ OtherTypes'
    <3>1. UNCHANGED tables /\ UNCHANGED session /\ UNCHANGED run
          /\ UNCHANGED <<turnTask, lapsed, pc, influenced>>
      BY <1>4 DEF vars, tables, session, run
    <3>2. QED
      BY <3>1, TypesSplit, Kept DEF OtherTypes
  <2>2. QED
    BY <2>1, TypesSplit
<1>5. QED
  BY <1>1, <1>2, <1>3, <1>4 DEF Next

(* Tables and session keep their types, and a task that is there has runs    *)
(* left, whatever the worker, the API and the clock do.                      *)
THEOREM TypeCorrect == Spec => []TypeOK
<1>1. QED
  BY InitTypes, StepTypes, PTL DEF Spec
-----------------------------------------------------------------------------
(***************************************************************************)
(* A decision is final.  The session may hold an old view, but only after   *)
(* somebody else added an event; its own events are then numbered from too  *)
(* low a place and its commit fails.  Invariant: as long as the session's   *)
(* numbers fit the table, its view has every decision.                      *)
(***************************************************************************)
Active == pc \in {"between", "program", "recall", "ending"}

Base == sequence - Len(fresh)

ViewOrdered ==
  \A a \in Attempt : view.approval[a] # "none" => view.attempt[a].status # "none"

SessionInv ==
  /\ ViewOrdered
  /\ Active => Base <= Len(events)
  /\ Active /\ Base = Len(events) =>
       \A a \in Attempt : approval[a] \in Decided => view.approval[a] = approval[a]
  /\ Len(events) = 0 => \A a \in Attempt : approval[a] \notin Decided

DecisionStep == \A a \in Attempt : approval[a] \in Decided => approval'[a] = approval[a]

(* No session is open at first. *)
LEMMA InitSession == Init => SessionInv
  BY DEF Init, SessionInv, ViewOrdered, Active, EmptyView, NoApprovals, Decided

(* A commit that goes through changes no decision made elsewhere. *)
LEMMA CommitDecides ==
  ASSUME TypeOK, SessionInv, Active,
         NEW v \in View, NEW d \in SUBSET Attempt, NEW more \in Seq(Event), NEW next,
         more # <<>>, Commit(v, d, more, next),
         \A a \in Attempt : v.approval[a] # "none" => v.attempt[a].status # "none",
         \A a \in Attempt : view.approval[a] \in Decided => v.approval[a] = view.approval[a],
         \A a \in Attempt \ d : v.approval[a] = view.approval[a]
  PROVE  SessionInv' /\ DecisionStep
<1>0. /\ events \in Seq(Event) /\ fresh \in Seq(Event) /\ sequence \in Nat
      /\ approval \in [Attempt -> ApprovalStatus]
      /\ v.approval \in [Attempt -> ApprovalStatus]
  BY DEF TypeOK, View
<1>1. PICK f \in Seq(Event) :
        /\ f = fresh \o more /\ f # <<>>
        /\ Len(f) = Len(fresh) + Len(more) /\ Len(more) \in Nat /\ Len(more) # 0
        /\ Len(fresh) \in Nat /\ Len(events) \in Nat
  <2>1. fresh \o more \in Seq(Event)
    BY <1>0
  <2>2. /\ Len(fresh \o more) = Len(fresh) + Len(more) /\ Len(more) \in Nat
        /\ Len(more) # 0 /\ Len(fresh) \in Nat /\ Len(events) \in Nat
    BY <1>0
  <2>3. fresh \o more # <<>>
    BY <1>0, <2>2
  <2>4. QED
    BY <2>1, <2>2, <2>3, Zenon
<1>2. /\ view'.approval = v.approval /\ view'.attempt = v.attempt
      /\ fresh' = <<>> /\ sequence' = sequence + Len(more)
  BY DEF Commit, View
<1>3. ViewOrdered'
  BY <1>2 DEF ViewOrdered
<1>4. CASE pc' = "raised" /\ UNCHANGED tables
  BY <1>3, <1>4 DEF SessionInv, Active, DecisionStep, tables
<1>5. CASE /\ (sequence + Len(more)) - Len(f) = Len(events)
           /\ approval' = [a \in Attempt |-> IF a \in d THEN v.approval[a] ELSE approval[a]]
           /\ events' = events \o f
  <2>1. Base = Len(events)
    <3>1. (sequence + Len(more)) - Len(f) = sequence - Len(fresh)
      BY <1>0, <1>1
    <3>2. QED
      BY <1>5, <3>1 DEF Base
  <2>2. \A a \in Attempt : approval[a] \in Decided => view.approval[a] = approval[a]
    BY <2>1 DEF SessionInv
  <2>3. DecisionStep
    BY <1>5, <2>2 DEF DecisionStep
  <2>4. \A a \in Attempt : approval'[a] \in Decided => view'.approval[a] = approval'[a]
    <3> SUFFICES ASSUME NEW a \in Attempt, approval'[a] \in Decided
                 PROVE  view'.approval[a] = approval'[a]
      OBVIOUS
    <3>1. CASE a \in d
      BY <1>2, <1>5, <3>1
    <3>2. CASE a \notin d
      BY <1>2, <1>5, <2>2, <3>2
    <3>3. QED
      BY <3>1, <3>2
  <2>5. Len(events') = Len(events) + Len(fresh) + Len(more)
    <3>1. Len(events') = Len(events) + Len(f)
      BY <1>0, <1>1, <1>5
    <3>2. QED
      BY <1>1, <3>1
  <2>6. Base' = Len(events') /\ Len(events') # 0
    BY <1>0, <1>1, <1>2, <2>1, <2>5 DEF Base
  <2>7. QED
    BY <1>0, <1>1, <1>3, <2>3, <2>4, <2>5, <2>6 DEF SessionInv
<1>6. QED
  <2>1. Save(v, d, f, sequence + Len(more), next)
    BY <1>1 DEF Commit
  <2>2. \/ pc' = "raised" /\ UNCHANGED tables
        \/ /\ (sequence + Len(more)) - Len(f) = Len(events)
           /\ approval' = [a \in Attempt |-> IF a \in d THEN v.approval[a] ELSE approval[a]]
           /\ events' = events \o f
    BY <1>1, <2>1, Zenon DEF Save
  <2>3. QED
    BY <1>4, <1>5, <2>2

(* Steps that leave the tables alone and only add to the session. *)
LEMMA AddDecides ==
  ASSUME TypeOK, SessionInv, Active, UNCHANGED tables, ViewOrdered',
         NEW more \in Seq(Event), Add(more),
         \A a \in Attempt : view.approval[a] \in Decided => view'.approval[a] = view.approval[a]
  PROVE  SessionInv' /\ DecisionStep
<1>1. Base' = Base
  <2>1. /\ fresh \in Seq(Event) /\ sequence \in Nat
    BY DEF TypeOK
  <2>2. Len(fresh \o more) = Len(fresh) + Len(more) /\ Len(more) \in Nat /\ Len(fresh) \in Nat
    BY <2>1
  <2>3. QED
    BY <2>1, <2>2 DEF Add, Base
<1>2. QED
  BY <1>1 DEF SessionInv, DecisionStep, tables

(* Steps of others: an event more, and the session as it was. *)
LEMMA OtherDecides ==
  ASSUME TypeOK, SessionInv, UNCHANGED <<pc, view, fresh, sequence>>,
         NEW log \in Seq(Event), log # <<>>, events' = events \o log, DecisionStep
  PROVE  SessionInv'
<1>1. /\ events \in Seq(Event) /\ sequence \in Nat /\ fresh \in Seq(Event)
  BY DEF TypeOK
<1>2. /\ Len(events') = Len(events) + Len(log) /\ Len(log) \in Nat /\ Len(log) # 0
      /\ Len(events) \in Nat /\ Len(fresh) \in Nat
  BY <1>1
<1>3. ViewOrdered' /\ Base' = Base /\ (Active' <=> Active) /\ Base \in Int
  BY <1>1 DEF SessionInv, ViewOrdered, Base, Active
<1>4. QED
  BY <1>2, <1>3 DEF SessionInv
(* A call changes the view only of an attempt the session had not seen. *)
LEMMA ProposeDecides ==
  ASSUME TypeOK, SessionInv, NEW a \in Attempt,
         \/ CallDenied(a) \/ CallFails(a) \/ CallNeedsApproval(a) \/ CallReturns(a)
         \/ CallQueues(a)
  PROVE  SessionInv' /\ DecisionStep
<1>1. /\ view \in View /\ TableTypes /\ SessionTypes
  BY TypesSplit DEF SessionTypes
<1>2. Active /\ view.attempt[a].status = "none" /\ view.approval[a] = "none"
  BY DEF CallDenied, CallFails, CallNeedsApproval, CallReturns, CallQueues, Calling, Active,
         SessionInv, ViewOrdered
<1>3. /\ UNCHANGED tables
      /\ \E type \in {"proposed", "failed", "requested", "succeeded", "executing"} :
           Add(<<Evt(type, a)>>)
      /\ view'.attempt[a].status # "none"
      /\ \A b \in Attempt \ {a} : /\ view'.approval[b] = view.approval[b]
                                  /\ view'.attempt[b] = view.attempt[b]
  <2>1. ASSUME NEW st \in {"rejected", "failed", "awaiting_approval", "succeeded"}, NEW esc,
               NEW ap, NEW type \in {"proposed", "failed", "requested", "succeeded"},
               Propose(a, st, esc, ap, type)
        PROVE  /\ UNCHANGED tables
               /\ \E typ \in {"proposed", "failed", "requested", "succeeded", "executing"} :
                    Add(<<Evt(typ, a)>>)
               /\ view'.attempt[a].status # "none"
               /\ \A b \in Attempt \ {a} : /\ view'.approval[b] = view.approval[b]
                                           /\ view'.attempt[b] = view.attempt[b]
    <3>1. UNCHANGED tables /\ Add(<<Evt(type, a)>>)
      BY <2>1 DEF Propose
    <3>2. view' = [view EXCEPT !.attempt = [view.attempt EXCEPT ![a] =
                                               [status |-> st, escalated |-> esc]],
                               !.approval = [view.approval EXCEPT ![a] = ap]]
      BY <1>1, <2>1 DEF Propose, View
    <3>3. /\ view'.attempt = [view.attempt EXCEPT ![a] = [status |-> st, escalated |-> esc]]
          /\ view'.approval = [view.approval EXCEPT ![a] = ap]
      BY <1>1, <3>2 DEF View
    <3>4. QED
      BY <1>1, <3>1, <3>3 DEF View
  <2>2. CASE CallQueues(a)
    BY <1>1, <2>2 DEF CallQueues, View
  <2>3. CASE CallDenied(a)
    BY <2>1, <2>3 DEF CallDenied
  <2>4. CASE CallFails(a)
    BY <2>1, <2>4 DEF CallFails
  <2>5. CASE CallNeedsApproval(a)
    <3>1. PICK esc : Propose(a, "awaiting_approval", esc, "pending", "requested")
      BY <2>5 DEF CallNeedsApproval
    <3>2. QED
      BY <2>1, <3>1
  <2>6. CASE CallReturns(a)
    BY <2>1, <2>6 DEF CallReturns
  <2>7. QED
    BY <2>2, <2>3, <2>4, <2>5, <2>6
<1>4. ViewOrdered'
  BY <1>3 DEF SessionInv, ViewOrdered
<1>5. \A b \in Attempt : view.approval[b] \in Decided => view'.approval[b] = view.approval[b]
  BY <1>2, <1>3 DEF Decided
<1>6. PICK more \in Seq(Event) : Add(more)
  <2>1. \A type \in {"proposed", "failed", "requested", "succeeded", "executing"} :
          <<Evt(type, a)>> \in Seq(Event)
    BY EventTypes
  <2>2. QED
    BY <1>3, <2>1
<1>7. QED
  BY <1>2, <1>3, <1>4, <1>5, <1>6, AddDecides

(* A recall decides nothing. *)
LEMMA RecallDecides ==
  ASSUME TypeOK, SessionInv, NEW a \in Attempt, CallRecalls(a) \/ RecallReturns(a)
  PROVE  SessionInv' /\ DecisionStep
<1>1. view \in View /\ dirty \subseteq Attempt
  BY TypesSplit DEF SessionTypes
<1>2. Active
  BY DEF CallRecalls, RecallReturns, Calling, Active
<1>3. ASSUME NEW st \in {"executing", "succeeded", "failed"}
      PROVE  LET v == [view EXCEPT !.attempt[a].status = st] IN
             /\ v \in View
             /\ v.approval = view.approval
             /\ \A b \in Attempt : v.approval[b] # "none" => v.attempt[b].status # "none"
  <2> DEFINE v == [view EXCEPT !.attempt[a].status = st]
  <2>1. v \in View
    BY <1>1, ViewWith DEF Status
  <2>2. v.approval = view.approval
    BY <1>1 DEF View
  <2>3. \A b \in Attempt : v.attempt[b].status = IF b = a THEN st ELSE view.attempt[b].status
    BY <1>1 DEF View, AttemptRow
  <2>4. QED
    BY <2>1, <2>2, <2>3 DEF SessionInv, ViewOrdered
<1>4. CASE CallRecalls(a)
  <2> DEFINE v == [view EXCEPT !.attempt[a].status = "executing"]
             more == <<Evt("executing", a), TurnEvt("recalled")>>
  <2>1. Commit(v, dirty \cup {a}, more, "recall")
    BY <1>4 DEF CallRecalls
  <2>2. more \in Seq(Event) /\ more # <<>>
    <3>1. Evt("executing", a) \in Event /\ TurnEvt("recalled") \in Event
      BY EventTypes
    <3>2. QED
      BY <3>1
  <2>3. /\ v \in View
        /\ v.approval = view.approval
        /\ \A b \in Attempt : v.approval[b] # "none" => v.attempt[b].status # "none"
    BY <1>3
  <2>4. dirty \cup {a} \in SUBSET Attempt
    BY <1>1
  <2>5. QED
    <3> HIDE DEF v, more
    <3>1. QED
      BY <1>2, <2>1, <2>2, <2>3, <2>4, CommitDecides
<1>5. CASE RecallReturns(a)
  <2>1. PICK st \in {"succeeded", "failed"} :
          /\ view' = [view EXCEPT !.attempt[a].status = st]
          /\ Add(<<Evt(st, a)>>)
    BY <1>5 DEF RecallReturns
  <2>2. view'.approval = view.approval /\ ViewOrdered'
    BY <1>3, <2>1 DEF ViewOrdered
  <2>3. <<Evt(st, a)>> \in Seq(Event)
    BY EventTypes
  <2>4. UNCHANGED tables
    BY <1>5 DEF RecallReturns
  <2>5. QED
    BY <1>2, <2>1, <2>2, <2>3, <2>4, AddDecides
<1>6. QED
  BY <1>4, <1>5

(* Commits of the view as it is. *)
LEMMA PlainCommitDecides ==
  TypeOK /\ SessionInv /\ (RecallForTurn \/ EndProgram \/ Finish) => SessionInv' /\ DecisionStep
<1> SUFFICES ASSUME TypeOK, SessionInv, RecallForTurn \/ EndProgram \/ Finish
             PROVE  SessionInv' /\ DecisionStep
  OBVIOUS
<1>1. view \in View /\ dirty \in SUBSET Attempt
  BY TypesSplit DEF SessionTypes
<1>2. Active
  BY DEF RecallForTurn, EndProgram, Finish, Active
<1>3. PICK v \in View, type \in {"recalled", "model", "turn_completed", "turn_failed"},
           next \in Place :
        /\ Commit(v, dirty, <<TurnEvt(type)>>, next)
        /\ v.approval = view.approval /\ v.attempt = view.attempt
  <2>1. CASE RecallForTurn
    BY <1>1, <2>1 DEF RecallForTurn, Place
  <2>2. CASE EndProgram
    BY <1>1, <2>2 DEF EndProgram, Place
  <2>3. CASE Finish
    <3>1. \A t \in {"completed", "failed"} :
            LET v == [view EXCEPT !.turn = t] IN
            v \in View /\ v.approval = view.approval /\ v.attempt = view.attempt
      BY <1>1 DEF View, TurnStatus
    <3>2. QED
      BY <2>3, <3>1 DEF Finish, Place
  <2>4. QED
    BY <2>1, <2>2, <2>3
<1>4. <<TurnEvt(type)>> \in Seq(Event) /\ <<TurnEvt(type)>> # <<>>
  <2>1. TurnEvt(type) \in Event
    BY EventTypes
  <2>2. QED
    BY <2>1
<1>5. PICK more \in Seq(Event) : more # <<>> /\ Commit(v, dirty, more, next)
  BY <1>3, <1>4
<1>6. \A a \in Attempt : v.approval[a] # "none" => v.attempt[a].status # "none"
  BY <1>3 DEF SessionInv, ViewOrdered
<1>7. QED
  BY <1>1, <1>2, <1>3, <1>5, <1>6, CommitDecides

(* Voiding changes the view only of pending approvals. *)
LEMMA VoidDecides == TypeOK /\ SessionInv /\ FailProgram => SessionInv' /\ DecisionStep
<1> SUFFICES ASSUME TypeOK, SessionInv, FailProgram
             PROVE  SessionInv' /\ DecisionStep
  OBVIOUS
<1>1. view \in View /\ dirty \in SUBSET Attempt /\ staged \subseteq Attempt
  BY TypesSplit DEF SessionTypes, RunTypes
<1>2. Active
  BY DEF FailProgram, Active
<1>3. VoidEvent \in Seq(Event) /\ Voided \subseteq Attempt
  BY <1>1, VoidEventType
<1>4. PICK more \in Seq(Event) :
        more # <<>> /\ Commit(VoidedView, dirty \cup Voided, more, "between")
  <2>1. TurnEvt("model") \in Event
    BY EventTypes
  <2>2. <<TurnEvt("model")>> \o VoidEvent \in Seq(Event)
        /\ <<TurnEvt("model")>> \o VoidEvent # <<>>
    BY <1>3, <2>1
  <2>3. Commit(VoidedView, dirty \cup Voided, <<TurnEvt("model")>> \o VoidEvent, "between")
    BY DEF FailProgram, VoidedView
  <2>4. QED
    BY <2>2, <2>3
<1>5. /\ VoidedView \in View
      /\ VoidedView.approval = [a \in Attempt |->
           IF a \in Voided /\ view.approval[a] = "pending" THEN "expired" ELSE view.approval[a]]
      /\ VoidedView.attempt = [a \in Attempt |->
           IF a \in Voided THEN [view.attempt[a] EXCEPT !.status = "expired"]
           ELSE view.attempt[a]]
  BY <1>1, VoidedViewType
<1>6. \A a \in Attempt : VoidedView.approval[a] # "none" => VoidedView.attempt[a].status # "none"
  <2>1. \A a \in Attempt : view.attempt[a] \in AttemptRow
    BY <1>1 DEF View
  <2>2. \A a \in Voided : VoidedView.attempt[a].status = "expired"
    BY <1>3, <1>5, <2>1 DEF AttemptRow
  <2>3. \A a \in Attempt \ Voided : VoidedView.attempt[a] = view.attempt[a]
                                    /\ VoidedView.approval[a] = view.approval[a]
    BY <1>5
  <2>4. QED
    BY <2>2, <2>3 DEF SessionInv, ViewOrdered
<1>7. \A a \in Attempt : view.approval[a] \in Decided => VoidedView.approval[a] = view.approval[a]
  BY <1>5 DEF Decided
<1>8. \A a \in Attempt \ (dirty \cup Voided) : VoidedView.approval[a] = view.approval[a]
  BY <1>5
<1>9. dirty \cup Voided \in SUBSET Attempt
  BY <1>1, <1>3
<1>10. QED
  BY <1>2, <1>4, <1>5, <1>6, <1>7, <1>8, <1>9, CommitDecides

(* Steps that neither propose nor commit decide nothing. *)
LEMMA ControlDecides ==
  ASSUME TypeOK, SessionInv,
         \/ StartTurn \/ FailInterrupted \/ SettleTurn \/ FailTask \/ Crash \/ BeginProgram
         \/ GiveUp \/ FailProgramAgain \/ Raise \/ (\E a \in Attempt : Lapse(a))
         \/ UNCHANGED vars
  PROVE  SessionInv' /\ DecisionStep
<1>0. /\ events \in Seq(Event) /\ Len(events) \in Nat
      /\ fresh \in Seq(Event) /\ Len(fresh) \in Nat /\ sequence \in Nat
  BY DEF TypeOK
<1>1. CASE StartTurn
  <2>1. /\ UNCHANGED tables /\ ViewOrdered'
        /\ view'.approval = NoApprovals
    BY <1>1 DEF StartTurn, ViewOrdered, EmptyView, NoApprovals
  <2>2. Base' = 0
    BY <1>1 DEF StartTurn, Base
  <2>3. QED
    BY <1>0, <2>1, <2>2 DEF SessionInv, DecisionStep, tables
<1>2. CASE FailInterrupted
  <2>1. <<TurnEvt("turn_failed")>> \in Seq(Event)
    BY EventTypes
  <2>2. events' = events \o <<TurnEvt("turn_failed")>>
    BY <1>0, <1>2, <2>1 DEF FailInterrupted
  <2>3. UNCHANGED <<pc, view, fresh, sequence>> /\ DecisionStep
    BY <1>2 DEF FailInterrupted, session, DecisionStep
  <2>4. PICK log \in Seq(Event) : log # <<>> /\ events' = events \o log
    BY <2>1, <2>2
  <2>5. QED
    BY <2>3, <2>4, OtherDecides
<1>3. CASE SettleTurn \/ FailTask \/ Crash
  <2>1. /\ UNCHANGED tables /\ ViewOrdered' /\ pc' = "idle"
    BY <1>3 DEF SettleTurn, FailTask, Crash, Close, ViewOrdered, EmptyView, NoApprovals
  <2>2. QED
    BY <2>1 DEF SessionInv, DecisionStep, tables, Active
<1>4. CASE BeginProgram
  <2>1. <<TurnEvt("model")>> \in Seq(Event)
    BY EventTypes
  <2>2. UNCHANGED <<tables, view>> /\ Add(<<TurnEvt("model")>>) /\ Active
    BY <1>4 DEF BeginProgram, Active
  <2>3. ViewOrdered'
    BY <2>2 DEF SessionInv, ViewOrdered
  <2>4. QED
    BY <2>1, <2>2, <2>3, AddDecides
<1>5. CASE GiveUp \/ FailProgramAgain \/ Raise \/ (\E a \in Attempt : Lapse(a)) \/ UNCHANGED vars
  <2>1. UNCHANGED <<tables, view, fresh, sequence>> /\ (Active' => Active)
    BY <1>5 DEF GiveUp, FailProgramAgain, Raise, Lapse, worker, vars, session, tables, Active
  <2>2. ViewOrdered' /\ Base' = Base
    BY <2>1 DEF SessionInv, ViewOrdered, Base
  <2>3. QED
    BY <2>1, <2>2 DEF SessionInv, DecisionStep, tables
<1>6. QED
  BY <1>1, <1>2, <1>3, <1>4, <1>5

(* Whoever decides or executes adds an event; the open approvals alone are   *)
(* decided.                                                                  *)
LEMMA OthersDecide ==
  ASSUME TypeOK, SessionInv, ReconcileExpired \/ \E a \in Attempt : User(a) \/ Execute(a)
  PROVE  SessionInv' /\ DecisionStep
<1>0. approval \in [Attempt -> ApprovalStatus] /\ events \in Seq(Event)
  BY DEF TypeOK
<1>1. CASE ReconcileExpired
  <2>1. [type |-> "expired", of |-> Expirable] \in Event
    BY EventTypes DEF Expirable
  <2>2. PICK log \in Seq(Event) : log # <<>> /\ events' = events \o log
    BY <1>0, <1>1, <2>1, AppendIsConcat, Zenon DEF ReconcileExpired
  <2>3. DecisionStep
    BY <1>1 DEF ReconcileExpired, DecisionStep, Expirable, Decided
  <2>4. UNCHANGED <<pc, view, fresh, sequence>>
    BY <1>1 DEF ReconcileExpired, worker, session
  <2>5. QED
    BY <2>2, <2>3, <2>4, OtherDecides
<1>2. CASE \E a \in Attempt : User(a)
  <2>1. PICK a \in Attempt : User(a)
    BY <1>2
  <2>2. PICK ap \in ApprovalStatus, st \in Status, log \in Seq(Event) :
          log # <<>> /\ Resolve(a, ap, st, log)
    BY <2>1, UserResolves
  <2>3. approval[a] = "pending"
    BY <2>1 DEF User, DecideLate, Deny, ApproveInvalid, ApproveUnexecutable, Approve, Open
  <2>4. approval' = [approval EXCEPT ![a] = ap] /\ events' = events \o log
        /\ UNCHANGED <<pc, view, fresh, sequence>>
    BY <2>2 DEF Resolve, worker, session
  <2>5. DecisionStep
    BY <1>0, <2>3, <2>4 DEF DecisionStep, Decided
  <2>6. QED
    BY <2>2, <2>4, <2>5, OtherDecides
<1>3. CASE \E a \in Attempt : Execute(a)
  <2>1. PICK a \in Attempt : Execute(a)
    BY <1>3
  <2>2. UNCHANGED <<approval, pc, view, fresh, sequence>> /\ DecisionStep /\ pc = "idle"
    BY <2>1 DEF Execute, worker, session, DecisionStep
  <2>3. CASE UNCHANGED events
    <3>1. ViewOrdered' /\ Base' = Base
      BY <2>2, <2>3 DEF SessionInv, ViewOrdered, Base
    <3>2. QED
      BY <2>2, <2>3, <3>1 DEF SessionInv, Active
  <2>4. CASE \E st \in {"succeeded", "failed"} : events' = Append(events, Evt(st, a))
    <3>1. Evt("succeeded", a) \in Event /\ Evt("failed", a) \in Event
      BY EventTypes
    <3>2. PICK log \in Seq(Event) : log # <<>> /\ events' = events \o log
      BY <1>0, <2>4, <3>1, AppendIsConcat, Zenon
    <3>3. QED
      BY <2>2, <3>2, OtherDecides
  <2>5. QED
    BY <2>1, <2>3, <2>4 DEF Execute
<1>4. QED
  BY <1>1, <1>2, <1>3

(* Each step keeps the invariant and the decisions. *)
LEMMA StepSession == TypeOK /\ SessionInv /\ [Next]_vars => SessionInv' /\ DecisionStep
<1> SUFFICES ASSUME TypeOK, SessionInv, [Next]_vars PROVE SessionInv' /\ DecisionStep
  OBVIOUS
<1>1. CASE Run
  <2>1. CASE \E a \in Attempt : CallDenied(a) \/ CallFails(a) \/ CallNeedsApproval(a)
                                \/ CallReturns(a) \/ CallQueues(a)
    BY <2>1, ProposeDecides
  <2>2. CASE \E a \in Attempt : CallRecalls(a) \/ RecallReturns(a)
    BY <2>2, RecallDecides
  <2>3. CASE RecallForTurn \/ EndProgram \/ Finish
    BY <2>3, PlainCommitDecides
  <2>4. QED
    BY <1>1, <2>1, <2>2, <2>3, VoidDecides, ControlDecides DEF Run
<1>2. CASE Crash \/ UNCHANGED vars \/ \E a \in Attempt : Lapse(a)
  BY <1>2, ControlDecides
<1>3. CASE ReconcileExpired \/ \E a \in Attempt : User(a) \/ Execute(a)
  BY <1>3, OthersDecide
<1>4. QED
  BY <1>1, <1>2, <1>3 DEF Next

(* A decision is final: whatever the running turn still holds of an approval *)
(* in its session, no later step changes one that was approved, denied or    *)
(* expired in the table.                                                     *)
THEOREM DecisionsAreFinal == Spec => DecisionsStand
<1>1. DecisionStep => [\A a \in Attempt : approval[a] \in Decided => approval'[a] = approval[a]]_vars
  BY DEF DecisionStep
<1>2. TypeOK /\ SessionInv /\ [Next]_vars => DecisionStep
  BY StepSession
<1>3. QED
  BY <1>1, InitTypes, InitSession, StepTypes, StepSession, PTL DEF Spec, DecisionsStand

-----------------------------------------------------------------------------
(***************************************************************************)
(* Tables, log and session tell one story.  Row by row: what an approval,   *)
(* its attempt and the events about them have to do with each other.  The   *)
(* tables are sound in this sense, and the session's view of them is; while *)
(* the session's numbers fit the log (InStep), the view differs from the    *)
(* tables only in attempts that the tables do not have yet, so that a       *)
(* commit which goes through leaves the tables as the view has them.        *)
(***************************************************************************)
InStep == Active /\ Base = Len(events)

Ends == {"succeeded", "failed"}

(* An attempt and its approval; infl: it was proposed under taint. *)
RowSound(a, row, ap, infl) ==
  /\ ap = "pending" <=> row.status = "awaiting_approval"
  /\ ap = "denied" <=> row.status = "denied"
  /\ ap = "approved" => row.status \in {"executing", "succeeded", "failed"}
  /\ ap = "expired" => row.status \in {"expired", "failed"}
  /\ row.status = "expired" => ap = "expired"
  /\ row.status \in {"executing", "succeeded"} =>
       /\ Policy[a] # "deny"
       /\ Policy[a] = "requires_approval" => ap = "approved"
       /\ infl /\ Impact[a] # "read" => ap = "approved" /\ Impact[a] = "write_reversible"
  /\ ap = "pending" /\ infl /\ Impact[a] # "read" => row.escalated
  /\ a \in Recalling => ap = "none"

Told(log, types, a) == \E i \in DOMAIN log : log[i].type \in types /\ a \in log[i].of
Once(log, types, a) ==
  \A i, j \in DOMAIN log :
    log[i].type \in types /\ a \in log[i].of /\ log[j].type \in types /\ a \in log[j].of
      => i = j

(* What a log says of an attempt with this status and approval. *)
LogSound(log, a, st, ap) ==
  /\ Once(log, Decided, a) /\ Once(log, {"requested"}, a) /\ Once(log, {"executing"}, a)
  /\ Once(log, Ends, a)
  /\ \A d \in Decided : Told(log, {d}, a) => ap = d
  /\ ap \in {"approved", "denied"} => Told(log, {ap}, a)
  /\ Told(log, {"requested"}, a) <=> ap # "none"
  /\ Told(log, {"executing"}, a) => st \in {"executing", "succeeded", "failed"}
  /\ Told(log, Ends, a) => st \in Ends

TablesSound == \A a \in Attempt :
  /\ RowSound(a, attempt[a], approval[a], a \in influenced)
  /\ LogSound(events, a, attempt[a].status, approval[a])
  /\ a \notin Recalling => (attempt[a].status = "executing" <=> a \in execTask)

ViewSound == \A a \in Attempt :
  /\ RowSound(a, view.attempt[a], view.approval[a], a \in influenced)
  /\ a \in view.queued <=> a \in dirty \ Recalling /\ view.attempt[a].status = "executing"

Asks(v, a) == v.attempt[a].status = "awaiting_approval"

(* The running turn holds one open question at most, of its last program. *)
AsksOnce == Active => \A a \in Attempt : Asks(view, a) =>
  /\ a \in staged /\ pc # "between"
  /\ \A b \in Attempt : Asks(view, b) => a = b

Known == Active =>
  /\ view.turn # "none"
  /\ \A a \in Attempt : attempt[a].status # "none" => view.attempt[a].status # "none"

FreshTables ==
  turn = "none" => attempt = NoAttempts /\ approval = NoApprovals /\ execTask = {}

Synced == InStep => \A a \in Attempt :
  /\ LogSound(events \o fresh, a, view.attempt[a].status, view.approval[a])
  /\ a \in dirty => approval[a] = "none" /\ (attempt[a].status = "none" \/ a \in Recalling)
  /\ a \notin dirty => approval[a] = view.approval[a] /\ attempt[a] = view.attempt[a]

LedgerInv ==
  /\ TablesSound /\ ViewSound /\ OneQuestion
  /\ AsksOnce /\ Known /\ FreshTables /\ Synced

-----------------------------------------------------------------------------
(* What one more event tells. *)
LEMMA AppendTells ==
  ASSUME NEW log \in Seq(Event), NEW e \in Event, NEW types, NEW a
  PROVE  LET more == Append(log, e) IN
         /\ Told(more, types, a) <=> Told(log, types, a) \/ (e.type \in types /\ a \in e.of)
         /\ Once(log, types, a) /\ ~(Told(log, types, a) /\ e.type \in types /\ a \in e.of)
              => Once(more, types, a)
<1> DEFINE more == Append(log, e)
<1>1. /\ more \in Seq(Event) /\ Len(more) = Len(log) + 1 /\ more[Len(log) + 1] = e
      /\ \A i \in DOMAIN log : more[i] = log[i]
      /\ \A i \in DOMAIN more : i \in DOMAIN log \/ i = Len(log) + 1
      /\ Len(log) + 1 \in DOMAIN more /\ \A i \in DOMAIN log : i \in DOMAIN more
  OBVIOUS
<1> HIDE DEF more
<1>2. Told(more, types, a) <=> Told(log, types, a) \/ (e.type \in types /\ a \in e.of)
  BY <1>1 DEF Told
<1>3. Once(log, types, a) /\ ~(Told(log, types, a) /\ e.type \in types /\ a \in e.of)
        => Once(more, types, a)
  BY <1>1 DEF Told, Once
<1>4. QED
  BY <1>2, <1>3 DEF more

(* An event about others tells nothing of an attempt. *)
LEMMA UntoldOf ==
  ASSUME NEW log \in Seq(Event), NEW e \in Event, NEW a, a \notin e.of, NEW st, NEW ap,
         LogSound(log, a, st, ap)
  PROVE  LogSound(Append(log, e), a, st, ap)
<1>1. \A types : /\ Told(Append(log, e), types, a) <=> Told(log, types, a)
                 /\ Once(log, types, a) => Once(Append(log, e), types, a)
  BY AppendTells
<1>2. QED
  BY <1>1, Zenon DEF LogSound

(* An event about a, and what becomes of a with it. *)
LEMMA ToldOf ==
  ASSUME NEW log \in Seq(Event), NEW e \in Event, NEW a, a \in e.of,
         NEW st, NEW ap, NEW st2, NEW ap2, LogSound(log, a, st, ap),
         e.type \in Decided => ap \notin Decided /\ ap2 = e.type,
         e.type \notin Decided => ap2 = ap \/ (ap \notin Decided /\ ap2 \notin {"approved", "denied"}),
         e.type = "requested" => ap = "none" /\ ap2 # "none",
         e.type # "requested" => (ap = "none" <=> ap2 = "none"),
         e.type = "executing" => st \notin {"executing", "succeeded", "failed"},
         e.type \in Ends => st \notin Ends,
         e.type = "executing" \/ st \in {"executing", "succeeded", "failed"}
           => st2 \in {"executing", "succeeded", "failed"},
         e.type \in Ends \/ st \in Ends => st2 \in Ends
  PROVE  LogSound(Append(log, e), a, st2, ap2)
<1> DEFINE more == Append(log, e)
<1>1. \A types : /\ Told(more, types, a) <=> Told(log, types, a) \/ e.type \in types
                 /\ Once(log, types, a) /\ ~(Told(log, types, a) /\ e.type \in types)
                      => Once(more, types, a)
  BY AppendTells
<1>2. Told(log, Decided, a) => ap \in Decided
  <2>1. Told(log, Decided, a) => \E d \in Decided : Told(log, {d}, a)
    BY DEF Told
  <2>2. QED
    BY <2>1 DEF LogSound
<1> HIDE DEF more
<1>3. Once(more, Decided, a)
  BY <1>1, <1>2 DEF LogSound
<1>4. Once(more, {"requested"}, a) /\ (Told(more, {"requested"}, a) <=> ap2 # "none")
  <2>1. Once(log, {"requested"}, a) /\ (Told(log, {"requested"}, a) <=> ap # "none")
    BY DEF LogSound
  <2>2. e.type \in {"requested"} <=> e.type = "requested"
    OBVIOUS
  <2>3. QED
    BY <1>1, <2>1, <2>2
<1>5. /\ Once(more, {"executing"}, a)
      /\ Told(more, {"executing"}, a) => st2 \in {"executing", "succeeded", "failed"}
  <2>1. /\ Once(log, {"executing"}, a)
        /\ Told(log, {"executing"}, a) => st \in {"executing", "succeeded", "failed"}
    BY DEF LogSound
  <2>2. e.type \in {"executing"} <=> e.type = "executing"
    OBVIOUS
  <2>3. QED
    BY <1>1, <2>1, <2>2
<1>6. Once(more, Ends, a) /\ (Told(more, Ends, a) => st2 \in Ends)
  BY <1>1 DEF LogSound
<1>7. \A d \in Decided : Told(more, {d}, a) => ap2 = d
  <2> SUFFICES ASSUME NEW d \in Decided, Told(more, {d}, a) PROVE ap2 = d
    OBVIOUS
  <2>1. CASE e.type = d
    BY <2>1
  <2>2. CASE e.type # d
    <3>1. Told(log, {d}, a)
      BY <1>1, <2>2
    <3>2. ap = d
      BY <3>1 DEF LogSound
    <3>3. QED
      BY <3>2
  <2>3. QED
    BY <2>1, <2>2
<1>8. ap2 \in {"approved", "denied"} => Told(more, {ap2}, a)
  <2> SUFFICES ASSUME ap2 \in {"approved", "denied"} PROVE Told(more, {ap2}, a)
    OBVIOUS
  <2>1. CASE e.type \in Decided
    BY <1>1, <2>1
  <2>2. CASE e.type \notin Decided
    BY <1>1, <2>2 DEF LogSound
  <2>3. QED
    BY <2>1, <2>2
<1>9. QED
  BY <1>3, <1>4, <1>5, <1>6, <1>7, <1>8 DEF LogSound, more

(* A commit goes through only while the session is in step. *)
LEMMA CommitWrites ==
  ASSUME TypeOK, Active, NEW v, NEW d, NEW more \in Seq(Event), more # <<>>, NEW next,
         Commit(v, d, more, next)
  PROVE  \/ pc' = "raised" /\ UNCHANGED tables
         \/ /\ InStep
            /\ turn' = v.turn
            /\ attempt' = [a \in Attempt |-> IF a \in d THEN v.attempt[a] ELSE attempt[a]]
            /\ approval' = [a \in Attempt |-> IF a \in d THEN v.approval[a] ELSE approval[a]]
            /\ events' = (events \o fresh) \o more
            /\ execTask' = execTask \cup v.queued
            /\ pc' = next
<1>0. events \in Seq(Event) /\ fresh \in Seq(Event) /\ sequence \in Nat
  BY DEF TypeOK
<1>1. PICK f \in Seq(Event) :
        /\ f = fresh \o more /\ f # <<>> /\ events \o f = (events \o fresh) \o more
        /\ Len(f) = Len(fresh) + Len(more) /\ Len(more) \in Nat
        /\ Len(fresh) \in Nat /\ Len(events) \in Nat
  <2>1. fresh \o more \in Seq(Event) /\ Len(fresh \o more) = Len(fresh) + Len(more)
        /\ Len(more) \in Nat /\ Len(more) # 0 /\ Len(fresh) \in Nat /\ Len(events) \in Nat
    BY <1>0
  <2>2. fresh \o more # <<>>
    BY <1>0, <2>1
  <2>3. events \o (fresh \o more) = (events \o fresh) \o more
    BY <1>0
  <2>4. QED
    BY <2>1, <2>2, <2>3, Zenon
<1>2. \/ pc' = "raised" /\ UNCHANGED tables
      \/ /\ (sequence + Len(more)) - Len(f) = Len(events)
         /\ turn' = v.turn
         /\ attempt' = [a \in Attempt |-> IF a \in d THEN v.attempt[a] ELSE attempt[a]]
         /\ approval' = [a \in Attempt |-> IF a \in d THEN v.approval[a] ELSE approval[a]]
         /\ events' = events \o f
         /\ execTask' = execTask \cup v.queued
         /\ pc' = next
  <2>1. Save(v, d, f, sequence + Len(more), next)
    BY <1>1 DEF Commit
  <2>2. QED
    BY <1>1, <2>1, Zenon DEF Save
<1>3. (sequence + Len(more)) - Len(f) = sequence - Len(fresh)
  BY <1>0, <1>1
<1>4. (sequence + Len(more)) - Len(f) = Len(events) => InStep
  BY <1>3 DEF InStep, Base
<1>5. QED
  BY <1>1, <1>2, <1>4, Zenon

(* A commit of a sound view leaves the tables as the view has them, or      *)
(* leaves the tables alone and ends the run.                                *)
LEMMA CommitKeeps ==
  ASSUME TypeOK, LedgerInv, Active,
         NEW v \in View, NEW d \in SUBSET Attempt, NEW more \in Seq(Event), more # <<>>,
         NEW next, Commit(v, d, more, next), UNCHANGED influenced,
         dirty \subseteq d, v.queued = view.queued, v.turn # "none",
         \A a \in Attempt \ d : /\ v.attempt[a] = view.attempt[a]
                                /\ v.approval[a] = view.approval[a],
         \A a \in Attempt : RowSound(a, v.attempt[a], v.approval[a], a \in influenced),
         \A a \in Attempt : view.attempt[a].status # "none" => v.attempt[a].status # "none",
         \A a \in Attempt \ Recalling :
            v.attempt[a].status = "executing" <=> view.attempt[a].status = "executing",
         \A a \in Attempt : Asks(v, a) => Asks(view, a),
         next \in {"between", "program", "recall", "ending"} =>
            \A a \in Attempt : Asks(v, a) => a \in staged' /\ next # "between",
         InStep => \A a \in Attempt :
            LogSound((events \o fresh) \o more, a, v.attempt[a].status, v.approval[a])
  PROVE  LedgerInv'
<1>0. /\ attempt \in [Attempt -> AttemptRow] /\ approval \in [Attempt -> ApprovalStatus]
      /\ events \in Seq(Event) /\ fresh \in Seq(Event)
  BY TypesSplit DEF TableTypes, SessionTypes
<1>1. /\ view'.turn = v.turn /\ view'.attempt = v.attempt /\ view'.approval = v.approval
      /\ view'.queued = {} /\ dirty' = {} /\ fresh' = <<>>
  BY DEF Commit, View
<1>2. ViewSound'
  <2> SUFFICES ASSUME NEW a \in Attempt
               PROVE  /\ RowSound(a, v.attempt[a], v.approval[a], a \in influenced)
                      /\ ~(a \in {}) /\ ~(a \in {} \ Recalling)
    BY <1>1 DEF ViewSound, RowSound
  <2>1. QED
    OBVIOUS
<1>3. CASE pc' = "raised" /\ UNCHANGED tables
  <2>1. UNCHANGED <<turn, attempt, approval, events, execTask, influenced>>
    BY <1>3 DEF tables
  <2>2. TablesSound' /\ OneQuestion' /\ FreshTables'
    BY <2>1 DEF LedgerInv, TablesSound, RowSound, OneQuestion, FreshTables
  <2>3. ~Active' /\ ~InStep'
    BY <1>3 DEF Active, InStep
  <2>4. QED
    BY <1>2, <2>2, <2>3 DEF LedgerInv, AsksOnce, Known, Synced
<1>4. CASE /\ InStep
           /\ turn' = v.turn
           /\ attempt' = [a \in Attempt |-> IF a \in d THEN v.attempt[a] ELSE attempt[a]]
           /\ approval' = [a \in Attempt |-> IF a \in d THEN v.approval[a] ELSE approval[a]]
           /\ events' = (events \o fresh) \o more
           /\ execTask' = execTask \cup v.queued
           /\ pc' = next
  <2>1. \A a \in Attempt : attempt'[a] = v.attempt[a] /\ approval'[a] = v.approval[a]
    <3> SUFFICES ASSUME NEW a \in Attempt
                 PROVE  attempt'[a] = v.attempt[a] /\ approval'[a] = v.approval[a]
      OBVIOUS
    <3>1. CASE a \in d
      BY <1>4, <3>1
    <3>2. CASE a \notin d
      <4>1. a \notin dirty
        BY <3>2
      <4>2. attempt[a] = view.attempt[a] /\ approval[a] = view.approval[a]
        BY <1>4, <4>1 DEF LedgerInv, Synced
      <4>3. QED
        BY <1>4, <3>2, <4>2
    <3>3. QED
      BY <3>1, <3>2
  <2>2. \A a \in Attempt : LogSound(events', a, attempt'[a].status, approval'[a])
    BY <1>4, <2>1
  <2>3. \A a \in Attempt \ Recalling : attempt'[a].status = "executing" <=> a \in execTask'
    <3> SUFFICES ASSUME NEW a \in Attempt \ Recalling
                 PROVE  attempt'[a].status = "executing" <=> a \in execTask'
      OBVIOUS
    <3>1. attempt'[a].status = "executing" <=> view.attempt[a].status = "executing"
      BY <2>1
    <3>2. a \in execTask' <=> a \in execTask \/ a \in view.queued
      BY <1>4
    <3>3. a \in view.queued <=> a \in dirty /\ view.attempt[a].status = "executing"
      BY DEF LedgerInv, ViewSound
    <3>4. attempt[a].status = "executing" <=> a \in execTask
      BY DEF LedgerInv, TablesSound
    <3>5. CASE a \in dirty
      <4>1. attempt[a].status = "none"
        BY <1>4, <3>5 DEF LedgerInv, Synced
      <4>2. QED
        BY <3>1, <3>2, <3>3, <3>4, <3>5, <4>1
    <3>6. CASE a \notin dirty
      <4>1. attempt[a] = view.attempt[a]
        BY <1>4, <3>6 DEF LedgerInv, Synced
      <4>2. QED
        BY <3>1, <3>2, <3>3, <3>4, <3>6, <4>1
    <3>7. QED
      BY <3>5, <3>6
  <2>4. TablesSound'
    <3>1. \A a \in Attempt : RowSound(a, attempt'[a], approval'[a], a \in influenced)
      BY <2>1
    <3>2. QED
      BY <2>2, <2>3, <3>1 DEF TablesSound, RowSound
  <2>5. \A a, b \in Attempt : Asks(v, a) /\ Asks(v, b) => a = b
    BY DEF LedgerInv, AsksOnce
  <2>6. OneQuestion'
    <3>1. \A a \in Attempt : approval'[a] = "pending" => Asks(v, a)
      BY <2>1 DEF RowSound, Asks
    <3>2. QED
      BY <2>5, <3>1 DEF OneQuestion
  <2>7. AsksOnce'
    <3>1. \A a \in Attempt : Asks(view', a) <=> Asks(v, a)
      BY <1>1 DEF Asks
    <3>2. ASSUME Active' PROVE next \in {"between", "program", "recall", "ending"}
      BY <1>4, <3>2 DEF Active
    <3>3. ASSUME Active', NEW a \in Attempt, Asks(view', a)
          PROVE  a \in staged' /\ pc' # "between" /\ \A b \in Attempt : Asks(view', b) => a = b
      BY <1>4, <2>5, <3>1, <3>2, <3>3
    <3>4. QED
      BY <3>3 DEF AsksOnce, Asks
  <2>8. Known' /\ FreshTables'
    BY <1>1, <1>4, <2>1 DEF Known, FreshTables
  <2>9. Synced'
    <3>1. (events \o fresh) \o more \in Seq(Event)
      BY <1>0
    <3>2. events' \o fresh' = events'
      <4> DEFINE log == (events \o fresh) \o more
      <4> HIDE DEF log
      <4>1. log \in Seq(Event) /\ events' = log /\ fresh' = <<>>
        BY <1>1, <1>4, <3>1 DEF log
      <4>2. QED
        BY <4>1
    <3>3. QED
      BY <1>1, <2>1, <2>2, <3>2 DEF Synced
  <2>10. QED
    BY <1>2, <2>4, <2>6, <2>7, <2>8, <2>9 DEF LedgerInv
<1>5. QED
  <2>1. \/ pc' = "raised" /\ UNCHANGED tables
        \/ /\ InStep
           /\ turn' = v.turn
           /\ attempt' = [a \in Attempt |-> IF a \in d THEN v.attempt[a] ELSE attempt[a]]
           /\ approval' = [a \in Attempt |-> IF a \in d THEN v.approval[a] ELSE approval[a]]
           /\ events' = (events \o fresh) \o more
           /\ execTask' = execTask \cup v.queued
           /\ pc' = next
    BY CommitWrites
  <2>2. QED
    BY <1>3, <1>4, <2>1

(* What a verdict says of the policy, the impact and the taint. *)
LEMMA EvaluateMeans ==
  ASSUME NEW a \in Attempt, NEW t \in BOOLEAN, NEW p \in BOOLEAN
  PROVE  /\ Evaluate(a, t, p) = "allow_inline" =>
              Policy[a] = "allow_inline" /\ (t => Impact[a] = "read")
         /\ Evaluate(a, t, p) = "requires_approval" =>
              /\ Policy[a] # "deny" /\ ~p /\ a \notin Recalling
              /\ t /\ Impact[a] # "read" => Impact[a] = "write_reversible"
  BY LedgerAssumption DEF LedgerAssumption, Evaluate

(* One or two events appended. *)
LEMMA OneMore ==
  ASSUME NEW log \in Seq(Event), NEW e \in Event, NEW g \in Event
  PROVE  /\ <<e>> \in Seq(Event) /\ <<e>> # <<>> /\ log \o <<e>> = Append(log, e)
         /\ <<e, g>> \in Seq(Event) /\ <<e, g>> # <<>>
         /\ log \o <<e, g>> = Append(Append(log, e), g)
         /\ Append(log, e) \in Seq(Event) /\ log \o (<<e>> \o <<g>>) = Append(Append(log, e), g)
         /\ <<e>> \o <<g>> \in Seq(Event) /\ <<e>> \o <<g>> # <<>>
<1>1. /\ <<e>> \in Seq(Event) /\ <<e>> # <<>> /\ log \o <<e>> = Append(log, e)
      /\ <<e, g>> \in Seq(Event) /\ <<e, g>> # <<>>
      /\ log \o <<e, g>> = Append(Append(log, e), g)
      /\ Append(log, e) \in Seq(Event)
  OBVIOUS
<1>2. /\ <<g>> \in Seq(Event)
      /\ Append(log, e) \o <<g>> = Append(Append(log, e), g)
  OBVIOUS
<1>3. ASSUME NEW s \in Seq(Event), NEW t \in Seq(Event)
      PROVE  /\ log \o (s \o t) = (log \o s) \o t /\ s \o t \in Seq(Event)
             /\ s # <<>> => s \o t # <<>>
  <2>1. s \o t \in Seq(Event) /\ Len(s \o t) = Len(s) + Len(t) /\ Len(s) \in Nat
        /\ Len(t) \in Nat
    OBVIOUS
  <2>2. s # <<>> => Len(s) # 0
    OBVIOUS
  <2>3. log \o (s \o t) = (log \o s) \o t
    OBVIOUS
  <2>4. s # <<>> => Len(s \o t) # 0
    BY <2>1, <2>2
  <2>5. QED
    BY <2>1, <2>3, <2>4
<1>4. QED
  BY <1>1, <1>2, <1>3

(* Nothing changes but what the invariant does not mention, or the run ends. *)
LEMMA QuietKeeps ==
  ASSUME LedgerInv, UNCHANGED <<tables, view, dirty, fresh, sequence, influenced>>,
         Active' => Active /\ staged' = staged /\ (pc' = "between" => pc = "between")
  PROVE  LedgerInv'
<1>1. UNCHANGED <<turn, attempt, approval, events, execTask>>
  BY DEF tables
<1>2. InStep' => InStep
  BY <1>1 DEF InStep, Base
<1>3. TablesSound' /\ ViewSound' /\ OneQuestion' /\ FreshTables'
  BY <1>1 DEF LedgerInv, TablesSound, ViewSound, RowSound, OneQuestion, FreshTables
<1>4. AsksOnce' /\ Known'
  BY <1>1 DEF LedgerInv, AsksOnce, Known, Asks
<1>5. Synced'
  BY <1>1, <1>2 DEF LedgerInv, Synced
<1>6. QED
  BY <1>3, <1>4, <1>5 DEF LedgerInv

(* A run that ends discards what it has not committed. *)
LEMMA CloseKeeps ==
  ASSUME LedgerInv, Close, pc' = "idle", UNCHANGED <<tables, influenced>>
  PROVE  LedgerInv'
<1>1. UNCHANGED <<turn, attempt, approval, events, execTask>>
  BY DEF tables
<1>2. ~Active' /\ ~InStep'
  BY DEF Active, InStep
<1>3. TablesSound' /\ OneQuestion' /\ FreshTables'
  BY <1>1 DEF LedgerInv, TablesSound, RowSound, OneQuestion, FreshTables
<1>4. ViewSound'
  BY DEF Close, EmptyView, NoAttempts, NoApprovals, ViewSound, RowSound
<1>5. QED
  BY <1>2, <1>3, <1>4 DEF LedgerInv, AsksOnce, Known, Synced

(* A turn starts with nothing staged. *)
LEMMA StartKeeps == TypeOK /\ LedgerInv /\ StartTurn => LedgerInv'
<1> SUFFICES ASSUME TypeOK, LedgerInv, StartTurn PROVE LedgerInv'
  OBVIOUS
<1>1. /\ UNCHANGED <<turn, attempt, approval, events, execTask, influenced>>
      /\ view' = [EmptyView EXCEPT !.turn = "in_progress"] /\ dirty' = {}
      /\ fresh' = <<TurnEvt("started")>>
  BY DEF StartTurn, tables
<1>2. /\ view'.turn = "in_progress" /\ view'.attempt = NoAttempts
      /\ view'.approval = NoApprovals /\ view'.queued = {}
  BY <1>1 DEF EmptyView
<1>3. attempt = NoAttempts /\ approval = NoApprovals
  BY DEF StartTurn, LedgerInv, FreshTables
<1>4. TablesSound' /\ OneQuestion' /\ FreshTables'
  BY <1>1 DEF LedgerInv, TablesSound, RowSound, OneQuestion, FreshTables
<1>5. ViewSound'
  BY <1>1, <1>2 DEF NoAttempts, NoApprovals, ViewSound, RowSound
<1>6. AsksOnce' /\ Known'
  BY <1>1, <1>2, <1>3 DEF AsksOnce, Asks, Known, NoAttempts
<1>7. Synced'
  <2> DEFINE e == TurnEvt("started")
  <2>1. e \in Event /\ events \in Seq(Event) /\ \A a \in Attempt : a \notin e.of
    BY EventTypes DEF TypeOK, TurnEvt
  <2>2. fresh' = <<e>>
    BY <1>1
  <2> HIDE DEF e
  <2>3. events' \o fresh' = Append(events, e)
    BY <1>1, <2>1, <2>2, OneMore
  <2>4. \A a \in Attempt : LogSound(events, a, attempt[a].status, approval[a])
    BY DEF LedgerInv, TablesSound
  <2>5. \A a \in Attempt : LogSound(Append(events, e), a, attempt[a].status, approval[a])
    BY <2>1, <2>4, UntoldOf
  <2>6. QED
    BY <1>1, <1>2, <1>3, <2>3, <2>5 DEF Synced
<1>8. QED
  BY <1>4, <1>5, <1>6, <1>7 DEF LedgerInv

(* A step of the session alone that adds the event e. *)
LEMMA AddKeeps ==
  ASSUME TypeOK, LedgerInv, Active, UNCHANGED tables, NEW e \in Event, Add(<<e>>),
         ViewSound', AsksOnce', view'.turn = view.turn,
         \A a \in Attempt : view.attempt[a].status # "none" => view'.attempt[a].status # "none",
         \A a \in Attempt : attempt[a].status # "none" =>
            (a \in influenced' <=> a \in influenced),
         \A a \in Attempt \ dirty' : /\ a \notin dirty
                                     /\ view'.attempt[a] = view.attempt[a]
                                     /\ view'.approval[a] = view.approval[a],
         \A a \in dirty' \ dirty : \/ view.attempt[a].status = "none"
                                   \/ a \in Recalling,
         dirty' \subseteq Attempt,
         InStep => \A a \in Attempt :
            LogSound(Append(events \o fresh, e), a, view'.attempt[a].status, view'.approval[a])
  PROVE  LedgerInv'
<1>0. /\ events \in Seq(Event) /\ fresh \in Seq(Event) /\ sequence \in Nat
      /\ approval \in [Attempt -> ApprovalStatus]
  BY DEF TypeOK
<1>1. UNCHANGED <<turn, attempt, approval, events, execTask>>
  BY DEF tables
<1>2. /\ Len(fresh \o <<e>>) = Len(fresh) + 1 /\ Len(fresh) \in Nat
      /\ Len(<<e>>) = 1
      /\ events \o (fresh \o <<e>>) = Append(events \o fresh, e)
  BY <1>0
<1>3. Base' = Base
  BY <1>0, <1>2 DEF Add, Base
<1>4. InStep' => InStep
  BY <1>1, <1>3 DEF InStep
<1>5. \A a \in Attempt : attempt[a].status = "none" => approval[a] = "none"
  BY <1>0 DEF LedgerInv, TablesSound, RowSound, ApprovalStatus
<1>6. TablesSound'
  <2> SUFFICES ASSUME NEW a \in Attempt
               PROVE  RowSound(a, attempt[a], approval[a], a \in influenced')
    BY <1>1 DEF LedgerInv, TablesSound, RowSound
  <2>1. RowSound(a, attempt[a], approval[a], a \in influenced)
    BY DEF LedgerInv, TablesSound
  <2>2. CASE attempt[a].status = "none"
    BY <1>5, <2>2 DEF RowSound
  <2>3. CASE attempt[a].status # "none"
    BY <2>1, <2>3 DEF RowSound
  <2>4. QED
    BY <2>2, <2>3
<1>7. OneQuestion' /\ FreshTables' /\ Known'
  BY <1>1 DEF LedgerInv, OneQuestion, FreshTables, Known
<1>8. Synced'
  <2> SUFFICES ASSUME InStep', NEW a \in Attempt
               PROVE  /\ LogSound(events' \o fresh', a, view'.attempt[a].status, view'.approval[a])
                      /\ a \in dirty' =>
                           approval'[a] = "none" /\ (attempt'[a].status = "none" \/ a \in Recalling)
                      /\ a \notin dirty' =>
                           approval'[a] = view'.approval[a] /\ attempt'[a] = view'.attempt[a]
    BY DEF Synced
  <2>1. events' \o fresh' = Append(events \o fresh, e)
    BY <1>1, <1>2 DEF Add
  <2>2. LogSound(events' \o fresh', a, view'.attempt[a].status, view'.approval[a])
    BY <1>4, <2>1
  <2>3. CASE a \in dirty
    BY <1>1, <1>4, <2>2, <2>3 DEF LedgerInv, Synced
  <2>4. CASE a \in dirty' \ dirty
    <3>1. CASE view.attempt[a].status = "none"
      <4>1. attempt[a].status = "none"
        BY <3>1 DEF LedgerInv, Known
      <4>2. QED
        BY <1>1, <1>5, <2>2, <2>4, <4>1
    <3>2. CASE a \in Recalling
      <4>1. approval[a] = "none"
        BY <3>2 DEF LedgerInv, TablesSound, RowSound
      <4>2. QED
        BY <1>1, <2>2, <2>4, <3>2, <4>1
    <3>3. QED
      BY <2>4, <3>1, <3>2
  <2>5. CASE a \notin dirty'
    BY <1>1, <1>4, <2>2, <2>5 DEF LedgerInv, Synced
  <2>6. QED
    BY <2>3, <2>4, <2>5
<1>9. QED
  BY <1>6, <1>7, <1>8 DEF LedgerInv

(* A call: what the session holds of it, and the event of it. *)
LEMMA CallKeeps ==
  ASSUME TypeOK, LedgerInv, NEW a \in Attempt, Calling(a), UNCHANGED <<tables, pc>>,
         NEW st \in Status, NEW ap \in {"none", "pending"},
         NEW type \in {"proposed", "requested", "executing", "succeeded", "failed"},
         Add(<<Evt(type, a)>>), view'.turn = view.turn,
         view'.attempt[a].status = st, view'.approval[a] = ap,
         \A b \in Attempt \ {a} : /\ view'.attempt[b] = view.attempt[b]
                                  /\ view'.approval[b] = view.approval[b],
         view'.queued = IF st = "executing" THEN view.queued \cup {a} ELSE view.queued,
         dirty' = dirty \cup {a}, staged' = staged \cup {a},
         \A b \in Attempt \ {a} : b \in influenced' <=> b \in influenced,
         RowSound(a, view'.attempt[a], ap, a \in influenced'),
         st # "none", st = "executing" => a \notin Recalling,
         type = "requested" <=> ap = "pending",
         type = "executing" <=> st = "executing",
         type \in {"succeeded", "failed"} => st = type,
         st = "awaiting_approval" =>
            ~\E b \in staged : view.attempt[b].status = "awaiting_approval"
  PROVE  LedgerInv'
<1> DEFINE e == Evt(type, a)
<1>0. /\ events \in Seq(Event) /\ fresh \in Seq(Event) /\ events \o fresh \in Seq(Event)
      /\ dirty \subseteq Attempt
  BY DEF TypeOK
<1>1. e \in Event /\ e.type = type /\ e.of = {a}
  BY EventTypes DEF Evt
<1>2. pc = "program" /\ Active /\ view.attempt[a].status = "none"
  BY DEF Calling, Active
<1>3. a \notin dirty \/ view.attempt[a].status # "executing"
  BY <1>2
<1>4. ViewSound'
  <2> SUFFICES ASSUME NEW b \in Attempt
               PROVE  /\ RowSound(b, view'.attempt[b], view'.approval[b], b \in influenced')
                      /\ b \in view'.queued <=>
                           b \in dirty' \ Recalling /\ view'.attempt[b].status = "executing"
    BY DEF ViewSound, RowSound
  <2>1. /\ RowSound(b, view.attempt[b], view.approval[b], b \in influenced)
        /\ b \in view.queued <=>
             b \in dirty \ Recalling /\ view.attempt[b].status = "executing"
    BY DEF LedgerInv, ViewSound
  <2>2. CASE b = a
    BY <1>2, <2>1, <2>2
  <2>3. CASE b # a
    BY <2>1, <2>3 DEF RowSound
  <2>4. QED
    BY <2>2, <2>3
<1>5. AsksOnce'
  <2>1. \A b \in Attempt : Asks(view, b) => b \in staged
    BY <1>2 DEF LedgerInv, AsksOnce
  <2>2. \A b, c \in Attempt : Asks(view, b) /\ Asks(view, c) => b = c
    BY <1>2 DEF LedgerInv, AsksOnce
  <2>3. \A b \in Attempt \ {a} : Asks(view', b) <=> Asks(view, b)
    BY DEF Asks
  <2>4. Asks(view', a) => \A b \in Attempt : ~Asks(view, b)
    BY <2>1 DEF Asks
  <2>5. \A b \in Attempt : Asks(view', b) => b \in staged'
    BY <2>1, <2>3
  <2>6. \A b, c \in Attempt : Asks(view', b) /\ Asks(view', c) => b = c
    BY <2>2, <2>3, <2>4
  <2>7. QED
    BY <1>2, <2>5, <2>6 DEF AsksOnce, Asks
<1>6. ASSUME InStep
      PROVE  \A b \in Attempt :
        LogSound(Append(events \o fresh, e), b, view'.attempt[b].status, view'.approval[b])
  <2> SUFFICES ASSUME NEW b \in Attempt
               PROVE  LogSound(Append(events \o fresh, e), b, view'.attempt[b].status,
                               view'.approval[b])
    OBVIOUS
  <2>1. LogSound(events \o fresh, b, view.attempt[b].status, view.approval[b])
    BY <1>6 DEF LedgerInv, Synced
  <2>2. CASE b # a
    <3>1. b \notin e.of
      BY <1>1, <2>2
    <3>2. LogSound(Append(events \o fresh, e), b, view.attempt[b].status, view.approval[b])
      <4> HIDE DEF e
      <4>1. QED
        BY <1>0, <1>1, <2>1, <3>1, UntoldOf
    <3>3. QED
      BY <2>2, <3>2
  <2>3. CASE b = a
    <3>1. view.approval[a] = "none"
      <4>1. RowSound(a, view.attempt[a], view.approval[a], a \in influenced)
        BY DEF LedgerInv, ViewSound
      <4>2. view.approval[a] \in ApprovalStatus
        BY DEF TypeOK
      <4>3. QED
        BY <1>2, <4>1, <4>2 DEF RowSound, ApprovalStatus
    <3>2. LogSound(events \o fresh, a, "none", "none")
      BY <1>2, <2>1, <2>3, <3>1
    <3>3. LogSound(Append(events \o fresh, e), a, st, ap)
      <4> HIDE DEF e
      <4>1. a \in e.of
        BY <1>1
      <4>2. QED
        BY <1>0, <1>1, <3>2, <4>1, ToldOf DEF Decided, Ends
    <3>4. QED
      BY <2>3, <3>3
  <2>4. QED
    BY <2>2, <2>3
<1>7. \A b \in Attempt : attempt[b].status # "none" => (b \in influenced' <=> b \in influenced)
  <2>1. attempt[a].status = "none"
    BY <1>2 DEF LedgerInv, Known
  <2>2. QED
    BY <2>1
<1>8. /\ \A b \in Attempt : view.attempt[b].status # "none" => view'.attempt[b].status # "none"
      /\ \A b \in Attempt \ dirty' : /\ b \notin dirty
                                     /\ view'.attempt[b] = view.attempt[b]
                                     /\ view'.approval[b] = view.approval[b]
      /\ \A b \in dirty' \ dirty : view.attempt[b].status = "none"
      /\ dirty' \subseteq Attempt
  BY <1>0, <1>2
<1>9. QED
  <2> HIDE DEF e
  <2>1. UNCHANGED tables /\ Add(<<e>>)
    BY DEF e
  <2>2. QED
    BY <1>1, <1>2, <1>4, <1>5, <1>6, <1>7, <1>8, <2>1, AddKeeps

(* What Propose makes of the view. *)
LEMMA Proposed ==
  ASSUME TypeOK, NEW a \in Attempt, NEW st, NEW esc, NEW ap, NEW type,
         Propose(a, st, esc, ap, type)
  PROVE  /\ view'.turn = view.turn /\ view'.queued = view.queued
         /\ view'.attempt[a] = [status |-> st, escalated |-> esc]
         /\ view'.approval[a] = ap
         /\ \A b \in Attempt \ {a} : /\ view'.attempt[b] = view.attempt[b]
                                     /\ view'.approval[b] = view.approval[b]
<1>1. view \in View
  BY TypesSplit DEF SessionTypes
<1> DEFINE row == [status |-> st, escalated |-> esc]
<1>2. view' = [view EXCEPT !.attempt = [view.attempt EXCEPT ![a] = row],
                           !.approval = [view.approval EXCEPT ![a] = ap]]
  BY <1>1 DEF Propose, View
<1> HIDE DEF row
<1>3. /\ view'.attempt = [view.attempt EXCEPT ![a] = row]
      /\ view'.approval = [view.approval EXCEPT ![a] = ap]
      /\ view'.turn = view.turn /\ view'.queued = view.queued
  BY <1>1, <1>2 DEF View
<1>4. QED
  BY <1>1, <1>3 DEF View, row

(* A call that queues nothing. *)
LEMMA ProposeKeeps ==
  ASSUME TypeOK, LedgerInv, NEW a \in Attempt,
         CallDenied(a) \/ CallFails(a) \/ CallNeedsApproval(a) \/ CallReturns(a)
  PROVE  LedgerInv'
<1> DEFINE p == \E b \in staged : view.attempt[b].status = "awaiting_approval"
<1>0. taint \in BOOLEAN /\ p \in BOOLEAN
  BY Zenon DEF TypeOK
<1>1. Calling(a) /\ DecisionOn(a) = Evaluate(a, taint, p)
  BY DEF CallDenied, CallFails, CallNeedsApproval, CallReturns, DecisionOn
<1> HIDE DEF p
<1>2. /\ DecisionOn(a) = "allow_inline" =>
           Policy[a] = "allow_inline" /\ (taint => Impact[a] = "read")
      /\ DecisionOn(a) = "requires_approval" => ~p /\ a \notin Recalling
  BY <1>0, <1>1, EvaluateMeans
<1>3. ASSUME NEW st \in Status, NEW esc \in BOOLEAN, NEW ap \in {"none", "pending"},
             NEW type \in {"proposed", "requested", "succeeded", "failed"},
             Propose(a, st, esc, ap, type),
             RowSound(a, [status |-> st, escalated |-> esc], ap, a \in influenced'),
             st \notin {"none", "executing"},
             type = "requested" <=> ap = "pending",
             type \in {"succeeded", "failed"} => st = type,
             st = "awaiting_approval" => ~p
      PROVE  LedgerInv'
  <2> DEFINE row == [status |-> st, escalated |-> esc]
  <2>1. /\ view'.turn = view.turn /\ view'.queued = view.queued
        /\ view'.attempt[a] = row
        /\ view'.approval[a] = ap
        /\ \A b \in Attempt \ {a} : /\ view'.attempt[b] = view.attempt[b]
                                    /\ view'.approval[b] = view.approval[b]
    BY <1>3, Proposed
  <2>2. row.status = st
    OBVIOUS
  <2> HIDE DEF row
  <2>3. /\ UNCHANGED <<tables, pc>> /\ Add(<<Evt(type, a)>>)
        /\ dirty' = dirty \cup {a} /\ staged' = staged \cup {a}
        /\ \A b \in Attempt \ {a} : b \in influenced' <=> b \in influenced
    BY <1>3 DEF Propose
  <2>4. RowSound(a, view'.attempt[a], ap, a \in influenced')
    BY <1>3, <2>1, Zenon DEF row
  <2>5. st # "none" /\ st # "executing" /\ type # "executing"
    BY <1>3
  <2>6. st = "awaiting_approval" =>
          ~\E b \in staged : view.attempt[b].status = "awaiting_approval"
    BY <1>3 DEF p
  <2>7. view'.attempt[a].status = st
    BY <2>1, <2>2
  <2>8. QED
    BY <1>1, <1>3, <2>1, <2>3, <2>4, <2>5, <2>6, <2>7, CallKeeps
<1>4. CASE CallDenied(a)
  <2>1. Propose(a, "rejected", FALSE, "none", "proposed")
    BY <1>4 DEF CallDenied
  <2>2. RowSound(a, [status |-> "rejected", escalated |-> FALSE], "none", a \in influenced')
    BY DEF RowSound
  <2>3. "rejected" \in Status
    BY DEF Status
  <2>4. QED
    BY <1>3, <2>1, <2>2, <2>3
<1>5. CASE CallFails(a)
  <2>1. Propose(a, "failed", FALSE, "none", "failed")
    BY <1>5 DEF CallFails
  <2>2. RowSound(a, [status |-> "failed", escalated |-> FALSE], "none", a \in influenced')
    BY DEF RowSound
  <2>3. "failed" \in Status
    BY DEF Status
  <2>4. QED
    BY <1>3, <2>1, <2>2, <2>3
<1>6. CASE CallNeedsApproval(a)
  <2> DEFINE esc == taint /\ Impact[a] # "read"
  <2>0. esc \in BOOLEAN /\ (esc <=> taint /\ Impact[a] # "read")
    OBVIOUS
  <2>1. Propose(a, "awaiting_approval", esc, "pending", "requested")
        /\ DecisionOn(a) = "requires_approval"
    BY <1>6 DEF CallNeedsApproval
  <2> HIDE DEF esc
  <2>2. a \in influenced' => taint
    BY <2>1 DEF Propose
  <2>3. a \in influenced' /\ Impact[a] # "read" => esc
    BY <2>0, <2>2
  <2> DEFINE row == [status |-> "awaiting_approval", escalated |-> esc]
  <2>4. row.status = "awaiting_approval" /\ (row.escalated <=> esc)
    BY <2>0, Zenon
  <2>5. RowSound(a, row, "pending", a \in influenced')
    <3> HIDE DEF row
    <3>1. QED
      BY <1>2, <2>1, <2>3, <2>4 DEF RowSound
  <2>6. "awaiting_approval" \in Status
    BY DEF Status
  <2>7. QED
    BY <1>2, <1>3, <2>0, <2>1, <2>5, <2>6
<1>7. CASE CallReturns(a)
  <2>1. Propose(a, "succeeded", FALSE, "none", "succeeded")
        /\ DecisionOn(a) = "allow_inline" /\ a \notin Recalling
    BY <1>7 DEF CallReturns
  <2>2. a \in influenced' => taint
    BY <2>1 DEF Propose
  <2>3. RowSound(a, [status |-> "succeeded", escalated |-> FALSE], "none", a \in influenced')
    BY <1>2, <2>1, <2>2 DEF RowSound
  <2>4. "succeeded" \in Status
    BY DEF Status
  <2>5. QED
    BY <1>3, <2>1, <2>3, <2>4
<1>8. QED
  BY <1>4, <1>5, <1>6, <1>7

(* A call that queues its side effect had leave to. *)
LEMMA QueueKeeps ==
  ASSUME TypeOK, LedgerInv, NEW a \in Attempt, CallQueues(a)
  PROVE  LedgerInv'
<1> DEFINE p == \E b \in staged : view.attempt[b].status = "awaiting_approval"
<1>0. taint \in BOOLEAN /\ p \in BOOLEAN
  BY Zenon DEF TypeOK
<1>1. Calling(a) /\ Evaluate(a, taint, p) = "allow_inline"
  BY DEF CallQueues, DecisionOn
<1> HIDE DEF p
<1>2. Policy[a] = "allow_inline" /\ (taint => Impact[a] = "read") /\ a \notin Recalling
  BY <1>0, <1>1, EvaluateMeans, LedgerAssumption DEF LedgerAssumption, CallQueues
<1>3. view \in View
  BY TypesSplit DEF SessionTypes
<1> DEFINE row == [status |-> "executing", escalated |-> FALSE]
<1>4. /\ view'.turn = view.turn /\ view'.approval = view.approval
      /\ view'.queued = view.queued \cup {a}
      /\ view'.attempt = [view.attempt EXCEPT ![a] = row]
  <2>1. view' = [view EXCEPT !.attempt[a] = row, !.queued = @ \cup {a}]
    BY DEF CallQueues
  <2> HIDE DEF row
  <2>2. QED
    BY <1>3, <2>1 DEF View
<1>5. /\ view'.attempt[a] = row
      /\ \A b \in Attempt \ {a} : /\ view'.attempt[b] = view.attempt[b]
                                  /\ view'.approval[b] = view.approval[b]
  <2> HIDE DEF row
  <2>1. QED
    BY <1>3, <1>4 DEF View
<1>6. view.approval[a] = "none"
  <2>1. RowSound(a, view.attempt[a], view.approval[a], a \in influenced)
    BY DEF LedgerInv, ViewSound
  <2>2. view.approval[a] \in ApprovalStatus /\ view.attempt[a].status = "none"
    BY <1>1, <1>3 DEF View, Calling
  <2>3. QED
    BY <2>1, <2>2 DEF RowSound, ApprovalStatus
<1>7. a \in influenced' => taint
  BY DEF CallQueues
<1>8. RowSound(a, row, "none", a \in influenced')
  BY <1>2, <1>7 DEF RowSound
<1>9. /\ UNCHANGED <<tables, pc>> /\ Add(<<Evt("executing", a)>>)
      /\ dirty' = dirty \cup {a} /\ staged' = staged \cup {a}
      /\ \A b \in Attempt \ {a} : b \in influenced' <=> b \in influenced
  BY DEF CallQueues
<1>10. row.status = "executing" /\ "executing" \in Status
  BY DEF Status
<1> HIDE DEF row
<1>11. /\ view'.attempt[a].status = "executing" /\ view'.approval[a] = "none"
       /\ RowSound(a, view'.attempt[a], "none", a \in influenced')
       /\ view'.queued = IF "executing" = "executing" THEN view.queued \cup {a} ELSE view.queued
  BY <1>4, <1>5, <1>6, <1>8, <1>10
<1>12. QED
  BY <1>1, <1>2, <1>4, <1>5, <1>9, <1>10, <1>11, CallKeeps

(* A call of memory.recall commits in the middle of the program. *)
LEMMA RecallKeeps ==
  ASSUME TypeOK, LedgerInv, NEW a \in Attempt, CallRecalls(a) \/ RecallReturns(a)
  PROVE  LedgerInv'
<1>0. /\ view \in View /\ dirty \subseteq Attempt /\ events \o fresh \in Seq(Event)
      /\ Policy[a] = "allow_inline" /\ Impact[a] = "read" /\ a \in Recalling
  <2>1. a \in Recalling
    BY DEF CallRecalls, RecallReturns
  <2>2. QED
    BY <2>1, TypesSplit, LedgerAssumption DEF SessionTypes, LedgerAssumption, TypeOK
<1>1. view.attempt[a].status \in {"none", "executing"} /\ view.approval[a] = "none"
  <2>1. view.attempt[a].status \in {"none", "executing"}
    BY DEF CallRecalls, RecallReturns, Calling
  <2>2. QED
    BY <1>0, <2>1 DEF LedgerInv, ViewSound, RowSound
<1>2. ASSUME NEW st \in {"executing", "succeeded", "failed"}
      PROVE  LET v == [view EXCEPT !.attempt[a].status = st] IN
             /\ v \in View /\ v.turn = view.turn
             /\ v.approval = view.approval /\ v.queued = view.queued
             /\ v.attempt[a].status = st
             /\ \A b \in Attempt \ {a} : v.attempt[b] = view.attempt[b]
             /\ \A b \in Attempt : RowSound(b, v.attempt[b], v.approval[b], b \in influenced)
  <2> DEFINE v == [view EXCEPT !.attempt[a].status = st]
  <2>1. v \in View
    BY <1>0, ViewWith DEF Status
  <2>2. v.turn = view.turn /\ v.approval = view.approval /\ v.queued = view.queued
    BY <1>0 DEF View
  <2>3. v.attempt[a].status = st /\ \A b \in Attempt \ {a} : v.attempt[b] = view.attempt[b]
    BY <1>0 DEF View, AttemptRow
  <2>4. ASSUME NEW b \in Attempt
        PROVE  RowSound(b, v.attempt[b], v.approval[b], b \in influenced)
    <3> HIDE DEF v
    <3>1. RowSound(b, view.attempt[b], view.approval[b], b \in influenced)
      BY DEF LedgerInv, ViewSound
    <3>2. CASE b = a
      BY <1>0, <1>1, <2>2, <2>3, <3>2 DEF RowSound
    <3>3. CASE b # a
      BY <2>2, <2>3, <3>1, <3>3
    <3>4. QED
      BY <3>2, <3>3
  <2>5. QED
    BY <2>1, <2>2, <2>3, <2>4
<1>3. CASE CallRecalls(a)
  <2> DEFINE v == [view EXCEPT !.attempt[a].status = "executing"]
             e == Evt("executing", a)
             g == TurnEvt("recalled")
             log == events \o fresh
  <2>1. /\ v \in View /\ v.turn = view.turn
        /\ v.approval = view.approval /\ v.queued = view.queued
        /\ v.attempt[a].status = "executing"
        /\ \A b \in Attempt \ {a} : v.attempt[b] = view.attempt[b]
        /\ \A b \in Attempt : RowSound(b, v.attempt[b], v.approval[b], b \in influenced)
    BY <1>2
  <2>2. Commit(v, dirty \cup {a}, <<e, g>>, "recall") /\ staged' = staged \cup {a}
        /\ UNCHANGED influenced
    BY <1>3 DEF CallRecalls
  <2>3. /\ e \in Event /\ e.type = "executing" /\ e.of = {a}
        /\ g \in Event /\ g.of = {}
    BY EventTypes DEF Evt, TurnEvt
  <2>4. view.attempt[a].status = "none" /\ Active /\ pc = "program"
    BY <1>3 DEF CallRecalls, Calling, Active
  <2>l. log \in Seq(Event)
    BY <1>0
  <2> HIDE DEF v, e, g, log
  <2>5. /\ <<e, g>> \in Seq(Event) /\ <<e, g>> # <<>>
        /\ log \o <<e, g>> = Append(Append(log, e), g) /\ Append(log, e) \in Seq(Event)
    BY <2>3, <2>l, OneMore
  <2>6. ASSUME InStep
        PROVE  \A b \in Attempt :
                 LogSound((events \o fresh) \o <<e, g>>, b, v.attempt[b].status, v.approval[b])
    <3> SUFFICES ASSUME NEW b \in Attempt
                 PROVE  LogSound(Append(Append(log, e), g), b, v.attempt[b].status, v.approval[b])
      BY <2>5 DEF log
    <3>1. LogSound(log, b, view.attempt[b].status, view.approval[b])
      BY <2>6 DEF LedgerInv, Synced, log
    <3>2. LogSound(Append(log, e), b, v.attempt[b].status, v.approval[b])
      <4>1. CASE b = a
        <5>1. LogSound(log, a, "none", "none")
          BY <1>1, <2>4, <3>1, <4>1
        <5>2. a \in e.of
          BY <2>3
        <5>3. LogSound(Append(log, e), a, "executing", "none")
          BY <2>3, <2>l, <5>1, <5>2, ToldOf DEF Decided, Ends
        <5>4. QED
          BY <1>1, <2>1, <4>1, <5>3
      <4>2. CASE b # a
        <5>1. b \notin e.of
          BY <2>3, <4>2
        <5>2. LogSound(Append(log, e), b, view.attempt[b].status, view.approval[b])
          BY <2>3, <2>l, <3>1, <5>1, UntoldOf
        <5>3. QED
          BY <2>1, <4>2, <5>2
      <4>3. QED
        BY <4>1, <4>2
    <3>3. b \notin g.of
      BY <2>3
    <3>4. QED
      BY <2>3, <2>5, <3>2, <3>3, UntoldOf
  <2>7. /\ \A b \in Attempt \ (dirty \cup {a}) : /\ v.attempt[b] = view.attempt[b]
                                                 /\ v.approval[b] = view.approval[b]
        /\ \A b \in Attempt : view.attempt[b].status # "none" => v.attempt[b].status # "none"
        /\ \A b \in Attempt \ Recalling :
             v.attempt[b].status = "executing" <=> view.attempt[b].status = "executing"
        /\ \A b \in Attempt : Asks(v, b) => Asks(view, b)
    BY <1>0, <2>1, <2>4 DEF Asks
  <2>8. v.turn # "none" /\ \A b \in Attempt : Asks(v, b) => b \in staged'
    BY <2>1, <2>2, <2>4, <2>7 DEF LedgerInv, Known, AsksOnce
  <2>9. dirty \cup {a} \in SUBSET Attempt /\ dirty \subseteq dirty \cup {a}
    BY <1>0
  <2>10. QED
    BY <2>1, <2>2, <2>4, <2>5, <2>6, <2>7, <2>8, <2>9, CommitKeeps
<1>4. CASE RecallReturns(a)
  <2>1. PICK st \in {"succeeded", "failed"} :
          /\ view' = [view EXCEPT !.attempt[a].status = st]
          /\ Add(<<Evt(st, a)>>)
    BY <1>4 DEF RecallReturns
  <2> DEFINE e == Evt(st, a)
             log == events \o fresh
  <2>2. /\ view'.turn = view.turn
        /\ view'.approval = view.approval /\ view'.queued = view.queued
        /\ view'.attempt[a].status = st
        /\ \A b \in Attempt \ {a} : view'.attempt[b] = view.attempt[b]
        /\ \A b \in Attempt : RowSound(b, view'.attempt[b], view'.approval[b], b \in influenced)
    BY <1>2, <2>1
  <2>3. e \in Event /\ e.type = st /\ e.of = {a}
    BY EventTypes DEF Evt
  <2>4. /\ view.attempt[a].status = "executing" /\ Active /\ pc = "recall"
        /\ pc' = "program" /\ dirty' = dirty \cup {a} /\ UNCHANGED <<tables, influenced, staged>>
    BY <1>4 DEF RecallReturns, Active
  <2>l. log \in Seq(Event) /\ Add(<<e>>)
    BY <1>0, <2>1
  <2> HIDE DEF e, log
  <2>5. ViewSound'
    <3> SUFFICES ASSUME NEW b \in Attempt
                 PROVE  /\ RowSound(b, view'.attempt[b], view'.approval[b], b \in influenced')
                        /\ b \in view'.queued <=>
                             b \in dirty' \ Recalling /\ view'.attempt[b].status = "executing"
      BY DEF ViewSound, RowSound
    <3>1. b \in view.queued <=> b \in dirty \ Recalling /\ view.attempt[b].status = "executing"
      BY DEF LedgerInv, ViewSound
    <3>2. RowSound(b, view'.attempt[b], view'.approval[b], b \in influenced')
      BY <2>2, <2>4 DEF RowSound
    <3>3. QED
      BY <1>0, <2>2, <2>4, <3>1, <3>2
  <2>6. AsksOnce'
    <3>1. \A b \in Attempt : Asks(view', b) <=> Asks(view, b)
      BY <2>2, <2>4 DEF Asks
    <3>2. QED
      BY <2>4, <3>1 DEF LedgerInv, AsksOnce, Asks
  <2>7. ASSUME InStep
        PROVE  \A b \in Attempt :
          LogSound(Append(events \o fresh, e), b, view'.attempt[b].status, view'.approval[b])
    <3> SUFFICES ASSUME NEW b \in Attempt
                 PROVE  LogSound(Append(log, e), b, view'.attempt[b].status, view'.approval[b])
      BY DEF log
    <3>1. LogSound(log, b, view.attempt[b].status, view.approval[b])
      BY <2>7 DEF LedgerInv, Synced, log
    <3>2. CASE b = a
      <4>1. LogSound(log, a, "executing", "none")
        BY <1>1, <2>4, <3>1, <3>2
      <4>2. a \in e.of
        BY <2>3
      <4>3. LogSound(Append(log, e), a, st, "none")
        BY <2>3, <2>l, <4>1, <4>2, ToldOf DEF Decided, Ends
      <4>4. QED
        BY <1>1, <2>2, <3>2, <4>3
    <3>3. CASE b # a
      <4>1. b \notin e.of
        BY <2>3, <3>3
      <4>2. LogSound(Append(log, e), b, view.attempt[b].status, view.approval[b])
        BY <2>3, <2>l, <3>1, <4>1, UntoldOf
      <4>3. QED
        BY <2>2, <3>3, <4>2
    <3>4. QED
      BY <3>2, <3>3
  <2>8. /\ \A b \in Attempt : view.attempt[b].status # "none" => view'.attempt[b].status # "none"
        /\ \A b \in Attempt \ dirty' : /\ b \notin dirty
                                       /\ view'.attempt[b] = view.attempt[b]
                                       /\ view'.approval[b] = view.approval[b]
        /\ \A b \in dirty' \ dirty : b \in Recalling
        /\ dirty' \subseteq Attempt
        /\ \A b \in Attempt : b \in influenced' <=> b \in influenced
    BY <1>0, <2>2, <2>4
  <2>9. QED
    BY <2>2, <2>3, <2>4, <2>5, <2>6, <2>7, <2>8, <2>l, AddKeeps
<1>5. QED
  BY <1>3, <1>4

(* The model's answer is logged before its program runs. *)
LEMMA BeginKeeps == TypeOK /\ LedgerInv /\ BeginProgram => LedgerInv'
<1> SUFFICES ASSUME TypeOK, LedgerInv, BeginProgram PROVE LedgerInv'
  OBVIOUS
<1> DEFINE e == TurnEvt("model")
           log == events \o fresh
<1>1. /\ UNCHANGED <<tables, view, dirty, influenced>> /\ Add(<<e>>)
      /\ pc = "between" /\ Active
  BY DEF BeginProgram, Active
<1>2. e \in Event /\ \A a \in Attempt : a \notin e.of
  BY EventTypes DEF TurnEvt
<1>3. log \in Seq(Event) /\ dirty \subseteq Attempt
  BY DEF TypeOK
<1> HIDE DEF e, log
<1>4. ViewSound'
  BY <1>1 DEF LedgerInv, ViewSound, RowSound
<1>5. AsksOnce'
  BY <1>1 DEF LedgerInv, AsksOnce, Asks
<1>6. ASSUME InStep
      PROVE  \A a \in Attempt :
        LogSound(Append(events \o fresh, e), a, view'.attempt[a].status, view'.approval[a])
  <2>1. \A a \in Attempt : LogSound(log, a, view.attempt[a].status, view.approval[a])
    BY <1>6 DEF LedgerInv, Synced, log
  <2>2. \A a \in Attempt : LogSound(Append(log, e), a, view.attempt[a].status, view.approval[a])
    BY <1>2, <1>3, <2>1, UntoldOf
  <2>3. QED
    BY <1>1, <2>2 DEF log
<1>7. QED
  BY <1>1, <1>2, <1>3, <1>4, <1>5, <1>6, AddKeeps

(* The view is committed as it is, but for the turn. *)
LEMMA PlainCommitKeeps ==
  TypeOK /\ LedgerInv /\ (RecallForTurn \/ EndProgram \/ Finish) => LedgerInv'
<1> SUFFICES ASSUME TypeOK, LedgerInv, RecallForTurn \/ EndProgram \/ Finish
             PROVE  LedgerInv'
  OBVIOUS
<1>0. view \in View /\ dirty \in SUBSET Attempt /\ events \o fresh \in Seq(Event)
  BY TypesSplit DEF SessionTypes, TypeOK
<1>1. Active /\ UNCHANGED influenced
  BY DEF RecallForTurn, EndProgram, Finish, Active
<1>2. PICK v \in View, type \in {"recalled", "model", "turn_completed", "turn_failed"},
           next \in Place :
        /\ Commit(v, dirty, <<TurnEvt(type)>>, next)
        /\ v.approval = view.approval /\ v.attempt = view.attempt /\ v.queued = view.queued
        /\ v.turn # "none"
        /\ next \in {"between", "program", "recall", "ending"} =>
             \A a \in Attempt : Asks(view, a) => a \in staged' /\ next # "between"
  <2>0. view.turn # "none"
    BY <1>1 DEF LedgerInv, Known
  <2>1. CASE RecallForTurn
    <3>1. \A a \in Attempt : ~Asks(view, a)
      BY <1>1, <2>1 DEF LedgerInv, AsksOnce, RecallForTurn
    <3>2. Commit(view, dirty, <<TurnEvt("recalled")>>, "between") /\ "between" \in Place
      BY <2>1 DEF RecallForTurn, Place
    <3>3. QED
      BY <1>0, <2>0, <3>1, <3>2
  <2>2. CASE EndProgram
    <3>1. PICK next \in {"between", "ending"} :
            /\ Commit(view, dirty, <<TurnEvt("model")>>, next)
            /\ AwaitsApproval => next = "ending"
      BY <2>2 DEF EndProgram
    <3>2. \A a \in Attempt : Asks(view, a) => a \in staged
      BY <1>1 DEF LedgerInv, AsksOnce
    <3>3. \A a \in Attempt : Asks(view, a) => a \in staged' /\ next # "between"
      BY <2>2, <3>1, <3>2 DEF AwaitsApproval, Asks, EndProgram
    <3>4. next \in Place
      BY DEF Place
    <3>5. QED
      BY <1>0, <2>0, <3>1, <3>3, <3>4
  <2>3. CASE Finish
    <3>1. \A t \in {"completed", "failed"} :
            LET v == [view EXCEPT !.turn = t] IN
            /\ v \in View /\ v.approval = view.approval /\ v.attempt = view.attempt
            /\ v.queued = view.queued /\ v.turn # "none"
      BY <1>0 DEF View, TurnStatus
    <3>2. QED
      BY <2>3, <3>1 DEF Finish, Place
  <2>4. QED
    BY <2>1, <2>2, <2>3
<1> DEFINE e == TurnEvt(type)
           log == events \o fresh
<1>3. e \in Event /\ \A a \in Attempt : a \notin e.of
  BY EventTypes DEF TurnEvt
<1>4. log \in Seq(Event) /\ Commit(v, dirty, <<e>>, next)
  BY <1>0, <1>2
<1> HIDE DEF e, log
<1>5. <<e>> \in Seq(Event) /\ <<e>> # <<>> /\ log \o <<e>> = Append(log, e)
  BY <1>3, <1>4, OneMore
<1>6. ASSUME InStep
      PROVE  \A a \in Attempt :
               LogSound((events \o fresh) \o <<e>>, a, v.attempt[a].status, v.approval[a])
  <2>1. \A a \in Attempt : LogSound(log, a, view.attempt[a].status, view.approval[a])
    BY <1>6 DEF LedgerInv, Synced, log
  <2>2. \A a \in Attempt : LogSound(Append(log, e), a, view.attempt[a].status, view.approval[a])
    BY <1>3, <1>4, <2>1, UntoldOf
  <2>3. QED
    BY <1>2, <1>5, <2>2 DEF log
<1>7. /\ \A a \in Attempt : RowSound(a, v.attempt[a], v.approval[a], a \in influenced)
      /\ \A a \in Attempt : Asks(v, a) <=> Asks(view, a)
  BY <1>2 DEF LedgerInv, ViewSound, Asks
<1>8. QED
  BY <1>0, <1>1, <1>2, <1>4, <1>5, <1>6, <1>7, CommitKeeps

(* A program that fails takes its question back. *)
LEMMA VoidKeeps == TypeOK /\ LedgerInv /\ FailProgram => LedgerInv'
<1> SUFFICES ASSUME TypeOK, LedgerInv, FailProgram PROVE LedgerInv'
  OBVIOUS
<1> DEFINE e == TurnEvt("model")
           g == [type |-> "expired", of |-> Voided]
           log == events \o fresh
           more == <<e>> \o VoidEvent
           v == VoidedView
<1>0. /\ view \in View /\ dirty \in SUBSET Attempt /\ staged \subseteq Attempt
      /\ log \in Seq(Event)
  BY TypesSplit DEF SessionTypes, TypeOK
<1>1. /\ Active /\ UNCHANGED <<influenced, staged>>
      /\ Commit(v, dirty \cup Voided, more, "between")
  BY DEF FailProgram, Active, VoidedView
<1>2. /\ e \in Event /\ \A a \in Attempt : a \notin e.of
      /\ Voided \subseteq Attempt /\ g \in Event /\ g.of = Voided /\ g.type = "expired"
      /\ VoidEvent \in Seq(Event)
  <2>1. Voided \subseteq Attempt /\ VoidEvent \in Seq(Event)
    BY <1>0, VoidEventType
  <2>2. QED
    BY <2>1, EventTypes DEF TurnEvt
<1>3. \A a \in Attempt : a \in Voided <=> Asks(view, a)
  BY <1>1 DEF LedgerInv, AsksOnce, Asks, Voided
<1>4. \A a \in Attempt : a \in Voided <=> view.approval[a] = "pending"
  BY <1>3 DEF LedgerInv, ViewSound, RowSound, Asks
<1>5. /\ v \in View /\ v.turn = view.turn /\ v.queued = view.queued
      /\ \A a \in Attempt \ Voided : v.attempt[a] = view.attempt[a]
                                     /\ v.approval[a] = view.approval[a]
      /\ \A a \in Voided : v.attempt[a].status = "expired" /\ v.approval[a] = "expired"
  <2>1. /\ VoidedView \in View
        /\ VoidedView.approval = [a \in Attempt |->
             IF a \in Voided /\ view.approval[a] = "pending" THEN "expired" ELSE view.approval[a]]
        /\ VoidedView.attempt = [a \in Attempt |->
             IF a \in Voided THEN [view.attempt[a] EXCEPT !.status = "expired"]
             ELSE view.attempt[a]]
        /\ VoidedView.turn = view.turn /\ VoidedView.queued = view.queued
    BY <1>0, VoidedViewType
  <2>2. \A a \in Attempt : view.attempt[a] \in AttemptRow
    BY <1>0 DEF View
  <2>3. \A a \in Voided : VoidedView.attempt[a].status = "expired"
                          /\ VoidedView.approval[a] = "expired"
    BY <1>2, <1>4, <2>1, <2>2 DEF AttemptRow
  <2>4. QED
    BY <2>1, <2>3
<1>6. e \in Event /\ VoidEvent = IF Voided = {} THEN <<>> ELSE <<g>>
  BY <1>2 DEF VoidEvent
<1> HIDE DEF e, g, log, v
<1>7. /\ more \in Seq(Event) /\ more # <<>>
      /\ Voided = {} => log \o more = Append(log, e)
      /\ Voided # {} => log \o more = Append(Append(log, e), g)
      /\ Append(log, e) \in Seq(Event)
  <2>0. /\ <<e>> \in Seq(Event) /\ <<e>> # <<>> /\ log \o <<e>> = Append(log, e)
        /\ <<e>> \o <<g>> \in Seq(Event) /\ <<e>> \o <<g>> # <<>>
        /\ log \o (<<e>> \o <<g>>) = Append(Append(log, e), g)
        /\ Append(log, e) \in Seq(Event)
    BY <1>0, <1>2, OneMore
  <2>1. CASE Voided = {}
    <3>1. more = <<e>>
      BY <1>2, <1>6, <2>1
    <3>2. QED
      BY <2>0, <2>1, <3>1
  <2>2. CASE Voided # {}
    <3>1. VoidEvent = <<g>>
      BY <1>6, <2>2
    <3>2. QED
      BY <2>0, <2>2, <3>1, Zenon
  <2>3. QED
    BY <2>1, <2>2
<1> HIDE DEF more
<1>8. ASSUME InStep
      PROVE  \A a \in Attempt :
               LogSound((events \o fresh) \o more, a, v.attempt[a].status, v.approval[a])
  <2> SUFFICES ASSUME NEW a \in Attempt
               PROVE  LogSound(log \o more, a, v.attempt[a].status, v.approval[a])
    BY DEF log
  <2>1. LogSound(log, a, view.attempt[a].status, view.approval[a])
    BY <1>8 DEF LedgerInv, Synced, log
  <2>2. LogSound(Append(log, e), a, view.attempt[a].status, view.approval[a])
    BY <1>0, <1>2, <2>1, UntoldOf
  <2>3. CASE a \in Voided
    <3>1. LogSound(Append(log, e), a, "awaiting_approval", "pending")
      BY <1>3, <1>4, <2>2, <2>3 DEF Asks
    <3>2. a \in g.of
      BY <1>2, <2>3
    <3>3. LogSound(Append(Append(log, e), g), a, "expired", "expired")
      BY <1>2, <1>7, <3>1, <3>2, ToldOf DEF Decided, Ends
    <3>4. QED
      BY <1>5, <1>7, <2>3, <3>3
  <2>4. CASE a \notin Voided
    <3>1. LogSound(Append(log, e), a, v.attempt[a].status, v.approval[a])
      BY <1>5, <2>2, <2>4
    <3>2. CASE Voided = {}
      BY <1>7, <3>1, <3>2
    <3>3. CASE Voided # {}
      <4>1. a \notin g.of
        BY <1>2, <2>4
      <4>2. QED
        BY <1>2, <1>7, <3>1, <3>3, <4>1, UntoldOf
    <3>4. QED
      BY <3>2, <3>3
  <2>5. QED
    BY <2>3, <2>4
<1>9. \A a \in Attempt : RowSound(a, v.attempt[a], v.approval[a], a \in influenced)
  <2> SUFFICES ASSUME NEW a \in Attempt
               PROVE  RowSound(a, v.attempt[a], v.approval[a], a \in influenced)
    OBVIOUS
  <2>1. RowSound(a, view.attempt[a], view.approval[a], a \in influenced)
    BY DEF LedgerInv, ViewSound
  <2>2. CASE a \in Voided
    BY <1>4, <1>5, <2>1, <2>2 DEF RowSound
  <2>3. CASE a \notin Voided
    BY <1>5, <2>1, <2>3
  <2>4. QED
    BY <2>2, <2>3
<1>10. /\ \A a \in Attempt : ~Asks(v, a)
       /\ \A a \in Attempt : view.attempt[a].status # "none" => v.attempt[a].status # "none"
       /\ \A a \in Attempt :
            v.attempt[a].status = "executing" <=> view.attempt[a].status = "executing"
  BY <1>3, <1>5 DEF Asks
<1>11. v.turn # "none" /\ dirty \cup Voided \in SUBSET Attempt
  BY <1>0, <1>1, <1>2, <1>5 DEF LedgerInv, Known
<1>12. QED
  BY <1>0, <1>1, <1>5, <1>7, <1>8, <1>9, <1>10, <1>11, CommitKeeps

-----------------------------------------------------------------------------
(* Another transaction: it takes the next number, and the session is no      *)
(* longer in step.                                                           *)
LEMMA OtherKeeps ==
  ASSUME TypeOK, SessionInv, LedgerInv,
         UNCHANGED <<pc, view, dirty, fresh, sequence, staged, influenced>>, turn' # "none",
         NEW log \in Seq(Event), log # <<>>, events' = events \o log,
         TablesSound', OneQuestion',
         \A a \in Attempt : attempt'[a].status # "none" => attempt[a].status # "none"
  PROVE  LedgerInv'
<1>1. /\ events \in Seq(Event) /\ sequence \in Nat /\ fresh \in Seq(Event)
  BY DEF TypeOK
<1>2. /\ Len(events') = Len(events) + Len(log) /\ Len(log) \in Nat /\ Len(log) # 0
      /\ Len(events) \in Nat /\ Len(fresh) \in Nat
  BY <1>1
<1>3. ~InStep'
  BY <1>1, <1>2 DEF SessionInv, InStep, Base, Active
<1>4. ViewSound' /\ AsksOnce' /\ Known' /\ FreshTables'
  BY DEF LedgerInv, ViewSound, RowSound, AsksOnce, Asks, Known, Active, FreshTables
<1>5. QED
  BY <1>3, <1>4 DEF LedgerInv, Synced

(* A turn found in progress after a restart is failed. *)
LEMMA InterruptedKeeps == TypeOK /\ SessionInv /\ LedgerInv /\ FailInterrupted => LedgerInv'
<1> SUFFICES ASSUME TypeOK, SessionInv, LedgerInv, FailInterrupted PROVE LedgerInv'
  OBVIOUS
<1> DEFINE e == TurnEvt("turn_failed")
<1>1. e \in Event /\ \A a \in Attempt : a \notin e.of
  BY EventTypes DEF TurnEvt
<1>2. /\ UNCHANGED <<attempt, approval, execTask, pc, view, dirty, fresh, sequence, staged,
                     influenced>>
      /\ turn' # "none" /\ events' = Append(events, e) /\ events \in Seq(Event)
  BY DEF FailInterrupted, session, run, TypeOK
<1> HIDE DEF e
<1>3. TablesSound' /\ OneQuestion'
  <2>1. \A a \in Attempt : LogSound(events, a, attempt[a].status, approval[a])
    BY DEF LedgerInv, TablesSound
  <2>2. \A a \in Attempt : LogSound(events', a, attempt[a].status, approval[a])
    BY <1>1, <1>2, <2>1, UntoldOf
  <2>3. QED
    BY <1>2, <2>2 DEF LedgerInv, TablesSound, RowSound, OneQuestion
<1>4. <<e>> \in Seq(Event) /\ <<e>> # <<>> /\ events' = events \o <<e>>
  BY <1>1, <1>2, OneMore
<1>5. QED
  BY <1>2, <1>3, <1>4, OtherKeeps

(* The tables have a turn as soon as they have an approval or a task. *)
LEMMA TurnThere ==
  ASSUME FreshTables, NEW a \in Attempt, approval[a] = "pending" \/ a \in execTask
  PROVE  turn # "none"
  BY DEF FreshTables, NoApprovals

(* A decision on one open approval. *)
LEMMA ResolveKeeps ==
  ASSUME TypeOK, SessionInv, LedgerInv, NEW a \in Attempt, Open(a),
         NEW ap \in Decided, NEW st \in {"expired", "denied", "failed", "executing"},
         NEW log \in Seq(Event), log # <<>>, Resolve(a, ap, st, log),
         execTask' = IF st = "executing" THEN execTask \cup {a} ELSE execTask,
         RowSound(a, attempt'[a], ap, a \in influenced),
         LogSound(events \o log, a, st, ap),
         \A b \in Attempt \ {a} : LogSound(events \o log, b, attempt[b].status, approval[b])
  PROVE  LedgerInv'
<1>0. /\ attempt \in [Attempt -> AttemptRow] /\ approval \in [Attempt -> ApprovalStatus]
  BY TypesSplit DEF TableTypes
<1>1. /\ approval' = [approval EXCEPT ![a] = ap]
      /\ attempt' = [attempt EXCEPT ![a].status = st]
      /\ events' = events \o log
      /\ UNCHANGED <<turn, pc, view, dirty, fresh, sequence, staged, influenced>>
  BY DEF Resolve, worker, session, run
<1>2. /\ approval'[a] = ap /\ attempt'[a].status = st
      /\ \A b \in Attempt \ {a} : attempt'[b] = attempt[b] /\ approval'[b] = approval[b]
  BY <1>0, <1>1 DEF AttemptRow
<1>3. /\ approval[a] = "pending" /\ attempt[a].status = "awaiting_approval"
      /\ a \notin Recalling
  BY DEF Open, LedgerInv, TablesSound, RowSound
<1>4. TablesSound'
  <2> SUFFICES ASSUME NEW b \in Attempt
               PROVE  /\ RowSound(b, attempt'[b], approval'[b], b \in influenced)
                      /\ LogSound(events', b, attempt'[b].status, approval'[b])
                      /\ b \notin Recalling => (attempt'[b].status = "executing" <=> b \in execTask')
    BY <1>1 DEF TablesSound, RowSound
  <2>1. CASE b = a
    <3>1. a \notin execTask
      BY <1>3 DEF LedgerInv, TablesSound
    <3>2. QED
      BY <1>1, <1>2, <2>1, <3>1
  <2>2. CASE b # a
    <3>1. /\ RowSound(b, attempt[b], approval[b], b \in influenced)
          /\ b \notin Recalling => (attempt[b].status = "executing" <=> b \in execTask)
      BY DEF LedgerInv, TablesSound
    <3>2. b \in execTask' <=> b \in execTask
      BY <2>2
    <3>3. QED
      BY <1>1, <1>2, <2>2, <3>1, <3>2
  <2>3. QED
    BY <2>1, <2>2
<1>5. OneQuestion'
  BY <1>0, <1>2 DEF LedgerInv, OneQuestion, Decided
<1>6. turn' # "none"
  BY <1>1, <1>3, TurnThere DEF LedgerInv
<1>7. \A b \in Attempt : attempt'[b].status # "none" => attempt[b].status # "none"
  BY <1>2, <1>3
<1>8. QED
  BY <1>1, <1>4, <1>5, <1>6, <1>7, OtherKeeps

(* What an event about a alone tells of the other attempts: nothing. *)
LEMMA OfAlone ==
  ASSUME NEW log \in Seq(Event), NEW a \in Attempt,
         NEW t \in {"approved", "denied", "expired", "executing", "succeeded", "failed"},
         NEW b \in Attempt \ {a}, NEW st, NEW ap, LogSound(log, b, st, ap)
  PROVE  LogSound(Append(log, Evt(t, a)), b, st, ap)
<1>1. Evt(t, a) \in Event /\ b \notin Evt(t, a).of
  BY EventTypes DEF Evt
<1>2. QED
  BY <1>1, UntoldOf

(* The user approves or denies. *)
LEMMA UserKeeps ==
  ASSUME TypeOK, SessionInv, LedgerInv, NEW a \in Attempt, User(a)
  PROVE  LedgerInv'
<1>0. attempt \in [Attempt -> AttemptRow] /\ events \in Seq(Event)
  BY TypesSplit DEF TableTypes
<1>1. Open(a) /\ approval[a] = "pending"
  BY DEF User, DecideLate, Deny, ApproveInvalid, ApproveUnexecutable, Approve, Open
<1>2. /\ RowSound(a, attempt[a], approval[a], a \in influenced)
      /\ attempt[a].status = "awaiting_approval" /\ a \notin Recalling
      /\ LogSound(events, a, "awaiting_approval", "pending")
      /\ \A b \in Attempt : LogSound(events, b, attempt[b].status, approval[b])
  BY <1>1 DEF LedgerInv, TablesSound, RowSound
<1>e. \A t \in {"approved", "denied", "expired", "executing", "failed"} :
        Evt(t, a) \in Event /\ Evt(t, a).type = t /\ Evt(t, a).of = {a}
  BY EventTypes DEF Evt
<1>r. ASSUME NEW ap, NEW log, NEW st, Resolve(a, ap, st, log)
      PROVE  attempt'[a].status = st
  BY <1>0, <1>r DEF AttemptRow, Resolve
<1>3. ASSUME NEW ap \in Decided, NEW st \in {"expired", "denied", "failed"},
             NEW t \in {"denied", "expired", "failed"}, Resolve(a, ap, st, <<Evt(t, a)>>),
             UNCHANGED execTask,
             ap = "denied" <=> st = "denied", ap = "expired" <=> st \in {"expired", "failed"},
             t \in Decided => t = ap, t \notin Decided => ap = "expired" /\ st = "failed"
      PROVE  LedgerInv'
  <2> DEFINE e == Evt(t, a)
  <2>1. e \in Event /\ e.type = t /\ a \in e.of
    BY <1>e
  <2>2. LogSound(Append(events, e), a, st, ap)
    <3> HIDE DEF e
    <3>1. QED
      BY <1>0, <1>2, <1>3, <2>1, ToldOf DEF Decided, Ends
  <2>3. \A b \in Attempt \ {a} : LogSound(Append(events, e), b, attempt[b].status, approval[b])
    BY <1>0, <1>2, OfAlone
  <2>4. <<e>> \in Seq(Event) /\ <<e>> # <<>> /\ events \o <<e>> = Append(events, e)
    BY <1>0, <2>1, OneMore
  <2>5. RowSound(a, attempt'[a], ap, a \in influenced)
    <3>1. attempt'[a].status = st
      BY <1>3, <1>r
    <3>2. QED
      BY <1>2, <1>3, <3>1 DEF RowSound, Decided
  <2>6. Resolve(a, ap, st, <<e>>)
    BY <1>3
  <2> HIDE DEF e
  <2>7. execTask' = IF st = "executing" THEN execTask \cup {a} ELSE execTask
    BY <1>3
  <2> DEFINE log == <<e>>
  <2>8. /\ log \in Seq(Event) /\ log # <<>> /\ Resolve(a, ap, st, log)
        /\ LogSound(events \o log, a, st, ap)
        /\ \A b \in Attempt \ {a} : LogSound(events \o log, b, attempt[b].status, approval[b])
    BY <2>2, <2>3, <2>4, <2>6, Zenon
  <2> HIDE DEF log
  <2>9. QED
    BY <1>1, <1>3, <2>5, <2>7, <2>8, ResolveKeeps
<1>4. ASSUME NEW st \in {"failed", "executing"},
             Resolve(a, "approved", st, <<Evt("approved", a), Evt(st, a)>>),
             execTask' = IF st = "executing" THEN execTask \cup {a} ELSE execTask,
             Evaluate(a, attempt[a].escalated, FALSE) = "requires_approval"
      PROVE  LedgerInv'
  <2> DEFINE e == Evt("approved", a)
             g == Evt(st, a)
  <2>1. /\ e \in Event /\ e.type = "approved" /\ a \in e.of
        /\ g \in Event /\ g.type = st /\ a \in g.of
    BY <1>e
  <2>2. LogSound(Append(Append(events, e), g), a, st, "approved") /\ Append(events, e) \in Seq(Event)
    <3> HIDE DEF e, g
    <3>1. LogSound(Append(events, e), a, "awaiting_approval", "approved")
      BY <1>0, <1>2, <2>1, ToldOf DEF Decided, Ends
    <3>2. Append(events, e) \in Seq(Event)
      BY <1>0, <2>1
    <3>3. LogSound(Append(Append(events, e), g), a, st, "approved")
      BY <2>1, <3>1, <3>2, ToldOf DEF Decided, Ends
    <3>4. QED
      BY <3>2, <3>3
  <2>3. \A b \in Attempt \ {a} :
          LogSound(Append(Append(events, e), g), b, attempt[b].status, approval[b])
    BY <1>0, <1>2, <2>2, OfAlone
  <2>4. /\ <<e, g>> \in Seq(Event) /\ <<e, g>> # <<>>
        /\ events \o <<e, g>> = Append(Append(events, e), g)
    BY <1>0, <2>1, OneMore
  <2>5. RowSound(a, attempt'[a], "approved", a \in influenced)
    <3>1. attempt'[a].status = st
      BY <1>4, <1>r
    <3> DEFINE esc == attempt[a].escalated
    <3>2. esc \in BOOLEAN
      BY <1>0, Zenon DEF AttemptRow
    <3>3. Evaluate(a, esc, FALSE) = "requires_approval"
      BY <1>4
    <3>4. a \in influenced /\ Impact[a] # "read" => esc
      BY <1>1, <1>2, Zenon DEF RowSound
    <3> HIDE DEF esc
    <3>5. Policy[a] # "deny" /\ (esc /\ Impact[a] # "read" => Impact[a] = "write_reversible")
      BY <3>2, <3>3, EvaluateMeans
    <3>6. QED
      BY <1>2, <1>4, <3>1, <3>4, <3>5 DEF RowSound
  <2>6. Resolve(a, "approved", st, <<e, g>>)
    BY <1>4
  <2> HIDE DEF e, g
  <2>7. "approved" \in Decided /\ st \in {"expired", "denied", "failed", "executing"}
    BY DEF Decided
  <2> DEFINE log == <<e, g>>
  <2>8. /\ log \in Seq(Event) /\ log # <<>> /\ Resolve(a, "approved", st, log)
        /\ LogSound(events \o log, a, st, "approved")
        /\ \A b \in Attempt \ {a} : LogSound(events \o log, b, attempt[b].status, approval[b])
    BY <2>2, <2>3, <2>4, <2>6, Zenon
  <2> HIDE DEF log
  <2>9. QED
    BY <1>1, <1>4, <2>5, <2>7, <2>8, ResolveKeeps
<1>5. CASE DecideLate(a)
  BY <1>3, <1>5 DEF DecideLate, Decided
<1>6. CASE Deny(a)
  BY <1>3, <1>6 DEF Deny, Decided
<1>7. CASE ApproveInvalid(a)
  BY <1>3, <1>7 DEF ApproveInvalid, Decided
<1>8. CASE ApproveUnexecutable(a)
  BY <1>4, <1>8 DEF ApproveUnexecutable
<1>9. CASE Approve(a)
  BY <1>4, <1>9 DEF Approve
<1>10. QED
  BY <1>5, <1>6, <1>7, <1>8, <1>9 DEF User

(* The sweep expires what nobody answered in time. *)
LEMMA ExpireKeeps == TypeOK /\ SessionInv /\ LedgerInv /\ ReconcileExpired => LedgerInv'
<1> SUFFICES ASSUME TypeOK, SessionInv, LedgerInv, ReconcileExpired PROVE LedgerInv'
  OBVIOUS
<1> DEFINE e == [type |-> "expired", of |-> Expirable]
<1>0. /\ attempt \in [Attempt -> AttemptRow] /\ approval \in [Attempt -> ApprovalStatus]
      /\ events \in Seq(Event) /\ Expirable \subseteq Attempt
  BY TypesSplit DEF TableTypes, Expirable
<1>1. e \in Event /\ e.type = "expired" /\ e.of = Expirable
  BY <1>0, EventTypes
<1>2. /\ approval' = [a \in Attempt |-> IF a \in Expirable THEN "expired" ELSE approval[a]]
      /\ attempt' = [a \in Attempt |->
           IF a \in Expirable THEN [attempt[a] EXCEPT !.status = "expired"] ELSE attempt[a]]
      /\ events' = Append(events, e) /\ Expirable # {}
      /\ UNCHANGED <<turn, execTask, pc, view, dirty, fresh, sequence, staged, influenced>>
  BY DEF ReconcileExpired, worker, session, run
<1>3. /\ \A a \in Expirable : attempt'[a].status = "expired" /\ approval'[a] = "expired"
      /\ \A a \in Attempt \ Expirable : attempt'[a] = attempt[a] /\ approval'[a] = approval[a]
  BY <1>0, <1>2 DEF AttemptRow
<1>4. \A a \in Expirable : approval[a] = "pending" /\ attempt[a].status = "awaiting_approval"
                           /\ a \notin Recalling
  BY DEF Expirable, LedgerInv, TablesSound, RowSound
<1> HIDE DEF e
<1>5. TablesSound'
  <2> SUFFICES ASSUME NEW a \in Attempt
               PROVE  /\ RowSound(a, attempt'[a], approval'[a], a \in influenced)
                      /\ LogSound(events', a, attempt'[a].status, approval'[a])
                      /\ a \notin Recalling => (attempt'[a].status = "executing" <=> a \in execTask')
    BY <1>2, Zenon DEF TablesSound
  <2>1. /\ RowSound(a, attempt[a], approval[a], a \in influenced)
        /\ LogSound(events, a, attempt[a].status, approval[a])
        /\ a \notin Recalling => (attempt[a].status = "executing" <=> a \in execTask)
    BY DEF LedgerInv, TablesSound
  <2>2. CASE a \in Expirable
    <3>1. LogSound(events, a, "awaiting_approval", "pending") /\ a \in e.of
      BY <1>1, <1>4, <2>1, <2>2
    <3>2. LogSound(Append(events, e), a, "expired", "expired")
      BY <1>0, <1>1, <3>1, ToldOf DEF Decided, Ends
    <3>3. RowSound(a, attempt'[a], approval'[a], a \in influenced)
      BY <1>3, <1>4, <2>2 DEF RowSound
    <3>4. QED
      BY <1>2, <1>3, <1>4, <2>1, <2>2, <3>2, <3>3
  <2>3. CASE a \notin Expirable
    <3>1. a \notin e.of
      BY <1>1, <2>3
    <3>2. LogSound(Append(events, e), a, attempt[a].status, approval[a])
      BY <1>0, <1>1, <2>1, <3>1, UntoldOf
    <3>3. QED
      BY <1>2, <1>3, <2>1, <2>3, <3>2
  <2>4. QED
    BY <2>2, <2>3
<1>6. OneQuestion'
  BY <1>2 DEF LedgerInv, OneQuestion
<1>7. turn' # "none"
  <2>1. PICK a \in Attempt : approval[a] = "pending"
    BY <1>0, <1>2, <1>4
  <2>2. QED
    BY <1>2, <2>1, TurnThere DEF LedgerInv
<1>8. \A a \in Attempt : attempt'[a].status # "none" => attempt[a].status # "none"
  BY <1>3, <1>4
<1>9. <<e>> \in Seq(Event) /\ <<e>> # <<>> /\ events' = events \o <<e>>
  BY <1>0, <1>1, <1>2, OneMore
<1>10. QED
  BY <1>2, <1>5, <1>6, <1>7, <1>8, <1>9, OtherKeeps

(* The worker begins or ends a side effect. *)
LEMMA ExecuteKeeps ==
  ASSUME TypeOK, SessionInv, LedgerInv, NEW a \in Attempt, Execute(a)
  PROVE  LedgerInv'
<1>0. /\ attempt \in [Attempt -> AttemptRow] /\ approval \in [Attempt -> ApprovalStatus]
      /\ events \in Seq(Event)
  BY TypesSplit DEF TableTypes
<1>1. /\ a \in execTask /\ execTask' = execTask \ {a} /\ pc = "idle"
      /\ UNCHANGED <<turn, approval, pc, view, dirty, fresh, sequence, staged, influenced>>
  BY DEF Execute, worker, session, run
<1>2. turn' # "none"
  BY <1>1, TurnThere DEF LedgerInv
<1>3. OneQuestion'
  BY <1>1 DEF LedgerInv, OneQuestion
<1>4. CASE attempt[a].status = "executing"
  <2>1. PICK st \in {"succeeded", "failed"} :
          /\ attempt' = [attempt EXCEPT ![a].status = st]
          /\ events' = Append(events, Evt(st, a))
    BY <1>4 DEF Execute
  <2> DEFINE e == Evt(st, a)
  <2>2. e \in Event /\ e.type = st /\ a \in e.of
    BY EventTypes DEF Evt
  <2>3. attempt'[a].status = st /\ \A b \in Attempt \ {a} : attempt'[b] = attempt[b]
    BY <1>0, <2>1 DEF AttemptRow
  <2>4. TablesSound'
    <3> SUFFICES ASSUME NEW b \in Attempt
                 PROVE  /\ RowSound(b, attempt'[b], approval[b], b \in influenced)
                        /\ LogSound(events', b, attempt'[b].status, approval[b])
                        /\ b \notin Recalling =>
                             (attempt'[b].status = "executing" <=> b \in execTask')
      BY <1>1 DEF TablesSound, RowSound
    <3>1. /\ RowSound(b, attempt[b], approval[b], b \in influenced)
          /\ LogSound(events, b, attempt[b].status, approval[b])
          /\ b \notin Recalling => (attempt[b].status = "executing" <=> b \in execTask)
      BY DEF LedgerInv, TablesSound
    <3>2. CASE b = a
      <4>1. LogSound(events, a, "executing", approval[a])
        BY <1>4, <3>1, <3>2
      <4>2. approval[a] \in {"none", "approved"}
        BY <1>0, <1>4, <3>1, <3>2 DEF RowSound, ApprovalStatus
      <4>3. LogSound(Append(events, e), a, st, approval[a])
        <5> HIDE DEF e
        <5>1. QED
          BY <1>0, <2>2, <4>1, <4>2, ToldOf DEF Decided, Ends
      <4>4. RowSound(a, attempt'[a], approval[a], a \in influenced)
        BY <1>4, <2>3, <3>1, <3>2, <4>2 DEF RowSound
      <4>5. QED
        BY <1>1, <2>1, <2>3, <3>2, <4>3, <4>4
    <3>3. CASE b # a
      <4>1. LogSound(events', b, attempt[b].status, approval[b])
        BY <1>0, <2>1, <3>1, <3>3, OfAlone
      <4>2. QED
        BY <1>1, <2>3, <3>1, <3>3, <4>1
    <3>4. QED
      BY <3>2, <3>3
  <2>5. <<e>> \in Seq(Event) /\ <<e>> # <<>> /\ events' = events \o <<e>>
    BY <1>0, <2>1, <2>2, OneMore
  <2>6. \A b \in Attempt : attempt'[b].status # "none" => attempt[b].status # "none"
    BY <1>4, <2>3
  <2> HIDE DEF e
  <2>7. QED
    BY <1>1, <1>2, <1>3, <2>4, <2>5, <2>6, OtherKeeps
<1>5. CASE attempt[a].status # "executing"
  <2>1. UNCHANGED <<attempt, events>>
    BY <1>5 DEF Execute
  <2>2. TablesSound'
    <3>1. \A b \in Attempt \ {a} : b \in execTask' <=> b \in execTask
      BY <1>1
    <3>2. a \in Recalling
      BY <1>1, <1>5 DEF LedgerInv, TablesSound
    <3>3. QED
      BY <1>1, <2>1, <3>1, <3>2 DEF LedgerInv, TablesSound, RowSound
  <2>3. ~Active' /\ ~InStep'
    BY <1>1 DEF Active, InStep
  <2>4. ViewSound' /\ FreshTables'
    BY <1>1, <1>2 DEF LedgerInv, ViewSound, RowSound, FreshTables
  <2>5. QED
    BY <1>3, <2>2, <2>3, <2>4 DEF LedgerInv, AsksOnce, Known, Synced
<1>6. QED
  BY <1>4, <1>5

(* Nothing has been proposed at first. *)
LEMMA InitLedger == Init => LedgerInv
<1> SUFFICES ASSUME Init PROVE LedgerInv
  OBVIOUS
<1> USE DEF Init
<1>1. ~Active /\ ~InStep
  BY DEF Active, InStep
<1>2. \A a \in Attempt : attempt[a].status = "none" /\ approval[a] = "none"
  BY DEF NoAttempts, NoApprovals
<1>3. \A a \in Attempt : LogSound(events, a, attempt[a].status, approval[a])
  <2>1. \A a \in Attempt : LogSound(<<>>, a, "none", "none")
    BY DEF LogSound, Once, Told
  <2>2. QED
    BY <1>2, <2>1
<1>4. TablesSound
  BY <1>2, <1>3 DEF TablesSound, RowSound
<1>5. ViewSound
  BY DEF ViewSound, RowSound, EmptyView, NoAttempts, NoApprovals
<1>6. OneQuestion
  BY <1>2 DEF OneQuestion
<1>7. QED
  BY <1>1, <1>4, <1>5, <1>6 DEF LedgerInv, AsksOnce, Known, Synced, FreshTables

(* Each step keeps the invariant. *)
LEMMA StepLedger == TypeOK /\ SessionInv /\ LedgerInv /\ [Next]_vars => LedgerInv'
<1> SUFFICES ASSUME TypeOK, SessionInv, LedgerInv, [Next]_vars PROVE LedgerInv'
  OBVIOUS
<1>1. CASE \/ GiveUp \/ Raise \/ FailProgramAgain \/ UNCHANGED vars
           \/ \E a \in Attempt : Lapse(a)
  <2>1. /\ UNCHANGED <<tables, view, dirty, fresh, sequence, influenced>>
        /\ Active' => Active /\ staged' = staged /\ (pc' = "between" => pc = "between")
    BY <1>1 DEF GiveUp, Raise, FailProgramAgain, Lapse, vars, worker, session, run, tables,
                Active
  <2>2. QED
    BY <2>1, QuietKeeps
<1>2. CASE SettleTurn \/ FailTask \/ Crash
  <2>1. Close /\ pc' = "idle" /\ UNCHANGED <<tables, influenced>>
    BY <1>2 DEF SettleTurn, FailTask, Crash
  <2>2. QED
    BY <2>1, CloseKeeps
<1>3. CASE Run
  <2>1. CASE \E a \in Attempt : CallDenied(a) \/ CallFails(a) \/ CallNeedsApproval(a)
                                \/ CallReturns(a)
    BY <2>1, ProposeKeeps
  <2>2. CASE \E a \in Attempt : CallQueues(a)
    BY <2>2, QueueKeeps
  <2>3. CASE \E a \in Attempt : CallRecalls(a) \/ RecallReturns(a)
    BY <2>3, RecallKeeps
  <2>4. CASE StartTurn \/ FailInterrupted \/ BeginProgram \/ RecallForTurn \/ EndProgram
             \/ FailProgram \/ Finish
    BY <2>4, StartKeeps, InterruptedKeeps, BeginKeeps, PlainCommitKeeps, VoidKeeps
  <2>5. QED
    BY <1>1, <1>2, <1>3, <2>1, <2>2, <2>3, <2>4 DEF Run
<1>4. CASE ReconcileExpired \/ \E a \in Attempt : User(a) \/ Execute(a)
  BY <1>4, ExpireKeeps, UserKeeps, ExecuteKeeps
<1>5. QED
  BY <1>1, <1>2, <1>3, <1>4 DEF Next

(* The invariant holds throughout. *)
LEMMA LedgerHolds == Spec => [](TypeOK /\ LedgerInv)
<1>1. QED
  BY InitTypes, InitSession, InitLedger, StepTypes, StepSession, StepLedger, PTL DEF Spec

(* A side effect is begun only with the user's approval, or by a capability  *)
(* that needs none in a program nothing untrusted influenced; what cannot be *)
(* undone never follows untrusted influence: evaluate_proposal,              *)
(* resolve_approval_decision and the rows they leave.                        *)
THEOREM SideEffectsNeedLeave == Spec => []SideEffectsAuthorized
<1>1. TypeOK /\ LedgerInv => SideEffectsAuthorized
  BY DEF LedgerInv, TablesSound, RowSound, SideEffectsAuthorized
<1>2. QED
  BY <1>1, LedgerHolds, PTL

(* A turn never has two open approvals: what a failed program asked is       *)
(* voided before the next one may ask, and a decided one is not reopened.    *)
THEOREM AsksOneQuestion == Spec => []OneQuestion
<1>1. TypeOK /\ LedgerInv => OneQuestion
  BY DEF LedgerInv
<1>2. QED
  BY <1>1, LedgerHolds, PTL

(* A set that holds at most one thing. *)
LEMMA AtMostOne ==
  ASSUME NEW S, \A i, j \in S : i = j
  PROVE  Cardinality(S) <= 1 /\ (S # {} => Cardinality(S) = 1) /\ (S = {} => Cardinality(S) = 0)
<1>1. CASE S = {}
  BY <1>1, FS_EmptySet
<1>2. CASE S # {}
  <2>1. PICK i \in S : S = {i}
    BY <1>2
  <2>2. Cardinality({i}) = 1
    BY FS_Singleton
  <2>3. QED
    BY <1>2, <2>1, <2>2
<1>3. QED
  BY <1>1, <1>2

(* The log of an attempt says what its rows say. *)
LEMMA LogTells ==
  ASSUME TypeOK, NEW a \in Attempt,
         LogSound(events, a, attempt[a].status, approval[a])
  PROVE  /\ Cardinality(UNION {Logged(d, a) : d \in Decided}) <= 1
         /\ approval[a] = "approved" <=> Logged("approved", a) # {}
         /\ approval[a] = "denied" <=> Logged("denied", a) # {}
         /\ Logged("expired", a) # {} => approval[a] = "expired"
         /\ approval[a] # "none" <=> Cardinality(Logged("requested", a)) = 1
         /\ Cardinality(Logged("executing", a)) <= 1
         /\ Cardinality(Logged("succeeded", a) \cup Logged("failed", a)) <= 1
<1>1. DOMAIN events = 1..Len(events)
  BY DEF TypeOK
<1>2. \A t, i : i \in Logged(t, a) <=> /\ i \in DOMAIN events
                                       /\ events[i].type \in {t} /\ a \in events[i].of
  BY <1>1 DEF Logged
<1>3. \A t : Logged(t, a) # {} <=> Told(events, {t}, a)
  BY <1>2 DEF Told
<1>4. Cardinality(UNION {Logged(d, a) : d \in Decided}) <= 1
  <2> DEFINE S == UNION {Logged(d, a) : d \in Decided}
  <2>1. \A i \in S : i \in DOMAIN events /\ events[i].type \in Decided /\ a \in events[i].of
    BY <1>2
  <2>2. \A i, j \in S : i = j
    BY <2>1 DEF LogSound, Once
  <2> HIDE DEF S
  <2>3. Cardinality(S) <= 1
    BY <2>2, AtMostOne
  <2>4. QED
    BY <2>3 DEF S
<1>5. \A t : Once(events, {t}, a) => \A i, j \in Logged(t, a) : i = j
  BY <1>2 DEF Once
<1>6. approval[a] # "none" <=> Cardinality(Logged("requested", a)) = 1
  <2>1. \A i, j \in Logged("requested", a) : i = j
    BY <1>5 DEF LogSound
  <2>2. Logged("requested", a) # {} <=> approval[a] # "none"
    BY <1>3 DEF LogSound
  <2>3. QED
    BY <2>1, <2>2, AtMostOne
<1>7. Cardinality(Logged("executing", a)) <= 1
  <2>1. \A i, j \in Logged("executing", a) : i = j
    BY <1>5 DEF LogSound
  <2>2. QED
    BY <2>1, AtMostOne
<1>8. Cardinality(Logged("succeeded", a) \cup Logged("failed", a)) <= 1
  <2> DEFINE S == Logged("succeeded", a) \cup Logged("failed", a)
  <2>1. \A i \in S : i \in DOMAIN events /\ events[i].type \in Ends /\ a \in events[i].of
    BY <1>2 DEF Ends
  <2>2. \A i, j \in S : i = j
    BY <2>1 DEF LogSound, Once
  <2> HIDE DEF S
  <2>3. Cardinality(S) <= 1
    BY <2>2, AtMostOne
  <2>4. QED
    BY <2>3 DEF S
<1>9. /\ approval[a] = "approved" <=> Logged("approved", a) # {}
      /\ approval[a] = "denied" <=> Logged("denied", a) # {}
      /\ Logged("expired", a) # {} => approval[a] = "expired"
  BY <1>3 DEF LogSound, Decided
<1>10. QED
  BY <1>4, <1>6, <1>7, <1>8, <1>9

(* Tables and event log tell one story of every attempt: each writer changes *)
(* an approval, its attempt, its task and the log together, and the session  *)
(* commits only while nobody else has written.                               *)
THEOREM OneStory == Spec => []TablesAndLogAgree
<1>1. TypeOK /\ LedgerInv => TablesAndLogAgree
  <2> SUFFICES ASSUME TypeOK, LedgerInv PROVE StatusesAgree /\ LogAgrees
    BY DEF TablesAndLogAgree
  <2>1. StatusesAgree
    BY DEF LedgerInv, TablesSound, RowSound, StatusesAgree
  <2>2. LogAgrees
    BY LogTells DEF LedgerInv, TablesSound, LogAgrees
  <2>3. QED
    BY <2>1, <2>2
<1>2. QED
  BY <1>1, LedgerHolds, PTL
=============================================================================
