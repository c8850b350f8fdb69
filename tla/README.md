# A verification development for Ariel

Ariel (`src/src/ariel/`) is a personal assistant: a FastAPI process, a
single-threaded worker, a Discord bot and a pub/sub sidecar over one PostgreSQL
database.  This directory models its control in TLA+: what is in the database,
what the processes hold in memory while they wait for somebody, and what the
outside world may have done meanwhile.  TLC checks small instances; TLAPS proves
the theorems for all.

Line numbers are those of the source the development was written from.
`PROJECT.json` maps every definition to its lines.

## 1. Inventory

| Component | Source | State it keeps | Operations | Interacts with |
|---|---|---|---|---|
| Task queue and worker | `worker.py`, `persistence.py:1511` | `background_tasks` rows: type, key, attempts, `run_after`, recurrence | seed, enqueue, select, settle, fail | everybody enqueues; the worker calls every handler |
| Side-effect execution | `action_runtime.py:4605-6164` | `action_attempts`, `provider_write_receipts`, marker in `execution_output` | execute a task, record a receipt, undo, reconcile | queue, approvals, Google, agency daemon |
| Policy and approvals | `policy_engine.py`, `action_runtime.py:3224-4602` | `action_attempts`, `approval_requests` | evaluate a call, stage an approval, decide, expire, void | agent loop, API, queue |
| Capability inputs | `capability_registry.py:117-1448`, `executor.py`, `action_runtime.py:259-388` | the normalised input of an attempt, sealed fields | validate, store, seal, validate again, preflight | program runtime, approvals, execution |
| Capabilities in process | `capability_registry.py:1493-3182` | none | search, extract a page, directions, places, weather | executor, web providers |
| Agent loop, program runtime | `agent_loop.py`, `run_runtime.py` | messages, budgets, provenance of one turn | ask the model, run the program, evict rounds | model, sandbox, approvals |
| Turns and API | `app.py`, `conversational_continuity.py` | `turns`, `events`, `turn_idempotency`, sessions | accept a message, run a turn, decide an approval, rotate | queue, agent loop, bot |
| Discord delivery and bot | `worker.py:73-207`, `discord_bot.py` | none durable but `discord_items` | forward messages, deliver answers and buttons | API, Discord |
| Captures | `capture_ingress.py` | captures, their idempotency records, a turn each | normalise, record | API |
| Google connector | `google_connector.py:4627-6470` | account, encrypted tokens, scopes, OAuth states, watch channels | start, callback, refresh, disconnect, renew | Google, execution, sync |
| Provider sync | `sync_runtime.py`, `pubsub_subscriber.py`, `app.py:2715` | cursors, provider events, sync runs | receive, poll, pull pages, start over | connector, queue, evidence |
| Evidence | `provider_evidence_*.py` | objects, evidence rows, blocks | observe, supersede, delete, redact, read | sync, agent loop |
| Memory | `memory.py` | notes, log, salience, dream turns | encode, dream, recall, erase | queue, agent loop |
| Research | `research_runtime.py` | a turn with a terminal finding | run, resume, return | queue, agent loop |
| Agency | `agency_daemon.py`, `worker.py:1061` | jobs, events | run, apply events, look up, request a pull request | daemon, queue |
| Attachments | `attachment_content.py` | sources, blobs, extractions, files | acquire, check, store, extract | Discord, turns |
| Sandbox | `sandbox_runtime.py`, `sandbox_guest_worker.py` | one guest process | start, call, time out | program runtime |
| Stateless code | contracts, normalization, prompts, redaction, cipher, config | none | - | - |

What is hard about them:

* **One worker, many writers.**  A task is handled between two transactions.
  The API process enqueues, a disconnect deletes, and the worker can die
  anywhere in between; nothing claims a row.
* **Effects outside the database.**  A provider call cannot be in a
  transaction.  Before it the code commits a marker and a receipt, after it the
  answer; a crash between leaves the question whether the provider acted.
* **Keys shared between attempts.**  Two approvals may name the same logical
  write.  The second may be decided while the first is in flight, failed for
  now, failed for good, ambiguous, done or undone.
* **Failed programs.**  A program stages approvals and queues effects as it
  runs, and may fail afterwards.
* **Answers that come late.**  Approvals expire, turns go stale, agency events
  arrive out of order, a token expires between check and use, a refresh is
  answered when the user has connected somebody else, pages arrive when the
  cursor has moved.
* **Things said twice.**  Clients repeat messages, Google repeats
  notifications, the daemon repeats events, the worker repeats tasks, and an
  input is normalised two or three times on its way to the provider.

What makes each correct: the queue loses no maintenance and doubles none; a
side effect happens once per logical write and is reported as it is; an
approval authorizes one execution of what was shown, within its time; a message
is answered once and its answer stands; cursors never pass over what was not
stored; tokens belong to the consent that gave them; what the agent is shown is
what the source held when it was last seen.  `PROJECT.json` lists the hazards
at their lines and the properties aimed at each.

## 2. Plan

Done, in this order:

1. `TaskQueue`: everything else runs under it.
2. `ProviderWrite` with the abstract `LogicalWrite`, and `ProviderWriteProofs`.
3. `AgentLoop`, with `AgentLoopProofs`.
4. `ApprovalLedger`, with `ApprovalLedgerProofs`.
5. `GoogleAccount`, `ProviderSync`: the two components that act for an account
   that may change under them.
6. `TurnIngress`, `BackgroundTurns`: every turn there is, from its trigger to
   its answer.
7. `AgencyJobs`, `AttachmentContent`, `ProviderEvidence`.
8. `CapabilityInputs`, `WebReads`: what the catalog of capabilities does before
   and after an effect.
9. Proofs of the safety properties of all of these, in the order of what depends
   on them: `TaskQueueProofs`, the rest of `ApprovalLedgerProofs`,
   `ProviderAnswersProofs` with the refinement of `LogicalWrite`, the context in
   `AgentLoopProofs`, `ProviderSyncProofs`, `GoogleAccountProofs`,
   `ServicesProofs`.

Left:

* provenance of a program (`run_runtime.py:252-573`), now a free choice in
  `ApprovalLedger`;
* `TaskQueue`, `ApprovalLedger` and `ProviderWrite` together, the abstract rows
  of the last two replaced by the real queue;
* session rotation, the note files of the memory.

## 3. The modules

### TaskQueue

`queue` is `background_tasks` in the order of `(created_at, id)`; a row's `due`
is `run_after` relative to now, so that `Tick` moves time and no clock grows.
`phase` and `current` are where the worker is in `process_one_task`
(`worker.py:428-663`): it seeds, selects, runs the handler, settles.  Each of
these is a transaction of its own and one action; between any two, callers
enqueue, a disconnect deletes rows of the provider, and the worker may crash.
`dreamAge` stands for the newest `memory_dream` turn, which gates the next dream
(`memory.py:950`).  The handlers are reduced to what the queue sees of them:
they return or raise.

### LogicalWrite

What execution promises to those who asked for an effect.  Each write has an
outcome (open, done, refused, unknown) and each attempt an answer.  Unknown may
become done; nothing else is reopened.

### ProviderWrite

`process_action_execution_task` and the reconciliation of ambiguous writes
(`action_runtime.py:2252-3221, 4605-6164`).  A write is a receipt key: what
several attempts share when the client gave an idempotency key, or one attempt's
own.  `Kind` is the family of the capability, which decides what can be
answered, whether there is a receipt, and whether there is a probe.

| State | Code |
|---|---|
| `status` | `action_attempts.status`, from the approval on |
| `marker` | `execution_output.dispatch_state = "provider_call_started"` |
| `receipt` | `provider_write_receipts`: status, retryable error, before-state, whether a reconciliation gave up, owner |
| `execTask`, `reconTask` | the row of the queue and its failed runs; -1 for none |
| `phase`, `act`, `rec`, `result` | where the worker is, and what it holds in local variables; lost in a crash |
| `world` | the object at the provider |
| `calls`, `gaveUp` | history, for properties: calls not licensed by a recorded retryable failure, and tasks that ran out of attempts |

The first transaction is one action per way it ends (`ReplayReceipt`, `Refuse`,
`MarkUnknown`, `GateFails`, `ExecuteOnHost`, `ExecuteMemory`, `Dispatch`).  The
labels are read (`CaptureBeforeState`), the provider is called (`CallProvider`),
which may change any part of what it was asked before it answers, fails, or the
process dies; the last transaction records (`Record...`).  Reconciliation has
its own chain: `StartReconcile`, `Probe`, `LearnSuccess`, `LearnNothing`,
`MarkIndeterminate`.  Any transaction may also roll back (`Raise`), any step be
the last of the process (`Crash`).  The advisory lock of mail mutations is not
modelled: there is one worker.

### AgentLoop

`run_agent_loop` (`agent_loop.py:238-1327`), which the main agent, research, the
retriever and the rememberer share; `Mode` is `output_mode`.  `Ask` is the head
of an iteration up to the model's answer.  What follows an answer is one action
per way an iteration ends: the model fails or is retried, the answer is not a
program, the program is the one of the round before (`SameSource`), it fails as
the one before (`FailedAgain`), it fails (`Failed`), it is clean and ends the
loop (`Finished`), or goes on because the message was not grounded
(`MessageRejected`), with values (`ValuesEmitted`), or with its trace (`Traced`).

| State | Code |
|---|---|
| `messages`, `round_spans`, `budget_item_index`, `last_emit_value_tail` | the same locals, positions counted from 1, 0 for `None` |
| `elapsed`, `model_call_count` | the two budgets; only which of them is passed matters of the time |
| `prev_run_source`, `last_program_errors` | stuck detection |
| `rejections`, `grounded` | grounding in provider evidence |
| `pending`, `committed` | rounds with an approval that is pending in the session, and in the database |

A message is its kind and the round it belongs to.  A call is answered by the
return or the values that follow it; `Unanswered` are the rounds whose call is
not.  `TailMoved` says that an eviction has made `last_emit_value_tail` stale,
the one case in which an `emit_value` round can cut a return away from its call
(`agent_loop.py:936-941`).  Of a program the loop sees
whether it failed and with which errors, what its calls were, and its outputs.

### ApprovalLedger

One turn: the worker runs it (`_wake`, the loop, `process_one_call`) in a
session that it commits program by program, and the API process decides and
expires approvals meanwhile.

| State | Code |
|---|---|
| `turn`, `attempt`, `approval` | the rows' statuses; `escalated` is the policy reason that is evaluated again at the decision |
| `events` | the turn's events; the place is `sequence`, which is unique |
| `turnTask`, `execTask` | rows of the queue |
| `view`, `dirty`, `fresh`, `sequence` | the session: its objects, which keep their values over a commit (`expire_on_commit=False`), what it changed and the events it added since, and `_wake`'s counter |
| `taint`, `staged`, `programs`, `failedLast` | the running turn |

`Commit` writes what is dirty, unless the first new event has a number that
another transaction used since: then the unique index refuses, the run raises
and everything goes.  That is the only thing between an old view and a decided
approval, and what makes `DecisionsStand` more than a reading of guards.
`memory.recall` is modelled with its commit in the middle of the program.  The
retriever's several commits are one; several events of a call are one; a call
out of the turn's scope leaves nothing and is left out.  Reads of Google outside
the transaction (`action_runtime.py:3744`) are not modelled: no caller in the
repository asks for them.


### GoogleAccount

The one connector row and what acts on it.  Every operation is one transaction,
its calls to Google included, with two exceptions that make the module: a
refresh reads its token in a transaction, asks Google outside of any and stores
the answer in another, and a capability uses its token outside of any.  Between
these, callbacks, reconnections and the disconnection come.  A token is an
account and a grant, so that a token of another account or of a revoked consent
can be told.  `connection` counts connections and disconnections, for
properties; the row itself has no such number, the code compares tokens.
Watches are a status per resource, registered and renewed with the account.

### ProviderSync

One mailbox or calendar as a feed of changes; a cursor is a position in it.
`runs` is where each worker is in `process_provider_sync_due`: `Claim` takes a
row and the advisory lock, `Begin` opens the run, `Authorise` takes a token,
`Fetch` or `StaleCursor` is the provider's answer, `Store`, `CursorMoved` or
`CursorGone` the last transaction.  Crash, loss of the lock's connection,
disconnection and reconnection come between any two.  A first sync of a mailbox
starts at its watch's seed, or at the end of its history, so what precedes the
first cursor of a connection is `skipped`, by intent; a calendar reads
everything, which is its events of the last thirty days and later
(`sync_runtime.py:389`).  A cursor that Google has forgotten is given up
(`StaleCursor`), and `gap` keeps where it was.  A calendar is then read in full
again; a mailbox is opened at the end of its history, and what came in between is
never read: it has `lapsed`.  `told` counts the wakes that announced a change.

### TurnIngress

Posts, wakes and captures become turns.  `record` is `turn_idempotency`, `task`
the row of the queue, `turn` the status of the turn of a task, `worker` where
the worker is between begin, commits, close, the outcome in the idempotency
record, delivery and the deletion of the row, each a transaction or call of its
own.  `discord` is what the channel shows; Discord drops a message whose nonce
it remembers (external).  A capture is a turn the API process writes, which is
how a running turn becomes stale.

### BackgroundTurns

Research runs and the rememberer: open or resume the turn, programs that commit
one by one, a terminal event with the finding, the wake that carries it back,
deletion of the row.  The two resume differently: research that was interrupted
answers that it was, memory work that was interrupted is closed without a rerun.

### AgencyJobs

An approved run from its dispatch over the answer, the events of the daemon and
their tasks, to status reads and pull requests.  `daemon` is the truth at the
daemon, `tracked` the row of the job; `applied` and `woken` count what each
event did.

### AttachmentContent

A read of an attachment is one action per outcome: from the store, downloaded,
failed before there are bytes, refused by a check.  Rows commit or roll back
with the program, files do not; a worker that dies writing leaves a part of a
file.  Contents, declared types and what the first bytes say are functions of
the attachment.

### ProviderEvidence

One object with a row per content it was seen with.  The sync and four reads of
the agent observe, supersede and delete; a read by reference shows blocks.
`kind` selects which operations an object of that kind meets.  A read that
brought no text has no digest (`google_connector.py:4279`): of a thread or a
message the agent read it leaves nothing but the object
(`action_runtime.py:1712`; the branch at 1741 is never reached), and the sync
names its row by what the history lists (`Raw`).  `latest` is what a read or a
sync that succeeded found last, which `EvidenceIsCurrent` holds against what is
shown.

### CapabilityInputs

Each of the catalog's capabilities with its validator.  A value has a tag and
keeps of a text what validators look at.  `Propose` is validation, policy,
sealing and preflight, `Approve` and `Dispatch` validate again what was stored,
`Finish` is the provider's answer, `RotateKeys` loses the key of sealed fields.
The storage is JSON and is modelled by what it does to values (`InJson`).
A normaliser is the set of what it may return, empty when it refuses; a
validator takes one value of each and puts them together (`Together`).
Egress is declared destinations against allowed ones; an endpoint from the
settings goes through the same reading of addresses in both.

### WebReads

Search, extraction, directions, places, weather: what stops a call before it
asks, its attempts, and its output.  An action is a start, a trouble, the
middle of the circle, an answer.  Blocks of a page are lengths with the places
of spaces, so that the three limits and the trailing space a cut leaves are
there; routes keep the order of their stops, forecasts the numbers of the
intervals they tell of.  `IsOrder` is the test of the code for the provider's
order of stops, `Usable` the selection of intervals.

### Services, MCServices

The services around the agent loop share no state.  `Services` has an instance of
each, over constants and variables of its own, and the names of what each
promises; `ServicesAssumption` is what is fixed about the constants.
`ServicesProofs` and `MCServices` extend it.  In `MCServices`, which adds
`GoogleAccount`, `topic` is which of them moves in a behaviour; the others keep
their initial state.  One run for all checks each exactly as a run of its own
would.

## 4. Runs

| Run | Instance | Question |
|---|---|---|
| `queue` | one recurring type, one key, 2 requested rows, 2 attempts, fair | keys unique, no seeded type doubled, lost or starved, dreams spaced, keyed work leaves |
| `writes` | six families, one at a time: two mail attempts with one key and an undo; three calendar attempts with one key, one of them with other input; a pull request; an agency run; a memory write; a row of Ariel's own | calls justified, answers true, ambiguous frozen, settled stays, every open receipt has somebody to close it |
| `calendar_live` | two calendar attempts, fair | attempts settle, ambiguity settles; `LogicalWrite` is implemented |
| `loop_turn` | the main agent, soft budget 2, hard 4, window of 2 | one pending approval ends the loop, the context stays well formed but for the named cut (section 6), termination |
| `ledger_decisions` | a mail, an event, a recall; 2 programs, 2 runs of the task | decisions final, tables and log agree, one question |
| `ledger_live` | a draft, a send, a search in one program; fair | side effects authorized, approvals settle, turns end |
| `sync` | two workers, 2 changes, one notification, one connection; mailbox or calendar | the cursor passes only what is stored, precedes a mailbox's first cursor or lapsed behind a stale one; never goes back; no mail is told twice |
| `sync_live` | one worker, 2 changes, two connections, fair | with a cursor there, the poll comes to every change: stored, before the first cursor, or lapsed behind a stale one |
| `services` | eight topics, see below | one or two properties each |
| `sync_poll`, `ledger_recall`, `loop_values` | as small as the disagreement allows | section 6 |

The topics of `services`:

| Topic | Instance | Properties |
|---|---|---|
| ingress | a message with a key, a wake, a capture; six utterances, eight inputs of captures; 2 runs of a task | `IngressSound`: record, turn and channel agree, at most one message per turn. `AnswersStand`: neither body nor outcome under a key ever changes, and a turn that saw a newer one does not answer |
| attachments | four attachments: equal bytes with different types, another text, one infected | `OwnContentOnly` |
| turns | two research runs, an encode, 2 tries, 2 edits | `FindingReturnsOnce` |
| jobs | a run, two of its events and a heartbeat, 2 tries | `JobsSound`: an event applies and wakes once, a started job belongs to its attempt |
| evidence | two contents, one of them textless, every kind of object | `EvidenceIsCurrent`: one current content, redactions final, and an old reference shows only what the provider was last seen to hold |
| account | two accounts, two scopes, two OAuth flows, a runner, two grants, two connections | `AccountSound`, `ConnectsOnlyByConsent`, `RefreshStaysInItsConnection`, `BlockingErrorsStick` |
| inputs | for each of the capabilities an input with all fields, none, one missing, one field only, and any of two dozen values in any field | `ApprovedInputsStand`: what runs is what was hashed, and what the owner was asked about is never refused afterwards for its input |
| reads | 2 attempts, limits of 3 blocks, 3 characters, 6 in all; all mixtures of troubles and bodies of every shape | `WebReadsSound`: the last attempt is told of, and extracts, routes and forecasts agree with what was sent |

A property of one topic cannot be disturbed by another, since no step changes
two.

**Bounds.**  Families of writes share no receipt, so an instance per family
loses nothing but the scheduling of one single-threaded worker (`OneFamily`).  Three attempts
are enough for a first, a competitor and an undo or a mismatch; properties
speak of at most an attempt, its write and an undo of it.  `MaxTaskAttempts` is
2 in place of 5: the first failure and the last are distinct, and those between
are like the first.  In the
queue `MaxRequested` bounds the rows callers have queued and `MaxLag` how far
overdue a row may be before time waits for the worker; a row overdue by more
compares like one overdue by `MaxLag` with all that come later.  `BackoffCap` is
1, the delay of the first retry: no property depends on how later ones grow.

For the loop, a window of 2 is the smallest in which an eviction moves the span
of a round that stays; five rounds turn it over more than twice.  The soft budget
is below the hard one, with enough calls after it for two failures and a clean
program.  The loops of subagents have no soft budget and no approvals, and differ
for the context only in what ends them.  Two
sources and two error lists distinguish same from other, and are
interchangeable.  For the ledger two approvals are what it takes to ask twice;
two programs, one before and one after a decision; two runs of the task, one
interrupted and one that finds the turn.  `MaxPrograms` stands for
the budgets of the loop.

For the sync two changes are what it takes for one to be before the cursor and
one after; two workers to overlap once the lock is lost; `MaxConnects` is 1 in
`sync`, since with a second connection the mailbox starts anew and a mail may
be told again, which `ToldOnce` excepts anyway.  In `account` `MaxConnections`
and `MaxGrants` are 2: the connection a late answer belongs to, and the one it
finds.  In `ingress` posts without a key (`Bare`) are left out: they are wakes
whose words come from outside.  In `attachments` `Oversized` is empty, such a
read ends like an expired one.  One object is enough for evidence: no operation
looks beyond the rows of its object.  In `inputs` lists have at most 3 items;
one field is changed and at most one dropped at a time, since validators relate
at most two fields (a window, an identifier or another).

`CHECK_DEADLOCK FALSE` is set wherever turns, writes and calls end.  Symmetry is
used for attempts with one key, sources and errors, workers, and OAuth states,
and in no run with liveness.

**Fairness.**  `run_worker` loops for ever, takes a due row whenever there is
one, and every handler has time-outs; so each stage of the worker is fair.  A
crash may come at any point, again and again.  What is assumed is that a stage
that is reached for ever is at some time completed, hence strong fairness of
the stages; without it a process killed each time at the same place would
never get anywhere, and the code has no remedy: a crash is not counted as an
attempt (`worker.py:647`).  Raising is not restricted: a stage may raise
for ever, and the attempt count ends it.

The loop is one thread, hence weakly fair as a whole; nothing obliges the clock
to reach a budget or the model to be useful, the count of calls ends the loop.
In the ledger the worker is weakly fair as a whole too: it may crash as
often as it likes, but once the turn's row is committed the run after a crash
only ends the turn, and runs that raise are counted.  The clock passes every `expires_at`, and the sweep runs
whenever the worker is idle.  Users are not obliged to decide.

In the sync the poll and the events' rows are weakly fair, since the worker
takes due rows in order of time, and each stage of a sync strongly, as above:
Google answers at last.  Nothing obliges notifications to come.

## 5. Proofs

Every safety property of the passing runs is a theorem, for all values of the
constants.  No module that is proved about reaches a
RECURSIVE operator.  Each proof has the same shape: an inductive invariant,
checked by TLC first; a lemma for `Init`; one for the step, with a step per action
and under it one per conjunct the action can disturb; and a temporal conclusion.
What makes each of them work:

**ProviderWrite**, for every set of attempts and writes, every assignment of keys
and kinds that `WriteAssumption` allows, and every retry limit.

`ProviderWriteProofs` has `TypeCorrect`, `CallsAreJustified`
(`Spec => []CallsJustified`) and `AmbiguousStaysFrozen`.  `CallsJustified` is not
inductive: nothing in it forbids a second call for a write that was called
before.  What forbids it is what the database knows.  `IInv` says so in parts:
`PhaseOK` ties the worker's local variables to its position; `InFlightTraced`
says that while a call is in flight its receipt is in executing and its attempt
marked; `UntracedUncalled` that a write without a receipt, or with a retryable
failure, has no unlicensed call; `AttemptKnows` that of a write without receipts
the attempt itself knows.  Then a dispatch is always the first call
(`CalledOnce`).  `AmbiguousStaysFrozen` needs besides that capabilities without
receipts never get one (`ReceiptsOfKinds`) and that only the Google clients
report definite errors (`AnswersOfKinds`).

`ProviderAnswersProofs` is about what is answered: `AnswersTrue`,
`OpenReceiptsHaveSomebody`, `SettledAnswersStay`, and the refinement
`WritesAreLogical`.  That an answer agrees with the provider needs to know who
owns a receipt (`OwnerSound`), which answer fits which family (`AnswerFits`), what
the marker says (`MarkerMatches`), and that what the worker holds in its locals is
still true when it writes it down (`WorkerTrue`); only then `ReceiptsTrue` and
`AttemptsTrue` are kept by undos and by second attempts of the same key.  For the
open receipts `OInv` adds who runs: `RunnersQueued`, `ExecutingDispatched`,
`AmbiguousIsFollowedUp`.  The refinement maps each action to a step of
`LogicalWrite` or a stutter: `SettlingRefines` for the transactions that settle an
attempt, `LearnRefines` for a reconciliation, `DispatchRefines` for the first
transaction; the others change nothing that it shows.

`WriteAssumption` is what the code fixes outside the model: the receipt key of a
capability without client keys contains the attempt's id, an undo names a mail
mutation, the retry limit is positive.

**AgentLoop**, for any budgets, window, sources and errors.
`OneApprovalEndsTheLoop`: what is pending is one round at most, and
`GoingOnStagedNothing` is the heart: a program with an approval that lets the loop
go on does not exist, by cases of its output.  `LoopTypes`,
`ContextStaysWellFormed` and `LatestRoundIsSeen` are about positions in the list
of messages, which rounds, evictions and removed values move.  `LoopInv` describes
the list: a prompt, then spans that follow each other without gaps, each of one
round's messages, a budget line before the last of them.  Lemmas tell what
an eviction (`OldestEvicted`), a removal (`TailReplaced`), a round
(`RoundAppended`) and a line (`LineAppended`) do to such a list, and the actions
are compositions of these.  That no call loses its return is a property of a
step: `OpenCallsWereOpen` says when an edited list leaves the calls as they
were, `ContextInOrder` that a span begins with its call and ends with its
return, `CallsKeepReturns` goes through the actions; the one left is an
`emit_value` round whose tail was moved, which the property names.

**ApprovalLedger**, for any number of calls, programs and runs.
`DecisionsAreFinal` needs to know when a session is not old.  `Base` is the number
of the last event it had committed, `sequence - Len(fresh)`.  `SessionInv` says
`Base <= Len(events)`, and that if they are equal the session knows every
decision: each decision writes an event, so a decision it does not know makes
the log longer.  A commit that goes through has the two equal, so it writes the
decision back as it is.  A commit without events cannot hurt because there is
none: every commit of the loop adds one.  `ViewOrdered` gives the remaining case,
an attempt the session proposes anew.  `SideEffectsNeedLeave`, `AsksOneQuestion`
and `OneStory` follow from `LedgerInv`, which says of the session's view what the
properties say of the tables, and of the events that are not committed yet what
they will say of the log.

**TaskQueue**, for any types, keys, delays and limits; the recurring types are
finite in number.  `TableStaysSound`, `MaintenanceIsNeverLost` and
`DreamsKeepTheirDistance`.  The last one needs that a dream's row that waits is as
old as the last dream is far (`DreamRowsAged`).

**ProviderSync**, for any feed, events and number of connections.
`CursorStaysSound` and `CursorGoesForward` hold for any number of runs that
overlap after lost locks (`CursorInv`: what is in the feed, where a page may end,
what a run's cursor was when it began).  Of a stale cursor `GapSound` keeps that
it is given up, that Google forgot history, and that what lay before it was
ingested; so the next cursor passes by only what lapsed since (`GapFollows`).
`MailIsToldOnce` says `ToldOnce` for at
most two runs that overlap (`TwoRuns`), from an order of the cursor, the two runs
and what was told (`ToldInv`).  Two is the limit: with three TLC finds a
counterexample of 31 states, in which two old runs, a disconnection and a new
connection bring the cursor back to a value the comparison of
`sync_runtime.py:615` takes for its own.  `docs/coordination.md:110` promises one
worker; a second run takes a lost lock and a restart, a third both of them again.

**GoogleAccount**, for any accounts, scopes, flows and runners
(`AccountAssumption`: the mark for none is not one of them, and the bounds are
numbers).
`RowKeepsItsPromise`, `LateRefreshesAreDropped`, `ErrorsWaitForConsent`,
`ConsentConnects`.  The lemma `RowSteps` is the argument: whatever acts, the row
is noted, maintained, loses its token's validity, is disconnected, or connected
by a flow; each of the four is then a matter of these five.

**The services** (`ServicesProofs`), each under its own specification:

* `TurnIngress`: `ClientsHearTheTurn`, `AnswersKeepStanding`; the worker has a row of
  the queue, whose turn is closed before the record and the record written before
  the delivery (`WorkerOnTurn`).
* `BackgroundTurns`: `ResearchAnswersOnce`; the wake that carries a finding waits
  while the row of its run is there, so a rerun finds it under its key
  (`FindingsReturned`).
* `AgencyJobs`: `EventsCountOnce`; the worker calls for a run the daemon has not
  heard of, and nothing that makes a job runs until it has written the answer
  (`WorkerOnJob`, `JobOfRun`).
* `AttachmentContent`: `ReadsShowTheirOwn`; a link is made only after every check
  (`LinkedPassed`).
* `ProviderEvidence`: `EvidenceStaysCurrent`; `RecordedStep` covers sync and reads
  alike, since all of them record in one of four ways; what is available is what
  was read last, so a reference to it shows that.
* `WebReads`: `ReadersAreToldTheTruth`.  A call that goes on has met only troubles
  that may pass, and has an attempt left (`ReadsInv`); nothing is
  told before a call ends, and then about what it asked (`ToldInv`).  The rest is about what an answer computes:
  `PageHonest` for the blocks of an extraction and its limits, `RoutePassesAll`
  for the order of stops and the legs between them, `TakenFrom` for the
  intervals of a forecast.
* `CapabilityInputs`: `ValidatorsAreIdempotent` and from it `ApprovedInputsRun`.

*Inputs.*  The catalog's validators are composed of a few normalisers of fields.
For each of these a lemma gives the set of values it returns and says that it
leaves them alone (`TrimmedStands`, `WindowStands`, `DistinctStands`,
`FewStand`...).  A validator's lemma says two things of every result: read back
from JSON it is the same (`FitStands`), and the validator returns it again
(`Stands`); `NormalStands` collects them over the catalog.  What is known of a
result is known of its fields, and those that are optional may be missing;
`TogetherIs`, `TogetherHas` and `TogetherFits` carry the first over to the second.
`InputsInv` then says of an action that waits that its input is a normal value,
stored with its sealed fields, that passed preflight (`FitToRun`); so the
approval and the dispatch find what was hashed (`StoredWhole`), and refuse it
only when the key is lost (`RecheckFinds`).

*Induction over data.*  Extractions, sums of lengths and lists without
repetitions are folds.  The library's induction theorems take an operator for
what is to be proved, which the provers cannot instantiate; `Induction` is
stated of the set of the numbers for which it holds instead, and follows from
the least element of a set (`LeastNat`), that from the well-foundedness of `<`.
A fold of the community modules is a CHOOSE of a function that satisfies its
recursion; `FoldsExist` proves by induction over the length that there is one,
for an operation given as a function.  `SumRule`, `KeepStep` and `DistinctStands`
use it.

`ServicesAssumption`, which TLC evaluates on every run of `services`, says that
limits are positive, that a task has one type, that an event names a run and a
known type, that a body is not the absence of one, and which values questions,
bodies and inputs are made of: an input has any texts, numbers, flags, lists and
pairs of them in any of its fields, of any size (`InputsConstants`), a page any
list of blocks (`PagesConstants`).

Not proved, and checked by TLC only, is liveness, which TLAPS does not treat with
fairness: `WorkProgresses`, `WritesSettle`, `Terminates`, `ApprovalSettles`,
`TurnEnds`, `PollCatchesUp`.

## 6. What the checks show, and what they do not

The properties of the runs that are expected to pass hold.  Limits of the code
that are visible in them rather than hidden:

* An attempt whose task ran out of attempts stays `executing`, and so does its
  receipt, for ever (`action_runtime.py:6162`, `worker.py:712`); `WritesSettle`
  and `ExecutingHasRunner` name that exception (`gaveUp`).
* Memory effects commit apart from their attempt (`action_runtime.py:4993`); a
  crash between repeats them.  `calls` leaves them out.
* A lost answer to `cap.agency.run` fails the attempt although the run may have
  started.  `FailureIsReal` is about calendar and other Google writes;
  `JobsSound` shows that the events of such a run make no job of the attempt.
* A turn that was committed in progress and whose task then ran out of runs
  stays in progress (`worker.py:708`); `TurnEnds` names the exception.  A recall
  interrupted by a crash stays `executing`, so `StatusesAgree` asks for a task
  only of the other calls.
* A sync whose lock was lost while it ran, in a second connection, may announce
  a mail again; `ToldOnce` is about the first, and about two runs that overlap:
  three can announce a mail twice (section 5).
* An `emit_value` round after an eviction may cut a return away and leave its
  call (`agent_loop.py:936-941`); the call stays, for no span names it.
  `ContextWellFormed` names that cut (`TailMoved`) and excludes any other.
* Mail that came between a cursor Google has forgotten and the resync is never
  read (`sync_runtime.py:397-405`); `CursorSound` and `PollCatchesUp` name it
  (`lapsed`), apart from what precedes the first cursor (`skipped`).
* The status of an agency job is that of the event applied last, so events out
  of order move it back; `JobsSound` asks only that none applies twice.
* A post that finds its turn interrupted hears that it failed, and is not run
  again; an answer that Discord refuses is not sent again (`worker.py:73`).

Three runs show where the code does not do what its documents say:

* `sync_poll`: the reconcile poll is not independent of push: it asks for the
  cursors there are, and only a notification creates one (`worker.py:403`).
* `loop_values`: after the window has evicted a round, an `emit_value` round does
  not remove the values of the one before (`agent_loop.py:938`).
* `ledger_recall`: a program that stages an approval and then calls
  `memory.recall` has it committed before the program ends
  (`action_runtime.py:664`).  The numbers of the events keep `DecisionsStand`:
  a decision made in between makes the running turn fail.

Others were met on the way.  Each has a definition that says what the document
says, and TLC refutes it when it is given to the run named as an invariant,
which no run does as it stands:

* `AgentLoop.CallsAreAnswered` (`loop_turn`): a round that is only a
  nudge, an `emit_value` round, an exchange that evicts the first, and another
  `emit_value` round leave a call without its return before the next call
  (`agent_loop.py:936-941`, against the docstring at `agent_loop.py:293-296`).
* `ProviderSync.StaleCursorsAreResynced` (`sync`): a mailbox
  whose cursor is stale is not read again but opened at the end of its history
  (`sync_runtime.py:397-405`, against `docs/modules/proactivity.md:140` and
  the comments at `sync_runtime.py:438` and `1257`).
* `AgentLoop.FailedProgramsStageNothing` (`loop_turn`): a program that fails with the errors
  of the one before returns before its approvals are voided
  (`agent_loop.py:560`, against `docs/modules/agent-loop.md:158`).  The loop
  ends there, so `NothingPendingWhileAsking` still holds.
* `TurnIngress.TurnsAreSerialized` (`services`): a capture during a turn makes it stale
  (`app.py:1552`, against `docs/modules/agent-loop.md:106`).
* `AttachmentContent.KeyedByHash` (`services`): a file cut short by a crash is read later
  under the hash of the whole (`attachment_content.py:334`, against
  `docs/modules/attachments.md:215`).

Smaller things the modules follow as the code has them: a watch whose
registration failed is not tried again; a plain connect without a refresh token
keeps the one there is, also when the account is another; a refresh that fails
late marks the connection there is then; an update of an event with a response that is a list raises instead of
being refused; a too long base branch or runner of `agency.run` is dropped
without a word; a configured endpoint "host:port" makes every weather read fail;
the weather provider for development tells the present weather for any
timeframe; a forecast without usable intervals succeeds all the same; the
extraction cache does not ask what a read is for; a content that is seen again
after a redaction of a newer one leaves an older one available; the wrap-up line
of the loop, once written, can be removed with superseded values.

## 7. Not modelled

* The requests of the Google and agency clients, beyond what can come of them:
  half of `google_connector.py`.  Their answers are choices in `ProviderWrite`,
  `ProviderSync` and `GoogleAccount`.
* The sandbox: one process per program, with a thin protocol; what a program
  does is a choice in `AgentLoop` and `ApprovalLedger`.
* Provenance: which calls taint a program is a choice in `ApprovalLedger`.
* Model adapter, prompts and judgments: one request each; answers are choices.
* Response contracts, normalization of Google's payloads and the text of
  outputs: mappings field by field without state or decision.
* Redaction and ciphers: text filters and cryptography; sealing is modelled by
  what it hides and when it can no longer be opened.
* Session rotation, note files and the search of the memory, approval buttons
  of Discord, read endpoints of the API: not yet.
* Configuration, migrations, deployment checks: nothing happens over time.
* In execution the content of payloads; in the queue what handlers do, which
  other modules have.
