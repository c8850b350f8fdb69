---------------------------- MODULE ProviderSync ----------------------------
(***************************************************************************)
(* Ingestion of one Google resource, a mailbox or a calendar: push         *)
(* notifications become provider events (app.py, pubsub_subscriber.py),    *)
(* events and the reconcile poll become sync tasks (worker.py), and a sync *)
(* brings in what changed since the cursor (sync_runtime.py).              *)
(*                                                                         *)
(* The resource is a feed of changes; a cursor is a position in it.  A     *)
(* sync holds an advisory lock and runs: one transaction that opens the    *)
(* run, one that takes an access token, the provider's pages outside of    *)
(* any, and one that stores them and moves the cursor.  The worker may     *)
(* die, the lock's connection may break and the user may disconnect and    *)
(* connect again between any two of these.                                 *)
(*                                                                         *)
(* Queued rows are sets: two rows with the same payload do what one row    *)
(* does that runs again, and a row runs again whenever the worker dies     *)
(* before it settles it.                                                   *)
(***************************************************************************)
EXTENDS Integers, FiniteSets

CONSTANTS
  Kind,        \* what the resource is: "gmail" or "calendar", or either
  Event,       \* the push notifications of one behaviour
  Worker,      \* the processes that may run a sync task
  None,
  Pushes,      \* whether notifications and clients may ask for a sync
  MaxChanges,  \* bound: changes in the feed
  MaxConnects, \* bound: how often the account is connected
  WakeItems    \* _PROVIDER_SYNC_WAKE_MAX_ITEMS

ASSUME SyncAssumption ==
  /\ Kind \subseteq {"gmail", "calendar"}
  /\ None \notin Event \cup Worker \cup (0 .. MaxChanges)
  /\ Pushes \in BOOLEAN
  /\ MaxChanges \in Nat /\ MaxConnects \in Nat /\ WakeItems \in Nat \ {0}

VARIABLES
  kind,      \* the kind of the resource
  head,      \* how many changes the feed has
  oldest,    \* the oldest cursor Google still accepts
  connected, \* the connector is connected, and how often it was
  seed,      \* cursor_seed of the active Gmail watch channel
  events,    \* provider_events: the status of each
  received,  \* queued provider_event_received rows
  syncs,     \* queued provider_sync_due rows: their event, or None
  cursor,    \* the sync_cursors row
  lock,      \* who holds the advisory lock
  runs,      \* where each worker is in process_provider_sync_due
  stored,    \* the changes some sync has stored
  skipped,   \* the changes a mailbox's first cursor of a connection went past
  gap,       \* where the cursor was that was given up as stale, if it was
  lapsed,    \* the changes a mailbox's cursor after a stale one went past
  told       \* for each change, how many wakes announced it

vars == <<kind, head, oldest, connected, seed, events, received, syncs,
          cursor, lock, runs, stored, skipped, gap, lapsed, told>>
feed == <<kind, head, oldest>>
account == <<connected, seed>>
queued == <<received, syncs>>
seen == <<stored, skipped, lapsed, told>>

Change == 1 .. MaxChanges
Position == 0 .. MaxChanges
NoCursor == [status |-> "none", value |-> None]
NoRun == [pc |-> "idle", event |-> None, before |-> None, upto |-> None]

Init ==
  /\ kind \in Kind
  /\ head = 0 /\ oldest = 0
  /\ connected = [now |-> FALSE, times |-> 0] /\ seed = None
  /\ events = [e \in Event |-> "none"]
  /\ received = {} /\ syncs = {}
  /\ cursor = NoCursor /\ lock = None
  /\ runs = [w \in Worker |-> NoRun]
  /\ stored = {} /\ skipped = {} /\ gap = None /\ lapsed = {}
  /\ told = [c \in Change |-> 0]

-----------------------------------------------------------------------------
(* Google *)

FeedGrows ==
  /\ head < MaxChanges
  /\ head' = head + 1
  /\ UNCHANGED <<kind, oldest, account, events, queued, cursor, lock, runs, seen, gap>>

(* Google forgets the history: cursors before its end are stale. *)
HistoryExpires ==
  /\ oldest < head
  /\ oldest' = head
  /\ UNCHANGED <<kind, head, account, events, queued, cursor, lock, runs, seen, gap>>

-----------------------------------------------------------------------------
(* Connecting and disconnecting, as far as ingestion goes *)

Connect ==
  /\ ~connected.now /\ connected.times < MaxConnects
  /\ connected' = [now |-> TRUE, times |-> connected.times + 1]
  /\ seed' \in IF kind = "gmail" /\ Pushes THEN {None, head} ELSE {None}
  /\ UNCHANGED <<feed, events, queued, cursor, lock, runs, seen, gap>>

(* _clear_disconnected_provider_state: accepted events fail, the cursor and *)
(* the one-shot provider rows go, also the rows being run.                  *)
Disconnect ==
  /\ connected.now
  /\ connected' = [connected EXCEPT !.now = FALSE]
  /\ seed' = None
  /\ events' = [e \in Event |-> IF events[e] = "accepted" THEN "failed" ELSE events[e]]
  /\ received' = {} /\ syncs' = {}
  /\ cursor' = NoCursor /\ gap' = None
  /\ UNCHANGED <<feed, lock, runs, seen>>

-----------------------------------------------------------------------------
(* Notifications and the poll *)

(* A calendar notification is checked against the active channel in one     *)
(* transaction; its body is awaited before the next one writes the event.   *)
CheckChannel(e) ==
  /\ kind = "calendar" /\ Pushes /\ connected.now /\ events[e] = "none"
  /\ events' = [events EXCEPT ![e] = "checked"]
  /\ UNCHANGED <<feed, account, queued, cursor, lock, runs, seen, gap>>

(* Both endpoints write the event and its task in one transaction, and only *)
(* once for an id: a redelivered notification changes nothing.  One for an  *)
(* account that is not connected is dropped.                                *)
Accept(e) ==
  /\ events' = [events EXCEPT ![e] = "accepted"]
  /\ received' = received \cup {e}
  /\ UNCHANGED <<feed, account, syncs, cursor, lock, runs, seen, gap>>

CalendarNotified(e) == events[e] = "checked" /\ Accept(e)
GmailNotified(e) ==
  /\ kind = "gmail" /\ Pushes /\ connected.now /\ events[e] = "none"
  /\ Accept(e)

EventReceived(e) ==
  /\ e \in received
  /\ received' = received \ {e}
  /\ syncs' = IF events[e] = "accepted" THEN syncs \cup {e} ELSE syncs
  /\ UNCHANGED <<feed, account, events, cursor, lock, runs, seen, gap>>

(* Mutant for PollCatchesUp: only cursors at rest are polled.               *)
ReconcileReady ==
  /\ connected.now /\ cursor.status = "ready"
  /\ syncs' = syncs \cup {None}
  /\ UNCHANGED <<feed, account, events, received, cursor, lock, runs, seen, gap>>

(* The reconcile poll asks for a sync of every cursor there is. *)
Reconcile ==
  /\ connected.now /\ cursor # NoCursor
  /\ syncs' = syncs \cup {None}
  /\ UNCHANGED <<feed, account, events, received, cursor, lock, runs, seen, gap>>

(* A client of the API asks for a sync, of whatever and whenever. *)
ForceSync ==
  /\ Pushes
  /\ syncs' = syncs \cup {None}
  /\ UNCHANGED <<feed, account, events, received, cursor, lock, runs, seen, gap>>

-----------------------------------------------------------------------------
(* process_provider_sync_due *)

At(w, pc) == runs[w].pc = pc
Idle(w) == runs' = [runs EXCEPT ![w] = NoRun]
Release(w) == lock' = IF lock = w THEN None ELSE lock
SettleEvent(w, status) ==
  IF runs[w].event = None THEN events ELSE [events EXCEPT ![runs[w].event] = status]

(* The handler raised: the row waits to be retried, or was retried enough.  *)
Raise(w) == syncs' \in {syncs, syncs \ {runs[w].event}}

(* The handler returned: the row is gone, or was deleted under the worker.  *)
(* To release a lock that is not held any more raises.                      *)
Done(w) == IF lock = w THEN syncs' = syncs \ {runs[w].event} ELSE Raise(w)

Claim(w, t) ==
  /\ At(w, "idle") /\ t \in syncs
  /\ runs' = [runs EXCEPT ![w] = [NoRun EXCEPT !.pc = "claimed", !.event = t]]
  /\ UNCHANGED <<feed, account, events, queued, cursor, lock, seen, gap>>

LockBusy(w) ==
  /\ At(w, "claimed") /\ lock # None
  /\ Raise(w) /\ Idle(w)
  /\ UNCHANGED <<feed, account, events, received, cursor, lock, seen, gap>>

(* The cursor the run starts from: a new one of a mailbox starts where its  *)
(* watch was registered.                                                    *)
Opened == IF cursor # NoCursor THEN cursor
          ELSE [status |-> "ready", value |-> IF kind = "gmail" THEN seed ELSE None]

(* The lock and the first transaction, for an event still to be processed   *)
(* and a cursor that is not invalid.  Nothing asks who is connected.        *)
Processed(w) == runs[w].event # None /\ events[runs[w].event] = "processed"
Unusable == kind = "gmail" /\ Opened.status = "invalid"
Begin(w) ==
  /\ At(w, "claimed") /\ lock = None
  /\ ~Processed(w) /\ ~Unusable
  /\ lock' = w
  /\ cursor' = [Opened EXCEPT !.status = "syncing"]
  /\ runs' = [runs EXCEPT ![w] = [@ EXCEPT !.pc = "open", !.before = Opened.value]]
  /\ skipped' = IF cursor = NoCursor /\ Opened.value # None
                THEN skipped \cup 1 .. Opened.value ELSE skipped
  /\ UNCHANGED <<feed, account, events, queued, stored, gap, lapsed, told>>

NothingToSync(w) ==
  /\ At(w, "claimed") /\ lock = None
  /\ Processed(w) \/ Unusable
  /\ events' = IF Processed(w) THEN events ELSE SettleEvent(w, "failed")
  /\ syncs' = syncs \ {runs[w].event} /\ Idle(w)
  /\ UNCHANGED <<feed, account, received, cursor, lock, seen, gap>>

(* _mark_sync_failed and the raise that follows it.  Only a mailbox whose   *)
(* history id cannot be read is invalid.                                    *)
MarkFailed(w, status) ==
  /\ cursor' = IF cursor # NoCursor /\ cursor.value = runs[w].before
               THEN [cursor EXCEPT !.status = status] ELSE cursor
  /\ events' = SettleEvent(w, "failed")
  /\ Raise(w) /\ Idle(w) /\ Release(w)

Authorise(w) ==
  /\ At(w, "open") /\ connected.now
  /\ runs' = [runs EXCEPT ![w].pc = "authorised"]
  /\ UNCHANGED <<feed, account, events, queued, cursor, lock, seen, gap>>

(* No token, a page or a message that Google does not give. *)
SyncFails(w) ==
  /\ At(w, "open") \/ At(w, "authorised") \/ At(w, "fetched")
  /\ MarkFailed(w, "error")
  /\ UNCHANGED <<feed, account, received, seen, gap>>

MailboxUnreadable(w) ==
  /\ At(w, "authorised") /\ kind = "gmail" /\ runs[w].before = None
  /\ MarkFailed(w, "invalid")
  /\ UNCHANGED <<feed, account, received, seen, gap>>

(* The pages: what follows the cursor, or everything for a calendar without *)
(* one; a mailbox without one only learns where its history ends.           *)
Fetch(w) ==
  /\ At(w, "authorised")
  /\ runs[w].before # None => runs[w].before >= oldest
  /\ runs' = [runs EXCEPT ![w] = [@ EXCEPT !.pc = "fetched", !.upto = head]]
  /\ UNCHANGED <<feed, account, events, queued, cursor, lock, seen, gap>>

(* _handle_stale_cursor: the next sync starts without a cursor, and nothing  *)
(* remembers where this one was.                                             *)
StaleCursor(w) ==
  /\ At(w, "authorised") /\ runs[w].before # None /\ runs[w].before < oldest
  /\ cursor' = IF cursor = NoCursor THEN NoCursor ELSE [status |-> "ready", value |-> None]
  /\ gap' = IF cursor.value # None THEN cursor.value ELSE gap
  /\ events' = SettleEvent(w, "failed")
  /\ syncs' \in {syncs \cup {None}, (syncs \ {runs[w].event}) \cup {None}}
  /\ lock = w => runs[w].event \notin syncs' \ {None}
  /\ Idle(w) /\ Release(w)
  /\ UNCHANGED <<feed, account, received, seen>>

(* Mutant for ToldOnce: the change at the cursor is read again.             *)
BatchFromCursor(w) ==
  IF runs[w].before # None THEN (runs[w].before .. runs[w].upto) \ {0}
  ELSE IF kind = "gmail" THEN {} ELSE 1 .. runs[w].upto

(* What the pages of the run hold, and what of it goes into the wake: a     *)
(* mailbox announces the first WakeItems new messages, a calendar counts    *)
(* them all.  (Every change of a mailbox here is a new inbound message.)    *)
Batch(w) ==
  IF runs[w].before # None THEN runs[w].before + 1 .. runs[w].upto
  ELSE IF kind = "gmail" THEN {} ELSE 1 .. runs[w].upto
Announced(w) ==
  IF kind = "gmail" THEN {c \in Batch(w) : c <= runs[w].before + WakeItems} ELSE Batch(w)

(* Mutant for CursorAdvances: the cursor is not compared with the run's.    *)
CurrentUnchecked(w) == cursor # NoCursor

(* The cursor is still the one the run started from. *)
Current(w) == cursor # NoCursor /\ cursor.value = runs[w].before

(* Mutant for CursorSound: the end of the history is asked for when it is   *)
(* stored.                                                                  *)
ReachedNow(w) == head

(* Where the last page said the feed ends. *)
Reached(w) == runs[w].upto

(* A mailbox is opened at the end of its history and none of it is read. *)
Bootstraps(w) == kind = "gmail" /\ runs[w].before = None

(* The last transaction. *)
Store(w) ==
  /\ At(w, "fetched") /\ Current(w)
  /\ stored' = stored \cup Batch(w)
  /\ skipped' = IF Bootstraps(w) /\ gap = None
                THEN skipped \cup 1 .. runs[w].upto ELSE skipped
  /\ lapsed' = IF Bootstraps(w) /\ gap # None
               THEN lapsed \cup gap + 1 .. runs[w].upto ELSE lapsed
  /\ gap' = None
  /\ told' = [c \in Change |-> IF c \in Announced(w) THEN told[c] + 1 ELSE told[c]]
  /\ cursor' = [status |-> "ready", value |-> Reached(w)]
  /\ events' = SettleEvent(w, "processed")
  /\ Done(w) /\ Idle(w) /\ Release(w)
  /\ UNCHANGED <<feed, account, received>>

CursorMoved(w) ==
  /\ At(w, "fetched") /\ cursor # NoCursor /\ ~Current(w)
  /\ cursor' = [cursor EXCEPT !.status = "ready"]
  /\ events' = SettleEvent(w, "failed")
  /\ Done(w) /\ Idle(w) /\ Release(w)
  /\ UNCHANGED <<feed, account, received, seen, gap>>

(* "sync state missing": the account was disconnected meanwhile. *)
CursorGone(w) ==
  /\ At(w, "fetched") /\ cursor = NoCursor
  /\ Raise(w) /\ Idle(w) /\ Release(w)
  /\ UNCHANGED <<feed, account, events, received, cursor, seen, gap>>

-----------------------------------------------------------------------------
(* Failures: the worker dies, or the connection that holds the lock does.   *)

Crash(w) ==
  /\ ~At(w, "idle")
  /\ Idle(w) /\ Release(w)
  /\ UNCHANGED <<feed, account, events, queued, cursor, seen, gap>>

LockLost ==
  /\ lock # None
  /\ lock' = None
  /\ UNCHANGED <<feed, account, events, queued, cursor, runs, seen, gap>>

Sync(w) ==
  \/ \E t \in Event \cup {None} : Claim(w, t)
  \/ LockBusy(w) \/ Begin(w) \/ NothingToSync(w) \/ Authorise(w)
  \/ SyncFails(w) \/ MailboxUnreadable(w) \/ Fetch(w) \/ StaleCursor(w)
  \/ Store(w) \/ CursorMoved(w) \/ CursorGone(w)

Next ==
  \/ FeedGrows \/ HistoryExpires \/ Connect \/ Disconnect
  \/ \E e \in Event : CheckChannel(e) \/ CalendarNotified(e) \/ GmailNotified(e)
                        \/ EventReceived(e)
  \/ Reconcile \/ ForceSync
  \/ \E w \in Worker : Sync(w) \/ Crash(w)
  \/ LockLost

Spec == Init /\ [][Next]_vars

(* The worker runs whatever is queued, the poll comes round, and a call     *)
(* that can be made often enough gets its answer in the end.                *)
Fairness ==
  /\ WF_vars(Reconcile)
  /\ \A e \in Event : WF_vars(EventReceived(e))
  /\ \A w \in Worker : SF_vars(\E t \in Event \cup {None} : Claim(w, t))
  /\ \A w \in Worker : SF_vars(Begin(w) \/ NothingToSync(w))
  /\ \A w \in Worker : SF_vars(Authorise(w)) /\ SF_vars(Fetch(w) \/ StaleCursor(w))
  /\ \A w \in Worker : SF_vars(Store(w) \/ CursorMoved(w) \/ CursorGone(w))

FairSpec == Spec /\ Fairness

-----------------------------------------------------------------------------
(* Properties *)

(* What is stored, and what precedes the first cursor of a connection.      *)
Ingested == stored \cup skipped

(* The cursor never runs ahead of what was ingested, with one exception: a  *)
(* mailbox whose cursor went stale is opened again at the end of its        *)
(* history (sync_runtime.py:397-405, after 1177-1224), and what came since  *)
(* the stale cursor is passed by without being read.  Only that lapses, and *)
(* only where Google forgot history; a calendar is read in full again, its  *)
(* events of the last thirty days and later (sync_runtime.py:389), which is *)
(* what its feed has.  StaleCursorsAreResynced says what the documentation  *)
(* says of a mailbox.                                                       *)
CursorSound ==
  /\ cursor \in [status : {"none", "ready", "syncing", "error", "invalid"},
                 value : Position \cup {None}]
  /\ cursor.value # None => 1 .. cursor.value \subseteq Ingested \cup lapsed
  /\ lapsed # {} => kind = "gmail" /\ oldest > 0
  /\ kind = "calendar" => skipped = {}

(* A cursor that is there moves forward only, or is given up as stale: two  *)
(* runs that overlap since the lock was lost do not undo each other.        *)
CursorAdvances ==
  [][cursor.value # None /\ cursor'.value # None => cursor'.value >= cursor.value]_vars

(* As long as the account stays connected a mail wakes the agent once,      *)
(* however often its notification is repeated and the sync retried, and     *)
(* also when the lock between two runs was lost.  It is said of two runs    *)
(* that overlap: a third one can bring back a cursor that two others have   *)
(* left, and the comparison of its value does not notice.                   *)
ToldOnce ==
  kind = "gmail" /\ connected.times <= 1 => \A c \in Change : told[c] <= 1

(* Once a resource has a cursor, the poll comes to every change, even when  *)
(* no notification comes any more, as long as the account stays connected   *)
(* and the mailbox readable: the change is stored, or precedes the mailbox's *)
(* first cursor, or is lost behind a stale one (see CursorSound).           *)
PollCatchesUp ==
  \A c \in Change :
    (connected.now /\ cursor # NoCursor /\ c <= head)
      ~> \/ c \in Ingested \cup lapsed
         \/ ~connected.now \/ cursor.status = "invalid"

(* docs/modules/proactivity.md:137: the reconcile poll is "the baseline     *)
(* that is independent of push".                                            *)
PollIsIndependentOfPush ==
  \A c \in Change :
    (connected.now /\ c <= head) ~> (c \in Ingested \cup lapsed \/ ~connected.now)

(* docs/modules/proactivity.md:140: a stale delta cursor "clears the cursor *)
(* and triggers a full resync".                                             *)
StaleCursorsAreResynced == lapsed \subseteq stored
=============================================================================
