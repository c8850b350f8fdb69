------------------------- MODULE ProviderSyncProofs -------------------------
(***************************************************************************)
(* Proofs about ProviderSync, for any number of events, changes,           *)
(* connections and wake items.  For any number of overlapping runs the     *)
(* cursor stays behind what was ingested or lapsed behind a stale cursor,  *)
(* and moves forward only; and while no more than two runs overlap, a mail *)
(* is announced once.                                                      *)
(***************************************************************************)
EXTENDS ProviderSync, TLAPS

Run == [pc : {"idle", "claimed", "open", "authorised", "fetched"},
        event : Event \cup {None},
        before : Position \cup {None}, upto : Position \cup {None}]
Cursor == [status : {"none", "ready", "syncing", "error", "invalid"},
           value : Position \cup {None}]

-----------------------------------------------------------------------------
(* The cursor *)

SyncTypes ==
  /\ kind \in {"gmail", "calendar"}
  /\ head \in Position /\ oldest \in Nat
  /\ seed \in Position \cup {None}
  /\ gap \in Position \cup {None}
  /\ cursor \in Cursor
  /\ runs \in [Worker -> Run]

(* Nothing is ahead of the feed, and only a mailbox is seeded. *)
WithinFeed ==
  /\ seed # None => kind = "gmail" /\ seed <= head
  /\ cursor.value # None => cursor.value <= head
  /\ \A w \in Worker : runs[w].before # None => runs[w].before <= head

(* What a run has fetched ends where the feed was, at or after its start. *)
PagesFollow ==
  \A w \in Worker : At(w, "fetched") =>
    /\ runs[w].upto \in Position /\ runs[w].upto <= head
    /\ runs[w].before # None => runs[w].before <= runs[w].upto

(* A stale cursor that was given up: there is none since, and what lies     *)
(* before it was ingested, or lapsed behind an earlier one.                 *)
GapSound ==
  gap # None =>
    /\ cursor # NoCursor /\ cursor.value = None
    /\ oldest > 0
    /\ 1 .. gap \subseteq Ingested \cup lapsed

CursorInv == SyncTypes /\ WithinFeed /\ PagesFollow /\ GapSound /\ CursorSound

(* What the constants and the positions are. *)
LEMMA Constants ==
  /\ Kind \subseteq {"gmail", "calendar"} /\ None \notin Position
  /\ MaxChanges \in Nat /\ MaxConnects \in Nat /\ WakeItems \in Nat \ {0}
  /\ Position \subseteq Nat /\ 0 \in Position
  BY SyncAssumption DEF SyncAssumption, Position

(* No run is a run that is idle. *)
LEMMA NoRunType == NoRun \in Run /\ NoRun.pc = "idle" /\ NoRun.before = None
  BY DEF NoRun, Run

(* No cursor is a cursor without a value. *)
LEMMA NoCursorType == NoCursor \in Cursor /\ NoCursor.value = None
  BY DEF NoCursor, Cursor

(* No cursor, no run and an empty feed. *)
LEMMA CursorInit == Init => CursorInv
<1> SUFFICES ASSUME Init PROVE CursorInv
  OBVIOUS
<1>1. SyncTypes
  BY Constants, NoRunType, NoCursorType DEF Init, SyncTypes
<1>2. cursor.value = None /\ \A w \in Worker : runs[w].pc = "idle" /\ runs[w].before = None
  BY NoRunType, NoCursorType DEF Init
<1>3. QED
  BY <1>1, <1>2, NoCursorType
  DEF Init, CursorInv, WithinFeed, PagesFollow, GapSound, CursorSound, At, Cursor

(* The gap is that of a cursor that stays, of the one given up, or none.    *)
GapFollows ==
  \/ gap' = gap /\ cursor'.value = cursor.value /\ (cursor' = NoCursor => cursor = NoCursor)
  \/ gap' = None
  \/ /\ gap' = cursor.value /\ cursor.value # None
     /\ cursor' # NoCursor /\ cursor'.value = None /\ oldest > 0

(* Steps that drop runs, and keep what the cursor says or forget it. *)
OnlyDrops ==
  /\ UNCHANGED <<kind, head, stored, skipped, lapsed>>
  /\ oldest' \in Nat /\ oldest <= oldest'
  /\ GapFollows
  /\ seed' \in {seed, None}
  /\ cursor' \in Cursor /\ cursor'.value \in {cursor.value, None}
  /\ runs' \in [Worker -> Run] /\ \A w \in Worker : runs'[w] \in {runs[w], NoRun}

(* Steps that at most drop a run or the cursor keep the invariant. *)
LEMMA DropsKeepCursor ==
  ASSUME CursorInv, OnlyDrops PROVE CursorInv'
<1>1. SyncTypes'
  BY DEF CursorInv, SyncTypes, OnlyDrops, GapFollows, Cursor
<1>2. WithinFeed'
  BY NoRunType DEF CursorInv, WithinFeed, OnlyDrops
<1>3. PagesFollow'
  BY NoRunType DEF CursorInv, PagesFollow, OnlyDrops, At
<1>4. oldest > 0 => oldest' > 0
  BY DEF CursorInv, SyncTypes, OnlyDrops
<1>5. CursorSound'
  BY <1>4 DEF CursorInv, CursorSound, OnlyDrops, Cursor, Ingested
<1>6. GapSound'
  BY <1>4 DEF CursorInv, CursorSound, GapSound, OnlyDrops, GapFollows, Ingested
<1>7. QED  BY <1>1, <1>2, <1>3, <1>5, <1>6 DEF CursorInv

(* A worker falls idle. *)
LEMMA RunDropped ==
  ASSUME CursorInv, NEW w \in Worker, Idle(w) PROVE
    runs' \in [Worker -> Run] /\ \A x \in Worker : runs'[x] \in {runs[x], NoRun}
  BY NoRunType DEF CursorInv, SyncTypes, Idle

(* Every status but a changed value: the cursor as the failures leave it. *)
LEMMA StatusOnly ==
  ASSUME cursor \in Cursor, NEW s \in {"none", "ready", "syncing", "error", "invalid"}
  PROVE  [cursor EXCEPT !.status = s] \in Cursor
         /\ [cursor EXCEPT !.status = s].value = cursor.value
  BY DEF Cursor

(* The steps that neither open a run nor move one forward. *)
Still ==
  \/ HistoryExpires \/ Disconnect
  \/ \E e \in Event : CheckChannel(e) \/ CalendarNotified(e) \/ GmailNotified(e)
                        \/ EventReceived(e)
  \/ Reconcile \/ ForceSync \/ LockLost
  \/ \E w \in Worker : \/ LockBusy(w) \/ NothingToSync(w) \/ SyncFails(w)
                       \/ MailboxUnreadable(w) \/ StaleCursor(w) \/ CursorMoved(w)
                       \/ CursorGone(w) \/ Crash(w)
  \/ UNCHANGED vars

(* The steps that are of this kind. *)
LEMMA StillDrops ==
  ASSUME CursorInv, Still PROVE OnlyDrops
<1> USE DEF feed, account, queued, seen
<1>0. cursor \in Cursor /\ runs \in [Worker -> Run] /\ oldest \in Nat /\ head \in Nat
  BY Constants DEF CursorInv, SyncTypes
<1>1. CASE HistoryExpires
  BY <1>0, <1>1 DEF HistoryExpires, OnlyDrops, GapFollows
<1>2. CASE Reconcile \/ ForceSync \/ LockLost \/ UNCHANGED vars
  BY <1>0, <1>2 DEF Reconcile, ForceSync, LockLost, vars, OnlyDrops, GapFollows
<1>3. CASE Disconnect
  BY <1>0, <1>3, NoCursorType DEF Disconnect, OnlyDrops, GapFollows
<1>4. CASE \E e \in Event : CheckChannel(e) \/ CalendarNotified(e) \/ GmailNotified(e)
                              \/ EventReceived(e)
  BY <1>0, <1>4 DEF CheckChannel, CalendarNotified, GmailNotified, Accept, EventReceived,
                    OnlyDrops, GapFollows
<1>5. ASSUME NEW w \in Worker,
             LockBusy(w) \/ NothingToSync(w) \/ CursorGone(w) \/ Crash(w)
      PROVE  OnlyDrops
  <2>1. Idle(w)
        /\ UNCHANGED <<kind, head, oldest, seed, cursor, stored, skipped, gap, lapsed>>
    BY <1>5 DEF LockBusy, NothingToSync, CursorGone, Crash
  <2>2. QED  BY <1>0, <2>1, RunDropped DEF OnlyDrops, GapFollows
<1>6. ASSUME NEW w \in Worker,
             SyncFails(w) \/ MailboxUnreadable(w) \/ StaleCursor(w) \/ CursorMoved(w)
      PROVE  OnlyDrops
  <2>1. Idle(w) /\ UNCHANGED <<kind, head, oldest, seed, stored, skipped, lapsed>>
    BY <1>6 DEF SyncFails, MailboxUnreadable, StaleCursor, CursorMoved, MarkFailed
  <2>2. cursor' \in Cursor /\ cursor'.value \in {cursor.value, None} /\ GapFollows
    <3>1. CASE SyncFails(w) \/ MailboxUnreadable(w)
      <4>1. \E s \in {"error", "invalid"} :
              cursor' = [cursor EXCEPT !.status = s] \/ cursor' = cursor
        BY <3>1 DEF SyncFails, MailboxUnreadable, MarkFailed
      <4>2. cursor' \in Cursor /\ cursor'.value = cursor.value
        BY <1>0, <4>1, StatusOnly
      <4>3. cursor' = NoCursor => cursor = NoCursor
        BY <1>0, <4>1 DEF NoCursor, Cursor
      <4>4. gap' = gap
        BY <3>1 DEF SyncFails, MailboxUnreadable
      <4>5. QED  BY <4>2, <4>3, <4>4 DEF GapFollows
    <3>2. CASE StaleCursor(w)
      <4>1. /\ cursor' = IF cursor = NoCursor THEN NoCursor
                         ELSE [status |-> "ready", value |-> None]
            /\ gap' = IF cursor.value # None THEN cursor.value ELSE gap
        BY <3>2 DEF StaleCursor
      <4>2. cursor' \in Cursor /\ cursor'.value = None
        BY <4>1, NoCursorType DEF Cursor
      <4>3. cursor # NoCursor => cursor' # NoCursor
        BY <4>1 DEF NoCursor
      <4>4. oldest > 0
        <5>1. runs[w].before \in Nat /\ runs[w].before < oldest
          BY <1>0, <3>2, Constants DEF StaleCursor, Run
        <5>2. QED  BY <1>0, <5>1
      <4>5. QED  BY <4>1, <4>2, <4>3, <4>4, NoCursorType DEF GapFollows
    <3>3. CASE CursorMoved(w)
      <4>1. cursor # NoCursor /\ cursor' = [cursor EXCEPT !.status = "ready"] /\ gap' = gap
        BY <3>3 DEF CursorMoved
      <4>2. QED  BY <1>0, <4>1, StatusOnly DEF NoCursor, GapFollows
    <3>4. QED  BY <1>6, <3>1, <3>2, <3>3
  <2>3. QED  BY <1>0, <2>1, <2>2, RunDropped DEF OnlyDrops
<1>7. QED  BY <1>1, <1>2, <1>3, <1>4, <1>5, <1>6 DEF Still

(* The provider's feed grows behind every cursor. *)
LEMMA FeedGrowsKeepsCursor == CursorInv /\ FeedGrows => CursorInv'
<1> SUFFICES ASSUME CursorInv, FeedGrows PROVE CursorInv'
  OBVIOUS
<1> USE DEF feed, account, queued, seen
<1>1. head' = head + 1 /\ head' \in Position /\ head \in Nat
      /\ UNCHANGED <<kind, oldest, seed, cursor, runs, stored, skipped, gap, lapsed>>
  BY Constants DEF FeedGrows, CursorInv, SyncTypes, Position
<1>2. SyncTypes'
  BY <1>1 DEF CursorInv, SyncTypes
<1>a. \A p \in Position : p <= head => p <= head'
  BY <1>1, Constants
<1>b. /\ seed # None => seed \in Position
      /\ cursor.value # None => cursor.value \in Position
      /\ \A w \in Worker : runs[w].before # None => runs[w].before \in Position
  BY DEF CursorInv, SyncTypes, Run, Cursor
<1>3. WithinFeed'
  BY <1>1, <1>a, <1>b DEF CursorInv, WithinFeed
<1>4. PagesFollow'
  BY <1>1, <1>a DEF CursorInv, PagesFollow, At
<1>5. CursorSound' /\ GapSound'
  BY <1>1 DEF CursorInv, CursorSound, GapSound, Ingested
<1>6. QED  BY <1>2, <1>3, <1>4, <1>5 DEF CursorInv

(* A new connection seeds the cursor from the feed. *)
LEMMA ConnectKeepsCursor == CursorInv /\ Connect => CursorInv'
<1> SUFFICES ASSUME CursorInv, Connect PROVE CursorInv'
  OBVIOUS
<1> USE DEF feed, account, queued, seen
<1>1. UNCHANGED <<kind, head, oldest, cursor, runs, stored, skipped, gap, lapsed>>
  BY DEF Connect
<1>2. seed' \in Position \cup {None} /\ (seed' # None => kind = "gmail" /\ seed' <= head)
  BY Constants DEF Connect, CursorInv, SyncTypes
<1>3. SyncTypes'
  BY <1>1, <1>2 DEF CursorInv, SyncTypes
<1>4. WithinFeed'
  BY <1>1, <1>2 DEF CursorInv, WithinFeed
<1>5. PagesFollow' /\ CursorSound' /\ GapSound'
  BY <1>1 DEF CursorInv, PagesFollow, CursorSound, GapSound, At, Ingested
<1>6. QED  BY <1>3, <1>4, <1>5 DEF CursorInv

(* A claimed run has read nothing yet. *)
LEMMA ClaimKeepsCursor ==
  ASSUME CursorInv, NEW w \in Worker, NEW t \in Event \cup {None}, Claim(w, t)
  PROVE  CursorInv'
<1> USE DEF feed, account, queued, seen
<1> DEFINE claimed == [NoRun EXCEPT !.pc = "claimed", !.event = t]
<1>1. claimed \in Run /\ claimed.pc = "claimed" /\ claimed.before = None
  BY DEF NoRun, Run
<1>2. UNCHANGED <<kind, head, oldest, seed, cursor, stored, skipped, gap, lapsed>>
      /\ runs' = [runs EXCEPT ![w] = claimed]
  BY DEF Claim
<1> HIDE DEF claimed
<1>3. SyncTypes'
  BY <1>1, <1>2 DEF CursorInv, SyncTypes
<1>4. WithinFeed' /\ PagesFollow'
  BY <1>1, <1>2 DEF CursorInv, SyncTypes, WithinFeed, PagesFollow, At
<1>5. CursorSound' /\ GapSound'
  BY <1>2 DEF CursorInv, CursorSound, GapSound, Ingested
<1>6. QED  BY <1>3, <1>4, <1>5 DEF CursorInv

(* Where a run starts: at the cursor, or at the seed of a new mailbox. *)
LEMMA OpenedType ==
  ASSUME CursorInv
  PROVE  /\ Opened \in Cursor
         /\ Opened.value # None => Opened.value <= head
         /\ cursor # NoCursor => Opened = cursor
         /\ cursor = NoCursor => Opened.value = IF kind = "gmail" THEN seed ELSE None
  BY DEF CursorInv, SyncTypes, WithinFeed, Opened, Cursor

(* A run begins at the cursor it opens. *)
LEMMA BeginStep ==
  ASSUME CursorInv, NEW w \in Worker, Begin(w)
  PROVE  /\ cursor' \in Cursor /\ cursor'.value = Opened.value /\ cursor' # NoCursor
         /\ runs' \in [Worker -> Run]
         /\ runs'[w].pc = "open" /\ runs'[w].before = Opened.value
         /\ \A x \in Worker \ {w} : runs'[x] = runs[x]
<1> DEFINE opened == [runs[w] EXCEPT !.pc = "open", !.before = Opened.value]
<1>1. opened \in Run /\ opened.pc = "open" /\ opened.before = Opened.value
  BY OpenedType DEF CursorInv, SyncTypes, Run, Cursor
<1>2. runs' = [runs EXCEPT ![w] = opened]
  BY DEF Begin
<1> HIDE DEF opened
<1>3. cursor' = [Opened EXCEPT !.status = "syncing"] /\ Opened \in Cursor
  BY OpenedType DEF Begin
<1>4. cursor' \in Cursor /\ cursor'.value = Opened.value /\ cursor' # NoCursor
  BY <1>3 DEF Cursor, NoCursor
<1>5. QED  BY <1>1, <1>2, <1>4 DEF CursorInv, SyncTypes

(* Opening the cursor keeps its value or takes the seed. *)
LEMMA BeginKeepsCursor ==
  ASSUME CursorInv, NEW w \in Worker, Begin(w) PROVE CursorInv'
<1> USE DEF feed, account, queued, seen
<1>1. UNCHANGED <<kind, head, oldest, seed, stored, gap, lapsed>>
  BY DEF Begin
<1>2. SyncTypes'
  BY <1>1, BeginStep DEF CursorInv, SyncTypes
<1>3. WithinFeed'
  BY <1>1, BeginStep, OpenedType DEF CursorInv, WithinFeed
<1>4. PagesFollow'
  BY <1>1, BeginStep DEF CursorInv, PagesFollow, At
<1>5. CursorSound'
  <2>1. skipped' = IF cursor = NoCursor /\ Opened.value # None
                   THEN skipped \cup 1 .. Opened.value ELSE skipped
    BY DEF Begin
  <2>2. cursor'.value # None => 1 .. cursor'.value \subseteq Ingested' \cup lapsed'
    <3>1. CASE cursor = NoCursor
      BY <3>1, <2>1, BeginStep DEF Ingested
    <3>2. CASE cursor # NoCursor
      BY <3>2, <1>1, <2>1, BeginStep, OpenedType DEF CursorInv, CursorSound, Ingested
    <3>3. QED  BY <3>1, <3>2
  <2>3. kind' = "calendar" => skipped' = {}
    BY <1>1, <2>1, OpenedType DEF CursorInv, CursorSound
  <2>4. lapsed' # {} => kind' = "gmail" /\ oldest' > 0
    BY <1>1 DEF CursorInv, CursorSound
  <2>5. QED  BY <2>2, <2>3, <2>4, BeginStep DEF CursorSound, Cursor
<1>6. GapSound'
  <2>1. Ingested \subseteq Ingested'
    BY <1>1 DEF Begin, Ingested
  <2>2. gap # None => cursor'.value = None
    BY BeginStep, OpenedType DEF CursorInv, GapSound
  <2>3. QED  BY <1>1, <2>1, <2>2, BeginStep DEF CursorInv, GapSound
<1>7. QED  BY <1>2, <1>3, <1>4, <1>5, <1>6 DEF CursorInv

(* One run moves forward, and nothing else does. *)
RunMoves(w, pc, upto) ==
  /\ UNCHANGED <<kind, head, oldest, seed, cursor, stored, skipped, gap, lapsed>>
  /\ runs' \in [Worker -> Run]
  /\ runs'[w].pc = pc /\ runs'[w].before = runs[w].before /\ runs'[w].upto = upto
  /\ \A x \in Worker \ {w} : runs'[x] = runs[x]

(* A run obtains its token. *)
LEMMA AuthoriseStep ==
  ASSUME CursorInv, NEW w \in Worker, Authorise(w)
  PROVE  RunMoves(w, "authorised", runs[w].upto)
<1> DEFINE moved == [runs[w] EXCEPT !.pc = "authorised"]
<1>1. moved \in Run /\ moved.pc = "authorised"
      /\ moved.before = runs[w].before /\ moved.upto = runs[w].upto
  BY DEF CursorInv, SyncTypes, Run
<1>2. runs' = [runs EXCEPT ![w] = moved]
  BY DEF Authorise
<1> HIDE DEF moved
<1>3. QED
  BY <1>1, <1>2 DEF CursorInv, SyncTypes, RunMoves, Authorise, feed, account, queued, seen

(* A run fetches up to the feed's head. *)
LEMMA FetchStep ==
  ASSUME CursorInv, NEW w \in Worker, Fetch(w)
  PROVE  RunMoves(w, "fetched", head)
<1> DEFINE moved == [runs[w] EXCEPT !.pc = "fetched", !.upto = head]
<1>1. moved \in Run /\ moved.pc = "fetched"
      /\ moved.before = runs[w].before /\ moved.upto = head
  BY DEF CursorInv, SyncTypes, Run
<1>2. runs' = [runs EXCEPT ![w] = moved]
  BY DEF Fetch
<1> HIDE DEF moved
<1>3. QED
  BY <1>1, <1>2 DEF CursorInv, SyncTypes, RunMoves, Fetch, feed, account, queued, seen

(* Neither touches the cursor. *)
LEMMA MovesKeepCursor ==
  ASSUME CursorInv, NEW w \in Worker, Authorise(w) \/ Fetch(w) PROVE CursorInv'
<1>1. PICK pc \in {"authorised", "fetched"}, upto \in Position \cup {None} :
        RunMoves(w, pc, upto) /\ (pc = "fetched" => upto = head)
  BY AuthoriseStep, FetchStep DEF CursorInv, SyncTypes, Run
<1>2. SyncTypes' /\ WithinFeed'
  BY <1>1 DEF RunMoves, CursorInv, SyncTypes, WithinFeed
<1>3. PagesFollow'
  BY <1>1, Constants DEF RunMoves, CursorInv, SyncTypes, WithinFeed, PagesFollow, At
<1>4. CursorSound' /\ GapSound'
  BY <1>1 DEF RunMoves, CursorInv, CursorSound, GapSound, Ingested
<1>5. QED  BY <1>2, <1>3, <1>4 DEF CursorInv

(* What is stored reaches from where the run started to where it ended. *)
LEMMA StoreStep ==
  ASSUME CursorInv, NEW w \in Worker, Store(w)
  PROVE  /\ UNCHANGED <<kind, head, oldest, seed>> /\ gap' = None
         /\ cursor.value = runs[w].before
         /\ cursor' \in Cursor /\ cursor'.value = runs[w].upto
         /\ runs[w].upto \in Position /\ runs[w].upto <= head
         /\ runs[w].before # None => runs[w].before <= runs[w].upto
         /\ runs' \in [Worker -> Run] /\ runs'[w] = NoRun
         /\ \A x \in Worker \ {w} : runs'[x] = runs[x]
<1>1. runs[w].upto \in Position /\ runs[w].upto <= head
      /\ (runs[w].before # None => runs[w].before <= runs[w].upto)
  BY DEF CursorInv, PagesFollow, Store
<1>2. cursor' = [status |-> "ready", value |-> runs[w].upto]
  BY DEF Store, Reached
<1>3. cursor' \in Cursor /\ cursor'.value = runs[w].upto
  BY <1>1, <1>2 DEF Cursor
<1>4. QED
  BY <1>1, <1>3, NoRunType
  DEF Store, Current, Idle, CursorInv, SyncTypes, feed, account

(* A page is stored with its cursor, or dropped when the cursor has moved. *)
LEMMA StoreKeepsCursor ==
  ASSUME CursorInv, NEW w \in Worker, Store(w) PROVE CursorInv'
<1>1. SyncTypes'
  BY StoreStep DEF CursorInv, SyncTypes
<1>2. WithinFeed'
  BY StoreStep, NoRunType DEF CursorInv, WithinFeed
<1>3. PagesFollow'
  BY StoreStep, NoRunType DEF CursorInv, PagesFollow, At
<1>4. GapSound'
  BY StoreStep DEF GapSound
<1>5. CursorSound'
  <2>1. /\ stored' = stored \cup Batch(w)
        /\ skipped' = IF Bootstraps(w) /\ gap = None
                      THEN skipped \cup 1 .. runs[w].upto ELSE skipped
        /\ lapsed' = IF Bootstraps(w) /\ gap # None
                     THEN lapsed \cup gap + 1 .. runs[w].upto ELSE lapsed
    BY DEF Store
  <2>2. Ingested \cup lapsed \subseteq Ingested' \cup lapsed'
    BY <2>1 DEF Ingested
  <2>3. 1 .. runs[w].upto \subseteq Ingested' \cup lapsed'
    <3>1. CASE kind = "calendar" /\ runs[w].before = None
      BY <3>1, <2>1 DEF Batch, Ingested
    <3>2. CASE Bootstraps(w) /\ gap = None
      BY <3>2, <2>1 DEF Ingested
    <3>3. CASE Bootstraps(w) /\ gap # None
      <4>1. gap \in Nat /\ runs[w].upto \in Nat
        BY <3>3, StoreStep, Constants DEF CursorInv, SyncTypes
      <4>2. 1 .. gap \subseteq Ingested \cup lapsed
        BY <3>3 DEF CursorInv, GapSound
      <4>3. gap + 1 .. runs[w].upto \subseteq lapsed'
        BY <3>3, <2>1
      <4>4. \A c \in 1 .. runs[w].upto : c \in 1 .. gap \/ c \in gap + 1 .. runs[w].upto
        BY <4>1
      <4>5. QED  BY <2>2, <4>2, <4>3, <4>4
    <3>4. CASE runs[w].before # None
      <4>1. runs[w].before \in Nat /\ runs[w].upto \in Nat
        BY <3>4, StoreStep, Constants DEF CursorInv, SyncTypes, Run
      <4>2. 1 .. runs[w].before \subseteq Ingested \cup lapsed
        BY <3>4, StoreStep DEF CursorInv, CursorSound
      <4>3. runs[w].before + 1 .. runs[w].upto \subseteq stored'
        BY <3>4, <2>1 DEF Batch
      <4>4. \A c \in 1 .. runs[w].upto :
              c \in 1 .. runs[w].before \/ c \in runs[w].before + 1 .. runs[w].upto
        BY <4>1
      <4>5. QED  BY <2>2, <4>2, <4>3, <4>4 DEF Ingested
    <3>5. QED  BY <3>1, <3>2, <3>3, <3>4 DEF Bootstraps, CursorInv, SyncTypes
  <2>4. kind' = "calendar" => skipped' = {}
    BY <2>1, StoreStep DEF CursorInv, CursorSound, Bootstraps
  <2>5. lapsed' # {} => kind' = "gmail" /\ oldest' > 0
    BY <2>1, StoreStep DEF CursorInv, CursorSound, GapSound, Bootstraps
  <2>6. QED  BY <2>3, <2>4, <2>5, StoreStep DEF CursorSound, Cursor
<1>6. QED  BY <1>1, <1>2, <1>3, <1>4, <1>5 DEF CursorInv

(* Every step is one of the still ones or one of these. *)
LEMMA StepCases ==
  ASSUME [Next]_vars
  PROVE  \/ Still \/ FeedGrows \/ Connect
         \/ \E w \in Worker : \/ \E t \in Event \cup {None} : Claim(w, t)
                              \/ Begin(w) \/ Authorise(w) \/ Fetch(w) \/ Store(w)
  BY DEF Next, Sync, Still

(* Each step keeps the invariant. *)
LEMMA CursorStep == CursorInv /\ [Next]_vars => CursorInv'
<1> SUFFICES ASSUME CursorInv, [Next]_vars PROVE CursorInv'
  OBVIOUS
<1>1. CASE Still
  BY <1>1, StillDrops, DropsKeepCursor
<1>2. CASE FeedGrows
  BY <1>2, FeedGrowsKeepsCursor
<1>3. CASE Connect
  BY <1>3, ConnectKeepsCursor
<1>4. ASSUME NEW w \in Worker, NEW t \in Event \cup {None}, Claim(w, t) PROVE CursorInv'
  BY <1>4, ClaimKeepsCursor
<1>5. ASSUME NEW w \in Worker, Begin(w) PROVE CursorInv'
  BY <1>5, BeginKeepsCursor
<1>6. ASSUME NEW w \in Worker, Authorise(w) \/ Fetch(w) PROVE CursorInv'
  BY <1>6, MovesKeepCursor
<1>7. ASSUME NEW w \in Worker, Store(w) PROVE CursorInv'
  BY <1>7, StoreKeepsCursor
<1>8. QED  BY <1>1, <1>2, <1>3, <1>4, <1>5, <1>6, <1>7, StepCases

(* The invariant holds throughout. *)
LEMMA CursorInvariant == Spec => []CursorInv
<1>1. QED  BY CursorInit, CursorStep, PTL DEF Spec

(* What lies before the cursor is stored, or precedes the first cursor of a *)
(* connection, or lapsed behind a mailbox's stale cursor, for any number of *)
(* overlapping runs, lost locks, crashes and reconnections; a calendar's is *)
(* stored (sync_runtime.py, the last transaction of                         *)
(* process_provider_sync_due).                                              *)
THEOREM CursorStaysSound == Spec => []CursorSound
<1>1. CursorInv => CursorSound
  BY DEF CursorInv
<1>2. QED  BY <1>1, CursorInvariant, PTL

(* No step takes a cursor back: it moves forward, or is given up.           *)
THEOREM CursorGoesForward == Spec => CursorAdvances
<1> DEFINE Forward == cursor.value # None /\ cursor'.value # None
                        => cursor'.value >= cursor.value
<1>1. ASSUME CursorInv, [Next]_vars PROVE Forward
  <2>0. cursor.value # None => cursor.value \in Nat
    BY <1>1, Constants DEF CursorInv, SyncTypes, Cursor
  <2>1. CASE Still
    BY <1>1, <2>0, <2>1, StillDrops DEF OnlyDrops
  <2>2. CASE FeedGrows
    BY <2>0, <2>2 DEF FeedGrows
  <2>3. CASE Connect
    BY <2>0, <2>3 DEF Connect
  <2>4. ASSUME NEW w \in Worker, NEW t \in Event \cup {None}, Claim(w, t) PROVE Forward
    BY <2>0, <2>4 DEF Claim
  <2>5. ASSUME NEW w \in Worker, Begin(w) PROVE Forward
    BY <1>1, <2>0, <2>5, BeginStep, OpenedType, NoCursorType
  <2>6. ASSUME NEW w \in Worker, Authorise(w) \/ Fetch(w) PROVE Forward
    BY <2>0, <2>6 DEF Authorise, Fetch
  <2>7. ASSUME NEW w \in Worker, Store(w) PROVE Forward
    BY <1>1, <2>7, StoreStep, Constants
  <2>8. QED  BY <1>1, <2>1, <2>2, <2>3, <2>4, <2>5, <2>6, <2>7, StepCases
<1>2. CursorInv /\ [Next]_vars => [Forward]_vars
  BY <1>1
<1>3. QED  BY <1>2, CursorInvariant, PTL DEF Spec, CursorAdvances

-----------------------------------------------------------------------------
(* What was announced *)

(* The worker process and one more whose lock was lost, say. *)
TwoRuns == \A x, y, z \in Worker : x = y \/ y = z \/ x = z

Underway(w) == runs[w].pc \in {"open", "authorised", "fetched"}
Tells(counts, p) == \E c \in Change : c > p /\ counts[c] > 0

ToldTypes ==
  /\ oldest \in Nat
  /\ told \in [Change -> Nat]
  /\ connected \in [now : BOOLEAN, times : Nat]

ToldFromFeed == \A c \in Change : told[c] > 0 => c <= head

(* Without a token nothing is fetched. *)
NotYetConnected ==
  connected.times = 0 =>
    /\ ~connected.now
    /\ \A w \in Worker : ~At(w, "authorised") /\ ~At(w, "fetched")
    /\ ~Tells(told, 0)

(* A mailbox is seeded before anything of it is announced. *)
SeedUntold == seed # None /\ cursor = NoCursor => ~Tells(told, 0)

(* A cursor before an announced mail is stale: Google does not answer to it. *)
CursorBehind ==
  cursor.value # None /\ Tells(told, cursor.value)
    => cursor.value < oldest \/ ~connected.now

(* The cursor has passed p, and no other run takes it back to p or before. *)
Passed(p, w) ==
  /\ cursor.value # None => cursor.value > p
  /\ \A x \in Worker \ {w} : At(x, "fetched") => runs[x].upto > p

(* A run that started before an announced mail does not store what it gets. *)
RunsBehind ==
  \A w \in Worker :
    Underway(w) /\ runs[w].before # None /\ Tells(told, runs[w].before) =>
      \/ Passed(runs[w].before, w)
      \/ runs[w].before < oldest /\ ~At(w, "fetched")
      \/ ~connected.now /\ At(w, "open")

(* The cursor and every other run are past p. *)
Beyond(p, w) ==
  /\ cursor.value # None /\ cursor.value > p
  /\ \A x \in Worker \ {w} : Underway(x) => runs[x].before # None /\ runs[x].before > p

(* A run without a start can leave the cursor before an announced mail only *)
(* where the cursor is stale, or after the disconnection.                   *)
StartsBehind ==
  \A w \in Worker :
    At(w, "fetched") /\ runs[w].before = None /\ Tells(told, runs[w].upto) =>
      Beyond(runs[w].upto, w) \/ runs[w].upto < oldest \/ ~connected.now

OnceEach == \A c \in Change : told[c] <= 1
FirstConnection == kind = "gmail" /\ connected.times <= 1
Once == SeedUntold /\ CursorBehind /\ RunsBehind /\ StartsBehind /\ OnceEach

ToldInv ==
  ToldTypes /\ ToldFromFeed /\ NotYetConnected /\ (FirstConnection => Once)

(* Positions that are there are numbers. *)
LEMMA Numbers ==
  ASSUME CursorInv, ToldInv
  PROVE  /\ head \in Nat /\ oldest \in Nat /\ Change \subseteq Nat \ {0}
         /\ seed # None => seed \in Nat
         /\ cursor.value # None => cursor.value \in Nat
         /\ \A w \in Worker : runs[w].before # None => runs[w].before \in Nat
         /\ \A w \in Worker : At(w, "fetched") => runs[w].upto \in Nat
         /\ told \in [Change -> Nat]
<1>1. /\ head \in Position
      /\ seed # None => seed \in Position
      /\ cursor.value # None => cursor.value \in Position
      /\ \A w \in Worker : runs[w].before # None => runs[w].before \in Position
      /\ \A w \in Worker : At(w, "fetched") => runs[w].upto \in Position
  BY DEF CursorInv, SyncTypes, PagesFollow, Cursor, Run
<1>2. Change \subseteq Nat \ {0}
  BY Constants DEF Change
<1>3. QED  BY <1>1, <1>2, Constants DEF ToldInv, ToldTypes

(* What is told from a position on is told from the start. *)
LEMMA TellsDown ==
  ASSUME NEW counts, NEW p \in Nat, Tells(counts, p) PROVE Tells(counts, 0)
  BY Constants DEF Tells, Change

(* Nothing is told at first. *)
LEMMA ToldInit == Init => ToldInv
<1> SUFFICES ASSUME Init PROVE ToldInv
  OBVIOUS
<1>1. connected = [now |-> FALSE, times |-> 0] /\ oldest = 0
      /\ told = [c \in Change |-> 0] /\ seed = None
  BY DEF Init
<1>2. connected.now = FALSE /\ connected.times = 0
  BY <1>1
<1>3. connected \in [now : BOOLEAN, times : Nat]
  BY <1>1
<1>4. ToldTypes
  BY <1>1, <1>3 DEF ToldTypes
<1>5. \A p : ~Tells(told, p)
  BY <1>1 DEF Tells
<1>6. \A c \in Change : told[c] = 0
  BY <1>1
<1>7. cursor.value = None /\ \A w \in Worker : runs[w].pc = "idle"
  BY NoCursorType, NoRunType DEF Init
<1>8. NotYetConnected
  BY <1>2, <1>5, <1>7 DEF NotYetConnected, At
<1>9. Once
  BY <1>1, <1>5, <1>6, <1>7
  DEF Once, SeedUntold, CursorBehind, RunsBehind, StartsBehind, OnceEach, At
<1>10. QED
  BY <1>4, <1>6, <1>8, <1>9 DEF ToldInv, ToldFromFeed

(* Steps that leave the cursor where it is, announce nothing and move no    *)
(* run forward.                                                             *)
Calm ==
  /\ UNCHANGED <<kind, seed, connected, told>>
  /\ head' \in {head, head + 1} /\ oldest' \in {oldest, head} /\ oldest <= oldest'
  /\ cursor'.value = cursor.value /\ (cursor' = NoCursor => cursor = NoCursor)
  /\ \A w \in Worker : runs'[w] = runs[w] \/ runs'[w].pc \in {"idle", "claimed"}

(* Calm steps keep the order of the cursor and the runs. *)
LEMMA CalmKeepsTold ==
  ASSUME CursorInv, ToldInv, Calm PROVE ToldInv'
<1> USE Numbers
<1>1. ToldTypes'
  BY DEF ToldInv, ToldTypes, Calm
<1>2. ToldFromFeed'
  BY DEF ToldInv, ToldFromFeed, Calm
<1>3. NotYetConnected'
  BY DEF ToldInv, NotYetConnected, Calm, At
<1>4. ASSUME FirstConnection' PROVE Once'
  <2>1. Once
    BY <1>4 DEF ToldInv, FirstConnection, Calm
  <2>2. SeedUntold' /\ CursorBehind' /\ OnceEach'
    BY <2>1 DEF Once, SeedUntold, CursorBehind, OnceEach, Calm
  <2>3. RunsBehind'
    BY <2>1 DEF Once, RunsBehind, Passed, Underway, At, Calm
  <2>4. StartsBehind'
    BY <2>1 DEF Once, StartsBehind, Beyond, Underway, At, Calm
  <2>5. QED  BY <2>2, <2>3, <2>4 DEF Once
<1>5. QED  BY <1>1, <1>2, <1>3, <1>4 DEF ToldInv

(* Every step is calm but these. *)
LEMMA CalmSteps ==
  ASSUME CursorInv, ToldInv, [Next]_vars
  PROVE  \/ Calm \/ Connect \/ Disconnect
         \/ \E w \in Worker : Begin(w) \/ Authorise(w) \/ Fetch(w) \/ Store(w)
                                \/ StaleCursor(w)
<1> USE DEF feed, account, queued, seen
<1>0. cursor \in Cursor /\ runs \in [Worker -> Run] /\ head \in Nat /\ oldest \in Nat
  BY Numbers DEF CursorInv, SyncTypes
<1>1. CASE \/ HistoryExpires \/ FeedGrows \/ Reconcile \/ ForceSync \/ LockLost
           \/ UNCHANGED vars
  BY <1>0, <1>1 DEF HistoryExpires, FeedGrows, Reconcile, ForceSync, LockLost, vars, Calm
<1>2. CASE \E e \in Event : CheckChannel(e) \/ CalendarNotified(e) \/ GmailNotified(e)
                              \/ EventReceived(e)
  BY <1>0, <1>2 DEF CheckChannel, CalendarNotified, GmailNotified, Accept, EventReceived,
                    Calm
<1>3. ASSUME NEW w \in Worker, NEW t \in Event \cup {None}, Claim(w, t) PROVE Calm
  <2> DEFINE claimed == [NoRun EXCEPT !.pc = "claimed", !.event = t]
  <2>1. claimed.pc = "claimed"
    BY DEF NoRun
  <2>2. runs' = [runs EXCEPT ![w] = claimed]
    BY <1>3 DEF Claim
  <2> HIDE DEF claimed
  <2>3. QED  BY <1>0, <1>3, <2>1, <2>2 DEF Claim, Calm
<1>4. ASSUME NEW w \in Worker, Idle(w),
             UNCHANGED <<kind, head, oldest, seed, connected, told>>,
             cursor'.value = cursor.value, cursor' = NoCursor => cursor = NoCursor
      PROVE  Calm
  BY <1>0, <1>4, NoRunType DEF Idle, Calm
<1>5. ASSUME NEW w \in Worker,
             LockBusy(w) \/ NothingToSync(w) \/ CursorGone(w) \/ Crash(w)
      PROVE  Calm
  <2>1. /\ Idle(w) /\ UNCHANGED <<kind, head, oldest, seed, connected, told>>
        /\ cursor' = cursor
    BY <1>5 DEF LockBusy, NothingToSync, CursorGone, Crash
  <2>2. QED  BY <2>1, <1>4
<1>6. ASSUME NEW w \in Worker, SyncFails(w) \/ MailboxUnreadable(w) \/ CursorMoved(w)
      PROVE  Calm
  <2>1. Idle(w) /\ UNCHANGED <<kind, head, oldest, seed, connected, told>>
    BY <1>6 DEF SyncFails, MailboxUnreadable, CursorMoved, MarkFailed
  <2>2. \/ cursor' = cursor
        \/ \E s \in {"ready", "error", "invalid"} : cursor' = [cursor EXCEPT !.status = s]
    BY <1>6 DEF SyncFails, MailboxUnreadable, CursorMoved, MarkFailed
  <2>3. ASSUME NEW s \in {"ready", "error", "invalid"},
               cursor' = [cursor EXCEPT !.status = s]
        PROVE  cursor'.value = cursor.value /\ cursor' # NoCursor
    BY <1>0, <2>3 DEF Cursor, NoCursor
  <2>4. cursor'.value = cursor.value /\ (cursor' = NoCursor => cursor = NoCursor)
    BY <2>2, <2>3
  <2>5. QED  BY <2>1, <2>4, <1>4
<1>7. QED  BY <1>1, <1>2, <1>3, <1>5, <1>6 DEF Next, Sync

(* A new connection starts behind everything told. *)
LEMMA ConnectKeepsTold ==
  ASSUME CursorInv, ToldInv, Connect PROVE ToldInv'
<1> USE Numbers
<1>1. connected' = [now |-> TRUE, times |-> connected.times + 1]
      /\ UNCHANGED <<kind, head, oldest, cursor, runs, told>>
  BY DEF Connect, feed, seen
<1>2. connected.times \in Nat
  BY DEF ToldInv, ToldTypes
<1>3. connected'.times = connected.times + 1
  BY <1>1
<1>4. connected' \in [now : BOOLEAN, times : Nat]
  BY <1>1, <1>2
<1>5. ToldTypes' /\ ToldFromFeed' /\ NotYetConnected'
  BY <1>1, <1>2, <1>3, <1>4
  DEF ToldInv, ToldTypes, ToldFromFeed, NotYetConnected
<1>6. ASSUME FirstConnection' PROVE Once'
  <2>1. ~Tells(told, 0)
    BY <1>6, <1>2, <1>3 DEF FirstConnection, ToldInv, NotYetConnected
  <2>2. \A p \in Nat : ~Tells(told, p)
    BY <2>1, TellsDown
  <2>3. \A c \in Change : told[c] <= 1
    BY <2>1 DEF Tells
  <2>4. /\ SeedUntold' /\ CursorBehind' /\ RunsBehind' /\ StartsBehind' /\ OnceEach'
    BY <1>1, <2>1, <2>2, <2>3
    DEF SeedUntold, CursorBehind, RunsBehind, StartsBehind, OnceEach, At
  <2>5. QED  BY <2>4 DEF Once
<1>7. QED  BY <1>5, <1>6 DEF ToldInv

(* A disconnection drops the cursor. *)
LEMMA DisconnectKeepsTold ==
  ASSUME CursorInv, ToldInv, Disconnect PROVE ToldInv'
<1> USE Numbers
<1>1. connected \in [now : BOOLEAN, times : Nat]
      /\ connected' = [connected EXCEPT !.now = FALSE]
      /\ seed' = None /\ cursor' = NoCursor /\ connected.now
      /\ UNCHANGED <<kind, head, oldest, runs, told>>
  BY DEF Disconnect, feed, seen, ToldInv, ToldTypes
<1>2. connected' \in [now : BOOLEAN, times : Nat]
  BY Zenon, <1>1
<1>3. ~connected'.now
  BY Zenon, <1>1
<1>4. connected'.times = connected.times
  BY Zenon, <1>1
<1>5. ToldTypes' /\ ToldFromFeed'
  BY <1>1, <1>2 DEF ToldInv, ToldTypes, ToldFromFeed
<1>6. NotYetConnected'
  BY <1>1, <1>4 DEF ToldInv, NotYetConnected
<1>7. ASSUME FirstConnection' PROVE Once'
  <2>1. Once
    BY <1>7, <1>1, <1>4 DEF ToldInv, FirstConnection
  <2>2. SeedUntold' /\ CursorBehind' /\ OnceEach'
    BY <2>1, <1>1, NoCursorType DEF Once, SeedUntold, CursorBehind, OnceEach
  <2>3. RunsBehind'
    BY <2>1, <1>1, <1>3, NoCursorType DEF Once, RunsBehind, Passed, Underway, At
  <2>4. StartsBehind'
    BY <1>3 DEF StartsBehind
  <2>5. QED  BY <2>2, <2>3, <2>4 DEF Once
<1>8. QED  BY <1>5, <1>6, <1>7 DEF ToldInv

(* A cursor the provider no longer knows is dropped. *)
LEMMA StaleKeepsTold ==
  ASSUME CursorInv, ToldInv, NEW w \in Worker, StaleCursor(w) PROVE ToldInv'
<1> USE Numbers
<1>1. /\ UNCHANGED <<kind, head, oldest, seed, connected, told>>
      /\ cursor'.value = None /\ (cursor' = NoCursor => cursor = NoCursor)
      /\ At(w, "authorised") /\ runs[w].before # None /\ runs[w].before < oldest
  BY NoCursorType DEF StaleCursor, feed, account, seen, NoCursor
<1>2. runs'[w].pc = "idle" /\ \A x \in Worker \ {w} : runs'[x] = runs[x]
  BY NoRunType DEF StaleCursor, Idle, CursorInv, SyncTypes
<1>3. ToldTypes' /\ ToldFromFeed' /\ NotYetConnected'
  BY <1>1, <1>2 DEF ToldInv, ToldTypes, ToldFromFeed, NotYetConnected, At
<1>4. ASSUME FirstConnection' PROVE Once'
  <2>1. Once
    BY <1>4, <1>1 DEF ToldInv, FirstConnection
  <2>2. SeedUntold' /\ CursorBehind' /\ OnceEach'
    BY <2>1, <1>1 DEF Once, SeedUntold, CursorBehind, OnceEach
  <2>3. RunsBehind'
    BY <2>1, <1>1, <1>2 DEF Once, RunsBehind, Passed, Underway, At
  <2>4. StartsBehind'
    <3> SUFFICES ASSUME NEW x \in Worker, At(x, "fetched")',
                        (runs[x].before)' = None, Tells(told, runs[x].upto)'
                 PROVE  (runs[x].upto < oldest \/ ~connected.now)'
      BY DEF StartsBehind
    <3>1. x # w /\ runs'[x] = runs[x]
      BY <1>2 DEF At
    <3>2. Beyond(runs[x].upto, x) \/ runs[x].upto < oldest \/ ~connected.now
      BY <2>1, <1>1, <3>1 DEF Once, StartsBehind, At
    <3>3. Beyond(runs[x].upto, x) => runs[x].upto < runs[w].before
      BY <1>1, <3>1 DEF Beyond, Underway, At
    <3>4. runs[x].upto \in Nat
      BY <3>1 DEF At
    <3>5. QED  BY <1>1, <3>1, <3>2, <3>3, <3>4
  <2>5. QED  BY <2>2, <2>3, <2>4 DEF Once
<1>5. QED  BY <1>3, <1>4 DEF ToldInv

(* A run begins at the cursor. *)
LEMMA BeginKeepsTold ==
  ASSUME CursorInv, ToldInv, NEW w \in Worker, Begin(w) PROVE ToldInv'
<1> USE Numbers
<1>1. /\ UNCHANGED <<kind, head, oldest, seed, connected, told>>
      /\ cursor'.value = Opened.value
      /\ runs'[w].pc = "open" /\ runs'[w].before = Opened.value
      /\ \A x \in Worker \ {w} : runs'[x] = runs[x]
  BY BeginStep DEF Begin, feed, account, queued, seen
<1>2. cursor' # NoCursor
  <2>1. cursor' = [Opened EXCEPT !.status = "syncing"] /\ Opened \in Cursor
    BY OpenedType DEF Begin
  <2>2. cursor'.status = "syncing"
    BY <2>1 DEF Cursor
  <2>3. QED  BY <2>2 DEF NoCursor
<1>3. /\ cursor # NoCursor => Opened.value = cursor.value
      /\ cursor = NoCursor /\ Opened.value # None => seed # None /\ Opened.value = seed
  BY OpenedType
<1>4. ToldTypes' /\ ToldFromFeed' /\ NotYetConnected'
  BY <1>1 DEF ToldInv, ToldTypes, ToldFromFeed, NotYetConnected, At
<1>5. ASSUME FirstConnection' PROVE Once'
  <2>1. Once
    BY <1>5, <1>1 DEF ToldInv, FirstConnection
  <2>2. ASSUME NEW p \in Nat, Tells(told, p), Opened.value # None
        PROVE  cursor # NoCursor /\ Opened.value = cursor.value
    BY <2>1, <2>2, <1>3, TellsDown DEF Once, SeedUntold
  <2>3. SeedUntold' /\ OnceEach'
    BY <2>1, <1>1, <1>2 DEF Once, SeedUntold, OnceEach
  <2>4. Opened.value # None => Opened.value \in Nat
    BY <1>3
  <2>5. Opened.value # None /\ Tells(told, Opened.value)
          => Opened.value < oldest \/ ~connected.now
    BY <2>1, <2>2, <2>4 DEF Once, CursorBehind
  <2>6. CursorBehind'
    BY <2>5, <1>1 DEF CursorBehind
  <2>7. RunsBehind'
    <3>1. ASSUME NEW x \in Worker \ {w},
                 Underway(x), runs[x].before # None, Tells(told, runs[x].before)
          PROVE  (\/ Passed(runs[x].before, x)
                  \/ runs[x].before < oldest /\ ~At(x, "fetched")
                  \/ ~connected.now /\ At(x, "open"))'
      <4>1. cursor'.value = None \/ cursor'.value = cursor.value
        BY <2>2, <3>1, <1>1
      <4>2. QED
        BY <4>1, <2>1, <3>1, <1>1 DEF Once, RunsBehind, Passed, At
    <3>2. QED
      BY <3>1, <2>5, <1>1 DEF RunsBehind, Underway, At
  <2>8. StartsBehind'
    <3>1. ASSUME NEW x \in Worker \ {w}, Beyond(runs[x].upto, x) PROVE Beyond(runs[x].upto, x)'
      <4>1. cursor # NoCursor /\ cursor.value # None
        BY <3>1, NoCursorType DEF Beyond
      <4>2. QED
        BY <4>1, <3>1, <1>1, <1>3 DEF Beyond, Underway
    <3>2. QED
      BY <3>1, <2>1, <1>1 DEF Once, StartsBehind, At
  <2>9. QED  BY <2>3, <2>6, <2>7, <2>8 DEF Once
<1>6. QED  BY <1>4, <1>5 DEF ToldInv

(* A run with a token is where it began. *)
LEMMA AuthoriseKeepsTold ==
  ASSUME CursorInv, ToldInv, NEW w \in Worker, Authorise(w) PROVE ToldInv'
<1> USE Numbers
<1>1. /\ UNCHANGED <<kind, head, oldest, seed, connected, told, cursor>>
      /\ connected.now /\ At(w, "open")
      /\ runs'[w].pc = "authorised" /\ runs'[w].before = runs[w].before
      /\ \A x \in Worker \ {w} : runs'[x] = runs[x]
  BY AuthoriseStep DEF RunMoves, Authorise, feed, account, seen
<1>2. ToldTypes' /\ ToldFromFeed' /\ NotYetConnected'
  BY <1>1 DEF ToldInv, ToldTypes, ToldFromFeed, NotYetConnected, At
<1>3. ASSUME FirstConnection' PROVE Once'
  <2>1. Once
    BY <1>3, <1>1 DEF ToldInv, FirstConnection
  <2>2. SeedUntold' /\ CursorBehind' /\ OnceEach'
    BY <2>1, <1>1 DEF Once, SeedUntold, CursorBehind, OnceEach
  <2>3. RunsBehind'
    BY <2>1, <1>1 DEF Once, RunsBehind, Passed, Underway, At
  <2>4. StartsBehind'
    BY <2>1, <1>1 DEF Once, StartsBehind, Beyond, Underway, At
  <2>5. QED  BY <2>2, <2>3, <2>4 DEF Once
<1>4. QED  BY <1>2, <1>3 DEF ToldInv

(* A run that has fetched is behind the feed's head. *)
LEMMA FetchKeepsTold ==
  ASSUME CursorInv, ToldInv, NEW w \in Worker, Fetch(w) PROVE ToldInv'
<1> USE Numbers
<1>1. /\ UNCHANGED <<kind, head, oldest, seed, connected, told, cursor>>
      /\ At(w, "authorised") /\ (runs[w].before # None => runs[w].before >= oldest)
      /\ runs'[w].pc = "fetched" /\ runs'[w].before = runs[w].before
      /\ runs'[w].upto = head
      /\ \A x \in Worker \ {w} : runs'[x] = runs[x]
  BY FetchStep DEF RunMoves, Fetch, feed, account, seen
<1>2. ToldTypes' /\ ToldFromFeed' /\ NotYetConnected'
  BY <1>1 DEF ToldInv, ToldTypes, ToldFromFeed, NotYetConnected, At
<1>3. \A p \in Nat : Tells(told, p) => p < head
  BY DEF Tells, ToldInv, ToldFromFeed
<1>4. ASSUME FirstConnection' PROVE Once'
  <2>1. Once
    BY <1>4, <1>1 DEF ToldInv, FirstConnection
  <2>2. SeedUntold' /\ CursorBehind' /\ OnceEach'
    BY <2>1, <1>1 DEF Once, SeedUntold, CursorBehind, OnceEach
  <2>3. RunsBehind'
    BY <2>1, <1>1, <1>3 DEF Once, RunsBehind, Passed, Underway, At
  <2>4. StartsBehind'
    BY <2>1, <1>1, <1>3 DEF Once, StartsBehind, Beyond, Underway, At
  <2>5. QED  BY <2>2, <2>3, <2>4 DEF Once
<1>5. QED  BY <1>2, <1>4 DEF ToldInv

(* What a run announces lies in what it fetched; a mailbox without a start  *)
(* announces nothing.                                                       *)
LEMMA StoreTells ==
  ASSUME CursorInv, ToldInv, NEW w \in Worker, Store(w)
  PROVE  /\ told' \in [Change -> Nat]
         /\ \A c \in Change : told'[c] > 0 => told[c] > 0 \/ c <= runs[w].upto
         /\ kind = "gmail" /\ runs[w].before = None => told' = told
         /\ runs[w].before # None =>
              \A c \in Change : IF c > runs[w].before THEN told'[c] <= told[c] + 1
                                                      ELSE told'[c] = told[c]
<1> USE Numbers
<1>1. told' = [c \in Change |-> IF c \in Announced(w) THEN told[c] + 1 ELSE told[c]]
  BY DEF Store
<1>2. Announced(w) \subseteq Batch(w)
  BY DEF Announced
<1>3. runs[w].upto \in Nat
  BY DEF Store
<1>4. \A c \in Batch(w) : c <= runs[w].upto
  BY <1>3 DEF Batch
<1>5. kind = "gmail" /\ runs[w].before = None => Batch(w) = {}
  BY DEF Batch
<1>6. runs[w].before # None => \A c \in Batch(w) : c > runs[w].before
  BY <1>3 DEF Batch
<1>7. told' \in [Change -> Nat]
  BY <1>1
<1>8. kind = "gmail" /\ runs[w].before = None => told' = told
  <2> SUFFICES ASSUME kind = "gmail", runs[w].before = None PROVE told' = told
    OBVIOUS
  <2>1. Announced(w) = {}
    BY <1>2, <1>5
  <2>2. \A c \in Change : told'[c] = told[c]
    BY <1>1, <2>1
  <2>3. QED  BY <2>2, <1>7
<1>9. \A c \in Change : told'[c] > 0 => told[c] > 0 \/ c <= runs[w].upto
  BY <1>1, <1>2, <1>4
<1>10. ASSUME runs[w].before # None, NEW c \in Change
       PROVE  IF c > runs[w].before THEN told'[c] <= told[c] + 1 ELSE told'[c] = told[c]
  BY <1>1, <1>2, <1>6, <1>10
<1>11. QED  BY <1>7, <1>8, <1>9, <1>10

(* A page stored tells what nobody has told: of two runs, one is too late. *)
LEMMA StoreKeepsTold ==
  ASSUME CursorInv, ToldInv, TwoRuns, NEW w \in Worker, Store(w) PROVE ToldInv'
<1> USE Numbers
<1> DEFINE b == runs[w].before
           u == runs[w].upto
<1>1. /\ UNCHANGED <<kind, head, oldest, seed, connected>>
      /\ At(w, "fetched") /\ cursor.value = b
      /\ runs'[w].pc = "idle" /\ (\A x \in Worker \ {w} : runs'[x] = runs[x])
      /\ cursor'.value = u /\ u \in Nat /\ u <= head /\ (b # None => b <= u)
      /\ cursor' # NoCursor
  BY StoreStep, NoRunType DEF Store, feed, account, NoCursor
<1>a. u # None
  BY StoreStep, Constants
<1>2. ToldTypes'
  BY <1>1, StoreTells DEF ToldInv, ToldTypes
<1>3. ToldFromFeed'
  BY <1>1, StoreTells DEF ToldInv, ToldFromFeed
<1>4. NotYetConnected'
  BY <1>1 DEF ToldInv, NotYetConnected, At
<1>5. ASSUME FirstConnection' PROVE Once'
  <2>1. Once /\ kind = "gmail"
    BY <1>5, <1>1 DEF ToldInv, FirstConnection
  <2>2. ASSUME b # None, Tells(told, b) PROVE FALSE
    BY <2>1, <2>2, <1>1 DEF Once, RunsBehind, Passed, Underway, At
  <2>3. OnceEach'
    <3>1. CASE b = None
      BY <3>1, <2>1, StoreTells DEF Once, OnceEach
    <3>2. CASE b # None
      <4>1. \A c \in Change : c > b => told[c] = 0
        BY <3>2, <2>2 DEF Tells
      <4>2. QED
        BY <3>2, <4>1, <2>1, StoreTells DEF Once, OnceEach
    <3>3. QED  BY <3>1, <3>2
  <2>4. SeedUntold'
    BY <1>1 DEF SeedUntold
  <2>5. CursorBehind'
    <3> SUFFICES ASSUME Tells(told', u) PROVE u < oldest \/ ~connected.now
      BY <1>1 DEF CursorBehind
    <3>1. CASE b = None
      <4>1. Tells(told, u)
        BY <3>1, <2>1, StoreTells
      <4>2. QED
        BY <4>1, <3>1, <2>1, <1>1 DEF Once, StartsBehind, Beyond
    <3>2. CASE b # None
      <4>1. PICK c \in Change : c > u /\ told'[c] > 0
        BY DEF Tells
      <4>2. told[c] > 0 /\ c > b
        BY <4>1, <3>2, <1>1, StoreTells
      <4>3. QED  BY <4>2, <3>2, <2>2 DEF Tells
    <3>3. QED  BY <3>1, <3>2
  \* what is newly announced after p puts the cursor after p
  <2>6. ASSUME NEW p \in Nat, Tells(told', p), ~Tells(told, p) PROVE u > p
    BY <2>6, <1>1, StoreTells DEF Tells
  <2>7. \A x, y \in Worker \ {w} : x = y
    BY DEF TwoRuns
  <2>8. RunsBehind'
    <3> SUFFICES ASSUME NEW x \in Worker, Underway(x)', (runs[x].before)' # None,
                        Tells(told', runs'[x].before)
                 PROVE  (\/ Passed(runs[x].before, x)
                         \/ runs[x].before < oldest /\ ~At(x, "fetched")
                         \/ ~connected.now /\ At(x, "open"))'
      BY DEF RunsBehind
    <3>1. x # w /\ runs'[x] = runs[x] /\ runs[x].before \in Nat
      BY <1>1 DEF Underway
    <3>2. u > runs[x].before => Passed(runs[x].before, x)'
      BY <3>1, <1>1, <2>7 DEF Passed, At
    <3>3. CASE ~Tells(told, runs[x].before)
      BY <3>1, <3>2, <3>3, <2>6
    <3>4. CASE Tells(told, runs[x].before)
      <4>1. \/ Passed(runs[x].before, x)
            \/ runs[x].before < oldest /\ ~At(x, "fetched")
            \/ ~connected.now /\ At(x, "open")
        BY <3>1, <3>4, <2>1 DEF Once, RunsBehind, Underway
      <4>2. Passed(runs[x].before, x) => u > runs[x].before
        BY <3>1, <1>1 DEF Passed
      <4>3. QED  BY <4>1, <4>2, <3>1, <3>2, <1>1 DEF At
    <3>5. QED  BY <3>3, <3>4
  <2>9. StartsBehind'
    <3> SUFFICES ASSUME NEW x \in Worker, At(x, "fetched")', (runs[x].before)' = None,
                        Tells(told', runs'[x].upto)
                 PROVE  (Beyond(runs[x].upto, x) \/ runs[x].upto < oldest
                           \/ ~connected.now)'
      BY DEF StartsBehind
    <3>1. x # w /\ runs'[x] = runs[x] /\ runs[x].upto \in Nat
      BY <1>1 DEF At
    <3>2. u > runs[x].upto => Beyond(runs[x].upto, x)'
      BY <3>1, <1>1, <1>a, <2>7 DEF Beyond, Underway
    <3>3. CASE ~Tells(told, runs[x].upto)
      BY <3>1, <3>2, <3>3, <2>6
    <3>4. CASE Tells(told, runs[x].upto)
      <4>1. Beyond(runs[x].upto, x) \/ runs[x].upto < oldest \/ ~connected.now
        BY <3>1, <3>4, <2>1 DEF Once, StartsBehind, At
      <4>2. Beyond(runs[x].upto, x) => u > runs[x].upto
        <5>1. Beyond(runs[x].upto, x) => b # None /\ b > runs[x].upto
          BY <3>1, <1>1 DEF Beyond
        <5>2. b # None => b \in Nat
          OBVIOUS
        <5>3. QED  BY <5>1, <5>2, <3>1, <1>1
      <4>3. QED  BY <4>1, <4>2, <3>1, <3>2, <1>1
    <3>5. QED  BY <3>3, <3>4
  <2>10. QED  BY <2>3, <2>4, <2>5, <2>8, <2>9 DEF Once
<1>6. QED  BY <1>2, <1>3, <1>4, <1>5 DEF ToldInv

(* Each step keeps the invariant while two runs overlap at most. *)
LEMMA ToldStep ==
  ASSUME TwoRuns PROVE CursorInv /\ ToldInv /\ [Next]_vars => ToldInv'
<1> SUFFICES ASSUME CursorInv, ToldInv, [Next]_vars PROVE ToldInv'
  OBVIOUS
<1>1. CASE Calm
  BY <1>1, CalmKeepsTold
<1>2. CASE Connect
  BY <1>2, ConnectKeepsTold
<1>3. CASE Disconnect
  BY <1>3, DisconnectKeepsTold
<1>4. ASSUME NEW w \in Worker, Begin(w) PROVE ToldInv'
  BY <1>4, BeginKeepsTold
<1>5. ASSUME NEW w \in Worker, Authorise(w) PROVE ToldInv'
  BY <1>5, AuthoriseKeepsTold
<1>6. ASSUME NEW w \in Worker, Fetch(w) PROVE ToldInv'
  BY <1>6, FetchKeepsTold
<1>7. ASSUME NEW w \in Worker, Store(w) PROVE ToldInv'
  BY <1>7, StoreKeepsTold
<1>8. ASSUME NEW w \in Worker, StaleCursor(w) PROVE ToldInv'
  BY <1>8, StaleKeepsTold
<1>9. QED  BY <1>1, <1>2, <1>3, <1>4, <1>5, <1>6, <1>7, <1>8, CalmSteps

(* As long as at most two runs overlap, a mail of the first connection is   *)
(* announced to the agent once, whatever is lost, repeated, stale or taken  *)
(* back: the comparison of the cursor before it is stored is enough then    *)
(* (sync_runtime.py:615).  With three runs it is not: they can go through   *)
(* the same cursor twice.                                                   *)
THEOREM MailIsToldOnce ==
  ASSUME TwoRuns PROVE Spec => []ToldOnce
<1>1. CursorInv /\ ToldInv /\ [Next]_vars => (CursorInv /\ ToldInv)'
  BY CursorStep, ToldStep
<1>2. Init => CursorInv /\ ToldInv
  BY CursorInit, ToldInit
<1>3. ToldInv => ToldOnce
  BY DEF ToldInv, FirstConnection, Once, OnceEach, ToldOnce
<1>4. QED  BY <1>1, <1>2, <1>3, PTL DEF Spec
=============================================================================
