------------------------------ MODULE TurnIngress ------------------------------
(***************************************************************************)
(* How words reach Ariel and how its answer gets back (discord_bot.py, the *)
(* message and capture endpoints of app.py, capture_ingress.py, the two    *)
(* turn arms of worker.py and _wake).                                      *)
(*                                                                         *)
(* The API answers 202, writes an idempotency record and queues a task; it *)
(* runs no turn.  The worker runs one task at a time: it opens a turn,     *)
(* commits after every program, closes the turn, writes the outcome into   *)
(* the idempotency record, tells Discord and deletes the task, in that     *)
(* order and in separate transactions.  A task that is run again finds its *)
(* turn by source_background_task_id.  A capture writes a completed turn   *)
(* of its own from the API process, at any moment.                         *)
(*                                                                         *)
(* What a turn does between its first and its last commit is AgentLoop's;  *)
(* here a loop is the outcome it returns.                                  *)
(***************************************************************************)
EXTENDS Naturals, Sequences, FiniteSets, SequencesExt

CONSTANTS
  Keyed,        \* messages posted with an Idempotency-Key, as the bot does
  Bare,         \* user messages queued without one
  Wake,         \* agent_wake tasks: schedules, provider changes, research
  Utterance,    \* what the bot may see in Discord
  Capture,      \* idempotency keys of captures
  CaptureInput, \* the capture requests clients send
  Trim,         \* what strip() makes of a raw string of a request
  Blank,        \* the empty string,
  TooLong,      \*   those over the limit of their field
  WebUrl,       \*   and the absolute http and https urls
  MaxUrls,      \* _CAPTURE_SHARED_CONTENT_MAX_URLS
  MaxAttempts   \* MAX_TASK_ATTEMPTS

Task == Keyed \cup Bare \cup Wake

(* What the loop may return and what _wake may make of it. *)
LoopOutcome == {"message", "approval", "silent", "budget_exhausted", "model_failed"}
Final == {"answered", "silent", "stale", "failed"}

VARIABLES
  record,    \* TurnIdempotencyRecord by key: the body it was made for, the
             \*   reply it holds
  task,      \* the background task: where it is, attempts it has used
  turn,      \* TurnRecord by source_background_task_id, as committed
  worker,    \* what the worker is doing, and for which task; whether a
             \*   capture came in during its turn
  discord,   \* the answers in the channel, each with its nonce
  captured   \* the capture recorded under a key

ingress == <<record, task, turn, worker, discord, captured>>

Queued(t) == task[t].is = "queued"
NewTask == [is |-> "queued", attempts |-> 0]
Settled(t) == [task EXCEPT ![t].is = "done"]
Idle == [at |-> "idle", task |-> "none", overtaken |-> "no"]
At(step) == worker.at = step
Moves(step) == worker' = [worker EXCEPT !.at = step]

Init ==
  /\ record = [k \in Keyed |-> [body |-> "none", reply |-> "none"]]
  /\ task = [t \in Task |-> IF t \in Keyed THEN [NewTask EXCEPT !.is = "none"] ELSE NewTask]
  /\ turn = [t \in Task |-> "none"]
  /\ worker = Idle
  /\ discord = {}
  /\ captured = [c \in Capture |-> {}]

-----------------------------------------------------------------------------
(* Discord to the API. *)

(* on_message: only the configured user, in a DM or the home server, in a  *)
(* plain message with words or attachments once the mention is removed.    *)
Heard(u) ==
  /\ u.author = "owner"
  /\ u.type = "default"
  /\ u.place \in {"dm", "home"}
  /\ u.words \in {"text", "mention and text"} \/ u.attachments

(* The prompt of an utterance, with the context that is hashed with it.    *)
Prompt(u) ==
  [prompt |-> IF u.words \in {"text", "mention and text"} THEN "text" ELSE "stock question",
   mentioned |-> u.words \in {"mention", "mention and text"},
   attachments |-> u.attachments,
   place |-> u.place]

(* What the bot submits: a message of its own key for each utterance. *)
Submitted == {Prompt(u) : u \in {v \in Utterance : Heard(v)}}

(* Mutant: a repeated key is taken for a new message. *)
NewAlways(k, b) == TRUE
(* No record under this key.  With one, the same body is answered with the *)
(* reply the record holds and another body with 409: nothing changes.      *)
New(k, b) == record[k].reply = "none"

(* post_message with a key: the record and the task, in one transaction    *)
(* under the lock of the key.  The bot sends an utterance once and only    *)
(* logs an API it cannot reach; Discord may show it the message again.     *)
(* The row kept of the Discord message itself is not read by a turn.       *)
Post(k) ==
  \E body \in Submitted :
    /\ New(k, body)
    /\ record' = [record EXCEPT ![k] = [body |-> body, reply |-> "accepted"]]
    /\ task' = [task EXCEPT ![k] = NewTask]
    /\ UNCHANGED <<turn, worker, discord, captured>>

-----------------------------------------------------------------------------
(* Captures.  A normaliser returns what it makes of its input, or nothing  *)
(* when it raises.                                                         *)

Stripped(raw) == {Trim[raw]} \ (Blank \cup TooLong)
Optional(raw) == IF raw = "absent" THEN {"absent"} ELSE Stripped(raw)
Url(raw) == Stripped(raw) \cap WebUrl

(* No source, or one with some fields, all of them valid. *)
Source(source) ==
  IF source = {} THEN {{}}
  ELSE {{[f \in DOMAIN s |-> Trim[s[f]]]} :
          s \in {t \in source : /\ DOMAIN t # {}
                                /\ \A f \in DOMAIN t : Stripped(t[f]) # {}}}

(* Shared links keep their order, are distinct once trimmed, and few. *)
Links(urls) ==
  LET trimmed == [i \in DOMAIN urls |-> Trim[urls[i]]] IN
  {s \in {trimmed} : /\ \A i \in DOMAIN urls : Url(urls[i]) # {}
                     /\ IsInjective(s)
                     /\ Len(s) <= MaxUrls}

Shared(value) ==
  {[text |-> t, urls |-> s] : t \in Optional(value.text), s \in Links(value.urls)}
    \ {[text |-> "absent", urls |-> << >>]}

Value(request) ==
  CASE request.kind = "text" -> Stripped(request.value)
    [] request.kind = "url" -> Url(request.value)
    [] request.kind = "shared_content" -> Shared(request.value)

(* The canonical payload, whose hash tells a replay from a reused key. *)
Envelope(request) ==
  {[kind |-> request.kind, value |-> v, note |-> n, source |-> s] :
     v \in Value(request), n \in Optional(request.note), s \in Source(request.source)}

(* record_capture: a capture and a completed turn, which nobody ran and    *)
(* which is now the newest.  Replays and reused keys change nothing.       *)
RecordCapture(c) ==
  \E request \in CaptureInput :
    /\ Envelope(request) # {}
    /\ captured[c] = {}
    /\ captured' = [captured EXCEPT ![c] = Envelope(request)]
    /\ worker' = IF At("turn") /\ worker.overtaken = "no"
                 THEN [worker EXCEPT !.overtaken = "unseen"] ELSE worker
    /\ UNCHANGED <<record, task, turn, discord>>

-----------------------------------------------------------------------------
(* The worker. *)

(* _wake looks for the turn of the task first. *)
Opens(t) == turn[t] = "none"

(* A new turn: its row, started event, attachment sources and log entry    *)
(* wait for the first commit.                                              *)
Begin(t) ==
  /\ At("idle")
  /\ Queued(t)
  /\ Opens(t)
  /\ worker' = [Idle EXCEPT !.at = "turn", !.task = t]
  /\ UNCHANGED <<record, task, turn, discord, captured>>

(* _existing_background_turn_outcome: what an earlier attempt left stands, *)
(* and a turn it left open is closed as failed.                            *)
Resume(t) ==
  /\ At("idle")
  /\ Queued(t)
  /\ ~Opens(t)
  /\ turn' = [turn EXCEPT ![t] = IF @ = "in_progress" THEN "failed" ELSE @]
  /\ worker' = [Idle EXCEPT !.at = "closed", !.task = t]
  /\ UNCHANGED <<record, task, discord, captured>>

(* A program of the loop commits what the turn has so far.  The next       *)
(* transaction sees the captures that came in before.                      *)
Commit ==
  /\ At("turn")
  /\ turn' = [turn EXCEPT ![worker.task] = "in_progress"]
  /\ worker' = [worker EXCEPT !.overtaken = IF @ = "no" THEN "no" ELSE "seen"]
  /\ UNCHANGED <<record, task, discord, captured>>

(* The end of _wake for a loop outcome.  A failed model is an apology to a *)
(* user and a failed turn for a wake; a spent budget is silence for a wake.*)
Closed(t, outcome) ==
  CASE outcome = "silent" -> "silent"
    [] outcome = "model_failed" /\ t \in Wake -> "failed"
    [] outcome = "budget_exhausted" /\ t \in Wake -> "silent"
    [] OTHER -> "answered"

(* A turn that is not the newest any more has its answer withheld; a       *)
(* failure is not compared.                                                *)
IfNewest(status) ==
  IF status # "failed" /\ worker.overtaken # "no" THEN "stale" ELSE status

(* The answer is withheld only if the last transaction can see the newer   *)
(* turn: a capture may come in after its snapshot.                         *)
Close(outcome) ==
  LET status == Closed(worker.task, outcome) IN
  /\ At("turn")
  /\ \/ turn' = [turn EXCEPT ![worker.task] = IfNewest(status)]
     \/ /\ worker.overtaken = "unseen"
        /\ turn' = [turn EXCEPT ![worker.task] = status]
  /\ worker' = [worker EXCEPT !.at = "closed", !.overtaken = "no"]
  /\ UNCHANGED <<record, task, discord, captured>>

(* Mutant: the record keeps the reply it was given when it was accepted. *)
ReplyAccepted(t) == "accepted"
Reply(t) == turn[t]

(* _record_user_message_idempotency_outcome; other tasks have no record. *)
RecordOutcome ==
  /\ At("closed")
  /\ record' = IF worker.task \in Keyed
               THEN [record EXCEPT ![worker.task].reply = Reply(worker.task)] ELSE record
  /\ Moves("recorded")
  /\ UNCHANGED <<task, turn, discord, captured>>

(* _discord_delivery_nonce: the turn and the channel. *)
Nonce(t) == <<t, 0>>

(* Only an answer that is not silent is posted.  Discord keeps one message *)
(* of each nonce.  An HTTP error is logged, and the answer is lost.        *)
Deliver ==
  /\ At("recorded")
  /\ \/ /\ turn[worker.task] = "answered"
        /\ discord' = discord \cup {[task |-> worker.task, nonce |-> Nonce(worker.task)]}
     \/ UNCHANGED discord
  /\ Moves("delivered")
  /\ UNCHANGED <<record, task, turn, captured>>

(* The handler returned: the task is deleted. *)
Settle ==
  /\ At("delivered")
  /\ task' = Settled(worker.task)
  /\ worker' = Idle
  /\ UNCHANGED <<record, turn, discord, captured>>

(* Anything in the handler raised, before or after a commit.  The fifth    *)
(* time the task is deleted.                                               *)
Fail ==
  /\ worker.at \in {"turn", "closed"}
  /\ task' = [task EXCEPT ![worker.task].attempts = @ + 1,
                          ![worker.task].is = IF task[worker.task].attempts + 1 < MaxAttempts
                                              THEN "queued" ELSE "gone"]
  /\ worker' = Idle
  /\ UNCHANGED <<record, turn, discord, captured>>

(* The worker dies, at any point, and is started again. *)
Crash ==
  /\ ~At("idle")
  /\ worker' = Idle
  /\ UNCHANGED <<record, task, turn, discord, captured>>

Next ==
  \/ \E k \in Keyed : Post(k)
  \/ \E c \in Capture : RecordCapture(c)
  \/ \E t \in Task : Begin(t) \/ Resume(t)
  \/ Commit
  \/ \E outcome \in LoopOutcome : Close(outcome)
  \/ RecordOutcome
  \/ Deliver
  \/ Settle
  \/ Fail
  \/ Crash

Spec == Init /\ [][Next]_ingress

-----------------------------------------------------------------------------
TypeOK ==
  /\ \A k \in Keyed : record[k].reply \in {"none", "accepted"} \cup Final
  /\ \A t \in Task : /\ task[t].is \in {"none", "queued", "done", "gone"}
                     /\ Queued(t) => task[t].attempts < MaxAttempts
                     /\ turn[t] \in {"none", "in_progress"} \cup Final
  /\ worker.at \in {"idle", "turn", "closed", "recorded", "delivered"}
  /\ worker.task \in Task \cup {"none"}

(* A client that asks again hears what became of its message: the record   *)
(* holds the outcome of the turn or none yet, and it holds it when the     *)
(* task is done; a worker that died between the two commits makes up for   *)
(* it.                                                                     *)
RecordAgrees ==
  \A k \in Keyed :
    /\ record[k].reply \in Final => record[k].reply = turn[k]
    /\ task[k].is = "done" => record[k].reply \in Final

(* Discord shows at most one message for a turn, however often its task is *)
(* run again, and only the answer of a turn that is closed and not silent. *)
SpokenOnce ==
  /\ \A m \in discord : turn[m.task] = "answered"
  /\ \A m, n \in discord : m.task = n.task => m = n

(* What a client is told and what is in the channel stays consistent with  *)
(* the turn, through crashes, retries and repeated posts.                  *)
IngressSound == TypeOK /\ RecordAgrees /\ SpokenOnce

(* What was asked under a key and what was answered never change: a        *)
(* repeated post does not replace the body, a second attempt does not      *)
(* rewrite a turn that is closed, and a closed record is not reopened.  A  *)
(* turn answers only if its last commit showed it no newer turn.           *)
AnswersStand ==
  [][/\ \A k \in Keyed : record[k].reply # "none" => record'[k].body = record[k].body
     /\ \A k \in Keyed : record[k].reply \in Final => record'[k].reply = record[k].reply
     /\ \A t \in Task : turn[t] \in Final => turn'[t] = turn[t]
     /\ \A t \in Task : turn'[t] = "answered" =>
          turn[t] = "answered" \/ worker.overtaken # "seen"]_ingress

(* "Because every turn runs in the one worker, turns are serialized by     *)
(* construction": no turn ends to find a newer one.  A capture is a turn   *)
(* that the API process writes, so it does.                                *)
TurnsAreSerialized == \A t \in Task : turn[t] # "stale"

=============================================================================
