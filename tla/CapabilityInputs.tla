--------------------------- MODULE CapabilityInputs ---------------------------
(***************************************************************************)
(* The input of a capability on its way from the agent's program to the    *)
(* provider (capability_registry.py, executor.py, the sealing of private   *)
(* fields in action_runtime.py).  A proposal is normalised by the          *)
(* validator of its capability; what comes out is stored as JSON, hashed,  *)
(* shown to the owner and, perhaps much later and in another process,      *)
(* normalised AGAIN when the answer arrives and once more when the worker  *)
(* runs it.  The validators therefore have to be idempotent, and an input  *)
(* that was fit to be asked about has to be fit to be run.                 *)
(*                                                                         *)
(* A value is a record with a tag.  A text keeps what validators look at:  *)
(* the word, surrounding space (pad), another spelling of the same word    *)
(* (alt: capitals, a time zone, a URL's fragment) and its size against the *)
(* limit of the field it stands in.  A normaliser returns the set of the   *)
(* normalised value, empty when it refuses; error codes are left out.      *)
(***************************************************************************)
EXTENDS Naturals, Sequences, SequencesExt

CONSTANTS
  Raw(_),           \* inputs a program may pass to a capability
  Times,            \* words that read as a time, in order
  Mails,            \* words that read as an address
  Urls,             \* words that read as a public http address
  Slashed,          \* words with a slash
  Polls,            \* words that ask for the status of a research run
  Unsafe,           \* words with a pattern the guardrail stops
  MaxItems,         \* limit on the length of a list
  SearchEndpoint,   \* settings: [written |-> "blank", "url", "host" or "host:port", host |-> ...]
  WeatherEndpoint

VARIABLES action, keys

inputs == <<action, keys>>

-----------------------------------------------------------------------------
(* Values. *)

Null == [is |-> "null"]
Text(w) == [is |-> "text", word |-> w, pad |-> FALSE, alt |-> FALSE, size |-> "fits"]
EmptyText == Text("")
Reader == Text("reader")
List(s) == [is |-> "list", items |-> s]

Sole(S) == CHOOSE x \in S : TRUE

Get(r, f) == IF f \in DOMAIN r THEN r[f] ELSE Null
GetOr(r, f, default) == IF f \in DOMAIN r THEN r[f] ELSE default
Shaped(r, required, optional) == required \subseteq DOMAIN r /\ DOMAIN r \subseteq required \cup optional

IsText(v) == v.is = "text"
(* str.strip *)
Strip(v) == [v EXCEPT !.pad = FALSE]
(* A field of an input, or none of it. *)
Field(f, v) == [x \in {f} |-> v]
NoField == [x \in {} |-> Null]
(* The fields of some inputs that have none in common. *)
Together(S) == [f \in UNION {DOMAIN x : x \in S} |-> (CHOOSE x \in S : f \in DOMAIN x)[f]]

Trimmed(v) == IF IsText(v) /\ v.word # "" /\ v.size # "long" THEN {Strip(v)} ELSE {}
TrimmedOrNull(v) == IF Trimmed(v) = {} THEN {Null} ELSE Trimmed(v)
Optional(v) == IF v = Null THEN {Null} ELSE Trimmed(v)
BlankIsNull(v) == IF v = Null \/ (IsText(v) /\ v.word = "") THEN {Null} ELSE Trimmed(v)
Lowered(v) == {[w EXCEPT !.alt = FALSE] : w \in Trimmed(v)}
OneOf(v, words) == IF IsText(v) /\ v.word \in words THEN {Text(v.word)} ELSE {}
(* One of some words, or the usual one if it is blank. *)
OneOfOr(v, words, usual) == IF IsText(v) /\ v.word = "" THEN {Text(usual)} ELSE OneOf(v, words)
Exactly(v, words) == {w \in {v} : w \in {Text(x) : x \in words}}
Within(v, low, high) == {w \in {v} : w.is = "int" /\ w.n >= low /\ w.n <= high}
Flag(v) == {w \in {v} : w.is = "bool"}

(* The items of a list, each normalised, if none is refused. *)
Each(v, One(_)) ==
  IF v.is = "list" /\ \A i \in DOMAIN v.items : One(v.items[i]) # {}
    THEN {List([i \in DOMAIN v.items |-> CHOOSE w \in One(v.items[i]) : TRUE])}
    ELSE {}
Few(v) == v.is = "list" /\ Len(v.items) <= MaxItems
Distinct(v) ==
  List(FoldLeft(LAMBDA s, x : IF Contains(s, x) THEN s ELSE Append(s, x), << >>, v.items))

ExactText(r, f) == IF DOMAIN r = {f} THEN {Field(f, w) : w \in Trimmed(r[f])} ELSE {}

FewTexts(v) == IF Few(v) THEN Each(v, Trimmed) ELSE {}
StringList(v) == IF v = Null THEN {List(<< >>)} ELSE FewTexts(v)

EnvPair(p) ==
  IF p.is = "pair"
    THEN {[is |-> "pair", name |-> n, value |-> w] : n \in Trimmed(p.name), w \in Trimmed(p.value)}
    ELSE {}
Env(v) == IF v = Null THEN {List(<< >>)} ELSE IF Few(v) THEN Each(v, EnvPair) ELSE {}

(* A time in UTC, however it was written. *)
Time(v) == IF IsText(v) /\ Contains(Times, v.word) THEN {Text(v.word)} ELSE {}
Earlier(s, e) == \E i, j \in DOMAIN Times : i < j /\ Times[i] = s.word /\ Times[j] = e.word
Window(from, to) == {w \in Time(from) \X Time(to) : Earlier(w[1], w[2])}

Recipient(v) == {w \in Lowered(v) : w.word \in Mails}
Recipients(v) ==
  IF v = Null THEN {List(<< >>)} ELSE {Distinct(l) : l \in Each(v, Recipient)}

-----------------------------------------------------------------------------
(* The validators of reads. *)

AttachmentRead(r) ==
  IF DOMAIN r = {"attachment_ref", "intent"}
    THEN {[attachment_ref |-> a, intent |-> i] :
            a \in {w \in Trimmed(r.attachment_ref) : w.word \notin Slashed},
            i \in OneOf(r.intent, {"summarize", "ocr", "transcribe", "extract_text", "answer"})}
    ELSE {}

WebExtract(r) ==
  {[url |-> [u.url EXCEPT !.alt = FALSE]] : u \in {x \in ExactText(r, "url") : x.url.word \in Urls}}

(* The one calendar id that is taken as it is written. *)
CalendarIdVerbatim(v) ==
  IsText(v) /\ (v.word # "" \/ v.pad) /\ (v.size = "fits" \/ (v.size = "full" /\ ~v.pad))
CalendarIdAsIs(r) ==
  IF "calendar_id" \in DOMAIN r THEN Field("calendar_id", r.calendar_id) ELSE NoField
CalendarList(r) ==
  IF /\ Shaped(r, {"window_start", "window_end"}, {"calendar_id"})
     /\ "calendar_id" \in DOMAIN r => CalendarIdVerbatim(r.calendar_id)
    THEN {Together({[window_start |-> w[1], window_end |-> w[2]], CalendarIdAsIs(r)}) :
            w \in Window(r.window_start, r.window_end)}
    ELSE {}

ListCalendars(r) == {NoField : x \in {y \in {r} : DOMAIN y = {}}}

ProposedWindow(v) ==
  IF v.is = "window"
    THEN {[is |-> "window", start |-> w[1], end |-> w[2]] : w \in Window(v.start, v.end)}
    ELSE {}
FewWindows(v) == IF Few(v) THEN Each(v, ProposedWindow) ELSE {}
Confidence(v) == IF v = Null THEN {Null} ELSE Within(v, 0, 1)
TimezoneEvidence(v) ==
  IF v.is = "timezone"
    THEN {[is |-> "timezone", source |-> s, rationale |-> t, confidence |-> c] :
            s \in Optional(v.source), t \in Optional(v.rationale), c \in Confidence(v.confidence)}
    ELSE {}
Constraints(v) ==
  IF v.is = "constraints"
    THEN {[is |-> "constraints", hard |-> h, soft |-> s, attendee_notes |-> n] :
            h \in StringList(v.hard), s \in StringList(v.soft), n \in StringList(v.attendee_notes)}
    ELSE {}
ProposeSlots(r) ==
  IF DOMAIN r = {"window_start", "window_end", "duration_minutes", "attendees", "timezone",
                 "source_evidence_ids", "quoted_content_caveat", "participants",
                 "proposed_windows", "timezone_evidence", "constraints"}
    THEN {[window_start |-> w[1], window_end |-> w[2], duration_minutes |-> d, attendees |-> a,
           timezone |-> z, source_evidence_ids |-> e, quoted_content_caveat |-> q,
           participants |-> p, proposed_windows |-> s, timezone_evidence |-> t, constraints |-> c] :
            w \in Window(r.window_start, r.window_end),
            d \in Within(r.duration_minutes, 5, 480),
            a \in Each(r.attendees, Lowered),
            z \in Trimmed(r.timezone),
            e \in FewTexts(r.source_evidence_ids),
            q \in Flag(r.quoted_content_caveat),
            p \in FewTexts(r.participants),
            s \in FewWindows(r.proposed_windows),
            t \in TimezoneEvidence(r.timezone_evidence),
            c \in Constraints(r.constraints)}
    ELSE {}

EmailRead(r) ==
  IF Shaped(r, {}, {"message_id", "thread_id", "mode"})
    THEN {x \in {[message_id |-> i, thread_id |-> t, mode |-> m] :
                   i \in Optional(Get(r, "message_id")), t \in Optional(Get(r, "thread_id")),
                   m \in IF Get(r, "mode") = Null
                           THEN {Text(IF Get(r, "message_id") # Null THEN "message" ELSE "thread")}
                           ELSE OneOf(r.mode, {"message", "thread", "thread_context"})} :
            (x.message_id # Null \/ x.thread_id # Null) /\ (x.mode.word = "message" => x.message_id # Null)}
    ELSE {}

EvidenceRead(r) ==
  IF Shaped(r, {}, {"provider_evidence_id", "block_ids", "max_blocks"})
    THEN {[provider_evidence_id |-> e, block_ids |-> b, max_blocks |-> n] :
            e \in Trimmed(Get(r, "provider_evidence_id")), b \in StringList(Get(r, "block_ids")),
            n \in Within(GetOr(r, "max_blocks", [is |-> "int", n |-> 12]), 1, 12)}
    ELSE {}

(* The waypoints come out as a tuple, which only JSON turns into a list. *)
MapsDirections(r) ==
  IF Shaped(r, {}, {"origin", "destination", "travel_mode", "waypoints", "optimize_order"})
    THEN {[origin |-> o, destination |-> d, travel_mode |-> m,
           waypoints |-> [w EXCEPT !.is = "tuple"], optimize_order |-> b] :
            o \in BlankIsNull(Get(r, "origin")), d \in BlankIsNull(Get(r, "destination")),
            m \in OneOfOr(GetOr(r, "travel_mode", EmptyText),
                           {"driving", "walking", "bicycling", "transit"}, "driving"),
            w \in FewTexts(GetOr(r, "waypoints", List(<< >>))),
            b \in Flag(GetOr(r, "optimize_order", [is |-> "bool", b |-> FALSE]))}
    ELSE {}

MapsSearchPlaces(r) ==
  IF Shaped(r, {}, {"query", "location_context", "radius_meters"})
    THEN {[query |-> q, location_context |-> l, radius_meters |-> m] :
            q \in Trimmed(Get(r, "query")), l \in BlankIsNull(Get(r, "location_context")),
            m \in Within(GetOr(r, "radius_meters", [is |-> "int", n |-> 2000]), 100, 50000)}
    ELSE {}

WeatherForecast(r) ==
  IF Shaped(r, {}, {"location", "timeframe"})
    THEN {[location |-> l, timeframe |-> t] :
            l \in Trimmed(Get(r, "location")),
            t \in OneOfOr(GetOr(r, "timeframe", EmptyText), {"now", "today", "tomorrow", "next_24h"}, "today")}
    ELSE {}

Since(v) == IF v = Null THEN {Null} ELSE Time(v)
Kinds(v) ==
  CASE v = Null -> {Null}
    [] v = List(<< >>) -> {}
    [] OTHER -> Each(v, LAMBDA x : Exactly(x, {"user_message", "recall"}))
MemorySearch(r) ==
  IF Shaped(r, {}, {"query", "limit", "since", "kinds"})
    THEN {[query |-> q, limit |-> n, since |-> s, kinds |-> k] :
            q \in Trimmed(Get(r, "query")),
            n \in Within(GetOr(r, "limit", [is |-> "int", n |-> 24]), 1, 100),
            s \in Since(Get(r, "since")), k \in Kinds(Get(r, "kinds"))}
    ELSE {}

Investigate(r) ==
  IF DOMAIN r = {"question", "mode"}
    THEN {[question |-> q, mode |-> m] :
            q \in {w \in Trimmed(r.question) : w.word \notin Polls},
            m \in Exactly(r.mode, {"web", "personal", "memories"})}
    ELSE {}

JobLookup(r) ==
  IF Shaped(r, {}, {"job_id", "repo_id", "task_id"})
    THEN {x \in {[job_id |-> j, repo_id |-> p, task_id |-> t] :
                   j \in TrimmedOrNull(Get(r, "job_id")), p \in TrimmedOrNull(Get(r, "repo_id")),
                   t \in TrimmedOrNull(Get(r, "task_id"))} :
            x.job_id # Null \/ (x.repo_id # Null /\ x.task_id # Null)}
    ELSE {}

-----------------------------------------------------------------------------
(* The validators of writes. *)

AuthorityFields == {"idempotency_key", "source_evidence_id", "user_instruction_ref"}
(* A key, and either the evidence or the instruction the write rests on.     *)
Rests(r) == {f \in {"source_evidence_id", "user_instruction_ref"} : Get(r, f) # Null}
KeyAnd(k, f, w) == Together({Field("idempotency_key", k), Field(f, w)})
AuthorityFrom(r, f) ==
  {KeyAnd(k, f, w) : k \in Trimmed(Get(r, "idempotency_key")), w \in Trimmed(r[f])}
Authority(r) == IF \E f \in Rests(r) : Rests(r) = {f} THEN AuthorityFrom(r, Sole(Rests(r))) ELSE {}

(* A calendar id may be left out; written, it must not be blank. *)
CalendarId(v) ==
  IF v = Null THEN {NoField}
  ELSE IF IsText(v) /\ v.word # "" THEN {Field("calendar_id", Strip(v))} ELSE {}

EventId(v) == IF IsText(v) /\ v.word # "" THEN {Strip(v)} ELSE {}

DriveShare(r) ==
  IF Shaped(r, {}, {"file_id", "grantee_email", "role"} \cup AuthorityFields)
    THEN {Together({[file_id |-> f, grantee_email |-> g, role |-> o], a}) :
            a \in Authority(r), f \in Trimmed(Get(r, "file_id")),
            g \in Recipient(Get(r, "grantee_email")),
            o \in OneOf(GetOr(r, "role", Reader), {"reader", "commenter", "writer"})}
    ELSE {}

CreateEvent(r) ==
  IF Shaped(r, {}, {"calendar_id", "title", "start_time", "end_time", "description", "location",
                    "attendees"} \cup AuthorityFields)
    THEN {Together({[title |-> t, start_time |-> w[1], end_time |-> w[2], description |-> d,
                     location |-> l, attendees |-> e], a, c}) :
            a \in Authority(r), t \in Trimmed(Get(r, "title")),
            w \in Window(Get(r, "start_time"), Get(r, "end_time")),
            d \in BlankIsNull(Get(r, "description")), l \in BlankIsNull(Get(r, "location")),
            e \in Recipients(Get(r, "attendees")), c \in CalendarId(Get(r, "calendar_id"))}
    ELSE {}

(* Mutant: a blank text is turned into no text, as CreateEvent does. *)
BlankLeavesAsItIs(f, v) ==
  IF v = Null THEN {NoField} ELSE {Field(f, w) : w \in BlankIsNull(v)}
(* A change of a text: none, or the new one, which may be blank to clear    *)
(* it.  Its length is measured before it is stripped.                       *)
TextChange(f, v) ==
  IF v = Null THEN {NoField}
  ELSE IF IsText(v) /\ (v.size = "fits" \/ (v.size = "full" /\ ~v.pad)) THEN {Field(f, Strip(v))}
  ELSE {}
TimeChange(start, end) ==
  IF start = Null /\ end = Null THEN {NoField}
  ELSE {[start_time |-> w[1], end_time |-> w[2]] : w \in Window(start, end)}
TitleChange(v) == IF v = Null THEN {NoField} ELSE {Field("title", w) : w \in Trimmed(v)}
AttendeesChange(v) == IF v = Null THEN {NoField} ELSE {Field("attendees", w) : w \in Recipients(v)}
UpdateEvent(r) ==
  LET which == {"event_id", "calendar_id"} \cup AuthorityFields
  IN  IF Shaped(r, {}, which \cup {"title", "start_time", "end_time", "description", "location", "attendees"})
        THEN {x \in {Together({i, a, c, t, w, d, l, e}) :
                       i \in {Field("event_id", v) : v \in EventId(Get(r, "event_id"))},
                       a \in Authority(r), c \in CalendarId(Get(r, "calendar_id")),
                       t \in TitleChange(Get(r, "title")),
                       w \in TimeChange(Get(r, "start_time"), Get(r, "end_time")),
                       d \in TextChange("description", Get(r, "description")),
                       l \in TextChange("location", Get(r, "location")),
                       e \in AttendeesChange(Get(r, "attendees"))} :
                ~(DOMAIN x \subseteq which)}
        ELSE {}

RespondToEvent(r) ==
  IF Shaped(r, {}, {"calendar_id", "event_id", "attendee_email", "response_status"} \cup AuthorityFields)
    THEN {Together({[event_id |-> i, attendee_email |-> m, response_status |-> s], a, c}) :
            a \in Authority(r),
            i \in EventId(Get(r, "event_id")),
            m \in Recipient(Get(r, "attendee_email")),
            s \in Exactly(Get(r, "response_status"), {"accepted", "declined", "tentative", "needsAction"}),
            c \in CalendarId(Get(r, "calendar_id"))}
    ELSE {}

EmailComposition(r) ==
  IF Shaped(r, {"to", "subject", "body"}, {"cc", "bcc"} \cup AuthorityFields)
    THEN {x \in {Together({[to |-> t, cc |-> c, bcc |-> b, subject |-> s, body |-> w], a}) :
                   a \in Authority(r), t \in Recipients(r.to),
                   c \in Recipients(Get(r, "cc")), b \in Recipients(Get(r, "bcc")),
                   s \in Trimmed(r.subject), w \in Trimmed(r.body)} :
            x.to.items \o x.cc.items \o x.bcc.items # << >>}
    ELSE {}

LabelNames(v) == {Distinct(l) : l \in FewTexts(v)}
MessageIds(v) == {l \in LabelNames(v) : l.items # << >>}

BatchMutation(r) ==
  IF Shaped(r, {}, {"message_ids"} \cup AuthorityFields)
    THEN {Together({[message_ids |-> m], a}) : a \in Authority(r), m \in MessageIds(Get(r, "message_ids"))}
    ELSE {}

LabelsModify(r) ==
  IF Shaped(r, {}, {"message_ids", "add_labels", "remove_labels"} \cup AuthorityFields)
    THEN {x \in {Together({[message_ids |-> m, add_labels |-> d, remove_labels |-> e], a}) :
                   a \in Authority(r), m \in MessageIds(Get(r, "message_ids")),
                   d \in LabelNames(Get(r, "add_labels")), e \in LabelNames(Get(r, "remove_labels"))} :
            /\ x.add_labels.items \o x.remove_labels.items # << >>
            /\ ToSet(x.add_labels.items) \cap ToSet(x.remove_labels.items) = {}}
    ELSE {}

EmailUndo(r) ==
  IF Shaped(r, {}, {"undo_token"} \cup AuthorityFields)
    THEN {Together({[undo_token |-> t], a}) : a \in Authority(r), t \in Trimmed(Get(r, "undo_token"))}
    ELSE {}

NoteEdit(r) ==
  IF DOMAIN r = {"id", "content"}
    THEN {[id |-> i, content |-> c] : i \in Trimmed(r.id), c \in Trimmed(r.content)}
    ELSE {}

Schedule(r) ==
  IF DOMAIN r = {"when", "note"}
    THEN {[when |-> t, note |-> n] : t \in Time(r.when), n \in Trimmed(r.note)}
    ELSE {}

FlagOrNot(v) == IF v = Null THEN {[is |-> "bool", b |-> FALSE]} ELSE Flag(v)
(* A branch or a runner that does not fit is dropped, not refused. *)
AgencyRun(r) ==
  IF Shaped(r, {}, {"repo_root", "name", "prompt", "base_branch", "runner", "runner_args", "env",
                    "no_include_untracked"})
    THEN {[repo_root |-> p, name |-> n, prompt |-> t, base_branch |-> b, runner |-> u,
           runner_args |-> a, env |-> e, no_include_untracked |-> x] :
            p \in Trimmed(Get(r, "repo_root")), n \in Trimmed(Get(r, "name")),
            t \in Trimmed(Get(r, "prompt")), b \in TrimmedOrNull(Get(r, "base_branch")),
            u \in TrimmedOrNull(Get(r, "runner")), a \in StringList(Get(r, "runner_args")),
            e \in Env(Get(r, "env")),
            x \in FlagOrNot(Get(r, "no_include_untracked"))}
    ELSE {}

RequestPr(r) ==
  IF Shaped(r, {}, {"job_id", "repo_id", "task_id", "invocation_id", "worktree_id"})
    THEN {Together({j, [invocation_id |-> i, worktree_id |-> w]}) :
            j \in JobLookup([f \in {"job_id", "repo_id", "task_id"} |-> Get(r, f)]),
            i \in TrimmedOrNull(Get(r, "invocation_id")), w \in TrimmedOrNull(Get(r, "worktree_id"))}
    ELSE {}

-----------------------------------------------------------------------------
(* The catalog: impact, policy, hosts a capability may talk to. *)

Entry(impact, decision, hosts) == [impact |-> impact, decision |-> decision, hosts |-> hosts]
Listed(S, entry) == [c \in S |-> entry]

Google == {"www.googleapis.com", "gmail.googleapis.com", "oauth2.googleapis.com"}
Gmail == {"gmail.googleapis.com"}

GoogleReads == Together({
  Listed({"calendar.list", "calendar.list_calendars", "calendar.propose_slots",
          "drive.search", "drive.read"}, Entry("read", "allow_inline", Google)),
  Listed({"email.search", "email.read"}, Entry("read", "allow_inline", Gmail)),
  Listed({"provider_evidence.read"}, Entry("read", "allow_inline", {}))})
MapsReads == Together({
  Listed({"maps.directions"}, Entry("read", "allow_inline", {"routes.googleapis.com"})),
  Listed({"maps.search_places"},
         Entry("read", "allow_inline", {"maps.googleapis.com", "places.googleapis.com"}))})
CalendarWrites == Together({
  Listed({"calendar.create_event", "calendar.update_event"},
         Entry("write_reversible", "requires_approval", Google)),
  Listed({"calendar.respond_to_event"}, Entry("external_send", "requires_approval", Google))})
EmailWrites == Together({
  Listed({"email.draft", "email.archive", "email.trash", "email.labels.modify", "email.undo"},
         Entry("write_reversible", "requires_approval", Gmail)),
  Listed({"email.send"}, Entry("external_send", "requires_approval", Gmail))})
OtherReads == Together({
  Listed({"drive.share"}, Entry("external_send", "requires_approval", Google)),
  Listed({"web.extract"}, Entry("read", "allow_inline", {"r.jina.ai"})),
  Listed({"search.web"}, Entry("read", "allow_inline", {"api.search.brave.com"})),
  Listed({"weather.forecast"}, Entry("read", "allow_inline", {"api.tomorrow.io"})),
  Listed({"attachment.read"}, Entry("read", "allow_inline", {}))})
AgencyEntries == Together({
  Listed({"agency.run"}, Entry("write_reversible", "requires_approval", {"agency.daemon.local"})),
  Listed({"agency.request_pr"}, Entry("external_send", "requires_approval", {"agency.daemon.local"})),
  Listed({"agency.status", "agency.artifacts"}, Entry("read", "allow_inline", {}))})
OwnEntries == Together({
  Listed({"memory.recall", "memory.search", "memory.read", "research.investigate"},
         Entry("read", "allow_inline", {})),
  Listed({"memory.remember", "memory.note.create", "memory.note.edit", "memory.note.delete",
          "proactive.schedule"}, Entry("write_reversible", "allow_inline", {}))})

Catalog == Together({GoogleReads, MapsReads, CalendarWrites, EmailWrites, OtherReads, AgencyEntries,
                     OwnEntries})
Capability == DOMAIN Catalog

(* CapabilityDefinition.validate_input *)
Normal(c, r) ==
  CASE c \in {"email.search", "drive.search", "search.web", "memory.recall"} -> ExactText(r, "query")
    [] c = "drive.read" -> ExactText(r, "file_id")
    [] c \in {"memory.read", "memory.note.delete"} -> ExactText(r, "id")
    [] c = "memory.remember" -> ExactText(r, "note")
    [] c = "memory.note.create" -> ExactText(r, "content")
    [] c = "attachment.read" -> AttachmentRead(r)
    [] c = "web.extract" -> WebExtract(r)
    [] c = "calendar.list" -> CalendarList(r)
    [] c = "calendar.list_calendars" -> ListCalendars(r)
    [] c = "calendar.propose_slots" -> ProposeSlots(r)
    [] c = "email.read" -> EmailRead(r)
    [] c = "provider_evidence.read" -> EvidenceRead(r)
    [] c = "maps.directions" -> MapsDirections(r)
    [] c = "maps.search_places" -> MapsSearchPlaces(r)
    [] c = "weather.forecast" -> WeatherForecast(r)
    [] c = "memory.search" -> MemorySearch(r)
    [] c = "research.investigate" -> Investigate(r)
    [] c \in {"agency.status", "agency.artifacts"} -> JobLookup(r)
    [] c = "drive.share" -> DriveShare(r)
    [] c = "calendar.create_event" -> CreateEvent(r)
    [] c = "calendar.update_event" -> UpdateEvent(r)
    [] c = "calendar.respond_to_event" -> RespondToEvent(r)
    [] c \in {"email.draft", "email.send"} -> EmailComposition(r)
    [] c \in {"email.archive", "email.trash"} -> BatchMutation(r)
    [] c = "email.labels.modify" -> LabelsModify(r)
    [] c = "email.undo" -> EmailUndo(r)
    [] c = "memory.note.edit" -> NoteEdit(r)
    [] c = "proactive.schedule" -> Schedule(r)
    [] c = "agency.run" -> AgencyRun(r)
    [] c = "agency.request_pr" -> RequestPr(r)

-----------------------------------------------------------------------------
(* Egress: destinations are declared from the input before anything is sent. *)

Url(host) == [written |-> "url", host |-> host]

(* An endpoint of the settings: the default when blank, https when bare.    *)
(* A host with a port reads as a URL whose scheme is the host.              *)
Configured(endpoint, default) ==
  CASE endpoint.written = "blank" -> Url(default)
    [] endpoint.written = "host" -> Url(endpoint.host)
    [] OTHER -> endpoint
SearchAt == Configured(SearchEndpoint, "api.search.brave.com")
WeatherAt == Configured(WeatherEndpoint, "api.tomorrow.io")

(* get_capability: two capabilities may talk to the host of the settings.   *)
Hosts(c) ==
  CASE c = "search.web" -> {SearchAt.host}
    [] c = "weather.forecast" -> {WeatherAt.host}
    [] OTHER -> Catalog[c].hosts

MapsDestinations(c) ==
  IF c = "maps.directions" THEN <<Url("routes.googleapis.com")>>
  ELSE <<Url("maps.googleapis.com"), Url("places.googleapis.com")>>
CalendarDestinations(c, n) ==
  IF c = "calendar.propose_slots" /\ n.attendees.items # << >>
    THEN <<Url("www.googleapis.com"), Url("www.googleapis.com")>>
    ELSE <<Url("www.googleapis.com")>>
EventDestinations == <<Url("www.googleapis.com")>>
MailDestinations == <<Url("gmail.googleapis.com")>>
MailboxDestinations(c, n) ==
  IF c = "email.trash" THEN [i \in DOMAIN n.message_ids.items |-> Url("gmail.googleapis.com")]
  ELSE <<Url("gmail.googleapis.com")>>
DriveDestinations == <<Url("www.googleapis.com")>>
(* A name of no network: the daemon listens on a socket of this machine.    *)
AgencyDestinations == <<[written |-> "host", host |-> "agency.daemon.local"]>>

Drive == {"drive.search", "drive.read", "drive.share"}
CalendarReads == {"calendar.list", "calendar.list_calendars", "calendar.propose_slots"}
MailReads == {"email.search", "email.read"}

(* declare_egress_intent: none, or the destinations of this input. *)
Declares(c) ==
  c \in Drive \cup CalendarReads \cup DOMAIN CalendarWrites \cup MailReads \cup DOMAIN EmailWrites
        \cup DOMAIN MapsReads
        \cup {"web.extract", "search.web", "weather.forecast", "agency.run", "agency.request_pr"}
Declared(c, n) ==
  CASE c \in DOMAIN MapsReads -> MapsDestinations(c)
    [] c \in CalendarReads -> CalendarDestinations(c, n)
    [] c \in DOMAIN CalendarWrites -> EventDestinations
    [] c \in MailReads -> MailDestinations
    [] c \in DOMAIN EmailWrites -> MailboxDestinations(c, n)
    [] c \in Drive -> DriveDestinations
    [] c = "web.extract" -> <<Url("r.jina.ai")>>
    [] c = "search.web" -> <<SearchAt>>
    [] c = "weather.forecast" -> <<WeatherAt>>
    [] OTHER -> AgencyDestinations

(* _normalize_destination: the host of a destination, if it has one. *)
Destination(d) == IF d.written = "host:port" THEN {} ELSE {d.host}

EgressPolicy(c, destinations) ==
  IF \E i \in DOMAIN destinations : Destination(destinations[i]) = {}
    THEN "egress_destination_invalid"
  ELSE IF \E i \in DOMAIN destinations : ~(Destination(destinations[i]) \subseteq Hosts(c))
    THEN "egress_destination_denied"
  ELSE ""

Egress(c, n) ==
  IF Catalog[c].impact # "external_send" /\ ~Declares(c) /\ Hosts(c) = {} THEN ""
  ELSE IF ~Declares(c) THEN "egress_preflight_missing_intent"
  ELSE IF Declared(c, n) = << >> THEN "egress_preflight_undeclared_intent"
  ELSE EgressPolicy(c, Declared(c, n))

(* The texts the guardrail reads: of lists and of objects, not of tuples.   *)
WordsIn(v) ==
  CASE v.is = "text" -> {v.word}
    [] v.is = "list" -> UNION {CASE x.is = "text" -> {x.word}
                                 [] x.is = "pair" -> {x.name.word, x.value.word}
                                 [] OTHER -> {} : x \in ToSet(v.items)}
    [] OTHER -> {}
Guarded(c, n) ==
  Catalog[c].impact # "read" /\ \E f \in DOMAIN n : WordsIn(n[f]) \cap Unsafe # {}

Preflight(c, n) == IF Guarded(c, n) THEN "guardrail_pre_input_blocked" ELSE Egress(c, n)

-----------------------------------------------------------------------------
(* Storage: JSON, with the private fields sealed. *)

Private(c) ==
  CASE c \in {"email.draft", "email.send"} -> {"body"}
    [] c \in {"calendar.create_event", "calendar.update_event"} -> {"description"}
    [] OTHER -> {}

(* jsonable_encoder and the JSONB column. *)
Json(v) == IF v.is = "tuple" THEN List(v.items) ELSE v
InJson(n) == [f \in DOMAIN n |-> Json(n[f])]

Seals(c, n) == {f \in Private(c) \cap DOMAIN n : IsText(n[f])}
Stored(c, n) == [f \in DOMAIN n |-> IF f \in Seals(c, n) THEN [is |-> "sealed"] ELSE Json(n[f])]

(* The whole input again: the sealed copy when a field is sealed. *)
Full(a) ==
  IF \E f \in DOMAIN a.stored : a.stored[f].is = "sealed" THEN InJson(a.input) ELSE a.stored
Unreadable(a) == ~keys /\ \E f \in DOMAIN a.stored : a.stored[f].is = "sealed"

-----------------------------------------------------------------------------
(* A proposal on its way. *)

Idle == [status |-> "none", cap |-> "none", input |-> NoField, stored |-> NoField,
         asked |-> FALSE, error |-> "", ran |-> {}]

Init ==
  /\ action = Idle
  /\ keys = TRUE

(* evaluate_proposal, for an input that is normal and a turn with no open   *)
(* question.                                                                *)
Decision(c, tainted) ==
  IF Catalog[c].impact = "read" \/ ~tainted THEN Catalog[c].decision
  ELSE IF Catalog[c].impact = "external_send" THEN "deny" ELSE "requires_approval"

Accepted(c, n) == [Idle EXCEPT !.cap = c, !.input = n, !.stored = Stored(c, n)]
Failed(a, error) == [a EXCEPT !.status = "failed", !.error = error]

Propose(c, r, tainted) ==
  /\ action.status = "none"
  /\ action' =
       LET norm == Normal(c, r)
           n == Sole(norm)
           decision == Decision(c, tainted)
       IN  IF norm = {} \/ decision = "deny"
             THEN [Idle EXCEPT !.status = "rejected"]
           ELSE IF Preflight(c, n) # "" THEN Failed(Accepted(c, n), Preflight(c, n))
           ELSE IF decision = "allow_inline"
             THEN [Accepted(c, n) EXCEPT !.status = "running", !.ran = {n}]
           ELSE [Accepted(c, n) EXCEPT !.status = "pending", !.asked = TRUE]
  /\ UNCHANGED keys

(* What the second and the third look at the input find. *)
Recheck(a) ==
  IF Unreadable(a) THEN "private_action_payload_unreadable"
  ELSE IF Normal(a.cap, Full(a)) = {} THEN "schema_invalid"
  ELSE Preflight(a.cap, Sole(Normal(a.cap, Full(a))))

(* The owner approves: the input is looked at, and the execution queued. *)
Approve ==
  /\ action.status = "pending"
  /\ action' = IF Recheck(action) = "" THEN [action EXCEPT !.status = "approved"]
               ELSE Failed(action, Recheck(action))
  /\ UNCHANGED keys

(* The worker looks again and runs it. *)
Dispatch ==
  /\ action.status = "approved"
  /\ action' = IF Recheck(action) = ""
                 THEN [action EXCEPT !.status = "running", !.ran = Normal(action.cap, Full(action))]
                 ELSE Failed(action, Recheck(action))
  /\ UNCHANGED keys

(* The provider answers; an output with a script in it is a failure. *)
Finish(answer) ==
  /\ action.status = "running"
  /\ action' = IF answer = "clean" THEN [action EXCEPT !.status = "succeeded"]
               ELSE Failed(action, answer)
  /\ UNCHANGED keys

(* The key a sealed input was written with leaves the key ring. *)
RotateKeys ==
  /\ keys
  /\ keys' = FALSE
  /\ UNCHANGED action

Next ==
  \/ /\ action.status = "none"
     /\ \E c \in Capability, tainted \in BOOLEAN : \E r \in Raw(c) : Propose(c, r, tainted)
  \/ Approve
  \/ Dispatch
  \/ \E answer \in {"clean", "provider_error", "guardrail_post_output_blocked"} : Finish(answer)
  \/ RotateKeys

-----------------------------------------------------------------------------
(* What runs is what was proposed and hashed, whether it ran at once or      *)
(* after an approval in another process; and what the owner was asked about  *)
(* is never refused afterwards for its input or its destinations: only a     *)
(* lost key or the provider stops it (action_runtime.py:4540, 4965).         *)
ApprovedInputsStand ==
  /\ \A n \in action.ran : InJson(n) = InJson(action.input)
  /\ action.asked /\ action.error # "" =>
       \/ action.error = "private_action_payload_unreadable" /\ ~keys /\ Seals(action.cap, action.input) # {}
       \/ action.ran # {}
=============================================================================
