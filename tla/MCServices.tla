----------------------------- MODULE MCServices -----------------------------
(***************************************************************************)
(* The services, the Google account and the inputs of capabilities, for    *)
(* TLC.  None shares state with another, so one run checks them all: topic *)
(* says which of them moves, the others keep their initial state.          *)
(***************************************************************************)
EXTENDS Services, GoogleAccount, TLC

CONSTANT Topic

VARIABLE topic

-----------------------------------------------------------------------------
(* Ingress: a message with a key, a wake and a capture. *)
Say(author, type, place, words, with) ==
  [author |-> author, type |-> type, place |-> place, words |-> words, attachments |-> with]
Utterances ==
  {Say("owner", "default", "dm", "text", FALSE),
   Say("owner", "default", "home", "mention", TRUE),
   Say("owner", "default", "home", "mention", FALSE),
   Say("owner", "default", "elsewhere", "text", FALSE),
   Say("other", "default", "home", "mention and text", FALSE),
   Say("owner", "reply", "home", "text", FALSE)}

Trims == [a |-> "a", a_padded |-> "a", url |-> "url", url_padded |-> "url", blank |-> "", long |-> "long"]
Input(k, v, n, s) == [kind |-> k, value |-> v, note |-> n, source |-> s]
CaptureInputs ==
  {Input("text", "blank", "absent", {}),
   Input("text", "a_padded", "long", {}),
   Input("url", "url", "long", {[app |-> "a"]}),
   Input("url", "a", "absent", {}),
   Input("url", "url", "absent", {[app |-> "a", title |-> "blank"]}),
   Input("shared_content", [text |-> "absent", urls |-> <<"url_padded">>], "a", {[app |-> "a"]}),
   Input("shared_content", [text |-> "absent", urls |-> << >>], "absent", {}),
   Input("shared_content", [text |-> "a", urls |-> <<"url", "url_padded">>], "absent", {})}

-----------------------------------------------------------------------------
(* Attachments: two with the same bytes and different declared types,       *)
(* another text and an infected image. *)
BytesOf == [first |-> "x", copy |-> "x", other |-> "y", virus |-> "v"]
DeclaredAs == [first |-> "none", copy |-> "audio", other |-> "none", virus |-> "none"]
MagicOf == [x |-> "text", y |-> "text", v |-> "image"]

(* Agency: a run, two of its events and a heartbeat. *)
EventAbout ==
  [e1 |-> [run |-> "a", type |-> "completed"], e2 |-> [run |-> "a", type |-> "progress"],
   beat |-> [run |-> "a", type |-> "heartbeat"]]

-----------------------------------------------------------------------------
(* CapabilityInputs: for each capability an input with all fields, and what *)
(* comes of it when a field is left out and another takes any value.        *)
Text(w) == [is |-> "text", word |-> w, pad |-> FALSE, alt |-> FALSE, size |-> "fits"]
Number(n) == [is |-> "int", n |-> n]
List(s) == [is |-> "list", items |-> s]
Spelled(w) == [Text(w) EXCEPT !.pad = TRUE, !.alt = TRUE]
Padded(w) == [Text(w) EXCEPT !.pad = TRUE]

Values ==
  {[is |-> "null"], [is |-> "bool", b |-> TRUE], List(<< >>), List(<<Spelled("m1"), Text("m1")>>),
   List(<<Text("a"), Text("")>>), List(<<Spelled("a"), Text("b"), Text("a")>>),
   List(<<Text("a"), Text("a"), Text("b"), Text("b")>>), List(<<Text("recall")>>),
   List(<<[is |-> "pair", name |-> Padded("a"), value |-> Text("unsafe")]>>),
   List(<<[is |-> "window", start |-> Spelled("t1"), end |-> Text("t2")]>>),
   Text(""), Padded(""), Spelled("m1"), [Text("a") EXCEPT !.size = "long"],
   [Padded("a") EXCEPT !.size = "full"], Spelled("a")}
  \cup {Number(n) : n \in {0, 12, 100}}
  \cup {Text(w) : w \in {"t1", "t2", "unsafe", "slash", "poll"}}

Write(r) == r @@ [idempotency_key |-> Padded("a"), user_instruction_ref |-> Padded("b")]
Lookup == [job_id |-> Padded("a"), repo_id |-> Text("b"), task_id |-> Text("b")]
CalendarEvent == [calendar_id |-> Padded("a"), title |-> Padded("a"), start_time |-> Spelled("t1"),
                  end_time |-> Text("t2"), description |-> Padded("b"), location |-> Padded("a"),
                  attendees |-> List(<<Spelled("m1"), Text("m2"), Text("m1")>>)]
Ids == List(<<Padded("a"), Text("b"), Text("a")>>)
Mail == Write([to |-> List(<<Spelled("m1")>>), cc |-> List(<< >>), bcc |-> List(<<Text("m2")>>),
               subject |-> Padded("a"), body |-> Padded("b")])
Slots == [window_start |-> Spelled("t1"), window_end |-> Text("t2"), duration_minutes |-> Number(12),
          attendees |-> List(<<Spelled("a")>>), timezone |-> Padded("a"),
          source_evidence_ids |-> Ids, quoted_content_caveat |-> [is |-> "bool", b |-> FALSE],
          participants |-> Ids,
          proposed_windows |-> List(<<[is |-> "window", start |-> Text("t1"), end |-> Text("t2")]>>),
          timezone_evidence |-> [is |-> "timezone", source |-> Padded("a"), rationale |-> [is |-> "null"],
                                 confidence |-> Number(1)],
          constraints |-> [is |-> "constraints", hard |-> Ids, soft |-> List(<< >>),
                           attendee_notes |-> [is |-> "null"]]]

Complete(c) ==
  CASE c \in {"email.search", "drive.search", "search.web", "memory.recall"} -> [query |-> Padded("a")]
    [] c = "drive.read" -> [file_id |-> Padded("a")]
    [] c \in {"memory.read", "memory.note.delete"} -> [id |-> Padded("a")]
    [] c = "memory.remember" -> [note |-> Padded("a")]
    [] c = "memory.note.create" -> [content |-> Padded("a")]
    [] c = "attachment.read" -> [attachment_ref |-> Padded("a"), intent |-> Spelled("ocr")]
    [] c = "web.extract" -> [url |-> Spelled("url")]
    [] c = "calendar.list" -> [window_start |-> Spelled("t1"), window_end |-> Text("t2"), calendar_id |-> Padded("a")]
    [] c = "calendar.list_calendars" -> [none |-> Text("a")]
    [] c = "calendar.propose_slots" -> Slots
    [] c = "email.read" -> [message_id |-> Padded("a"), thread_id |-> Text("b"), mode |-> Spelled("thread")]
    [] c = "provider_evidence.read" -> [provider_evidence_id |-> Padded("a"), block_ids |-> Ids, max_blocks |-> Number(12)]
    [] c = "maps.directions" -> [origin |-> Padded("a"), destination |-> Text("b"), travel_mode |-> Spelled("walking"),
                                 waypoints |-> Ids, optimize_order |-> [is |-> "bool", b |-> TRUE]]
    [] c = "maps.search_places" -> [query |-> Padded("a"), location_context |-> Text("b"), radius_meters |-> Number(100)]
    [] c = "weather.forecast" -> [location |-> Padded("a"), timeframe |-> Spelled("now")]
    [] c = "memory.search" -> [query |-> Padded("a"), limit |-> Number(100), since |-> Spelled("t1"),
                               kinds |-> List(<<Text("recall"), Text("user_message")>>)]
    [] c = "research.investigate" -> [question |-> Padded("a"), mode |-> Text("web")]
    [] c \in {"agency.status", "agency.artifacts"} -> Lookup
    [] c = "drive.share" -> Write([file_id |-> Padded("a"), grantee_email |-> Spelled("m1"), role |-> Spelled("writer")])
    [] c = "calendar.create_event" -> Write(CalendarEvent)
    [] c = "calendar.update_event" -> Write(CalendarEvent @@ [event_id |-> Padded("a")])
    [] c = "calendar.respond_to_event" ->
         Write([calendar_id |-> Padded("a"), event_id |-> Padded("a"), attendee_email |-> Spelled("m1"),
                response_status |-> Text("accepted")])
    [] c \in {"email.draft", "email.send"} -> Mail
    [] c \in {"email.archive", "email.trash"} -> Write([message_ids |-> Ids])
    [] c = "email.labels.modify" -> Write([message_ids |-> Ids, add_labels |-> List(<<Padded("a")>>), remove_labels |-> List(<<Text("b")>>)])
    [] c = "email.undo" -> Write([undo_token |-> Padded("a")])
    [] c = "memory.note.edit" -> [id |-> Padded("a"), content |-> Padded("b")]
    [] c = "proactive.schedule" -> [when |-> Spelled("t1"), note |-> Padded("a")]
    [] c = "agency.run" -> [repo_root |-> Padded("a"), name |-> Text("a"), prompt |-> Padded("a"), base_branch |-> Padded("b"),
                            runner |-> Text("b"), runner_args |-> Ids,
                            env |-> List(<<[is |-> "pair", name |-> Padded("a"), value |-> Text("b")]>>),
                            no_include_untracked |-> [is |-> "bool", b |-> TRUE]]
    [] c = "agency.request_pr" -> Lookup @@ [invocation_id |-> Padded("a"), worktree_id |-> Text("b")]

Without(r, F) == [f \in DOMAIN r \ F |-> r[f]]
RawInputs(c) ==
  LET r == Complete(c)
  IN  {Without(r, DOMAIN r)} \cup {Without(r, F) : F \in {DOMAIN r \ {f} : f \in DOMAIN r}}
      \cup UNION {{[Without(r, {g}) EXCEPT ![f] = v] : v \in Values} :
                    <<f, g>> \in {p \in (DOMAIN r) \X (DOMAIN r \cup {"no field"}) : p[1] # p[2]}}

TimesInOrder == <<"t1", "t2">>
SearchSetting == [written |-> "host", host |-> "search.example"]
WeatherSetting == [written |-> "host:port", host |-> "weather.example"]

-----------------------------------------------------------------------------
(* Reads of the web: limits of two or three, and answers of every shape. *)
Url(p, t) == [place |-> p, tracked |-> t]
Block(n, gaps) == [size |-> n, gaps |-> gaps]
SomeBlocks == {Block(0, {}), Block(2, {}), Block(4, {}), Block(4, {2}), Block(4, {3})}
UpTo(S, n) == UNION {[1 .. k -> S] : k \in 0 .. n}

Questions(cap) ==
  CASE cap = "web.extract" -> {[url |-> Url("page", FALSE)], [url |-> Url("local", FALSE)]}
    [] cap = "maps.directions" ->
         [origin : BOOLEAN, destination : BOOLEAN, waypoints : {<< >>, <<"w1", "w2">>}]
    [] cap = "maps.search_places" -> [near : BOOLEAN, radius : {2}]
    [] cap = "weather.forecast" -> [timeframe : {"today", "tomorrow", "now", "next_24h"}]
    [] OTHER -> {[query |-> "query"]}

Page(r, at, b, p) ==
  [rejected |-> r, at |-> at, blocks |-> b, paragraphs |-> p, excerpt |-> <<Block(2, {})>>]
Pages ==
  {Page(FALSE, Url("absent", FALSE), b, << >>) : b \in UpTo(SomeBlocks, 4)}
  \cup {Page(r, Url(at, TRUE), << >>, p) :
          r \in BOOLEAN, at \in {"page", "elsewhere", "local", "malformed"}, p \in {<< >>, <<Block(4, {3})>>}}
RouteBodies ==
  [routes : UpTo([object : BOOLEAN, order : {<< >>, <<2, 1>>, <<1, 1>>, <<2>>}], 2)]
PlaceBodies ==
  [places : UpTo([object : {TRUE}, titled : BOOLEAN, located : BOOLEAN, distance : {2, 3}]
                 \cup [object : {FALSE}], 3)]
GeocodeBodies ==
  [status : {"OK", "ZERO_RESULTS", "INVALID_REQUEST", "OVER_QUERY_LIMIT", "REQUEST_DENIED", "UNKNOWN_ERROR"},
   located : {<< >>, <<FALSE, TRUE>>}]

Bodies(cap, stage) ==
  CASE stage = "geocode" -> GeocodeBodies
    [] stage = "ask" /\ cap = "web.extract" -> Pages
    [] stage = "ask" /\ cap = "maps.directions" -> RouteBodies
    [] stage = "ask" /\ cap = "maps.search_places" -> PlaceBodies
    [] stage = "ask" /\ cap = "weather.forecast" -> [daily : UpTo(BOOLEAN, 3), hourly : UpTo(BOOLEAN, 3)]
    [] stage = "ask" /\ cap = "search.web" -> [results : UpTo([title : BOOLEAN, source : BOOLEAN, snippet : BOOLEAN], 2)]
    [] OTHER -> {}

-----------------------------------------------------------------------------
account == vars
ingress == <<record, task, turn, worker, discord, captured>>
attachments == <<fresh, file, blob, linked, extraction, output>>
background == <<job, run, returned, wakes, doing>>
agency == <<daemon, attempt, tracked, event, applied, woken, busy>>
inputs == <<action, keys>>
evidence == <<kind, source, object, rows, blocks, latest, refs, shown>>

MCInit ==
  /\ topic \in Topic
  /\ Ingress!Init
  /\ Attachments!Init
  /\ Turns!Init
  /\ Jobs!Init
  /\ Evidence!Init
  /\ topic # "evidence" => kind = "slots" /\ source = "x"
  /\ Init
  /\ Inputs!Init
  /\ Reads!Init

MCvars == <<topic, ingress, attachments, background, agency, evidence, account, inputs, call>>

MCNext ==
  \/ /\ topic = "ingress"
     /\ Ingress!Next
     /\ UNCHANGED <<topic, attachments, background, agency, evidence, account, inputs, call>>
  \/ /\ topic = "attachments"
     /\ Attachments!Next
     /\ UNCHANGED <<topic, ingress, background, agency, evidence, account, inputs, call>>
  \/ /\ topic = "turns"
     /\ Turns!Next
     /\ UNCHANGED <<topic, ingress, attachments, agency, evidence, account, inputs, call>>
  \/ /\ topic = "jobs"
     /\ Jobs!Next
     /\ UNCHANGED <<topic, ingress, attachments, background, evidence, account, inputs, call>>
  \/ /\ topic = "evidence"
     /\ Evidence!Next
     /\ UNCHANGED <<topic, ingress, attachments, background, agency, account, inputs, call>>
  \/ /\ topic = "account"
     /\ Next
     /\ UNCHANGED <<topic, ingress, attachments, background, agency, evidence, inputs, call>>
  \/ /\ topic = "inputs"
     /\ Inputs!Next
     /\ UNCHANGED <<topic, ingress, attachments, background, agency, evidence, account, call>>
  \/ /\ topic = "reads"
     /\ Reads!Next
     /\ UNCHANGED <<topic, ingress, attachments, background, agency, evidence, account, inputs>>

MCSpec == MCInit /\ [][MCNext]_MCvars

Symmetric == Permutations(State)
=============================================================================
