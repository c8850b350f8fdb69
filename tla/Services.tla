------------------------------ MODULE Services ------------------------------
(***************************************************************************)
(* The services around the agent loop: ingress, background turns, agency   *)
(* jobs, attachments, stored evidence and reads of the web.  They          *)
(* share no state, so each is an instance over its own constants and       *)
(* variables.  What each promises has its name here.                       *)
(***************************************************************************)
EXTENDS Naturals, Sequences

-----------------------------------------------------------------------------
(* Posts, wakes and captures (app.py, worker.py, capture_ingress.py).       *)

CONSTANTS Keyed, Bare, Wake, Utterance, Capture, CaptureInput, Trim, Blank, TooLong, WebUrl, MaxUrls,
          MaxAttempts
VARIABLES record, task, turn, worker, discord, captured

Ingress == INSTANCE TurnIngress

(* MAX_TASK_ATTEMPTS. *)
IngressConstants == MaxAttempts \in Nat \ {0}

(* What clients are told and what is in the channel agrees with the turns. *)
IngressSound == Ingress!IngressSound
(* What was asked and what was answered under a key never change. *)
AnswersStand == Ingress!AnswersStand

-----------------------------------------------------------------------------
(* Background turns: research and the rememberer (research_runtime.py,      *)
(* memory.py). *)

CONSTANTS Research, Memory, MaxTries, MaxEdits
VARIABLES job, run, returned, wakes, doing

Turns == INSTANCE BackgroundTurns

(* A task has one task_type. *)
TurnsConstants == Research \cap Memory = {}

(* Research answers once and with its finding; an encode is not rerun. *)
FindingReturnsOnce == Turns!FindingReturnsOnce

-----------------------------------------------------------------------------
(* Runs of the agency daemon and its events (agency_daemon.py). *)

CONSTANTS Run, Event, About, MaxRetries
VARIABLES daemon, attempt, tracked, event, applied, woken, busy

Jobs == INSTANCE AgencyJobs

(* An event is about a run of the daemon, and of a type the endpoint takes. *)
JobsConstants ==
  \A e \in Event : /\ About[e].run \in Run
                   /\ About[e].type \in DOMAIN Jobs!StatusFor \cup {"heartbeat"}

(* Events of a job apply once, and started jobs belong to their attempt. *)
JobsSound == Jobs!JobsSound

-----------------------------------------------------------------------------
(* Attachments (attachment_content.py). *)

CONSTANTS Attachment, Bytes, DeclaredType, Magic, Oversized, Infected, FailClosed, Intent
VARIABLES fresh, file, blob, linked, extraction, output

Attachments == INSTANCE AttachmentContent WITH Declared <- DeclaredType

(* A read shows its own attachment and nothing that was refused. *)
OwnContentOnly == Attachments!TypeOK /\ Attachments!OwnContentOnly

-----------------------------------------------------------------------------
(* Stored evidence (provider_evidence_lifecycle.py). *)

CONSTANTS ObjectContent, Textless, Raw, Cancelled
VARIABLES kind, source, object, rows, blocks, latest, refs, shown

Evidence == INSTANCE ProviderEvidence WITH Content <- ObjectContent

(* One content of an object is available, the one read last; an old        *)
(* reference shows only that, and redactions are final.                    *)
EvidenceIsCurrent == Evidence!EvidenceIsCurrent

-----------------------------------------------------------------------------
(* Reads of the web (capability_registry.py). *)

CONSTANTS WebRetries, MapsAttempts, MaxBlocks, MaxBlock, MaxTotal, MaxResults, MaxRoutes, MaxHours,
          Question(_), Body(_, _)
VARIABLE call

Reads == INSTANCE WebReads WITH MaxRetries <- WebRetries

(* A text is its length and where it has spaces; surplus ones are left out,  *)
(* so none comes first. *)
TextBlock == [size : Nat, gaps : SUBSET (Nat \ {0, 1})]
(* The settings allow one attempt at least, and a body is something. *)
ReadsConstants ==
  /\ WebRetries \in Nat
  /\ MapsAttempts \in Nat \ {0}
  /\ \A cap \in Reads!Capability, stage \in {"geocode", "ask"} : Reads!Nothing \notin Body(cap, stage)
(* An address is where it points to and whether it is tracked. *)
Address == [place : STRING, tracked : BOOLEAN]
(* What the limits and the parts of questions and bodies are. *)
PagesConstants ==
  /\ MaxBlocks \in Nat /\ MaxBlock \in Nat \ {0} /\ MaxTotal \in Nat
  /\ \A body \in Body("web.extract", "ask") :
       body.at \in Address /\ {body.blocks, body.paragraphs, body.excerpt} \subseteq Seq(TextBlock)
  /\ \A asked \in Question("web.extract") : asked.url \in Address /\ asked.url.place # "absent"
RoutesConstants == \A asked \in Question("maps.directions") : asked.waypoints \in Seq(STRING)
ForecastConstants == \A body \in Body("weather.forecast", "ask") : body.daily \in Seq(BOOLEAN)

(* What a reader of the web is told agrees with what the provider sent. *)
WebReadsSound == Reads!WebReadsSound

-----------------------------------------------------------------------------
(* Inputs of capabilities (capability_registry.py, action_runtime.py). *)

CONSTANTS RawInput(_), Times, Mails, Urls, Slashed, Polls, Unsafe, MaxItems, SearchEndpoint,
          WeatherEndpoint
VARIABLES action, keys

Inputs == INSTANCE CapabilityInputs WITH Raw <- RawInput

(* A value of JSON, as far as validators look at it: of an object the parts *)
(* that have a meaning, of a list its items.                                *)
TextValue ==
  [is : {"text"}, word : STRING, pad : BOOLEAN, alt : BOOLEAN, size : {"fits", "full", "long"}]
Simple == TextValue \cup {Inputs!Null} \cup [is : {"bool"}, b : BOOLEAN] \cup [is : {"int"}, n : Nat]
Item ==
  Simple \cup [is : {"pair"}, name : Simple, value : Simple]
    \cup [is : {"window"}, start : Simple, end : Simple]
ListValue == [is : {"list"}, items : Seq(Item)]
Value ==
  Item \cup ListValue
    \cup [is : {"timezone"}, source : Simple, rationale : Simple, confidence : Simple]
    \cup [is : {"constraints"}, hard : Simple \cup ListValue, soft : Simple \cup ListValue,
          attendee_notes : Simple \cup ListValue]

InputsConstants ==
  /\ MaxItems \in Nat
  /\ \A c \in Inputs!Capability : \A r \in RawInput(c) : \A f \in DOMAIN r : r[f] \in Value

(* What was approved runs, and it is what was proposed. *)
ApprovedInputsStand == Inputs!ApprovedInputsStand

-----------------------------------------------------------------------------
ASSUME ServicesAssumption ==
  IngressConstants /\ TurnsConstants /\ JobsConstants
  /\ ReadsConstants /\ PagesConstants /\ RoutesConstants /\ ForecastConstants
  /\ InputsConstants
=============================================================================
