-------------------------------- MODULE WebReads --------------------------------
(***************************************************************************)
(* The capabilities that read the web in the process of the worker: search,*)
(* page extraction, directions, places and the weather                     *)
(* (capability_registry.py, from _execute_search_web on).  A call reads    *)
(* its settings, asks its provider, some of them again when the trouble    *)
(* may pass, and turns the answer into the output the agent cites.  A step *)
(* of a call is one of its attempts; what the provider sends is the choice *)
(* of the environment: a trouble, or a body.  Places are asked for twice,  *)
(* for the middle of the circle and for what lies in it.                   *)
(***************************************************************************)
EXTENDS Naturals, Sequences, SequencesExt, FiniteSets

CONSTANTS
  MaxRetries,      \* settings.web_extract_max_retries
  MapsAttempts,    \* _MAPS_MAX_ATTEMPTS
  MaxBlocks,       \* _WEB_EXTRACT_MAX_BLOCKS
  MaxBlock,        \* _WEB_EXTRACT_MAX_BLOCK_CHARS
  MaxTotal,        \* _WEB_EXTRACT_MAX_TOTAL_CHARS
  MaxResults,      \* results a search or a search for places shows
  MaxRoutes,       \* _MAPS_MAX_ALTERNATIVE_ROUTES
  MaxHours,        \* hours of a forecast for next_24h
  Question(_),     \* inputs of a capability
  Body(_, _)       \* bodies a provider may send, by capability and stage

VARIABLE call

Capability == {"search.web", "web.extract", "maps.directions", "maps.search_places", "weather.forecast"}
Maps == {"maps.directions", "maps.search_places"}

(* What AppSettings says at the time of the call. *)
Settings == [keyed : BOOLEAN, endpoint : BOOLEAN, dev : BOOLEAN]

Nothing == [none |-> TRUE]
Init == call = [cap |-> "none", asked |-> Nothing, dev |-> FALSE, stage |-> "idle", met |-> << >>,
                body |-> Nothing, error |-> "", result |-> << >>]

-----------------------------------------------------------------------------
(* Addresses: where they point to, and whether they carry what makes two    *)
(* addresses of one page differ (a default port, a final slash, tracking).  *)

UrlError(url) ==
  CASE url.place = "local" -> "url_destination_unsafe"
    [] url.place = "malformed" -> "url_invalid"
    [] url.place = "other scheme" -> "url_scheme_unsupported"
    [] OTHER -> ""
Canonical(url) == [url EXCEPT !.tracked = FALSE]

(* What stops a call before it asks. *)
Unanswerable(cap, asked, s) ==
  CASE cap = "web.extract" /\ UrlError(asked.url) # "" -> UrlError(asked.url)
    [] cap = "maps.directions" /\ ~asked.origin -> "maps_origin_required"
    [] cap = "maps.directions" /\ asked.origin /\ ~asked.destination -> "maps_destination_required"
    [] cap = "maps.search_places" /\ ~asked.near -> "maps_location_context_required"
    [] OTHER ->
         IF ~s.keyed /\ ~(cap = "weather.forecast" /\ s.dev) THEN "provider_credentials_missing"
         ELSE IF ~s.endpoint /\ cap \in {"search.web", "weather.forecast"} THEN "endpoint_invalid"
         ELSE ""

-----------------------------------------------------------------------------
(* Troubles.  403 goes with 401; 500 stands for 500, 502, 503 and 504; 501  *)
(* for the other errors of a server, 400 for those of a client; "invalid"   *)
(* for an answer of 200 that is not an object of JSON.                      *)
Trouble == {"timeout", "network", "429", "401", "451", "415", "400", "500", "501", "invalid"}

Attempts(cap) ==
  CASE cap = "web.extract" -> MaxRetries + 1
    [] cap \in Maps -> MapsAttempts
    [] OTHER -> 1
Passing(cap) ==
  {"timeout", "network", "429", "500"} \cup (IF cap = "web.extract" THEN {"501"} ELSE {})

Error(cap, why) ==
  CASE why = "timeout" -> "provider_timeout"
    [] why = "network" -> "provider_network_failure"
    [] why = "429" -> "provider_rate_limited"
    [] why \in {"500", "501"} -> "provider_upstream_failure"
    [] why = "invalid" -> "provider_invalid_payload"
    [] why \in {"401", "451"} /\ cap = "web.extract" -> "access_restricted"
    [] why = "415" /\ cap = "web.extract" -> "unsupported_format"
    [] why = "401" /\ cap \in Maps -> "provider_permission_denied"
    [] OTHER -> "provider_request_rejected"

-----------------------------------------------------------------------------
(* Page extraction.  A block of text is its length, surplus space left out, *)
(* and the places where a space stands.                                     *)

(* The paragraphs of the content count only if there is no usable list of    *)
(* blocks, the excerpt only if there is no content.                         *)
Content(body) ==
  CASE body.blocks # << >> -> body.blocks
    [] body.blocks = << >> /\ body.paragraphs # << >> -> body.paragraphs
    [] OTHER -> body.excerpt

Cut(block, n) == IF n \in block.gaps THEN n - 1 ELSE n
Smaller(a, b) == IF a <= b THEN a ELSE b

NoBlocks == [kept |-> << >>, total |-> 0, cut |-> FALSE, full |-> FALSE]
Keep(so, block) ==
  LET whole == IF block.size > MaxBlock THEN Cut(block, MaxBlock) ELSE block.size
      room == MaxTotal - so.total
      size == IF whole > room THEN Cut(block, room) ELSE whole
  IN  IF so.full \/ block.size = 0 THEN so
      ELSE IF Len(so.kept) >= MaxBlocks \/ so.total >= MaxTotal
        THEN [so EXCEPT !.cut = TRUE, !.full = TRUE]
      ELSE [so EXCEPT !.kept = Append(@, size), !.total = @ + size, !.cut = @ \/ size < block.size]
Blocks(content) == FoldLeft(Keep, NoBlocks, content)

Failed(why) == [error |-> why, result |-> << >>]
Shown(result) == [error |-> "", result |-> result]

(* The address the provider ended at counts, the one asked for without it.  *)
Resolved(asked, body) == IF body.at.place = "absent" THEN asked.url ELSE body.at
Extract(asked, body) ==
  LET at == Resolved(asked, body)
      kept == Blocks(Content(body))
  IN  CASE body.rejected -> Failed("provider_request_rejected")
        [] ~body.rejected /\ UrlError(at) = "url_destination_unsafe" -> Failed("url_destination_unsafe")
        [] ~body.rejected /\ UrlError(at) \notin {"", "url_destination_unsafe"} ->
             Failed("provider_invalid_payload")
        [] OTHER -> IF kept.kept = << >> THEN Failed("unsupported_format")
                    ELSE Shown(<<[source |-> Canonical(at), blocks |-> kept.kept, partial |-> kept.cut]>>)

-----------------------------------------------------------------------------
(* Search. *)

FirstFew(s, n) == SubSeq(s, 1, Smaller(n, Len(s)))

Whole(item) == item.title /\ item.source /\ item.snippet
Found(body) == Shown(FirstFew(SelectSeq(body.results, Whole), MaxResults))

-----------------------------------------------------------------------------
(* Maps. *)

(* Mutant: the order is used if it has the right length. *)
OrderOfAnyIndices(order, waypoints) == Len(order) = Len(waypoints)
(* The order of the provider counts if it is an order of the waypoints.     *)
IsOrder(order, waypoints) ==
  DOMAIN order = DOMAIN waypoints /\ ToSet(order) = DOMAIN waypoints
Stops(route, waypoints) ==
  <<"origin">>
  \o (IF IsOrder(route.order, waypoints)
        THEN [i \in DOMAIN waypoints |-> waypoints[route.order[i]]] ELSE waypoints)
  \o <<"destination">>
Routes(body) == FirstFew(SelectSeq(body.routes, LAMBDA r : r.object), MaxRoutes)
Directions(asked, body) ==
  Shown([i \in DOMAIN Routes(body) |-> Stops(Routes(body)[i], asked.waypoints)])

(* A place is shown when it has a title and lies in the circle asked for.   *)
InCircle(asked, place) == place.titled /\ place.located /\ place.distance <= asked.radius
Candidates(body) == FirstFew(SelectSeq(body.places, LAMBDA p : p.object), MaxResults)
Places(asked, body) == Shown(SelectSeq(Candidates(body), LAMBDA p : InCircle(asked, p)))

(* The middle is the first result that has numbers for it. *)
GeocodeError(body) ==
  CASE body.status = "OK" -> IF TRUE \in ToSet(body.located) THEN "" ELSE "provider_invalid_payload"
    [] body.status = "ZERO_RESULTS" -> "maps_location_not_found"
    [] body.status = "INVALID_REQUEST" -> "provider_request_rejected"
    [] body.status = "OVER_QUERY_LIMIT" -> "provider_rate_limited"
    [] body.status \in {"REQUEST_DENIED", "OVER_DAILY_LIMIT"} -> "provider_permission_denied"
    [] OTHER -> "provider_upstream_failure"

-----------------------------------------------------------------------------
(* Weather.  A forecast is shown as the days or hours it summarises, by     *)
(* their numbers; an interval may be unusable.  Without any it still        *)
(* succeeds, dated when the provider last changed it.                       *)

Usable(s, first, last) ==
  FoldLeft(LAMBDA taken, i : IF i >= first /\ s[i] THEN Append(taken, i) ELSE taken,
           << >>, [i \in 1 .. last |-> i])
Intervals(timeframe, body) ==
  CASE timeframe = "today" -> Usable(body.daily, 1, Smaller(1, Len(body.daily)))
    [] timeframe = "tomorrow" -> Usable(body.daily, 2, Smaller(2, Len(body.daily)))
    [] timeframe = "next_24h" -> Usable(body.hourly, 1, Smaller(MaxHours, Len(body.hourly)))
    [] OTHER -> Usable(body.hourly, 1, Smaller(1, Len(body.hourly)))
(* The provider for development tells the present weather, whatever is asked *)
Forecast(asked, dev, body) ==
  Shown(IF dev THEN Usable(body.hourly, 1, Smaller(1, Len(body.hourly)))
        ELSE Intervals(asked.timeframe, body))

Output(c, body) ==
  CASE c.cap = "web.extract" -> Extract(c.asked, body)
    [] c.cap = "maps.directions" -> Directions(c.asked, body)
    [] c.cap = "maps.search_places" -> Places(c.asked, body)
    [] c.cap = "weather.forecast" -> Forecast(c.asked, c.dev, body)
    [] OTHER -> Found(body)

-----------------------------------------------------------------------------
(* A call. *)

FirstStage(cap) == IF cap = "maps.search_places" THEN "geocode" ELSE "ask"

Start(cap, asked, s) ==
  /\ call.stage = "idle"
  /\ call' = [call EXCEPT !.cap = cap, !.asked = asked, !.dev = s.dev,
                          !.error = Unanswerable(cap, asked, s),
                          !.stage = IF Unanswerable(cap, asked, s) = "" THEN FirstStage(cap) ELSE "done"]

(* A trouble ends the call unless it may pass and an attempt is left. *)
Again(c, why) == why \in Passing(c.cap) /\ Len(c.met) + 1 < Attempts(c.cap)
Refused(why) ==
  /\ call.stage \in {"geocode", "ask"}
  /\ call' = [call EXCEPT !.met = Append(@, why),
                          !.stage = IF Again(call, why) THEN @ ELSE "done",
                          !.error = IF Again(call, why) THEN "" ELSE Error(call.cap, why)]

(* The middle is known; what lies around it is a new request. *)
Located(body) ==
  /\ call.stage = "geocode"
  /\ call' = [call EXCEPT !.error = GeocodeError(body), !.met = << >>,
                          !.stage = IF GeocodeError(body) = "" THEN "ask" ELSE "done"]

Answered(body) ==
  /\ call.stage = "ask"
  /\ call' = [call EXCEPT !.stage = "done", !.body = body, !.error = Output(call, body).error,
                          !.result = Output(call, body).result]

Next ==
  \/ \E cap \in Capability, s \in Settings : \E asked \in Question(cap) : Start(cap, asked, s)
  \/ \E why \in Trouble : Refused(why)
  \/ \E body \in Body(call.cap, call.stage) : Located(body) \/ Answered(body)

-----------------------------------------------------------------------------
(* A caller who hears of a trouble that may pass hears of it after every     *)
(* attempt met one; no trouble that stays was asked about again.            *)
GivesUpLast ==
  /\ \A i \in DOMAIN call.met :
       call.met[i] \notin Passing(call.cap) => i = Len(call.met) /\ call.stage = "done"
  /\ call.stage = "done" /\ call.body = Nothing /\ call.met # << >> /\ Last(call.met) \in Passing(call.cap)
       => Len(call.met) = Attempts(call.cap)

Sum(s) == FoldLeft(LAMBDA a, b : a + b, 0, s)
(* An extract stays within the limits, holds no empty block, says that it is *)
(* not the whole page exactly when it is not, and names no unsafe source.   *)
ExtractIsHonest ==
  \A out \in IF call.cap = "web.extract" THEN ToSet(call.result) ELSE {} :
    /\ Len(out.blocks) <= MaxBlocks /\ Sum(out.blocks) <= MaxTotal /\ 0 \notin ToSet(out.blocks)
    /\ out.partial <=> Sum(out.blocks) < Sum([i \in DOMAIN Content(call.body) |-> Content(call.body)[i].size])
    /\ out.source.place \notin {"local", "absent", "malformed"}

(* A route passes every waypoint once, whatever order came with it.         *)
EveryStopOnce ==
  \A stops \in IF call.cap = "maps.directions" THEN ToSet(call.result) ELSE {} :
    /\ stops[1] = "origin" /\ stops[Len(stops)] = "destination"
    /\ Len(stops) = Len(call.asked.waypoints) + 2
    /\ ToSet(call.asked.waypoints) \subseteq ToSet(stops)

(* A forecast for tomorrow does not tell of today, except in development.   *)
TomorrowIsNotToday ==
  call.cap = "weather.forecast" /\ call.stage = "done" /\ ~call.dev /\ call.asked.timeframe = "tomorrow"
    => 1 \notin ToSet(call.result)

(* What a reader is told agrees with what the provider sent. *)
WebReadsSound == GivesUpLast /\ ExtractIsHonest /\ EveryStopOnce /\ TomorrowIsNotToday
=============================================================================
