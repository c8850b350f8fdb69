------------------------- MODULE GoogleAccountProofs -------------------------
(***************************************************************************)
(* Proofs about GoogleAccount, for any accounts, scopes, OAuth flows and   *)
(* runners, and any number of grants and connections: what the row of the  *)
(* connector promises, whose answers are stored in it, and what only a     *)
(* consent can change.                                                     *)
(*                                                                         *)
(* A step does one of five things to the row (RowSteps): it notes an error *)
(* at most, maintains a connection, lets the token run out, connects out   *)
(* of a consent or disconnects.  Every theorem is read off these five.     *)
(***************************************************************************)
EXTENDS GoogleAccount, TLAPS

Row == [status : Status, subject : Account \cup {None},
        scopes : SUBSET Scope, access : Token \cup {None},
        expired : BOOLEAN, refresh : Token \cup {None}, error : Code]

(* The row d says of the account what c does, and nothing better of it. *)
Marked(c, d) ==
  /\ d \in Row
  /\ d.subject = c.subject /\ d.scopes = c.scopes
  /\ d.access = c.access /\ d.refresh = c.refresh /\ d.expired = c.expired
  /\ d.status \in {c.status, "error", "revoked"}
  /\ c.error \in Blocking => d.error \in Blocking

(* set_error marks a row. *)
LEMMA ErrorSet ==
  ASSUME NEW c \in Row, NEW code \in Code
  PROVE  Marked(c, SetError(c, code))
<1> DEFINE d == [c EXCEPT !.error = code]
<1>1. d \in Row
  BY DEF Row
<1>2. d.subject = c.subject /\ d.scopes = c.scopes /\ d.access = c.access
      /\ d.refresh = c.refresh /\ d.status = c.status /\ d.error = code
  BY DEF Row
<1>3. d.expired = c.expired
  BY Zenon DEF Row
<1> HIDE DEF d
<1>4. SetError(c, code) = IF c.error \in Blocking /\ code \notin Blocking THEN c ELSE d
  BY DEF SetError, d
<1>5. CASE c.error \in Blocking /\ code \notin Blocking
  BY Zenon, <1>4, <1>5 DEF Marked
<1>6. CASE ~(c.error \in Blocking /\ code \notin Blocking)
  <2>1. SetError(c, code) = d
    BY <1>4, <1>6
  <2>2. QED  BY Zenon, <1>1, <1>2, <1>3, <1>6, <2>1 DEF Marked
<1>7. QED  BY <1>5, <1>6

(* So does a status that says the account is not to be used. *)
LEMMA StatusSet ==
  ASSUME NEW c \in Row, NEW st \in {"error", "revoked"}
  PROVE  Marked(c, [c EXCEPT !.status = st])
<1> DEFINE d == [c EXCEPT !.status = st]
<1>1. d \in Row
  BY DEF Row, Status
<1>2. d.subject = c.subject /\ d.scopes = c.scopes /\ d.access = c.access
      /\ d.refresh = c.refresh /\ d.status = st /\ d.error = c.error
  BY DEF Row
<1>3. d.expired = c.expired
  BY Zenon DEF Row
<1>4. Marked(c, d)
  <2> HIDE DEF d
  <2>1. d.status \in {c.status, "error", "revoked"} /\ (c.error \in Blocking => d.error \in Blocking)
    BY <1>2
  <2>2. QED  BY Zenon, <1>1, <1>2, <1>3, <2>1 DEF Marked
<1>5. QED  BY <1>4

(* A row marked twice is marked. *)
LEMMA MarkedTwice ==
  ASSUME NEW c, NEW d, NEW e, Marked(c, d), Marked(d, e) PROVE Marked(c, e)
  BY Zenon DEF Marked

(* A refresh that fails marks the row. *)
LEMMA RefreshFailedMarks ==
  ASSUME NEW c \in Row, NEW code \in Code PROVE Marked(c, RefreshFailed(c, code))
<1> DEFINE d == IF code = "access_revoked" THEN [c EXCEPT !.status = "revoked"] ELSE c
<1>1. Marked(c, d)
  <2>1. Marked(c, c)
    BY Zenon DEF Marked
  <2>2. QED  BY <2>1, StatusSet
<1>2. RefreshFailed(c, code) = SetError(d, code)
  BY DEF RefreshFailed
<1> HIDE DEF d
<1>3. d \in Row
  BY <1>1 DEF Marked
<1>4. QED  BY <1>1, <1>2, <1>3, ErrorSet, MarkedTwice

(* A refresh puts its token in both places, and keeps the rest. *)
Stored(c, t, d) ==
  /\ d \in Row
  /\ d.subject = c.subject /\ d.scopes = c.scopes /\ d.status = c.status
  /\ d.access = t /\ d.refresh = t /\ ~d.expired
  /\ c.error \in Blocking => d.error \in Blocking

(* A refresh that succeeds stores its token and touches nothing of the consent. *)
LEMMA RefreshStores ==
  ASSUME NEW c \in Row, NEW t \in Token PROVE Stored(c, t, RefreshStored(c, t))
<1> DEFINE d == [c EXCEPT !.access = t, !.refresh = t, !.expired = FALSE]
<1>1. d \in Row
  BY Zenon DEF Row
<1>2. d.subject = c.subject /\ d.scopes = c.scopes /\ d.status = c.status
      /\ d.access = t /\ d.refresh = t /\ d.error = c.error
  BY Zenon DEF Row
<1>3. ~d.expired
  BY Zenon DEF Row
<1>4. RefreshStored(c, t) = ClearError(d)
  BY DEF RefreshStored
<1> HIDE DEF d
<1>5. CASE d.error \in Blocking
  <2>1. RefreshStored(c, t) = d
    BY <1>4, <1>5 DEF ClearError
  <2>2. QED  BY Zenon, <1>1, <1>2, <1>3, <1>5, <2>1 DEF Stored
<1>6. CASE d.error \notin Blocking
  <2> DEFINE e == [d EXCEPT !.error = "none"]
  <2>1. RefreshStored(c, t) = e
    BY <1>4, <1>6 DEF ClearError
  <2>2. e \in Row
    BY <1>1 DEF Row, Code
  <2>3. e.subject = d.subject /\ e.scopes = d.scopes /\ e.access = d.access
        /\ e.refresh = d.refresh /\ e.status = d.status
    BY <1>1 DEF Row
  <2>4. e.expired = d.expired
    BY Zenon, <1>1 DEF Row
  <2> HIDE DEF e
  <2>5. QED  BY Zenon, <1>2, <1>3, <1>6, <2>1, <2>2, <2>3, <2>4 DEF Stored
<1>7. QED  BY <1>5, <1>6

(* A token that expires stays the token it is. *)
LEMMA Expiring ==
  ASSUME NEW c \in Row
  PROVE  LET d == [c EXCEPT !.expired = TRUE] IN
         /\ d \in Row /\ d.subject = c.subject /\ d.scopes = c.scopes
         /\ d.status = c.status /\ d.access = c.access /\ d.refresh = c.refresh
         /\ d.error = c.error
<1> DEFINE d == [c EXCEPT !.expired = TRUE]
<1>1. d \in Row
  BY Zenon DEF Row
<1>2. d.subject = c.subject /\ d.scopes = c.scopes
         /\ d.status = c.status /\ d.access = c.access /\ d.refresh = c.refresh
         /\ d.error = c.error
  BY Zenon DEF Row
<1>3. QED  BY <1>1, <1>2

-----------------------------------------------------------------------------
(* The invariant *)

OAuthRow ==
  [phase : {"none", "open", "consented", "consumed"}, reconnect : BOOLEAN,
   requested : SUBSET Scope, expired : BOOLEAN, account : Account \cup {None},
   scopes : SUBSET Scope, offline : BOOLEAN]
CallRow ==
  [pc : {"idle", "refreshing", "refreshed", "using"}, scopes : SUBSET Scope,
   token : Token \cup {None}, connection : Nat]

OAuthOK ==
  /\ oauth \in [State -> OAuthRow]
  /\ \A s \in State : oauth[s].phase = "consented" => oauth[s].account \in Account
GoogleOK ==
  /\ google \in [Account -> [grant : 0 .. MaxGrants, live : BOOLEAN]]
  /\ \A a \in Account : google[a].live => google[a].grant # 0
CallsOK == calls \in [Runner -> CallRow] /\ connection \in Nat

(* The row and the channels left of it. *)
Blank(c) ==
  /\ c.subject = None /\ c.scopes = {} /\ c.access = None /\ c.refresh = None
  /\ ~c.expired
NoChannel == \A r \in Resource : channels[r] = "none"
RowOK ==
  /\ connector \in Row
  /\ channels \in [Resource -> ChannelStatus]
  /\ connector.status = "connected" => Held(connector)
  /\ connector.status = "not_connected" => Blank(connector)
  /\ ~Held(connector) => NoChannel

(* While the token has run out, whoever asks for a new one asks with the    *)
(* token of this connection.                                                *)
AsksForItsOwn ==
  connector.expired =>
    \A p \in Runner : calls[p].pc = "refreshing" => calls[p].connection = connection

AccountInv == OAuthOK /\ GoogleOK /\ CallsOK /\ RowOK /\ AsksForItsOwn

(* The row of a connector that was disconnected is blank. *)
LEMMA NotConnectedRow ==
  NotConnected \in Row /\ NotConnected.status = "not_connected" /\ Blank(NotConnected)
<1>1. NotConnected \in Row
  BY Zenon DEF NotConnected, Row, Status, Code
<1>2. NotConnected.status = "not_connected" /\ NotConnected.subject = None
      /\ NotConnected.scopes = {} /\ NotConnected.access = None
      /\ NotConnected.refresh = None
  BY DEF NotConnected
<1>3. ~NotConnected.expired
  BY Zenon DEF NotConnected
<1>4. QED  BY <1>1, <1>2, <1>3 DEF Blank

(* No flow is a flow not begun. *)
LEMMA NoStateRow == NoState \in OAuthRow /\ NoState.phase = "none"
<1>1. NoState \in OAuthRow
  BY Zenon DEF NoState, OAuthRow
<1>2. QED  BY <1>1 DEF NoState

(* No call is a call not begun. *)
LEMMA NoCallRow == NoCall \in CallRow /\ NoCall.pc = "idle"
  BY DEF NoCall, CallRow

(* Nothing is connected at first. *)
LEMMA AccountInit == AccountConstants /\ Init => AccountInv
<1> SUFFICES ASSUME AccountConstants, Init PROVE AccountInv
  OBVIOUS
<1>1. OAuthOK
  BY NoStateRow DEF Init, OAuthOK
<1>2. GoogleOK
  <2> DEFINE none == [grant |-> 0, live |-> FALSE]
  <2>1. none \in [grant : 0 .. MaxGrants, live : BOOLEAN]
    BY DEF AccountConstants
  <2>2. ~none.live
    BY Zenon
  <2>3. google = [a \in Account |-> none]
    BY DEF Init
  <2> HIDE DEF none
  <2>4. QED  BY <2>1, <2>2, <2>3 DEF GoogleOK
<1>3. CallsOK
  BY NoCallRow DEF Init, CallsOK
<1>4. RowOK
  BY NotConnectedRow DEF Init, RowOK, NoChannel, ChannelStatus
<1>5. AsksForItsOwn
  BY NoCallRow DEF Init, AsksForItsOwn
<1>6. QED  BY <1>1, <1>2, <1>3, <1>4, <1>5 DEF AccountInv

-----------------------------------------------------------------------------
(* What a step does to the row *)

Codes == {"other", "consent_required", "token_expired", "access_revoked", "scope_missing"}

(* The codes a call may meet are codes of the row. *)
LEMMA CodesAreCodes == Codes \subseteq Code
  BY DEF Codes, Code, Blocking

(* A row left alone counts as marked. *)
LEMMA MarkedSame == ASSUME NEW c \in Row PROVE Marked(c, c)
  BY Zenon DEF Marked

(* Errors are noted on it, and no channel comes. *)
Noted ==
  /\ Marked(connector, connector') /\ UNCHANGED connection
  /\ channels' \in [Resource -> ChannelStatus]
  /\ \A r \in Resource : channels[r] = "none" => channels'[r] = "none"

(* It is connected, and kept or refreshed. *)
Maintained ==
  /\ connector.status = "connected" /\ UNCHANGED connection
  /\ \/ UNCHANGED connector
     \/ connector.expired /\ \E t \in Token : Stored(connector, t, connector')
  /\ channels' \in [Resource -> ChannelStatus]

(* It is made anew out of a consent. *)
Connected(s) ==
  /\ Redeemable(s) /\ oauth' = Consumed(s)
  /\ connector' \in Row
  /\ connector'.status # "not_connected" /\ Held(connector') /\ ~connector'.expired
  /\ connector'.subject = oauth[s].account /\ connector'.scopes = oauth[s].scopes
  /\ connection' = connection + 1 /\ UNCHANGED calls
  /\ channels' \in [Resource -> ChannelStatus]

(* Registering channels gives each a status. *)
LEMMA ChannelsRegistered ==
  ASSUME NEW scopes, NEW a, NEW failing, channels \in [Resource -> ChannelStatus]
  PROVE  Registered(scopes, a, failing) \in [Resource -> ChannelStatus]
  BY DEF Registered, ChannelStatus

(* The callback of a flow connects the row with what the flow consented to. *)
LEMMA ConnectConnects ==
  ASSUME AccountConstants, AccountInv, NEW s \in State, Connect(s) PROVE Connected(s)
<1>1. oauth[s].account \in Account /\ oauth[s].scopes \in SUBSET Scope
      /\ google[oauth[s].account].live
      /\ oauth[s].account # None
  BY DEF AccountInv, OAuthOK, OAuthRow, Connect, Redeemable, AccountConstants
<1>2. google[oauth[s].account].grant \in 1 .. MaxGrants
  BY <1>1 DEF AccountInv, GoogleOK, AccountConstants
<1>3. Issued(s) \in Token /\ Issued(s) # None
  <2>1. Issued(s) \in Token
    BY <1>1, <1>2 DEF Issued, Token
  <2>2. QED  BY <2>1 DEF AccountConstants
<1>4. RefreshToken(s) \in Token /\ RefreshToken(s) # None
  <2>1. RefreshToken(s) = Issued(s) \/ RefreshToken(s) = connector.refresh
    BY DEF RefreshToken
  <2>2. connector.refresh \in Token \cup {None}
    BY DEF AccountInv, RowOK, Row
  <2>3. QED  BY <2>1, <2>2, <1>3 DEF Connect
<1> DEFINE stored == [status |-> "connected", subject |-> oauth[s].account,
                      scopes |-> oauth[s].scopes, access |-> Issued(s),
                      expired |-> FALSE, refresh |-> RefreshToken(s), error |-> "none"]
<1>5. PICK failing \in SUBSET Wanted(oauth[s].scopes, oauth[s].account) :
        /\ channels' = Registered(oauth[s].scopes, oauth[s].account, failing)
        /\ connector' = IF failing = {} THEN stored
                        ELSE SetError([stored EXCEPT !.status = "error"], "other")
  BY DEF Connect
<1>6. stored \in Row
  BY Zenon, <1>1, <1>3, <1>4 DEF Row, Status, Code
<1>7. stored.status = "connected" /\ stored.subject = oauth[s].account
      /\ stored.scopes = oauth[s].scopes /\ stored.access = Issued(s)
      /\ stored.refresh = RefreshToken(s)
  OBVIOUS
<1>8. ~stored.expired
  BY Zenon
<1>9. /\ connector' \in Row
      /\ connector'.status # "not_connected" /\ Held(connector') /\ ~connector'.expired
      /\ connector'.subject = oauth[s].account /\ connector'.scopes = oauth[s].scopes
  <2> DEFINE failed == [stored EXCEPT !.status = "error"]
  <2>1. Marked(stored, failed)
    BY <1>6, StatusSet
  <2>2. failed.status = "error"
    BY <1>6
  <2> HIDE DEF stored, failed
  <2>3. Marked(failed, SetError(failed, "other"))
    BY <2>1, ErrorSet, CodesAreCodes DEF Marked, Codes
  <2>4. Marked(stored, SetError(failed, "other"))
    BY <2>1, <2>3, MarkedTwice
  <2>5. SetError(failed, "other").status \in {"error", "revoked"}
    BY <2>2, <2>3 DEF Marked
  <2>6. stored.expired = FALSE /\ SetError(failed, "other").expired = stored.expired
    BY Zenon, <1>8, <1>6, <2>4 DEF Marked, Row
  <2>7. CASE failing = {}
    <3>1. connector' = stored
      BY <1>5, <2>7 DEF failed
    <3>2. QED
      BY Zenon, <3>1, <1>3, <1>4, <1>6, <1>7, <1>8, <1>1 DEF Held
  <2>8. CASE failing # {}
    <3>1. connector' = SetError(failed, "other")
      BY <1>5, <2>8 DEF failed
    <3>2. connector' \in Row /\ connector'.subject = stored.subject
          /\ connector'.scopes = stored.scopes /\ connector'.access = stored.access
          /\ connector'.refresh = stored.refresh /\ connector'.status # "not_connected"
      BY <3>1, <2>4, <2>5 DEF Marked
    <3>3. ~connector'.expired
      BY Zenon, <3>1, <2>6
    <3>4. Held(connector')
      BY <3>2, <1>1, <1>3, <1>4, <1>7 DEF Held
    <3>5. QED  BY <3>2, <3>3, <3>4, <1>7
  <2>9. QED  BY <2>7, <2>8
<1>10. QED
  BY <1>5, <1>9, ChannelsRegistered DEF Connect, Connected, AccountInv, RowOK

(* A marked row and channels left alone: the row is noted. *)
LEMMA NotedWithout ==
  ASSUME AccountInv, Marked(connector, connector'), UNCHANGED <<connection, channels>>
  PROVE  Noted
  BY DEF AccountInv, RowOK, Noted

(* An error, set or met by a refresh, marks the row. *)
LEMMA ErrorNoted ==
  ASSUME AccountInv, NEW code \in Codes
  PROVE  Marked(connector, SetError(connector, code))
         /\ Marked(connector, RefreshFailed(connector, code))
  BY ErrorSet, RefreshFailedMarks, CodesAreCodes DEF AccountInv, RowOK

(* A row left alone is noted. *)
LEMMA SameNoted ==
  ASSUME AccountInv PROVE Marked(connector, connector)
  BY MarkedSame DEF AccountInv, RowOK

(* An exchange of a code that fails notes its error. *)
LEMMA ExchangeFailsNotes ==
  ASSUME AccountInv, NEW s \in State, ExchangeFails(s) PROVE Noted
<1> DEFINE d == [connector EXCEPT !.status = "error"]
<1>1. Marked(connector, d)
  BY StatusSet DEF AccountInv, RowOK
<1>2. connector' = SetError(d, "other") /\ UNCHANGED <<connection, channels>>
  BY DEF ExchangeFails
<1> HIDE DEF d
<1>3. Marked(d, SetError(d, "other"))
  BY <1>1, ErrorSet, CodesAreCodes DEF Marked, Codes
<1>4. Marked(connector, connector')
  BY <1>1, <1>2, <1>3, MarkedTwice
<1>5. QED  BY <1>2, <1>4, NotedWithout

(* Steps that change neither connector nor channels, or note an error.      *)
Noting ==
  \/ \E s \in State : \/ StartOAuth(s) \/ StateExpires(s) \/ CallbackRejected(s)
                      \/ ExchangeIncomplete(s) \/ \E a \in Account : UserConsents(s, a)
  \/ StartFails \/ RenewalFailsForToken \/ \E a \in Account : UserRevokes(a)
  \/ \E p \in Runner : \/ \E sc \in Scope : BeginRefresh(p, sc) \/ SkipRefresh(p, sc)
                       \/ RefreshFails(p) \/ TakeToken(p) \/ Use(p)
  \/ UNCHANGED vars

(* What notes an error or nothing at all. *)
LEMMA NotingNotes ==
  ASSUME AccountInv, Noting PROVE Noted
<1>1. UNCHANGED <<connection, channels>>
  BY DEF StartOAuth, StateExpires, CallbackRejected, ExchangeIncomplete, UserConsents,
         StartFails, BeginRefresh, SkipRefresh, RefreshFails, TakeToken, Use, UserRevokes,
         RenewalFailsForToken, Noting, vars
<1>2. \/ connector' = connector
      \/ \E code \in Codes : \/ connector' = SetError(connector, code)
                             \/ connector' = RefreshFailed(connector, code)
  <2>1. ASSUME NEW s \in State, StartOAuth(s) \/ StateExpires(s)
                                  \/ \E a \in Account : UserConsents(s, a)
        PROVE  connector' = connector
    BY <2>1 DEF StartOAuth, StateExpires, UserConsents
  <2>2. ASSUME NEW s \in State, CallbackRejected(s) \/ ExchangeIncomplete(s)
        PROVE  connector' = connector \/ connector' = SetError(connector, "other")
    BY <2>2 DEF CallbackRejected, ExchangeIncomplete
  <2>3. CASE StartFails \/ (\E a \in Account : UserRevokes(a)) \/ UNCHANGED vars
    BY <2>3 DEF StartFails, UserRevokes, vars, Codes
  <2>4. CASE RenewalFailsForToken
    BY <2>4 DEF RenewalFailsForToken, Codes
  <2>5. ASSUME NEW p \in Runner, \E sc \in Scope : BeginRefresh(p, sc) \/ SkipRefresh(p, sc)
        PROVE  connector' = connector \/ connector' = SetError(connector, "consent_required")
    BY <2>5 DEF BeginRefresh, SkipRefresh
  <2>6. ASSUME NEW p \in Runner, RefreshFails(p)
        PROVE  \E code \in Codes : connector' = RefreshFailed(connector, code)
    BY <2>6 DEF RefreshFails, Codes
  <2>7. ASSUME NEW p \in Runner, TakeToken(p)
        PROVE  \/ connector' = connector
               \/ \E code \in Codes : connector' = SetError(connector, code)
    BY <2>7 DEF TakeToken, Codes
  <2>8. ASSUME NEW p \in Runner, Use(p)
        PROVE  \/ connector' = connector
               \/ \E code \in Codes : connector' = RefreshFailed(connector, code)
    BY <2>8 DEF Use, AuthFailures, Codes
  <2>9. {"other", "consent_required"} \subseteq Codes
    BY DEF Codes
  <2>10. QED
    BY <2>1, <2>2, <2>3, <2>4, <2>5, <2>6, <2>7, <2>8, <2>9 DEF Noting
<1>3. QED  BY <1>1, <1>2, ErrorNoted, SameNoted, NotedWithout

(* A channel nearing its end leaves the row alone. *)
LEMMA NearsExpiryNotes ==
  ASSUME AccountInv, NEW r \in Resource, ChannelNearsExpiry(r) PROVE Noted
  BY SameNoted DEF ChannelNearsExpiry, Noted, AccountInv, RowOK, ChannelStatus

(* A token held is a token. *)
LEMMA TokensAreTokens ==
  ASSUME AccountConstants, AccountInv
  PROVE  /\ connector.refresh # None => connector.refresh \in Token
         /\ connector.access # None => connector.access \in Token
         /\ \A p \in Runner : calls[p].token # None => calls[p].token \in Token
         /\ connector \in Row /\ channels \in [Resource -> ChannelStatus]
  BY DEF AccountInv, RowOK, Row, CallsOK, CallRow

(* A late refresh is dropped, a timely one stored. *)
LEMMA RefreshSucceedsKeeps ==
  ASSUME AccountConstants, AccountInv, NEW p \in Runner, RefreshSucceeds(p)
  PROVE  Noted \/ Maintained
<1>1. UNCHANGED <<connection, channels>> /\ calls[p].token # None
  BY DEF RefreshSucceeds, Works
<1>2. CASE connector.status = "connected" /\ connector.expired
  <2>1. connector' = RefreshStored(connector, calls[p].token)
    BY <1>2 DEF RefreshSucceeds
  <2>2. QED  BY <1>1, <1>2, <2>1, TokensAreTokens, RefreshStores DEF Maintained
<1>3. CASE ~(connector.status = "connected" /\ connector.expired)
  <2>1. connector' = connector
    BY <1>3 DEF RefreshSucceeds
  <2>2. QED  BY <1>1, <2>1, SameNoted, NotedWithout
<1>4. QED  BY <1>2, <1>3

(* Preparing access for a scope maintains the row or notes that it is missing. *)
LEMMA PrepareAccessKeeps ==
  ASSUME AccountConstants, AccountInv, NEW p \in Runner, NEW sc \in Scope, PrepareAccess(p, sc)
  PROVE  Noted \/ Maintained
<1>1. UNCHANGED <<connection, channels>> /\ connector.status = "connected"
  BY DEF PrepareAccess
<1>2. CASE /\ TokenOutcome(connector, IF connector.expired THEN connector.refresh
                                      ELSE connector.access)
           /\ connector' = IF connector.expired THEN RefreshStored(connector, connector.refresh)
                           ELSE connector
  <2>1. CASE connector.expired
    <3>1. connector.refresh \in Token
      BY <1>2, <2>1, TokensAreTokens DEF TokenOutcome, Works
    <3>2. QED  BY <1>1, <1>2, <2>1, <3>1, TokensAreTokens, RefreshStores DEF Maintained
  <2>2. CASE ~connector.expired
    BY <1>1, <1>2, <2>2, SameNoted, NotedWithout
  <2>3. QED  BY <2>1, <2>2
<1>3. CASE \E code \in {"other"} \cup
             IF Works(connector.refresh) THEN {} ELSE {"access_revoked"} :
             connector' = RefreshFailed(connector, code)
  <2>1. \E code \in Codes : connector' = RefreshFailed(connector, code)
    BY <1>3 DEF Codes
  <2>2. QED  BY <1>1, <2>1, ErrorNoted, NotedWithout
<1>4. QED  BY <1>2, <1>3 DEF PrepareAccess

(* A renewal replaces channels and keeps the row. *)
LEMMA RenewWatchesKeeps ==
  ASSUME AccountConstants, AccountInv, RenewWatches PROVE Maintained
<1>1. connector.status = "connected" /\ UNCHANGED connection
  BY DEF RenewWatches, RenewalDue
<1>2. channels' \in [Resource -> ChannelStatus]
  BY ChannelsRegistered, TokensAreTokens DEF RenewWatches
<1>3. PICK t \in {connector.access, connector.refresh} :
        /\ TokenOutcome(connector, t)
        /\ connector' = IF connector.expired THEN RefreshStored(connector, t) ELSE connector
  BY DEF RenewWatches
<1>4. CASE connector.expired
  <2>1. t \in Token
    BY <1>3, <1>4, TokensAreTokens DEF TokenOutcome, Works
  <2>2. Stored(connector, t, connector')
    BY <1>3, <1>4, <2>1, TokensAreTokens, RefreshStores
  <2>3. QED  BY <1>1, <1>2, <1>4, <2>1, <2>2 DEF Maintained
<1>5. CASE ~connector.expired
  BY <1>1, <1>2, <1>3, <1>5 DEF Maintained
<1>6. QED  BY <1>4, <1>5

(* Whatever acts, one of five things happens to the row. *)
LEMMA RowSteps ==
  ASSUME AccountConstants, AccountInv, [Next]_vars
  PROVE  Noted \/ Maintained \/ TokenExpires \/ Disconnect \/ \E s \in State : Connected(s)
<1>1. CASE Noting
  BY <1>1, NotingNotes
<1>2. ASSUME NEW s \in State, ExchangeFails(s) PROVE Noted
  BY <1>2, ExchangeFailsNotes
<1>3. ASSUME NEW r \in Resource, ChannelNearsExpiry(r) PROVE Noted
  BY <1>3, NearsExpiryNotes
<1>4. ASSUME NEW p \in Runner, RefreshSucceeds(p) PROVE Noted \/ Maintained
  BY <1>4, RefreshSucceedsKeeps
<1>5. ASSUME NEW p \in Runner, NEW sc \in Scope, PrepareAccess(p, sc)
      PROVE  Noted \/ Maintained
  BY <1>5, PrepareAccessKeeps
<1>6. CASE RenewWatches
  BY <1>6, RenewWatchesKeeps
<1>7. ASSUME NEW s \in State, Connect(s) PROVE Connected(s)
  BY <1>7, ConnectConnects
<1>8. QED
  BY <1>1, <1>2, <1>3, <1>4, <1>5, <1>6, <1>7 DEF Next, Noting

-----------------------------------------------------------------------------
(* The invariant is kept *)

(* A disconnection leaves a blank row and no channel. *)
LEMMA DisconnectsRow ==
  ASSUME AccountInv, Disconnect
  PROVE  /\ connector' = NotConnected /\ connection' = connection + 1 /\ UNCHANGED calls
         /\ channels' \in [Resource -> ChannelStatus] /\ NoChannel'
  BY DEF Disconnect, ChannelStatus, NoChannel

(* Each step keeps the row's promises. *)
LEMMA RowStep ==
  ASSUME AccountConstants, AccountInv, [Next]_vars PROVE RowOK'
<1> USE DEF RowOK
<1>0. RowOK
  BY DEF AccountInv
<1>1. CASE Noted
  <2>1. connector' \in Row /\ channels' \in [Resource -> ChannelStatus]
    BY <1>1 DEF Noted, Marked
  <2>2. Held(connector') <=> Held(connector)
    BY <1>1 DEF Noted, Marked, Held
  <2>3. connector'.status \in {connector.status, "error", "revoked"}
    BY <1>1 DEF Noted, Marked
  <2>4. Blank(connector) => Blank(connector')
    BY Zenon, <1>1 DEF Noted, Marked, Blank
  <2>5. NoChannel => NoChannel'
    BY <1>1 DEF Noted, NoChannel
  <2>6. connector'.status = "connected" => Held(connector')
    BY <1>0, <2>2, <2>3
  <2>7. connector'.status = "not_connected" => Blank(connector')
    BY <1>0, <2>3, <2>4
  <2>8. QED  BY <1>0, <2>1, <2>2, <2>5, <2>6, <2>7
<1>2. CASE Maintained
  <2>1. CASE UNCHANGED connector
    BY <1>0, <1>2, <2>1 DEF Maintained, Held
  <2>2. ASSUME NEW t \in Token, Stored(connector, t, connector') PROVE RowOK'
    <3>1. connector' \in Row /\ connector'.status = "connected" /\ Held(connector')
      BY <1>0, <1>2, <2>2 DEF Maintained, Stored, Held, AccountConstants
    <3>2. QED  BY <1>2, <3>1 DEF Maintained
  <2>3. QED  BY <1>2, <2>1, <2>2 DEF Maintained
<1>3. CASE TokenExpires
  <2>1. connector' = [connector EXCEPT !.expired = TRUE] /\ UNCHANGED channels
        /\ connector.access # None
    BY <1>3 DEF TokenExpires
  <2>2. connector' \in Row /\ (Held(connector') <=> Held(connector))
        /\ connector'.status = connector.status
    BY <1>0, <2>1, Expiring DEF Held
  <2>3. connector.status # "not_connected"
    BY <1>0, <2>1 DEF Blank
  <2>4. QED  BY <1>0, <2>1, <2>2, <2>3 DEF NoChannel
<1>4. CASE Disconnect
  <2>1. connector'.status = "not_connected" /\ connector' \in Row /\ Blank(connector')
    BY <1>4, DisconnectsRow, NotConnectedRow
  <2>2. QED  BY <1>4, <2>1, DisconnectsRow
<1>5. ASSUME NEW s \in State, Connected(s) PROVE RowOK'
  BY <1>5 DEF Connected
<1>6. QED  BY <1>1, <1>2, <1>3, <1>4, <1>5, RowSteps

(* The calls: a refresh begins in the connection there is. *)
LEMMA CallsStep ==
  ASSUME AccountConstants, AccountInv, [Next]_vars
  PROVE  /\ CallsOK'
         /\ \A p \in Runner : calls'[p].pc = "refreshing" =>
              \/ calls[p].pc = "refreshing" /\ calls'[p].connection = calls[p].connection
              \/ calls'[p].connection = connection /\ UNCHANGED connection
<1>0. calls \in [Runner -> CallRow] /\ connection \in Nat /\ connector \in Row
  BY DEF AccountInv, CallsOK, RowOK
<1>1. CASE UNCHANGED <<calls, connection>>
  BY <1>0, <1>1 DEF CallsOK
<1>2. CASE UNCHANGED calls /\ connection' = connection + 1
  BY <1>0, <1>2 DEF CallsOK
<1>3. ASSUME NEW p \in Runner, NEW c \in CallRow, calls' = [calls EXCEPT ![p] = c],
             c.pc = "refreshing" => c.connection = connection, UNCHANGED connection
      PROVE  /\ CallsOK'
             /\ \A x \in Runner : calls'[x].pc = "refreshing" =>
                  \/ calls[x].pc = "refreshing" /\ calls'[x].connection = calls[x].connection
                  \/ calls'[x].connection = connection /\ UNCHANGED connection
  BY <1>0, <1>3 DEF CallsOK
<1>4. ASSUME NEW p \in Runner, NEW sc \in Scope, BeginRefresh(p, sc)
      PROVE  \E c \in CallRow : /\ calls' = [calls EXCEPT ![p] = c]
                                /\ c.pc = "refreshing" => c.connection = connection
  <2> DEFINE c == [pc |-> "refreshing", scopes |-> {sc},
                   token |-> connector.refresh, connection |-> connection]
  <2>1. c \in CallRow /\ c.connection = connection
    BY <1>0 DEF CallRow, Row
  <2>2. calls' = [calls EXCEPT ![p] = c]
    BY <1>4 DEF BeginRefresh
  <2> HIDE DEF c
  <2>3. QED  BY <2>1, <2>2
<1>5. ASSUME NEW p \in Runner, NEW sc, sc \subseteq Scope
      PROVE  LET c == [NoCall EXCEPT !.pc = "refreshed", !.scopes = sc] IN
             c \in CallRow /\ c.pc = "refreshed"
  BY <1>5 DEF NoCall, CallRow
<1>6. ASSUME NEW p \in Runner, NEW t \in Token \cup {None}
      PROVE  LET c == [NoCall EXCEPT !.pc = "using", !.token = t] IN
             c \in CallRow /\ c.pc = "using"
  BY DEF NoCall, CallRow
<1>7. \A p \in Runner : calls[p].scopes \subseteq Scope
  BY <1>0 DEF CallRow
<1> DEFINE Turns(p) == \E c \in CallRow : calls' = [calls EXCEPT ![p] = c] /\ c.pc # "refreshing"
<1>8. ASSUME NEW p \in Runner, Refreshed(p) PROVE Turns(p)
  <2> DEFINE c == [NoCall EXCEPT !.pc = "refreshed", !.scopes = calls[p].scopes]
  <2>1. c \in CallRow /\ c.pc = "refreshed"
    BY <1>5, <1>7
  <2>2. calls' = [calls EXCEPT ![p] = c]
    BY <1>8 DEF Refreshed
  <2> HIDE DEF c
  <2>3. QED  BY <2>1, <2>2
<1>9. ASSUME NEW p \in Runner, Stop(p) PROVE Turns(p)
  BY <1>9, NoCallRow DEF Stop
<1>10. ASSUME NEW p \in Runner, NEW t \in Token \cup {None}, Using(p, t) PROVE Turns(p)
  <2> DEFINE c == [NoCall EXCEPT !.pc = "using", !.token = t]
  <2>1. c \in CallRow /\ c.pc = "using"
    BY <1>6
  <2>2. calls' = [calls EXCEPT ![p] = c]
    BY <1>10 DEF Using
  <2> HIDE DEF c
  <2>3. QED  BY <2>1, <2>2
<1>11. ASSUME NEW p \in Runner, NEW sc \in Scope, SkipRefresh(p, sc) PROVE Turns(p)
  <2> DEFINE c == [NoCall EXCEPT !.pc = "refreshed", !.scopes = {sc}]
  <2>1. c \in CallRow /\ c.pc = "refreshed"
    BY <1>5
  <2>2. calls' = [calls EXCEPT ![p] = c]
    BY <1>11 DEF SkipRefresh
  <2> HIDE DEF c
  <2>3. QED  BY <2>1, <2>2
<1>12. RowOK'
  BY RowStep
<1>13. ASSUME NEW p \in Runner, NEW sc \in Scope, PrepareAccess(p, sc)
       PROVE  Turns(p) \/ UNCHANGED calls
  <2>1. connector'.access \in Token \cup {None}
    BY <1>12 DEF RowOK, Row
  <2> HIDE DEF Turns
  <2>2. Using(p, connector'.access) \/ UNCHANGED calls
    BY <1>13 DEF PrepareAccess
  <2>3. QED  BY <2>1, <2>2, <1>10
<1>14. ASSUME NEW p \in Runner, RefreshSucceeds(p) \/ RefreshFails(p) PROVE Turns(p)
  <2> HIDE DEF Turns
  <2>1. QED  BY <1>8, <1>9, <1>14 DEF RefreshSucceeds, RefreshFails
<1>15. ASSUME NEW p \in Runner, TakeToken(p) \/ Use(p) PROVE Turns(p)
  <2>1. connector.access \in Token \cup {None}
    BY <1>0 DEF Row
  <2> HIDE DEF Turns
  <2>2. Using(p, connector.access) \/ Stop(p)
    BY <1>15 DEF TakeToken, Use
  <2>3. QED  BY <2>1, <2>2, <1>9, <1>10
<1>16. ASSUME NEW p \in Runner,
              \/ \E sc \in Scope : BeginRefresh(p, sc) \/ SkipRefresh(p, sc) \/ PrepareAccess(p, sc)
              \/ RefreshSucceeds(p) \/ RefreshFails(p) \/ TakeToken(p) \/ Use(p)
       PROVE  \/ UNCHANGED <<calls, connection>>
              \/ /\ UNCHANGED connection
                 /\ \E c \in CallRow : /\ calls' = [calls EXCEPT ![p] = c]
                                       /\ c.pc = "refreshing" => c.connection = connection
  <2>1. UNCHANGED connection
    BY <1>16 DEF BeginRefresh, SkipRefresh, PrepareAccess, RefreshSucceeds, RefreshFails,
                 TakeToken, Use
  <2>2. CASE \E sc \in Scope : BeginRefresh(p, sc)
    BY <2>1, <2>2, <1>4
  <2>3. CASE \/ \E sc \in Scope : SkipRefresh(p, sc) \/ PrepareAccess(p, sc)
             \/ RefreshSucceeds(p) \/ RefreshFails(p) \/ TakeToken(p) \/ Use(p)
    <3>1. Turns(p) \/ UNCHANGED calls
      <4> HIDE DEF Turns
      <4>1. QED  BY <2>3, <1>11, <1>13, <1>14, <1>15
    <3>2. QED  BY <3>1, <2>1
  <2>4. QED  BY <1>16, <2>2, <2>3
<1>17. ASSUME NEW s \in State,
              \/ StartOAuth(s) \/ StateExpires(s) \/ CallbackRejected(s) \/ ExchangeFails(s)
              \/ ExchangeIncomplete(s) \/ Connect(s) \/ \E a \in Account : UserConsents(s, a)
       PROVE  UNCHANGED calls /\ connection' \in {connection, connection + 1}
  BY <1>17 DEF StartOAuth, StateExpires, CallbackRejected, ExchangeFails, ExchangeIncomplete,
               Connect, UserConsents
<1>18. CASE \/ StartFails \/ Disconnect \/ TokenExpires \/ RenewWatches \/ RenewalFailsForToken
            \/ (\E a \in Account : UserRevokes(a))
            \/ (\E r \in Resource : ChannelNearsExpiry(r)) \/ UNCHANGED vars
  <2>1. UNCHANGED calls /\ connection' \in {connection, connection + 1}
    BY <1>18 DEF StartFails, Disconnect, TokenExpires, RenewWatches, RenewalFailsForToken,
                 UserRevokes, ChannelNearsExpiry, vars
  <2>2. QED  BY <2>1, <1>1, <1>2
<1>19. ASSUME NEW p \in Runner,
              \/ \E sc \in Scope : BeginRefresh(p, sc) \/ SkipRefresh(p, sc) \/ PrepareAccess(p, sc)
              \/ RefreshSucceeds(p) \/ RefreshFails(p) \/ TakeToken(p) \/ Use(p)
       PROVE  /\ CallsOK'
              /\ \A x \in Runner : calls'[x].pc = "refreshing" =>
                   \/ calls[x].pc = "refreshing" /\ calls'[x].connection = calls[x].connection
                   \/ calls'[x].connection = connection /\ UNCHANGED connection
  BY <1>19, <1>16, <1>1, <1>3
<1>20. QED
  BY <1>1, <1>2, <1>17, <1>18, <1>19 DEF Next

(* Who refreshes an expired token does so for the connection that is there. *)
LEMMA AsksStep ==
  ASSUME AccountConstants, AccountInv, [Next]_vars PROVE AsksForItsOwn'
<1> SUFFICES ASSUME connector'.expired, NEW p \in Runner, calls'[p].pc = "refreshing"
             PROVE  calls'[p].connection = connection'
  BY DEF AsksForItsOwn
<1>1. \/ calls[p].pc = "refreshing" /\ calls'[p].connection = calls[p].connection
      \/ calls'[p].connection = connection /\ UNCHANGED connection
  BY CallsStep
<1>2. CASE Noted \/ Maintained
  <2>1. connector.expired /\ UNCHANGED connection
    BY Zenon, <1>2 DEF Noted, Marked, Maintained, Stored
  <2>2. calls[p].pc = "refreshing" => calls[p].connection = connection
    BY <2>1 DEF AccountInv, AsksForItsOwn
  <2>3. QED  BY <1>1, <2>1, <2>2
<1>3. CASE TokenExpires
  BY <1>1, <1>3 DEF TokenExpires
<1>4. CASE Disconnect \/ \E s \in State : Connected(s)
  BY <1>4, DisconnectsRow, NotConnectedRow DEF Connected, Blank
<1>5. QED  BY <1>2, <1>3, <1>4, RowSteps

(* A flow consumed stays as it is. *)
LEMMA OAuthStep ==
  ASSUME AccountConstants, AccountInv, [Next]_vars
  PROVE  /\ OAuthOK'
         /\ \A s \in State : oauth[s].phase = "consumed" => oauth'[s] = oauth[s]
<1>0. /\ oauth \in [State -> OAuthRow] /\ connector.scopes \subseteq Scope
      /\ \A s \in State : oauth[s].phase = "consented" => oauth[s].account \in Account
  BY DEF AccountInv, OAuthOK, RowOK, Row
<1>1. CASE UNCHANGED oauth
  BY <1>0, <1>1 DEF OAuthOK
<1>2. ASSUME NEW s \in State, NEW o \in OAuthRow, oauth' = [oauth EXCEPT ![s] = o],
             oauth[s].phase # "consumed", o.phase = "consented" => o.account \in Account
      PROVE  /\ OAuthOK'
             /\ \A x \in State : oauth[x].phase = "consumed" => oauth'[x] = oauth[x]
  BY <1>0, <1>2 DEF OAuthOK
<1>3. ASSUME NEW s \in State, Redeemable(s), oauth' = Consumed(s)
      PROVE  /\ OAuthOK'
             /\ \A x \in State : oauth[x].phase = "consumed" => oauth'[x] = oauth[x]
  <2> DEFINE o == [NoState EXCEPT !.phase = "consumed"]
  <2>1. o \in OAuthRow
    BY Zenon, NoStateRow DEF OAuthRow
  <2>2. o.phase = "consumed"
    BY NoStateRow DEF OAuthRow
  <2>3. oauth' = [oauth EXCEPT ![s] = o] /\ oauth[s].phase # "consumed"
    BY <1>3 DEF Consumed, Redeemable
  <2> HIDE DEF o
  <2>4. QED  BY <2>1, <2>2, <2>3, <1>2
<1>4. ASSUME NEW s \in State, StartOAuth(s)
      PROVE  /\ OAuthOK'
             /\ \A x \in State : oauth[x].phase = "consumed" => oauth'[x] = oauth[x]
  <2>1. PICK reconnect \in BOOLEAN, intent \in {{}, Scope} :
          oauth' = [oauth EXCEPT ![s] =
            [NoState EXCEPT !.phase = "open", !.reconnect = reconnect,
                            !.requested = RequestedScopes(reconnect, intent)]]
    BY <1>4 DEF StartOAuth
  <2>2. RequestedScopes(reconnect, intent) \in SUBSET Scope
    BY <1>0 DEF RequestedScopes, MinimumReadScopes
  <2> DEFINE wanted == RequestedScopes(reconnect, intent)
             o == [NoState EXCEPT !.phase = "open", !.reconnect = reconnect,
                                  !.requested = wanted]
  <2>3. o \in OAuthRow
    <3> HIDE DEF wanted
    <3>1. wanted \in SUBSET Scope
      BY <2>2 DEF wanted
    <3>2. QED  BY Zenon, <3>1, NoStateRow DEF OAuthRow
  <2>4. o.phase = "open"
    <3> HIDE DEF wanted
    <3>1. QED  BY Zenon, NoStateRow DEF OAuthRow
  <2>5. oauth' = [oauth EXCEPT ![s] = o] /\ oauth[s].phase # "consumed"
    BY <1>4, <2>1 DEF StartOAuth
  <2> HIDE DEF o
  <2>6. QED  BY <2>3, <2>4, <2>5, <1>2
<1>5. ASSUME NEW s \in State, NEW a \in Account, UserConsents(s, a)
      PROVE  /\ OAuthOK'
             /\ \A x \in State : oauth[x].phase = "consumed" => oauth'[x] = oauth[x]
  <2>1. PICK allowed \in SUBSET oauth[s].requested, offline \in BOOLEAN :
          oauth' = [oauth EXCEPT ![s] = [oauth[s] EXCEPT !.phase = "consented", !.account = a,
                                           !.scopes = allowed, !.offline = offline]]
    BY <1>5 DEF UserConsents
  <2>2. oauth[s] \in OAuthRow /\ allowed \in SUBSET Scope
    BY <1>0 DEF OAuthRow
  <2> DEFINE o == [oauth[s] EXCEPT !.phase = "consented", !.account = a,
                                   !.scopes = allowed, !.offline = offline]
  <2>3. o \in OAuthRow
    BY Zenon, <2>2 DEF OAuthRow
  <2>4. o.account = a
    BY Zenon, <2>2 DEF OAuthRow
  <2>5. oauth' = [oauth EXCEPT ![s] = o] /\ oauth[s].phase # "consumed"
    BY <1>5, <2>1 DEF UserConsents
  <2> HIDE DEF o
  <2>6. QED  BY <2>3, <2>4, <2>5, <1>2
<1>6. ASSUME NEW s \in State, StateExpires(s)
      PROVE  /\ OAuthOK'
             /\ \A x \in State : oauth[x].phase = "consumed" => oauth'[x] = oauth[x]
  <2> DEFINE o == [oauth[s] EXCEPT !.expired = TRUE]
  <2>1. oauth[s] \in OAuthRow
    BY <1>0
  <2>2. o \in OAuthRow
    BY Zenon, <2>1 DEF OAuthRow
  <2>3. o.phase = oauth[s].phase /\ o.account = oauth[s].account
    BY Zenon, <2>1 DEF OAuthRow
  <2>4. oauth' = [oauth EXCEPT ![s] = o] /\ oauth[s].phase # "consumed"
    BY <1>6 DEF StateExpires
  <2> HIDE DEF o
  <2>5. QED  BY <1>0, <2>2, <2>3, <2>4, <1>2
<1>7. ASSUME NEW s \in State,
             CallbackRejected(s) \/ ExchangeFails(s) \/ ExchangeIncomplete(s) \/ Connect(s)
      PROVE  UNCHANGED oauth \/ (Redeemable(s) /\ oauth' = Consumed(s))
  BY <1>7 DEF CallbackRejected, ExchangeFails, ExchangeIncomplete, Connect
<1>8. ASSUME NEW p \in Runner,
             \/ \E sc \in Scope : BeginRefresh(p, sc) \/ SkipRefresh(p, sc) \/ PrepareAccess(p, sc)
             \/ RefreshSucceeds(p) \/ RefreshFails(p) \/ TakeToken(p) \/ Use(p)
      PROVE  UNCHANGED oauth
  BY <1>8 DEF BeginRefresh, SkipRefresh, PrepareAccess, RefreshSucceeds, RefreshFails,
              TakeToken, Use
<1>9. CASE \/ StartFails \/ Disconnect \/ TokenExpires \/ RenewWatches \/ RenewalFailsForToken
           \/ (\E a \in Account : UserRevokes(a))
           \/ (\E r \in Resource : ChannelNearsExpiry(r)) \/ UNCHANGED vars
  <2>1. UNCHANGED oauth
    BY <1>9 DEF StartFails, Disconnect, TokenExpires, RenewWatches, RenewalFailsForToken,
                UserRevokes, ChannelNearsExpiry, vars
  <2>2. QED  BY <2>1, <1>1
<1>10. ASSUME NEW s \in State,
              CallbackRejected(s) \/ ExchangeFails(s) \/ ExchangeIncomplete(s) \/ Connect(s)
       PROVE  /\ OAuthOK'
              /\ \A x \in State : oauth[x].phase = "consumed" => oauth'[x] = oauth[x]
  BY <1>10, <1>7, <1>1, <1>3
<1>11. ASSUME NEW p \in Runner,
              \/ \E sc \in Scope : BeginRefresh(p, sc) \/ SkipRefresh(p, sc) \/ PrepareAccess(p, sc)
              \/ RefreshSucceeds(p) \/ RefreshFails(p) \/ TakeToken(p) \/ Use(p)
       PROVE  /\ OAuthOK'
              /\ \A x \in State : oauth[x].phase = "consumed" => oauth'[x] = oauth[x]
  BY <1>11, <1>8, <1>1
<1>12. QED
  BY <1>4, <1>5, <1>6, <1>9, <1>10, <1>11 DEF Next

(* A live grant is one the user has given. *)
LEMMA GoogleStep ==
  ASSUME AccountConstants, AccountInv, [Next]_vars PROVE GoogleOK'
<1> DEFINE Grant == [grant : 0 .. MaxGrants, live : BOOLEAN]
<1>0. google \in [Account -> Grant] /\ \A a \in Account : google[a].live => google[a].grant # 0
  BY DEF AccountInv, GoogleOK
<1>1. CASE UNCHANGED google
  BY <1>0, <1>1 DEF GoogleOK
<1>2. ASSUME NEW a \in Account, NEW g \in Grant, google' = [google EXCEPT ![a] = g],
             g.live => g.grant # 0
      PROVE  GoogleOK'
  <2>1. google' \in [Account -> Grant]
    BY <1>0, <1>2
  <2>2. ASSUME NEW x \in Account, google'[x].live PROVE google'[x].grant # 0
    <3>1. google'[x] = IF x = a THEN g ELSE google[x]
      BY <1>0, <1>2
    <3>2. CASE x = a
      <4>1. google'[x] = g
        BY <3>1, <3>2
      <4>2. QED  BY Zenon, <4>1, <1>2, <2>2
    <3>3. CASE x # a
      <4>1. google'[x] = google[x]
        BY <3>1, <3>3
      <4>2. QED  BY Zenon, <4>1, <1>0, <2>2
    <3>4. QED  BY <3>2, <3>3
  <2>3. QED  BY <2>1, <2>2 DEF GoogleOK
<1>3. ASSUME NEW a \in Account
      PROVE  LET g == [google[a] EXCEPT !.live = FALSE] IN g \in Grant /\ ~g.live
  <2> DEFINE g == [google[a] EXCEPT !.live = FALSE]
  <2>1. google[a] \in Grant
    BY <1>0
  <2>2. g \in Grant
    BY Zenon, <2>1
  <2>3. ~g.live
    BY Zenon, <2>1
  <2>4. QED  BY Zenon, <2>2, <2>3
<1>4. ASSUME NEW a \in Account, UserRevokes(a) PROVE GoogleOK'
  <2> DEFINE g == [google[a] EXCEPT !.live = FALSE]
  <2>1. g \in Grant /\ ~g.live
    BY Zenon, <1>3
  <2>2. google' = [google EXCEPT ![a] = g]
    BY <1>4 DEF UserRevokes
  <2> HIDE DEF g, Grant
  <2>3. QED  BY <2>1, <2>2, <1>2
<1>5. ASSUME NEW s \in State, NEW a \in Account, UserConsents(s, a) PROVE GoogleOK'
  <2> DEFINE g == [grant |-> google[a].grant + 1, live |-> TRUE]
  <2>1. CASE google[a].live
    BY <1>1, <1>5, <2>1 DEF UserConsents
  <2>2. CASE ~google[a].live
    <3>1. google[a].grant \in 0 .. MaxGrants /\ google[a].grant < MaxGrants
      BY <1>0, <1>5, <2>2 DEF UserConsents
    <3>2. google[a].grant + 1 \in 0 .. MaxGrants /\ google[a].grant + 1 # 0
      BY <3>1 DEF AccountConstants
    <3>3. g \in Grant /\ g.grant # 0
      BY <3>2
    <3>4. google' = [google EXCEPT ![a] = g]
      BY <1>5, <2>2 DEF UserConsents
    <3> HIDE DEF g, Grant
    <3>5. QED  BY <3>3, <3>4, <1>2
  <2>3. QED  BY <2>1, <2>2
<1>6. CASE Disconnect
  <2>1. PICK revoked \in SUBSET {t \in {connector.refresh, connector.access} : Works(t)} :
          google' = [a \in Account |->
            IF \E t \in revoked : t.account = a THEN [google[a] EXCEPT !.live = FALSE]
            ELSE google[a]]
    BY <1>6 DEF Disconnect
  <2> DEFINE g(a) == [google[a] EXCEPT !.live = FALSE]
  <2>2. \A a \in Account : g(a) \in Grant /\ ~g(a).live
    BY Zenon, <1>3
  <2>3. \A a \in Account : google'[a] = g(a) \/ google'[a] = google[a]
    BY <2>1
  <2>4. google' = [a \in Account |-> google'[a]]
    BY <2>1
  <2> HIDE DEF g, Grant
  <2>5. google' \in [Account -> Grant]
    BY <1>0, <2>2, <2>3, <2>4
  <2>6. ASSUME NEW a \in Account, google'[a].live PROVE google'[a].grant # 0
    BY Zenon, <1>0, <2>2, <2>3, <2>6
  <2>7. QED  BY <2>5, <2>6 DEF GoogleOK, Grant
<1>7. ASSUME NEW s \in State,
             \/ StartOAuth(s) \/ StateExpires(s) \/ CallbackRejected(s) \/ ExchangeFails(s)
             \/ ExchangeIncomplete(s) \/ Connect(s)
      PROVE  UNCHANGED google
  BY <1>7 DEF StartOAuth, StateExpires, CallbackRejected, ExchangeFails, ExchangeIncomplete,
              Connect
<1>8. ASSUME NEW p \in Runner,
             \/ \E sc \in Scope : BeginRefresh(p, sc) \/ SkipRefresh(p, sc) \/ PrepareAccess(p, sc)
             \/ RefreshSucceeds(p) \/ RefreshFails(p) \/ TakeToken(p) \/ Use(p)
      PROVE  UNCHANGED google
  BY <1>8 DEF BeginRefresh, SkipRefresh, PrepareAccess, RefreshSucceeds, RefreshFails,
              TakeToken, Use
<1>9. CASE \/ StartFails \/ TokenExpires \/ RenewWatches \/ RenewalFailsForToken
           \/ (\E r \in Resource : ChannelNearsExpiry(r)) \/ UNCHANGED vars
  <2>1. UNCHANGED google
    BY <1>9 DEF StartFails, TokenExpires, RenewWatches, RenewalFailsForToken,
                ChannelNearsExpiry, vars
  <2>2. QED  BY <2>1, <1>1
<1>10. QED
  <2> HIDE DEF Grant
  <2>1. QED  BY <1>1, <1>4, <1>5, <1>6, <1>7, <1>8, <1>9 DEF Next

(* Each step keeps the invariant. *)
LEMMA AccountStep == AccountConstants => (AccountInv /\ [Next]_vars => AccountInv')
  BY RowStep, CallsStep, AsksStep, OAuthStep, GoogleStep DEF AccountInv

(* The invariant holds throughout. *)
LEMMA AccountInvariant == Spec => []AccountInv
<1>1. Init => AccountInv
  BY AccountInit, AccountAssumption
<1>2. AccountInv /\ [Next]_vars => AccountInv'
  BY AccountStep, AccountAssumption
<1>3. QED  BY <1>1, <1>2, PTL DEF Spec

(* What the status of the row promises holds through every callback,        *)
(* refresh, renewal and disconnection, however late it comes                *)
(* (google_connector.py): a connected row has its account and both tokens,  *)
(* of one that is not connected nothing is left, nor any push channel.      *)
THEOREM RowKeepsItsPromise == Spec => []AccountSound
<1>1. ASSUME AccountInv PROVE AccountSound
  <2>1. connector.status = "not_connected"
          => connector = [NotConnected EXCEPT !.error = connector.error]
    <3> SUFFICES ASSUME connector.status = "not_connected"
                 PROVE  connector = [NotConnected EXCEPT !.error = connector.error]
      OBVIOUS
    <3>1. connector \in Row /\ Blank(connector)
      BY <1>1 DEF AccountInv, RowOK
    <3> DEFINE d == [NotConnected EXCEPT !.error = connector.error]
    <3>2. d \in Row
      BY <3>1, NotConnectedRow DEF Row
    <3>3. d.status = "not_connected" /\ d.subject = None /\ d.scopes = {}
          /\ d.access = None /\ d.refresh = None /\ d.error = connector.error
      BY <3>1 DEF NotConnected
    <3>4. d.expired = FALSE
      BY Zenon DEF NotConnected
    <3> HIDE DEF d
    <3>5. connector.expired = FALSE
      BY Zenon, <3>1 DEF Blank, Row
    <3>6. connector.expired = d.expired
      BY Zenon, <3>4, <3>5
    <3>7. connector = d
      BY <3>1, <3>2, <3>3, <3>6 DEF Row, Blank
    <3>8. QED  BY <3>7 DEF d
  <2>2. ~Held(connector) => NoChannel
    BY <1>1 DEF AccountInv, RowOK
  <2>3. connector.status = "not_connected" => ~Held(connector)
    BY <1>1 DEF AccountInv, RowOK, Blank, Held
  <2>4. \A s \in State : oauth[s].phase \in {"none", "open", "consented", "consumed"}
    BY <1>1 DEF AccountInv, OAuthOK, OAuthRow
  <2>5. connector \in Row /\ (\A r \in Resource : channels[r] \in ChannelStatus)
        /\ (connector.status = "connected" => Held(connector))
    BY <1>1 DEF AccountInv, RowOK
  <2>6. QED  BY <2>1, <2>2, <2>3, <2>4, <2>5 DEF AccountSound, NoChannel, Row
<1>2. QED  BY <1>1, AccountInvariant, PTL

(* A refresh whose answer comes after the user disconnected, or connected   *)
(* another account, does not write its token into that connection           *)
(* (refresh_access_token_for_capability).                                   *)
THEOREM LateRefreshesAreDropped == Spec => RefreshStaysInItsConnection
<1> USE AccountAssumption
<1> DEFINE tokens == <<connector.access, connector.refresh, connector.expired>>
           Stays == \A p \in Runner :
                      calls[p].pc = "refreshing" /\ calls'[p].pc # "refreshing"
                        /\ tokens' # tokens => calls[p].connection = connection
<1>1. ASSUME AccountInv, [Next]_vars PROVE Stays
  <2> SUFFICES ASSUME NEW p \in Runner, calls[p].pc = "refreshing",
                      calls'[p].pc # "refreshing", tokens' # tokens
               PROVE  calls[p].connection = connection
    OBVIOUS
  <2>1. CASE Noted
    <3>1. tokens' = tokens
      BY Zenon, <2>1 DEF Noted, Marked
    <3>2. QED  BY Zenon, <3>1
  <2>2. CASE Maintained
    <3>1. connector.expired
      BY Zenon, <2>2 DEF Maintained
    <3>2. QED  BY <1>1, <3>1 DEF AccountInv, AsksForItsOwn
  <2>3. CASE TokenExpires \/ Disconnect \/ \E s \in State : Connected(s)
    <3>1. UNCHANGED calls
      BY <2>3 DEF TokenExpires, Disconnect, Connected
    <3>2. QED  BY <3>1
  <2>4. QED  BY <1>1, <2>1, <2>2, <2>3, RowSteps
<1>2. AccountInv /\ [Next]_vars => [Stays]_vars
  BY <1>1
<1>3. QED  BY <1>2, AccountInvariant, PTL DEF Spec, RefreshStaysInItsConnection

(* A blocking error is cleared by a new consent or by the disconnection     *)
(* only: every other writer of the row notes an error beside it or keeps it *)
(* (set_error and clear_error of the connector).                            *)
THEOREM ErrorsWaitForConsent == Spec => BlockingErrorsStick
<1> USE AccountAssumption
<1> DEFINE Sticks == connector.error \in Blocking /\ connector'.error \notin Blocking
                       => connection' # connection
<1>1. ASSUME AccountInv, [Next]_vars PROVE Sticks
  <2>0. connection \in Nat
    BY <1>1 DEF AccountInv, CallsOK
  <2>1. CASE Noted \/ Maintained
    BY <2>1 DEF Noted, Marked, Maintained, Stored
  <2>2. CASE TokenExpires
    <3>1. connector \in Row
      BY <1>1 DEF AccountInv, RowOK
    <3>2. connector'.error = connector.error
      BY <2>2, <3>1, Expiring DEF TokenExpires
    <3>3. QED  BY <3>2
  <2>3. CASE Disconnect \/ \E s \in State : Connected(s)
    BY <2>0, <2>3 DEF Disconnect, Connected
  <2>4. QED  BY <1>1, <2>1, <2>2, <2>3, RowSteps
<1>2. AccountInv /\ [Next]_vars => [Sticks]_vars
  BY <1>1
<1>3. QED  BY <1>2, AccountInvariant, PTL DEF Spec, BlockingErrorsStick

(* Account and scopes of the row are those of a consent that was redeemed   *)
(* once and in time (complete_oauth_callback), or are gone.                 *)
THEOREM ConsentConnects == Spec => ConnectsOnlyByConsent
<1> USE AccountAssumption
<1> DEFINE who == <<connector.subject, connector.scopes>>
           ByConsent ==
             /\ who' # who => connector' = NotConnected \/ \E s \in State : Redeemed(s)
             /\ \A s \in State : oauth[s].phase = "consumed" => oauth'[s] = oauth[s]
<1>1. ASSUME AccountInv, [Next]_vars PROVE ByConsent
  <2>1. \A s \in State : oauth[s].phase = "consumed" => oauth'[s] = oauth[s]
    BY <1>1, OAuthStep
  <2>2. CASE Noted \/ Maintained
    <3>1. who' = who
      BY <2>2 DEF Noted, Marked, Maintained, Stored
    <3>2. QED  BY <2>1, <3>1
  <2>3. CASE TokenExpires
    <3>1. connector \in Row
      BY <1>1 DEF AccountInv, RowOK
    <3>2. who' = who
      BY <2>3, <3>1, Expiring DEF TokenExpires
    <3>3. QED  BY <2>1, <3>2
  <2>4. CASE Disconnect
    BY <2>1, <2>4 DEF Disconnect
  <2>5. ASSUME NEW s \in State, Connected(s) PROVE Redeemed(s)
    <3>1. oauth'[s].phase = "consumed"
      BY <1>1, <2>5, NoStateRow DEF Connected, Consumed, AccountInv, OAuthOK, OAuthRow
    <3>2. QED  BY <3>1, <2>5 DEF Connected, Redeemable, Redeemed
  <2>6. QED  BY <1>1, <2>1, <2>2, <2>3, <2>4, <2>5, RowSteps
<1>2. AccountInv /\ [Next]_vars => [ByConsent]_vars
  BY <1>1
<1>3. QED  BY <1>2, AccountInvariant, PTL DEF Spec, ConnectsOnlyByConsent
=============================================================================
