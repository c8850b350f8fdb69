--------------------------- MODULE GoogleAccount ---------------------------
(***************************************************************************)
(* The Google account Ariel is connected to (google_connector.py): the     *)
(* OAuth flows that connect it, the tokens it holds, the push channels     *)
(* registered for it, the runners that refresh and use its access token,   *)
(* and the disconnection.                                                  *)
(*                                                                         *)
(* There is one connector row.  Every operation on it is one SERIALIZABLE  *)
(* transaction, its provider calls included, but one:                      *)
(* refresh_access_token_for_capability reads the refresh token in a        *)
(* transaction, asks Google outside of any, and stores the answer in       *)
(* another, and a capability uses its access token outside of any.         *)
(* Between these steps the user may connect, reconnect or disconnect.      *)
(*                                                                         *)
(* A token is the account and the grant it came from: Google gives every   *)
(* consent after a revocation a new grant, and a revocation kills every    *)
(* token of the old one.                                                   *)
(***************************************************************************)
EXTENDS Integers, FiniteSets

CONSTANTS
  Account,       \* the Google accounts the user may choose from
  None,
  Scope,         \* the scopes: "gmail", "calendar" and others
  State,         \* the OAuth state handles of one behaviour
  Runner,        \* turns and worker tasks that use a capability
  MaxGrants,     \* bound: grants an account gets
  MaxConnections \* bound: connections and disconnections

(* Of the scopes, two let the connector register push channels, and both   *)
(* are asked for always; the others are for what the user asks beyond it.  *)
MinimumReadScopes == Scope \cap {"gmail", "calendar"}

Blocking == {"consent_required", "scope_missing", "access_revoked"}
Code == Blocking \cup {"none", "token_expired", "other"}
Status == {"not_connected", "connected", "error", "revoked"}
Token == [account : Account, grant : 1 .. MaxGrants]

(* None is no account and no token; the bounds are numbers. *)
AccountConstants ==
  /\ None \notin Account \cup Token
  /\ MaxGrants \in Nat /\ MaxConnections \in Nat
ASSUME AccountAssumption == AccountConstants

(* A push channel row: Gmail's is keyed by the account, Calendar's is the  *)
(* primary calendar, whoever is connected.  "due" is an active channel that *)
(* nears its expiry.                                                       *)
Resource == Account \cup {"primary"}
ChannelStatus == {"none", "active", "due", "failed"}

VARIABLES
  connector,  \* the row of google_connectors
  connection, \* how often it was connected or disconnected
  oauth,      \* the rows of google_oauth_states, and what Google answered
  channels,   \* the rows of provider_watch_channels
  google,     \* what Google holds for each account: its grant
  calls       \* where each runner is with its access token

vars == <<connector, connection, oauth, channels, google, calls>>

NotConnected ==
  [status |-> "not_connected", subject |-> None, scopes |-> {},
   access |-> None, expired |-> FALSE, refresh |-> None, error |-> "none"]
NoState ==
  [phase |-> "none", reconnect |-> FALSE, requested |-> {}, expired |-> FALSE,
   account |-> None, scopes |-> {}, offline |-> FALSE]
NoCall == [pc |-> "idle", scopes |-> {}, token |-> None, connection |-> 0]

Init ==
  /\ connector = NotConnected
  /\ connection = 0
  /\ oauth = [s \in State |-> NoState]
  /\ channels = [r \in Resource |-> "none"]
  /\ google = [a \in Account |-> [grant |-> 0, live |-> FALSE]]
  /\ calls = [p \in Runner |-> NoCall]

Works(t) == t # None /\ google[t.account].live /\ google[t.account].grant = t.grant

-----------------------------------------------------------------------------
(* The helpers of the runtime *)

(* A blocking error is not replaced by one that does not block.             *)
SetError(c, code) ==
  IF c.error \in Blocking /\ code \notin Blocking THEN c ELSE [c EXCEPT !.error = code]

(* Mutant for BlockingErrorsStick: a refresh that worked clears any error.   *)
ClearErrorAny(c) == [c EXCEPT !.error = "none"]

(* A refresh that worked clears any error but a blocking one. *)
ClearError(c) == IF c.error \in Blocking THEN c ELSE [c EXCEPT !.error = "none"]

RefreshFailed(c, code) ==
  SetError(IF code = "access_revoked" THEN [c EXCEPT !.status = "revoked"] ELSE c, code)

RefreshStored(c, t) ==
  ClearError([c EXCEPT !.access = t, !.refresh = t, !.expired = FALSE])

(* Re-arm the push channels the scopes allow; the registration of those in  *)
(* failing fails, which marks the row there is and leaves none behind.      *)
Wanted(scopes, a) ==
  (IF "gmail" \in scopes THEN {a} ELSE {})
    \cup (IF "calendar" \in scopes THEN {"primary"} ELSE {})
Registered(scopes, a, failing) ==
  [r \in Resource |->
     CASE r \in Wanted(scopes, a) \ failing -> "active"
       [] r \in Wanted(scopes, a) \cap failing /\ channels[r] # "none" -> "failed"
       [] OTHER -> channels[r]]

-----------------------------------------------------------------------------
(* Connecting and reconnecting *)

(* POST start asks for the minimum; POST reconnect also for what is granted *)
(* and for the scopes of the capabilities the user names.                   *)
RequestedScopes(reconnect, intent) ==
  MinimumReadScopes \cup (IF reconnect THEN connector.scopes \cup intent ELSE {})

StartOAuth(s) ==
  /\ oauth[s].phase = "none"
  /\ \E reconnect \in BOOLEAN, intent \in {{}, Scope} :
       /\ reconnect \/ intent = {}
       /\ oauth' = [oauth EXCEPT ![s] =
            [NoState EXCEPT !.phase = "open", !.reconnect = reconnect,
                            !.requested = RequestedScopes(reconnect, intent)]]
  /\ UNCHANGED <<connector, connection, channels, google, calls>>

(* The client is not configured.  The handle of the state row it leaves     *)
(* behind was sent to nobody.                                               *)
StartFails ==
  /\ connector' = SetError(connector, "other")
  /\ UNCHANGED <<connection, oauth, channels, google, calls>>

(* The user picks an account and the scopes to allow.  Google sends a       *)
(* refresh token with a new grant, and whenever consent is asked for again, *)
(* which only reconnect does; else it may leave it out.                     *)
UserConsents(s, a) ==
  /\ oauth[s].phase = "open"
  /\ google[a].live \/ google[a].grant < MaxGrants
  /\ \E allowed \in SUBSET oauth[s].requested, offline \in BOOLEAN :
       /\ (~google[a].live \/ oauth[s].reconnect) => offline
       /\ oauth' = [oauth EXCEPT ![s] = [@ EXCEPT !.phase = "consented", !.account = a,
                                           !.scopes = allowed, !.offline = offline]]
  /\ google' = IF google[a].live THEN google
               ELSE [google EXCEPT ![a] = [grant |-> @.grant + 1, live |-> TRUE]]
  /\ UNCHANGED <<connector, connection, channels, calls>>

StateExpires(s) ==
  /\ oauth[s].phase \in {"open", "consented"} /\ ~oauth[s].expired
  /\ oauth' = [oauth EXCEPT ![s].expired = TRUE]
  /\ UNCHANGED <<connector, connection, channels, google, calls>>

(* A callback that is refused: the state was used, is too old, the user     *)
(* said no, or the code is missing.  The state is not consumed.             *)
CallbackRejected(s) ==
  /\ \/ oauth[s].phase = "consumed"
     \/ oauth[s].phase = "open"
     \/ oauth[s].phase = "consented" /\ oauth[s].expired
  /\ connector' = IF oauth[s].phase = "consumed" /\ connector.status = "connected"
                  THEN connector ELSE SetError(connector, "other")
  /\ UNCHANGED <<connection, oauth, channels, google, calls>>

(* Mutant for ConnectsOnlyByConsent: a failed redemption leaves the state.  *)
ConsumedNever(s) == oauth

Redeemable(s) == oauth[s].phase = "consented" /\ ~oauth[s].expired
Issued(s) == [account |-> oauth[s].account, grant |-> google[oauth[s].account].grant]
Consumed(s) == [oauth EXCEPT ![s] = [NoState EXCEPT !.phase = "consumed"]]

(* The exchange of the code fails, at Google or on the way. *)
ExchangeFails(s) ==
  /\ Redeemable(s)
  /\ oauth' = Consumed(s)
  /\ connector' = SetError([connector EXCEPT !.status = "error"], "other")
  /\ UNCHANGED <<connection, channels, google, calls>>

(* The refresh token of the answer, or the one stored before. *)
RefreshToken(s) == IF oauth[s].offline THEN Issued(s) ELSE connector.refresh

(* The answer lacks an identity or an access token, or there is no refresh  *)
(* token at all: the status stays what it was.                              *)
ExchangeIncomplete(s) ==
  /\ Redeemable(s)
  /\ oauth' = Consumed(s)
  /\ connector' = SetError(connector, "other")
  /\ UNCHANGED <<connection, channels, google, calls>>

(* Mutant for AccountSound: a missing refresh token is not noticed.         *)
ConnectWithoutRefresh(s) ==
  /\ Redeemable(s) /\ google[oauth[s].account].live
  /\ connection < MaxConnections
  /\ channels' = Registered(oauth[s].scopes, oauth[s].account, {})
  /\ connector' = [status |-> "connected", subject |-> oauth[s].account,
                   scopes |-> oauth[s].scopes, access |-> Issued(s),
                   expired |-> FALSE, refresh |-> RefreshToken(s), error |-> "none"]
  /\ connection' = connection + 1
  /\ oauth' = Consumed(s)
  /\ UNCHANGED <<google, calls>>

Connect(s) ==
  /\ Redeemable(s) /\ google[oauth[s].account].live /\ RefreshToken(s) # None
  /\ connection < MaxConnections
  /\ \E failing \in SUBSET Wanted(oauth[s].scopes, oauth[s].account) :
       LET stored == [status |-> "connected", subject |-> oauth[s].account,
                      scopes |-> oauth[s].scopes, access |-> Issued(s),
                      expired |-> FALSE, refresh |-> RefreshToken(s),
                      error |-> "none"]
       IN  /\ channels' = Registered(oauth[s].scopes, oauth[s].account, failing)
           /\ connector' = IF failing = {} THEN stored
                           ELSE SetError([stored EXCEPT !.status = "error"], "other")
  /\ connection' = connection + 1
  /\ oauth' = Consumed(s)
  /\ UNCHANGED <<google, calls>>

(* DELETE stops the channels, revokes what tokens it can and forgets all.   *)
Disconnect ==
  /\ connection < MaxConnections
  /\ channels' = [r \in Resource |-> "none"]
  /\ \E revoked \in SUBSET {t \in {connector.refresh, connector.access} : Works(t)} :
       google' = [a \in Account |->
         IF \E t \in revoked : t.account = a THEN [google[a] EXCEPT !.live = FALSE]
         ELSE google[a]]
  /\ connector' = NotConnected
  /\ connection' = connection + 1
  /\ UNCHANGED <<oauth, calls>>

-----------------------------------------------------------------------------
(* Refreshing and using the access token *)

Refreshed(p) ==
  calls' = [calls EXCEPT ![p] = [NoCall EXCEPT !.pc = "refreshed", !.scopes = calls[p].scopes]]
Using(p, t) ==
  calls' = [calls EXCEPT ![p] = [NoCall EXCEPT !.pc = "using", !.token = t]]
Stop(p) == calls' = [calls EXCEPT ![p] = NoCall]

NeedsRefresh == connector.access # None /\ connector.expired

(* The first transaction of refresh_access_token_for_capability: what it    *)
(* takes out of the row, or why there is nothing to refresh.                *)
BeginRefresh(p, sc) ==
  /\ calls[p].pc = "idle"
  /\ connector.status = "connected" /\ sc \in connector.scopes
  /\ NeedsRefresh /\ connector.refresh # None
  /\ calls' = [calls EXCEPT ![p] = [pc |-> "refreshing", scopes |-> {sc},
       token |-> connector.refresh, connection |-> connection]]
  /\ UNCHANGED <<connector, connection, oauth, channels, google>>

SkipRefresh(p, sc) ==
  /\ calls[p].pc = "idle"
  /\ connector.status # "connected" \/ sc \notin connector.scopes \/ ~NeedsRefresh
  /\ connector' = IF connector.status = "connected" /\ sc \notin connector.scopes
                  THEN SetError(connector, "consent_required") ELSE connector
  /\ calls' = [calls EXCEPT ![p] = [NoCall EXCEPT !.pc = "refreshed", !.scopes = {sc}]]
  /\ UNCHANGED <<connection, oauth, channels, google>>

(* Mutant for RefreshStaysInItsConnection: the row is not looked at again.   *)
RefreshSucceedsUnchecked(p) ==
  /\ calls[p].pc = "refreshing" /\ Works(calls[p].token)
  /\ connector' = IF connector.status = "connected"
                  THEN RefreshStored(connector, calls[p].token) ELSE connector
  /\ Refreshed(p)
  /\ UNCHANGED <<connection, oauth, channels, google>>

(* Google's answer is stored only if the row is connected and its token has *)
(* still run out; a refusal is recorded on whatever row there is.  A turn   *)
(* gives up on a refusal, the provider sync goes on to look for a token.    *)
RefreshSucceeds(p) ==
  /\ calls[p].pc = "refreshing" /\ Works(calls[p].token)
  /\ connector' = IF connector.status = "connected" /\ connector.expired
                  THEN RefreshStored(connector, calls[p].token) ELSE connector
  /\ Refreshed(p)
  /\ UNCHANGED <<connection, oauth, channels, google>>

RefreshFails(p) ==
  /\ calls[p].pc = "refreshing"
  /\ \E code \in {"other"} \cup IF Works(calls[p].token) THEN {} ELSE {"access_revoked"} :
       connector' = RefreshFailed(connector, code)
  /\ \/ Stop(p)
     \/ Refreshed(p)
  /\ UNCHANGED <<connection, oauth, channels, google>>

(* The transaction that hands the token out without refreshing it. *)
TakeToken(p) ==
  LET usable == connector.status = "connected" /\ calls[p].scopes \subseteq connector.scopes
                  /\ connector.access # None
  IN
  /\ calls[p].pc = "refreshed"
  /\ \/ /\ usable /\ ~connector.expired
        /\ Using(p, connector.access)
        /\ UNCHANGED connector
     \/ /\ usable /\ connector.expired
        /\ connector' = SetError(connector, "token_expired")
        /\ Stop(p)
     \/ /\ ~usable
        /\ connector' = IF connector.status = "connected"
                        THEN SetError(connector, "consent_required") ELSE connector
        /\ Stop(p)
  /\ UNCHANGED <<connection, oauth, channels, google>>

(* The whole of prepare_capability_access and access_token_for_background_  *)
(* sync, which refresh inside their transaction.                            *)
TokenOutcome(c, t) ==
  /\ c.status = "connected" /\ c.access # None
  /\ \/ ~c.expired /\ t = c.access
     \/ c.expired /\ Works(c.refresh) /\ t = c.refresh

PrepareAccess(p, sc) ==
  /\ calls[p].pc = "idle" /\ connector.status = "connected" /\ sc \in connector.scopes
  /\ \/ /\ TokenOutcome(connector, IF connector.expired THEN connector.refresh
                                   ELSE connector.access)
        /\ connector' = IF connector.expired THEN RefreshStored(connector, connector.refresh)
                        ELSE connector
        /\ Using(p, connector'.access)
     \/ /\ connector.expired
        /\ \E code \in {"other"} \cup
             IF Works(connector.refresh) THEN {} ELSE {"access_revoked"} :
             connector' = RefreshFailed(connector, code)
        /\ UNCHANGED calls
  /\ UNCHANGED <<connection, oauth, channels, google>>

(* The provider answers.  Only the execution of a queued side effect        *)
(* records an authorisation failure on the connector; a read does not.      *)
AuthFailures(p) ==
  (IF Works(calls[p].token) THEN {} ELSE {"access_revoked", "token_expired"})
    \cup {"scope_missing"}
Use(p) ==
  /\ calls[p].pc = "using"
  /\ \/ UNCHANGED connector
     \/ \E code \in AuthFailures(p) : connector' = RefreshFailed(connector, code)
  /\ Stop(p)
  /\ UNCHANGED <<connection, oauth, channels, google>>

(* An access token runs out an hour after it was stored.  The code asks     *)
(* Google with a timeout of seconds, so a token stored since a refresh      *)
(* began has not run out when the answer comes.                             *)
TokenExpires ==
  /\ connector.access # None /\ ~connector.expired
  /\ \A p \in Runner : calls[p].pc = "refreshing" => calls[p].connection = connection
  /\ connector' = [connector EXCEPT !.expired = TRUE]
  /\ UNCHANGED <<connection, oauth, channels, google, calls>>

(* The user removes Ariel in the settings of the account. *)
UserRevokes(a) ==
  /\ google[a].live
  /\ google' = [google EXCEPT ![a].live = FALSE]
  /\ UNCHANGED <<connector, connection, oauth, channels, calls>>

-----------------------------------------------------------------------------
(* The push channels *)

ChannelNearsExpiry(r) ==
  /\ channels[r] = "active"
  /\ channels' = [channels EXCEPT ![r] = "due"]
  /\ UNCHANGED <<connector, connection, oauth, google, calls>>

RenewalDue ==
  /\ \E r \in Resource : channels[r] = "due"
  /\ connector.status = "connected"

(* process_provider_watch_renew_due: every channel is registered again, in  *)
(* the transaction that also refreshes the token.                           *)
RenewWatches ==
  /\ RenewalDue
  /\ \E t \in {connector.access, connector.refresh} :
       /\ TokenOutcome(connector, t)
       /\ connector' = IF connector.expired THEN RefreshStored(connector, t) ELSE connector
  /\ \E failing \in SUBSET Wanted(connector.scopes, connector.subject) :
       channels' = Registered(connector.scopes, connector.subject, failing)
  /\ UNCHANGED <<connection, oauth, google, calls>>

(* The token cannot be refreshed: that is recorded, with a note to the      *)
(* agent (an agent_wake row, see TaskQueue), in the same transaction.       *)
RenewalFailsForToken ==
  /\ RenewalDue /\ connector.expired
  /\ \E code \in {"other"} \cup IF Works(connector.refresh) THEN {} ELSE {"access_revoked"} :
       connector' = RefreshFailed(connector, code)
  /\ UNCHANGED <<connection, oauth, channels, google, calls>>

Next ==
  \/ \E s \in State :
       \/ StartOAuth(s) \/ StateExpires(s)
       \/ CallbackRejected(s) \/ ExchangeFails(s) \/ ExchangeIncomplete(s)
       \/ Connect(s)
       \/ \E a \in Account : UserConsents(s, a)
  \/ StartFails \/ Disconnect
  \/ \E p \in Runner :
       \/ \E sc \in Scope : BeginRefresh(p, sc) \/ SkipRefresh(p, sc)
                              \/ PrepareAccess(p, sc)
       \/ RefreshSucceeds(p) \/ RefreshFails(p) \/ TakeToken(p) \/ Use(p)
  \/ TokenExpires
  \/ \E a \in Account : UserRevokes(a)
  \/ \E r \in Resource : ChannelNearsExpiry(r)
  \/ RenewWatches \/ RenewalFailsForToken

Spec == Init /\ [][Next]_vars

-----------------------------------------------------------------------------
(* Properties *)

(* The types of the state, and what the status of the row promises to all   *)
(* that reads it: a connected row names its account and holds both tokens,  *)
(* a row that is not connected holds neither account nor scope nor token,   *)
(* and no push channel is left of it.  Callbacks that fail half way, late   *)
(* refreshes, renewals and the disconnection meet here.                     *)
Held(c) == c.access # None /\ c.refresh # None /\ c.subject # None
AccountSound ==
  /\ connector \in [status : Status, subject : Account \cup {None},
                    scopes : SUBSET Scope, access : Token \cup {None},
                    expired : BOOLEAN, refresh : Token \cup {None}, error : Code]
  /\ \A s \in State : oauth[s].phase \in {"none", "open", "consented", "consumed"}
  /\ \A r \in Resource : channels[r] \in ChannelStatus
  /\ connector.status = "connected" => Held(connector)
  /\ connector.status = "not_connected" =>
       /\ connector = [NotConnected EXCEPT !.error = connector.error]
       /\ \A r \in Resource : channels[r] = "none"
  /\ ~Held(connector) => \A r \in Resource : channels[r] = "none"

(* The account and the scopes of the row change only where the user takes   *)
(* them back or where a callback redeems a state that was open, in time and *)
(* consented to by that very account; and a state is redeemed once          *)
(* (complete_oauth_callback), whatever else refreshes, fails or is replayed *)
(* meanwhile.                                                               *)
Redeemed(s) ==
  /\ oauth[s].phase = "consented" /\ ~oauth[s].expired
  /\ oauth'[s].phase = "consumed"
  /\ connector'.subject = oauth[s].account /\ connector'.scopes = oauth[s].scopes
ConnectsOnlyByConsent ==
  [][/\ <<connector.subject, connector.scopes>>' # <<connector.subject, connector.scopes>>
         => connector' = NotConnected \/ \E s \in State : Redeemed(s)
     /\ \A s \in State : oauth[s].phase = "consumed" => oauth'[s] = oauth[s]]_vars

(* The answer to a refresh is stored only in the connection whose token was *)
(* sent: the user may have disconnected, or connected another account,      *)
(* while Google was asked (refresh_access_token_for_capability).            *)
RefreshStaysInItsConnection ==
  [][\A p \in Runner :
       calls[p].pc = "refreshing" /\ calls'[p].pc # "refreshing"
         /\ <<connector.access, connector.refresh, connector.expired>>'
              # <<connector.access, connector.refresh, connector.expired>>
       => calls[p].connection = connection]_vars

(* What only a new consent can repair stays visible until one is given: no  *)
(* refresh, provider answer or failed callback clears a blocking error.     *)
BlockingErrorsStick ==
  [][connector.error \in Blocking /\ connector'.error \notin Blocking
       => connection' # connection]_vars
=============================================================================
