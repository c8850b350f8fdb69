--------------------------- MODULE ProviderEvidence ---------------------------
(***************************************************************************)
(* What Ariel keeps of a mail, a thread, an event or a proposal of slots   *)
(* (provider_evidence_lifecycle.py and its callers): the object, a row of  *)
(* evidence for each content it was seen with, named by the digest of the  *)
(* content, and the blocks of text under a row.  The agent is given        *)
(* references to rows, in the outputs of its reads and in the wakes of the *)
(* sync, and reads the blocks by them later, in this turn or another.      *)
(*                                                                         *)
(* No operation looks beyond the rows of its object, so one object is      *)
(* modelled, of any kind.  Sync and turns run in the one worker, each with *)
(* what it has just fetched, so what is stored is what was fetched last.   *)
(***************************************************************************)
EXTENDS FiniteSets

CONSTANTS
  Content,    \* digests of contents the object may have
  Textless,   \* those with nothing to read, as an event without description
  Raw,        \* digest of a message as the history lists it, without its body
  Cancelled   \* digest of an event's cancellation

Kind == {"message", "thread", "event", "slots"}
Digest == Content \cup {Raw, Cancelled}

VARIABLES
  kind,      \* the kind of the object
  source,    \* what the provider holds: a content, or "gone"
  object,    \* GoogleProviderObjectRecord.status, "none" without a row
  rows,      \* ProviderEvidenceRecord.lifecycle_state by digest
  blocks,    \* the rows with ProviderEvidenceBlockRecords
  latest,    \* what a read of the object that succeeded found last
  refs,      \* the rows the agent has references to
  shown      \* the last answer of provider_evidence.read

evidence == <<kind, source, object, rows, blocks, latest, refs, shown>>

Silence == [status |-> "none", digest |-> Raw]

Init ==
  /\ kind \in Kind
  /\ source \in Content
  /\ object = "none"
  /\ rows = [d \in Digest |-> "none"]
  /\ blocks = {}
  /\ latest = "none"
  /\ refs = {}
  /\ shown = Silence

Is(d, state) == rows[d] = state
Readable(d) == d \in Content \ Textless

-----------------------------------------------------------------------------
(* What becomes of the rows. *)

(* Mutant: an older content stays available beside the new one. *)
SupersededNone(d) == rows
(* A content takes the place of the one that was available. *)
Superseded(d) ==
  [e \in Digest |-> IF e # d /\ Is(e, "available") THEN "superseded" ELSE rows[e]]

(* ensure_provider_evidence_blocks: a row that has blocks keeps them. *)
KeepBlocks(d) == blocks' = IF Readable(d) THEN blocks \cup {d} ELSE blocks

(* A reference is to the row that was stored. *)
Refer(d, referred) ==
  refs' = IF referred /\ ~Is(d, "redacted") THEN refs \cup {d} ELSE refs

(* record_available_evidence and restore_observed_evidence: a redacted row *)
(* stays as it is, and so do its neighbours; any other becomes the one     *)
(* that is available.                                                      *)
RecordAvailable(d, referred) ==
  /\ Refer(d, referred)
  /\ \/ /\ Is(d, "redacted")
        /\ UNCHANGED <<rows, blocks>>
     \/ /\ ~Is(d, "redacted")
        /\ rows' = [Superseded(d) EXCEPT ![d] = "available"]
        /\ KeepBlocks(d)

(* record_unavailable_evidence, for a read that brought no text: the other *)
(* contents stay what they are, and no reference is given.                 *)
RecordUnavailable(d) ==
  /\ rows' = [rows EXCEPT ![d] = IF @ = "redacted" THEN @ ELSE "unavailable"]
  /\ UNCHANGED <<blocks, refs>>

(* mark_provider_object_evidence_deleted. *)
AllDeleted ==
  [e \in Digest |-> IF rows[e] \in {"none", "redacted"} THEN rows[e] ELSE "deleted"]

(* record_deleted_evidence: the other rows, and one for the cancellation,  *)
(* which has no text.                                                      *)
RecordDeleted(d, referred) ==
  /\ rows' = [AllDeleted EXCEPT ![d] = IF @ = "redacted" THEN @ ELSE "deleted"]
  /\ Refer(d, referred)
  /\ UNCHANGED blocks

-----------------------------------------------------------------------------
(* The sync. *)

(* _sync_gmail_history, for any change but a deletion.  The read the sync  *)
(* made of the message may have failed, or the message may be gone by now: *)
(* such a read has no digest of the body (is_typed_google_read_output), so *)
(* the row is named by what the history lists.                             *)
SyncMessage ==
  /\ kind = "message"
  /\ source = "gone" => object # "deleted"
  /\ object' = "active"
  /\ \/ /\ source # "gone"
        /\ latest' = source
        /\ RecordAvailable(source, TRUE)
     \/ RecordUnavailable(Raw) /\ UNCHANGED latest
  /\ UNCHANGED <<kind, source, shown>>

(* The same, for messagesDeleted. *)
SyncDeletion ==
  /\ kind = "message"
  /\ source = "gone"
  /\ object' = "deleted"
  /\ latest' = "gone"
  /\ rows' = AllDeleted
  /\ UNCHANGED <<kind, source, blocks, refs, shown>>

(* An item of a calendar as it is now, from a sync or from the agent. *)
StoreEvent(referred) ==
  /\ latest' = source
  /\ \/ /\ source = "gone"
        /\ object' = "deleted"
        /\ RecordDeleted(Cancelled, referred)
     \/ /\ source # "gone"
        /\ object' = "active"
        /\ RecordAvailable(source, referred)

(* _sync_calendar_item *)
SyncEvent ==
  /\ kind = "event"
  /\ StoreEvent(FALSE)
  /\ UNCHANGED <<kind, source, shown>>

-----------------------------------------------------------------------------
(* _persist_google_provider_evidence, by the capability of the read. *)

(* cap.email.read of a message.  Without text the object is noted and no   *)
(* row; a message that is gone is not a read that is stored.               *)
ReadMessage ==
  /\ kind = "message"
  /\ source # "gone"
  /\ object' = "active"
  /\ \/ RecordAvailable(source, TRUE) /\ latest' = source
     \/ UNCHANGED <<rows, blocks, refs, latest>>
  /\ UNCHANGED <<kind, source, shown>>

(* cap.email.read of a thread.  A read without text has no digest, and no  *)
(* row is named by it: the object is noted, and that is all.               *)
ReadThread ==
  /\ kind = "thread"
  /\ source # "gone"
  /\ object' = "active"
  /\ \/ RecordAvailable(source, TRUE) /\ latest' = source
     \/ UNCHANGED <<rows, blocks, refs, latest>>
  /\ UNCHANGED <<kind, source, shown>>

(* cap.calendar.list *)
ListEvent ==
  /\ kind = "event"
  /\ StoreEvent(TRUE)
  /\ UNCHANGED <<kind, source, shown>>

(* cap.calendar.propose_slots: an object of its own for each answer, so    *)
(* its content never changes.                                              *)
ProposeSlots ==
  /\ kind = "slots"
  /\ object' = "active"
  /\ latest' = source
  /\ RecordAvailable(source, TRUE)
  /\ UNCHANGED <<kind, source, shown>>

(* Only an available row is read. *)
Serves(d) == Is(d, "available")

(* cap.provider_evidence.read: text of an available row, an error when it  *)
(* has none, and "unavailable" with the state of any other.                *)
ReadByReference(d) ==
  /\ d \in refs
  /\ shown' = [digest |-> d,
               status |-> IF ~Serves(d) THEN "unavailable"
                          ELSE IF d \in blocks THEN "ok" ELSE "failed"]
  /\ UNCHANGED <<kind, source, object, rows, blocks, latest, refs>>

-----------------------------------------------------------------------------
(* The user edits, deletes or restores the original. *)
SourceChanges ==
  /\ \E s \in (IF kind \in {"event", "thread"} THEN Content ELSE {}) \cup {"gone"} :
       source' = s
  /\ kind # "slots"
  /\ UNCHANGED <<kind, object, rows, blocks, latest, refs, shown>>

(* An operator redacts a row; nothing in the program does. *)
Redact(d) ==
  /\ rows[d] \notin {"none", "redacted"}
  /\ rows' = [rows EXCEPT ![d] = "redacted"]
  /\ UNCHANGED <<kind, source, object, blocks, latest, refs, shown>>

Next ==
  \/ SyncMessage \/ SyncDeletion \/ SyncEvent
  \/ ReadMessage \/ ReadThread \/ ListEvent \/ ProposeSlots
  \/ \E d \in Digest : ReadByReference(d) \/ Redact(d)
  \/ SourceChanges

Spec == Init /\ [][Next]_evidence

-----------------------------------------------------------------------------
(* The text at hand is that of the last content a read or a sync found; a  *)
(* redacted one leaves the text that was there before it.                  *)
IsCurrent(d) == latest \in Digest /\ (d = latest \/ Is(latest, "redacted"))

(* One content is available at a time, none once the deletion was seen,    *)
(* and it is the one that was read last, unless that one is redacted; a    *)
(* reference is to a row that exists.                                      *)
OneCurrentContent ==
  /\ \A d, e \in Digest : Is(d, "available") /\ Is(e, "available") => d = e
  /\ object = "deleted" => \A d \in Digest : ~Is(d, "available")
  /\ \A d \in Digest : Is(d, "available") => IsCurrent(d)
  /\ \A d \in refs : ~Is(d, "none")

(* A reference may be old: what is read by it is shown only while it is    *)
(* the content the provider was last seen to hold, never once a newer one  *)
(* or the deletion was seen, however many reads failed in between.  A      *)
(* redaction is final, whatever the sync and the agent read again, and     *)
(* every step leaves one current content.                                  *)
EvidenceIsCurrent ==
  [][/\ OneCurrentContent'
     /\ \A d \in Digest : Is(d, "redacted") => rows'[d] = "redacted"
     /\ shown' # shown /\ shown'.status = "ok" =>
          object # "deleted" /\ IsCurrent(shown'.digest)]_evidence

=============================================================================
