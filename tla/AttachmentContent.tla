--------------------------- MODULE AttachmentContent ---------------------------
(***************************************************************************)
(* Reading an attachment (attachment_content.py): the handle a turn was    *)
(* given, the download, the content-addressed store on disk, its rows in   *)
(* the database and the cache of extractions.                              *)
(*                                                                         *)
(* The rows of a read are committed with the program that asked for it or  *)
(* rolled back with it; the file it wrote stays.  A worker that dies while *)
(* it writes leaves the beginning of a file, and nothing rewrites a file   *)
(* that exists.                                                            *)
(***************************************************************************)
EXTENDS FiniteSets

CONSTANTS
  Attachment,   \* (turn, attachment_ref) pairs with an AttachmentSourceRecord
  Bytes,        \* Bytes[a]: the content behind its download URL
  Declared,     \* Declared[a]: the content type Discord declares
  Magic,        \* Magic[c]: what the first bytes of a content say, "text", or
                \*   "none"
  Oversized,    \* attachments declared or found larger than max_bytes
  Infected,     \* contents with the test signature
  FailClosed,   \* scanner_mode = "fail_closed"
  Intent        \* what a read may be for

Content == {Bytes[a] : a \in Attachment}

(* A file in the store or the bytes of a read: which content, and whether  *)
(* all of it.                                                              *)
Whole(c) == [content |-> c, cut |-> FALSE]
Cut(c) == [content |-> c, cut |-> TRUE]

VARIABLES
  fresh,        \* handles whose acquisition URL has not expired
  file,         \* the files of the blob store, named by the hash of a content
  blob,         \* the contents with an AttachmentBlobRecord
  linked,       \* attachments whose source has a blob_id
  extraction,   \* the succeeded AttachmentExtractionRecords
  output        \* what the last read returned

attachments == <<fresh, file, blob, linked, extraction, output>>

Failed(status) == [status |-> status, blocks |-> {}]

Init ==
  /\ fresh = Attachment
  /\ file = {}
  /\ blob = {}
  /\ linked = {}
  /\ extraction = {}
  /\ output = {}

Stored(c) == {f \in file : f.content = c}

(* _sniff_mime_type and _modality_for_mime_type: known first bytes, then   *)
(* the declared type, then whether it decodes as text.                     *)
Modality(a) ==
  LET magic == Magic[Bytes[a]] IN
  CASE magic \in {"document", "image"} -> magic
    [] magic \in {"text", "none"} /\ Declared[a] \in {"audio", "text"} -> Declared[a]
    [] magic = "text" -> "text"
    [] OTHER -> "unknown"

(* The bytes of an attachment that was read before, from the store. *)
Cached(a) == IF a \in linked /\ Bytes[a] \in blob THEN Stored(Bytes[a]) ELSE {}

(* What _extract_attachment makes of bytes: text and simple documents are  *)
(* read here, the rest by a model that may fail; the blocks are of these   *)
(* bytes, read for this intent.                                            *)
Extracted(bytes, modality, intent) ==
  {[bytes |-> bytes, modality |-> modality, intent |-> intent]}
Outcomes(modality) ==
  IF modality = "text" THEN {"ok", "extract_failed"}
  ELSE {"ok", "extract_failed", "provider_unavailable", "provider_timeout"}

-----------------------------------------------------------------------------
(* Mutant: a succeeded extraction of any modality of any content will do. *)
SameModality(c, modality) == {e \in extraction : e.modality = modality}
(* The extraction cache does not ask what the read is for. *)
Extractions(c, modality) ==
  {e \in extraction : e.bytes.content = c /\ e.modality = modality}

(* The extraction of a read that has its bytes. *)
Extract(a, bytes, intent) ==
  LET cached == Extractions(Bytes[a], Modality(a)) IN
  \/ \E e \in cached :
       /\ output' = {[of |-> a, status |-> "ok", blocks |-> {e}]}
       /\ UNCHANGED extraction
  \/ /\ cached = {}
     /\ \E status \in Outcomes(Modality(a)) :
          LET blocks == Extracted(bytes, Modality(a), intent) IN
          \/ /\ status = "ok"
             /\ extraction' = extraction \cup blocks
             /\ output' = {[of |-> a, status |-> "ok", blocks |-> blocks]}
          \/ /\ status # "ok"
             /\ output' = {Failed(status)}
             /\ UNCHANGED extraction

(* A read of bytes that are in the store already: no scan, no download.    *)
(* Of a file cut to nothing only a declared type would be left.            *)
ReadStored(a, intent) ==
  /\ \E bytes \in Cached(a) :
       \/ Extract(a, bytes, intent)
       \/ /\ bytes.cut /\ Declared[a] = "none"
          /\ output' = {Failed("unsupported_type")}
          /\ UNCHANGED extraction
  /\ UNCHANGED <<fresh, file, blob, linked>>

(* Why a download is refused or fails before there are bytes. *)
Unavailable(a) ==
  IF a \in Oversized THEN {"too_large"}
  ELSE IF a \notin fresh THEN {"expired"}
  ELSE {"unavailable", "expired", "provider_timeout"}

ReadFails(a) ==
  /\ Cached(a) = {}
  /\ \E status \in Unavailable(a) : output' = {Failed(status)}
  /\ UNCHANGED <<fresh, file, blob, linked, extraction>>

Downloads(a) == Cached(a) = {} /\ a \in fresh \ Oversized

(* The checks of downloaded bytes, in the order of the code. *)
Refused(a) ==
  IF Modality(a) = "unknown" THEN {"unsupported_type"}
  ELSE IF Bytes[a] \in Infected THEN {"unsafe"}
  ELSE IF FailClosed THEN {"scan_failed"}
  ELSE {}

ReadRefused(a) ==
  /\ Downloads(a)
  /\ \E status \in Refused(a) : output' = {Failed(status)}
  /\ UNCHANGED <<fresh, file, blob, linked, extraction>>

(* The file is written unless there is one. *)
Write(c) == IF Stored(c) = {} THEN file \cup {Whole(c)} ELSE file

(* A read that downloads: the content is stored under its hash, shared by  *)
(* all attachments with these bytes, and extracted from memory.            *)
ReadDownloaded(a, intent) ==
  /\ Downloads(a)
  /\ Refused(a) = {}
  /\ file' = Write(Bytes[a])
  /\ blob' = blob \cup {Bytes[a]}
  /\ linked' = linked \cup {a}
  /\ Extract(a, Whole(Bytes[a]), intent)
  /\ UNCHANGED fresh

(* The program that asked fails, or the worker dies, after the file was    *)
(* written: the rows are rolled back.                                      *)
RolledBack(a) ==
  /\ Downloads(a)
  /\ Refused(a) = {}
  /\ file' = Write(Bytes[a])
  /\ UNCHANGED <<fresh, blob, linked, extraction, output>>

(* The worker dies while it writes the file. *)
DiesWriting(a) ==
  /\ Downloads(a)
  /\ Refused(a) = {}
  /\ Stored(Bytes[a]) = {}
  /\ file' = file \cup {Cut(Bytes[a])}
  /\ UNCHANGED <<fresh, blob, linked, extraction, output>>

(* A file of the store is lost; the next read downloads again if it can. *)
FileLost ==
  /\ \E f \in file : file' = file \ {f}
  /\ UNCHANGED <<fresh, blob, linked, extraction, output>>

(* The acquisition URL of a handle expires. *)
Expire(a) ==
  /\ a \in fresh
  /\ fresh' = fresh \ {a}
  /\ UNCHANGED <<file, blob, linked, extraction, output>>

Next ==
  \/ \E a \in Attachment :
       \/ \E intent \in Intent : ReadStored(a, intent) \/ ReadDownloaded(a, intent)
       \/ ReadFails(a)
       \/ ReadRefused(a)
       \/ RolledBack(a)
       \/ DiesWriting(a)
       \/ Expire(a)
  \/ FileLost

Spec == Init /\ [][Next]_attachments

-----------------------------------------------------------------------------
(* The rows hang together: one file of each hash, a link has its blob, and *)
(* extractions are of stored contents.                                     *)
TypeOK ==
  /\ fresh \subseteq Attachment
  /\ linked \subseteq Attachment
  /\ blob \subseteq Content
  /\ \A f, g \in file : f.content = g.content => f = g
  /\ \A a \in linked : Bytes[a] \in blob
  /\ \A e \in extraction : e.bytes.content \in blob

(* A read that succeeds shows its own attachment's content, in the         *)
(* modality its own type calls for, and only a content that passed the     *)
(* scan, also when the bytes came from the store, the blob from another    *)
(* attachment and the blocks from the cache.                               *)
OwnContentOnly ==
  \A o \in output : o.status = "ok" =>
    /\ o.of \in linked
    /\ \A e \in o.blocks : /\ e.bytes.content = Bytes[o.of]
                           /\ e.modality = Modality(o.of)
    /\ Bytes[o.of] \notin Infected
    /\ ~FailClosed

(* "Store bytes in a configured content-addressed blob store keyed by      *)
(* hash": what is read under a hash has that hash.  A file cut short by a  *)
(* crash is never rewritten, and is read.                                  *)
KeyedByHash == \A o \in output : \A e \in o.blocks : ~e.bytes.cut

=============================================================================
