---------------------------- MODULE DocumentStore ----------------------------
(***************************************************************************)
(* The document_meta table and everything that writes a row of it: the     *)
(* upload requests and confirmations of the HTTP API, the goroutine that   *)
(* sets the RAG mode behind a confirmation, and the metadata and sections  *)
(* written by an ingestion.  All but the first go through UpdateMetadata,  *)
(* which overwrites six columns at once, under a unique index on the file  *)
(* hash.  A worker and its stream (modules Worker and Ingest) are reduced  *)
(* to one attempt; the mode itself, which only reaches the cache, is in    *)
(* module Settings.                                                        *)
(***************************************************************************)
EXTENDS Integers, FiniteSets

CONSTANTS
    Docs,      \* documents, one for each upload request
    Hash,      \* the hash of each document's file
    Blank,     \* the empty string in the hash column
    Confirms,  \* calls of ConfirmUpload
    Attempts,  \* attempts at ingesting a document
    None       \* no attempt

ASSUME StoreAssumption ==
    /\ DOMAIN Hash = Docs
    /\ \A d \in Docs : Hash[d] # Blank
    /\ None \notin Attempts

VARIABLES
    \* The table
    row,         \* the documents that have a row
    hash,        \* the file_hash column
    toc,         \* the sections column: does it hold the document's sections
    status,      \* the status column
    \* Storage and queue
    uploaded,    \* the files in the bucket
    queue,       \* the number of tasks waiting for each document
    \* ConfirmUpload
    confirmAt, confirmDoc,
    infoStatus,  \* the status read by the call
    \* the goroutine of each ConfirmUpload, with its copy of the row
    setterAt, copyHash, copyToc,
    \* Ingestion
    attemptAt, attemptDoc,
    crowded,     \* attempts during which a goroutine or another attempt was at
                 \* work on the same document
    owner        \* the attempt that stored chunks of each document

columns   == <<hash, toc, status>>
table     == <<row, columns>>
confirms  == <<confirmAt, confirmDoc, infoStatus>>
setters   == <<setterAt, copyHash, copyToc>>
ingestion == <<attemptAt, attemptDoc, crowded, owner>>
storeVars == <<table, uploaded, queue, confirms, setters, ingestion>>

Hashes   == {Hash[d] : d \in Docs} \cup {Blank}
Statuses == {"processing", "completed", "failed"}

TypeOK ==
    /\ row \subseteq Docs
    /\ hash \in [Docs -> Hashes]
    /\ toc \in [Docs -> BOOLEAN]
    /\ status \in [Docs -> Statuses]
    /\ uploaded \subseteq row
    /\ queue \in [Docs -> Nat]
    /\ confirmAt \in [Confirms -> {"idle", "read", "check", "push", "accepted", "refused"}]
    /\ confirmDoc \in [Confirms -> Docs]
    /\ infoStatus \in [Confirms -> Statuses]
    /\ setterAt \in [Confirms -> {"off", "read", "write", "ended", "failed"}]
    /\ copyHash \in [Confirms -> Hashes]
    /\ copyToc \in [Confirms -> BOOLEAN]
    /\ attemptAt \in [Attempts ->
          {"idle", "metadata", "chunks", "save", "completed", "bare", "failed"}]
    /\ attemptDoc \in [Attempts -> Docs]
    /\ crowded \subseteq Attempts
    /\ owner \in [Docs -> Attempts \cup {None}]

Init ==
    /\ row = {}
    /\ hash = [d \in Docs |-> Blank]
    /\ toc = [d \in Docs |-> FALSE]
    /\ status = [d \in Docs |-> "processing"]
    /\ uploaded = {}
    /\ queue = [d \in Docs |-> 0]
    /\ confirmAt = [c \in Confirms |-> "idle"]
    /\ confirmDoc \in [Confirms -> Docs]
    /\ infoStatus = [c \in Confirms |-> "processing"]
    /\ setterAt = [c \in Confirms |-> "off"]
    /\ copyHash = [c \in Confirms |-> Blank]
    /\ copyToc = [c \in Confirms |-> FALSE]
    /\ attemptAt = [a \in Attempts |-> "idle"]
    /\ attemptDoc \in [Attempts -> Docs]
    /\ crowded = {}
    /\ owner = [d \in Docs |-> None]

-----------------------------------------------------------------------------
(* The table *)

\* Mutant: the index leaves blank hashes out.
TakenByContent(d, h) == h # Blank /\ \E e \in row \ {d} : hash[e] = h
Taken(d, h) == \E e \in row \ {d} : hash[e] = h

(* UpdateMetadata writes the hash and the sections (and four columns that   *)
(* are never read), never the status or the RAG mode.                       *)
UpdateMetadata(d, h, t) ==
    /\ ~Taken(d, h)
    /\ hash' = [hash EXCEPT ![d] = h]
    /\ toc' = [toc EXCEPT ![d] = t]
    /\ UNCHANGED <<row, status>>

-----------------------------------------------------------------------------
(* Upload *)

(* RequestUpload inserts a row without a hash; another such row makes it    *)
(* fail.                                                                    *)
RequestUpload(d) ==
    /\ d \notin row
    /\ ~Taken(d, Blank)
    /\ row' = row \cup {d}
    /\ UNCHANGED <<columns, uploaded, queue, confirms, setters, ingestion>>

(* The client posts the file to the bucket. *)
UploadFile(d) ==
    /\ d \in row \ uploaded
    /\ uploaded' = uploaded \cup {d}
    /\ UNCHANGED <<table, queue, confirms, setters, ingestion>>

-----------------------------------------------------------------------------
(* ConfirmUpload and the goroutine it starts *)

AtWork(d) ==
    \/ \E c \in Confirms : confirmDoc[c] = d /\ setterAt[c] \in {"read", "write"}
    \/ \E a \in Attempts :
          attemptDoc[a] = d /\ attemptAt[a] \in {"metadata", "chunks", "save"}

Busy(d) == {a \in Attempts : attemptDoc[a] = d /\ attemptAt[a] \in {"metadata", "chunks", "save"}}

(* The handler has found the document; the goroutine starts beside the call. *)
ConfirmUpload(c) ==
    /\ confirmAt[c] = "idle"
    /\ confirmDoc[c] \in row
    /\ confirmAt' = [confirmAt EXCEPT ![c] = "read"]
    /\ setterAt' = [setterAt EXCEPT ![c] = "read"]
    /\ crowded' = crowded \cup Busy(confirmDoc[c])
    /\ UNCHANGED <<table, uploaded, queue, confirmDoc, infoStatus, copyHash,
                   copyToc, attemptAt, attemptDoc, owner>>

ReadInfo(c) ==
    /\ confirmAt[c] = "read"
    /\ confirmAt' = [confirmAt EXCEPT ![c] = "check"]
    /\ infoStatus' = [infoStatus EXCEPT ![c] = status[confirmDoc[c]]]
    /\ UNCHANGED <<table, uploaded, queue, confirmDoc, setters, ingestion>>

(* The file must be there and the document be in processing. *)
CheckInfo(c) ==
    /\ confirmAt[c] = "check"
    /\ confirmAt' = [confirmAt EXCEPT ![c] =
          IF confirmDoc[c] \in uploaded /\ infoStatus[c] = "processing"
          THEN "push" ELSE "refused"]
    /\ UNCHANGED <<table, uploaded, queue, confirmDoc, infoStatus, setters,
                   ingestion>>

PushTask(c) ==
    /\ confirmAt[c] = "push"
    /\ confirmAt' = [confirmAt EXCEPT ![c] = "accepted"]
    /\ queue' = [queue EXCEPT ![confirmDoc[c]] = @ + 1]
    /\ UNCHANGED <<table, uploaded, confirmDoc, infoStatus, setters, ingestion>>

(* The database, the bucket or Redis fails: the call is refused, its        *)
(* goroutine goes on.                                                       *)
ConfirmFails(c) ==
    /\ confirmAt[c] \in {"read", "check", "push"}
    /\ confirmAt' = [confirmAt EXCEPT ![c] = "refused"]
    /\ UNCHANGED <<table, uploaded, queue, confirmDoc, infoStatus, setters,
                   ingestion>>

(* SetRagMode reads the whole row, ... *)
ReadRow(c) ==
    /\ setterAt[c] = "read"
    /\ setterAt' = [setterAt EXCEPT ![c] = "write"]
    /\ copyHash' = [copyHash EXCEPT ![c] = hash[confirmDoc[c]]]
    /\ copyToc' = [copyToc EXCEPT ![c] = toc[confirmDoc[c]]]
    /\ UNCHANGED <<table, uploaded, queue, confirms, ingestion>>

\* Mutant: it writes a row with nothing but the hash filled in.
WriteRowAfresh(c) ==
    /\ setterAt[c] = "write"
    /\ setterAt' = [setterAt EXCEPT ![c] = "ended"]
    /\ UpdateMetadata(confirmDoc[c], copyHash[c], FALSE)
    /\ UNCHANGED <<uploaded, queue, confirms, copyHash, copyToc, ingestion>>

(* ... and writes its copy back, changed in a column UpdateMetadata leaves  *)
(* out.                                                                     *)
WriteRow(c) ==
    /\ setterAt[c] = "write"
    /\ setterAt' = [setterAt EXCEPT ![c] = "ended"]
    /\ UpdateMetadata(confirmDoc[c], copyHash[c], copyToc[c])
    /\ UNCHANGED <<uploaded, queue, confirms, copyHash, copyToc, ingestion>>

(* The database fails, or another row has the hash of the copy. *)
SetterFails(c) ==
    /\ setterAt[c] \in {"read", "write"}
    /\ setterAt' = [setterAt EXCEPT ![c] = "failed"]
    /\ UNCHANGED <<table, uploaded, queue, confirms, copyHash, copyToc, ingestion>>

-----------------------------------------------------------------------------
(* Ingestion *)

(* A worker takes a task and opens a stream. *)
Begin(a) ==
    /\ attemptAt[a] = "idle"
    /\ queue[attemptDoc[a]] > 0
    /\ queue' = [queue EXCEPT ![attemptDoc[a]] = @ - 1]
    /\ attemptAt' = [attemptAt EXCEPT ![a] = "metadata"]
    /\ crowded' = crowded \cup Busy(attemptDoc[a])
                     \cup (IF AtWork(attemptDoc[a]) THEN {a} ELSE {})
    /\ UNCHANGED <<table, uploaded, confirms, setters, attemptDoc, owner>>

(* ProcessDocumentMetadata *)
WriteMetadata(a) ==
    /\ attemptAt[a] = "metadata"
    /\ attemptAt' = [attemptAt EXCEPT ![a] = "chunks"]
    /\ UpdateMetadata(attemptDoc[a], Hash[attemptDoc[a]], FALSE)
    /\ UNCHANGED <<uploaded, queue, confirms, setters, attemptDoc, crowded, owner>>

(* All chunks are stored; one that another attempt has stored fails the     *)
(* attempt.                                                                 *)
StoreChunks(a) ==
    /\ attemptAt[a] = "chunks"
    /\ owner[attemptDoc[a]] = None
    /\ owner' = [owner EXCEPT ![attemptDoc[a]] = a]
    /\ attemptAt' = [attemptAt EXCEPT ![a] = "save"]
    /\ UNCHANGED <<table, uploaded, queue, confirms, setters, attemptDoc, crowded>>

(* UpdateSections blanks the hash again. *)
UpdateSections(a) ==
    /\ attemptAt[a] = "save"
    /\ attemptAt' = [attemptAt EXCEPT ![a] = "completed"]
    /\ UpdateMetadata(attemptDoc[a], Blank, TRUE)
    /\ UNCHANGED <<uploaded, queue, confirms, setters, attemptDoc, crowded, owner>>

(* Its error is logged and the document is completed all the same. *)
UpdateSectionsFails(a) ==
    /\ attemptAt[a] = "save"
    /\ Taken(attemptDoc[a], Blank)
    /\ attemptAt' = [attemptAt EXCEPT ![a] = "bare"]
    /\ UNCHANGED <<table, uploaded, queue, confirms, setters, attemptDoc, crowded,
                   owner>>

(* The metadata are refused because another row has the hash, or something  *)
(* fails before the end of the stream, with some chunks stored or none; the *)
(* worker queues the task again or gives it up.                             *)
AttemptFails(a) ==
    /\ attemptAt[a] \in {"metadata", "chunks"}
    /\ attemptAt' = [attemptAt EXCEPT ![a] = "failed"]
    /\ \/ UNCHANGED owner
       \/ /\ attemptAt[a] = "chunks"
          /\ owner[attemptDoc[a]] = None
          /\ owner' = [owner EXCEPT ![attemptDoc[a]] = a]
    /\ \/ queue' = [queue EXCEPT ![attemptDoc[a]] = @ + 1]
       \/ UNCHANGED queue
    /\ UNCHANGED <<table, uploaded, confirms, setters, attemptDoc, crowded>>

-----------------------------------------------------------------------------
Next ==
    \/ \E d \in Docs : RequestUpload(d) \/ UploadFile(d)
    \/ \E c \in Confirms :
          \/ ConfirmUpload(c) \/ ReadInfo(c) \/ CheckInfo(c) \/ PushTask(c) \/ ConfirmFails(c)
          \/ ReadRow(c) \/ WriteRow(c) \/ SetterFails(c)
    \/ \E a \in Attempts :
          \/ Begin(a) \/ WriteMetadata(a) \/ StoreChunks(a) \/ UpdateSections(a)
          \/ UpdateSectionsFails(a) \/ AttemptFails(a)

Spec == Init /\ [][Next]_storeVars

-----------------------------------------------------------------------------
(* Properties *)

Of(d) == {a \in Attempts : attemptDoc[a] = d}
Completed(d) == \E a \in Of(d) : attemptAt[a] \in {"completed", "bare"}

(* An attempt at d whose sections were saved, that nothing else worked on d *)
(* beside it, and that no other attempt followed.                           *)
CleanlySaved(a) ==
    /\ attemptAt[a] = "completed"
    /\ a \notin crowded
    /\ \A b \in Of(attemptDoc[a]) \ {a} : attemptAt[b] \in {"idle", "metadata"}

(* The sections of a document that was ingested alone stay in its row,      *)
(* however many confirmations rewrite the row from copies afterwards.       *)
TableOfContentsKept ==
    \A a \in Attempts : CleanlySaved(a) => toc[attemptDoc[a]]

(* What the hash is for: of two documents with the same contents one at     *)
(* most is ever ingested.  The content hash is gone from the row of a       *)
(* completed document, so it is the two blank rows, never both there, that  *)
(* keep the second away.                                                    *)
OneOfEachContent ==
    \A d, e \in Docs : Completed(d) /\ Completed(e) /\ Hash[d] = Hash[e] => d = e

(* grpc_chunk.go:103, the sections are updated in the database: a completed *)
(* document that was ingested alone has them.                               *)
SectionsSaved ==
    \A a \in Attempts : attemptAt[a] = "bare" /\ a \notin crowded => toc[attemptDoc[a]]
=============================================================================
