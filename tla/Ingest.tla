------------------------------- MODULE Ingest -------------------------------
(***************************************************************************)
(* The Go ingest service: the IngestDocument handler of                    *)
(* platform/grpc/servers/grpc_chunk.go with the ChunkService and the part  *)
(* of the DocumentService it calls.  Every gRPC stream runs a handler of   *)
(* its own; the handlers share the in-memory contexts of the documents,    *)
(* the chunk table, the document rows and the chat tree.  A handler is cut *)
(* into the steps between which another handler, a broken connection or a  *)
(* crash of the service can come.                                          *)
(***************************************************************************)
EXTENDS Integers, Sequences, FiniteSets

CONSTANTS
    Docs,           \* documents
    Streams,        \* calls of IngestDocument, never reused
    N,              \* chunks of a document, estimated_chunks
    Chapter,        \* the chapter of each chunk
    NoChapter,      \* the empty chapter, never a section
    Skippable,      \* chunks whose embedding may fail: the generator skips them
    ProgressEvery,  \* a progress event every so many chunks, 10 in the code
    MaxFaults,      \* bound: database, publish and connection errors, crashes
    None            \* no stream

ASSUME IngestAssumption ==
    /\ N \in Nat
    /\ DOMAIN Chapter = 1..N
    /\ Skippable \subseteq 1..N
    /\ ProgressEvery \in Nat \ {0}
    /\ MaxFaults \in Nat
    /\ None \notin Streams

VARIABLES
    at,        \* the place of each stream's handler
    docOf,     \* the document each stream is for
    next,      \* the next chunk the caller will send on the stream
    received,  \* chunksReceived
    failed,    \* chunksFailed; chunksStored is the rest
    skipped,   \* chunks the caller left out
    seen,      \* the text the handler made its summary from
    secs,      \* the handler's copy of the sections
    up,        \* the caller still listens
    told,      \* what the caller was told
    rows,      \* the chunk table: which stream stored chunk i of document d
    text,      \* docContexts: the pieces of text gathered, 0 for the filename
    sections,  \* docContexts: the sections gathered
    saved,     \* the sections column of each document
    root,      \* the root column: the stream whose summary it points to
    nodes,     \* chat nodes without a parent: the streams that wrote one
    events,    \* what each stream has published, in order
    faults     \* faults so far

counts  == <<next, received, failed, skipped>>
copies  == <<seen, secs>>
caller  == <<up, told>>
context == <<text, sections>>
tables  == <<rows, saved, root, nodes>>
ingestVars == <<at, docOf, counts, copies, caller, context, tables, events, faults>>

Chapters == {Chapter[i] : i \in 1..N}

(* The handler's places.  "start" to "tick" receive; "summary" to "root"    *)
(* are GenerateDocumentSummary; "over" is returned.                         *)
Receiving == {"start", "describe", "announce", "recv", "insert", "tick"}
Complete  == {"summary", "llm", "root", "noSummary", "sections", "save", "complete",
              "cleanup"}
Live      == Receiving \cup Complete \cup {"refuse", "reply"}

EventTypes == {"processing", "progress", "completed_without_summary",
               "completed", "failed"}

TypeOK ==
    /\ at \in [Streams -> Live \cup {"idle", "over"}]
    /\ docOf \in [Streams -> Docs]
    /\ next \in [Streams -> 1..N+1]
    /\ received \in [Streams -> 0..N]
    /\ failed \in [Streams -> 0..N]
    /\ \A s \in Streams :
          /\ failed[s] <= received[s] /\ received[s] <= next[s]
          /\ at[s] \in {"idle", "start", "describe", "announce", "recv", "tick"}
               => received[s] < next[s]
          /\ at[s] = "insert" => failed[s] < received[s] /\ next[s] <= N
    /\ skipped \in [Streams -> SUBSET Skippable]
    /\ seen \in [Streams -> SUBSET (0..N)]
    /\ secs \in [Streams -> Seq(Chapters)]
    /\ up \in [Streams -> BOOLEAN]
    /\ told \in [Streams -> {"none", "ok", "failed", "error"}]
    /\ rows \in [Docs -> [1..N -> Streams \cup {None}]]
    /\ text \in [Docs -> SUBSET (0..N)]
    /\ sections \in [Docs -> Seq(Chapters)]
    /\ saved \in [Docs -> Seq(Chapters)]
    /\ root \in [Docs -> Streams \cup {None}]
    /\ nodes \in [Docs -> SUBSET Streams]
    /\ events \in [Streams -> Seq(EventTypes)]
    /\ faults \in 0..MaxFaults

Init ==
    /\ at = [s \in Streams |-> "idle"]
    /\ docOf \in [Streams -> Docs]
    /\ next = [s \in Streams |-> 1]
    /\ received = [s \in Streams |-> 0]
    /\ failed = [s \in Streams |-> 0]
    /\ skipped = [s \in Streams |-> {}]
    /\ seen = [s \in Streams |-> {}]
    /\ secs = [s \in Streams |-> <<>>]
    /\ up = [s \in Streams |-> FALSE]
    /\ told = [s \in Streams |-> "none"]
    /\ rows = [d \in Docs |-> [i \in 1..N |-> None]]
    /\ text = [d \in Docs |-> {}]
    /\ sections = [d \in Docs |-> <<>>]
    /\ saved = [d \in Docs |-> <<>>]
    /\ root = [d \in Docs |-> None]
    /\ nodes = [d \in Docs |-> {}]
    /\ events = [s \in Streams |-> <<>>]
    /\ faults = 0

-----------------------------------------------------------------------------
(* Steps shared by the actions *)

Goto(s, l) == at' = [at EXCEPT ![s] = l]
Step(s, l, m) == at[s] = l /\ Goto(s, m) /\ UNCHANGED docOf
Fault      == faults < MaxFaults /\ faults' = faults + 1

Publish(s, e) == events' = [events EXCEPT ![s] = Append(@, e)]

\* The caller is told an outcome if it is still there to hear it.
Tell(s, o) ==
    /\ up' = [up EXCEPT ![s] = FALSE]
    /\ told' = [told EXCEPT ![s] = IF up[s] THEN o ELSE @]

Contains(list, c) == \E k \in 1..Len(list) : list[k] = c
\* Mutant: a chapter is added again with each of its chunks.
AddEverySection(list, c) == IF c = NoChapter THEN list ELSE Append(list, c)
AddSection(list, c) == IF c = NoChapter \/ Contains(list, c) THEN list ELSE Append(list, c)

-----------------------------------------------------------------------------
(* Receiving *)

(* A worker opens a stream. *)
Open(s) ==
    /\ Step(s, "idle", "start")
    /\ up' = [up EXCEPT ![s] = TRUE]
    /\ UNCHANGED <<told, counts, copies, context, tables, events, faults>>

\* Mutant: the metadata of an attempt start a new context.
RecvMetadataAfresh(s) ==
    /\ Step(s, "start", "describe")
    /\ text' = [text EXCEPT ![docOf[s]] = {0}]
    /\ UNCHANGED <<sections, counts, copies, caller, tables, events, faults>>

(* ProcessDocumentMetadata: the context is created if there is none and the *)
(* filename joins its text, ...                                             *)
RecvMetadata(s) ==
    /\ Step(s, "start", "describe")
    /\ text' = [text EXCEPT ![docOf[s]] = @ \cup {0}]
    /\ UNCHANGED <<sections, counts, copies, caller, tables, events, faults>>

(* ... then the row is overwritten, its sections by an empty array. *)
Describe(s) ==
    /\ Step(s, "describe", "announce")
    /\ saved' = [saved EXCEPT ![docOf[s]] = <<>>]
    /\ UNCHANGED <<rows, root, nodes, counts, copies, caller, context, events, faults>>

Announce(s) ==
    /\ Step(s, "announce", "recv")
    /\ Publish(s, "processing")
    /\ UNCHANGED <<counts, copies, caller, context, tables, faults>>

(* The generator could not embed this chunk and goes on with the next. *)
SkipChunk(s) ==
    /\ Step(s, "recv", "recv")
    /\ next[s] \in Skippable
    /\ next' = [next EXCEPT ![s] = @ + 1]
    /\ skipped' = [skipped EXCEPT ![s] = @ \cup {next[s]}]
    /\ UNCHANGED <<received, failed, copies, caller, context, tables, events, faults>>

(* ProcessChunk writes the context before it touches the table. *)
RecvChunk(s) ==
    /\ Step(s, "recv", "insert")
    /\ next[s] \in 1..N
    /\ received' = [received EXCEPT ![s] = @ + 1]
    /\ text' = [text EXCEPT ![docOf[s]] = @ \cup {next[s]}]
    /\ sections' = [sections EXCEPT ![docOf[s]] = AddSection(@, Chapter[next[s]])]
    /\ UNCHANGED <<next, failed, skipped, copies, caller, tables, events, faults>>

NextMessage(s) ==
    /\ Step(s, "insert", IF received[s] % ProgressEvery = 0 THEN "tick" ELSE "recv")
    /\ next' = [next EXCEPT ![s] = @ + 1]

(* The chunk's id depends on the document and the index only, and Create is *)
(* a plain insert.                                                          *)
Insert(s) ==
    /\ NextMessage(s)
    /\ rows[docOf[s]][next[s]] = None
    /\ rows' = [rows EXCEPT ![docOf[s]] = [@ EXCEPT ![next[s]] = s]]
    /\ UNCHANGED <<received, failed, skipped, saved, root, nodes, copies, caller, context,
                   events, faults>>

\* Mutant: a chunk that is there already is no error.
InsertConflictIgnored(s) ==
    /\ NextMessage(s)
    /\ rows[docOf[s]][next[s]] # None
    /\ UNCHANGED <<received, failed, skipped, copies, caller, context, tables, events, faults>>

\* Mutant: a failed chunk is counted twice.
InsertConflictTwice(s) ==
    /\ NextMessage(s)
    /\ rows[docOf[s]][next[s]] # None
    /\ failed' = [failed EXCEPT ![s] = @ + 2]
    /\ UNCHANGED <<received, skipped, copies, caller, context, tables, events, faults>>

(* A chunk that any stream stored before is an error. *)
InsertConflict(s) ==
    /\ NextMessage(s)
    /\ rows[docOf[s]][next[s]] # None
    /\ failed' = [failed EXCEPT ![s] = @ + 1]
    /\ UNCHANGED <<received, skipped, copies, caller, context, tables, events, faults>>

(* The database fails, before or after it has stored the row. *)
InsertFails(s) ==
    /\ NextMessage(s)
    /\ Fault
    /\ failed' = [failed EXCEPT ![s] = @ + 1]
    /\ \/ UNCHANGED rows
       \/ /\ rows[docOf[s]][next[s]] = None
          /\ rows' = [rows EXCEPT ![docOf[s]] = [@ EXCEPT ![next[s]] = s]]
    /\ UNCHANGED <<received, skipped, saved, root, nodes, copies, caller, context, events>>

Tick(s) ==
    /\ Step(s, "tick", "recv")
    /\ Publish(s, "progress")
    /\ UNCHANGED <<counts, copies, caller, context, tables, faults>>

\* Mutant: failed chunks are not looked at.
RecvEOFUnchecked(s) ==
    /\ Step(s, "recv", "summary")
    /\ next[s] = N + 1
    /\ UNCHANGED <<counts, copies, caller, context, tables, events, faults>>

\* Mutant: nothing is done about failed chunks.
RecvEOFUnanswered(s) ==
    /\ Step(s, "recv", "summary")
    /\ failed[s] = 0
    /\ next[s] = N + 1
    /\ UNCHANGED <<counts, copies, caller, context, tables, events, faults>>

(* End of the stream.  The number of chunks received is not compared with   *)
(* the number announced.                                                    *)
RecvEOF(s) ==
    /\ Step(s, "recv", IF failed[s] = 0 THEN "summary" ELSE "refuse")
    /\ next[s] = N + 1
    /\ UNCHANGED <<counts, copies, caller, context, tables, events, faults>>

-----------------------------------------------------------------------------
(* Every chunk was stored: GenerateDocumentSummary *)

(* It copies the text of the context, or finds no context. *)
ReadText(s) ==
    /\ Step(s, "summary", IF text[docOf[s]] # {} THEN "llm" ELSE "noSummary")
    /\ seen' = [seen EXCEPT ![s] = text[docOf[s]]]
    /\ UNCHANGED <<secs, counts, caller, context, tables, events, faults>>

(* The model answers and the answer becomes a node without a parent. *)
Summarise(s) ==
    /\ Step(s, "llm", "root")
    /\ nodes' = [nodes EXCEPT ![docOf[s]] = @ \cup {s}]
    /\ UNCHANGED <<rows, saved, root, counts, copies, caller, context, events, faults>>

(* No LLM configuration, a failing call, or a failing insert of the node. *)
SummariseFails(s) ==
    /\ Step(s, "llm", "noSummary")
    /\ UNCHANGED <<counts, copies, caller, context, tables, events, faults>>

SetRoot(s) ==
    /\ Step(s, "root", "sections")
    /\ root' = [root EXCEPT ![docOf[s]] = s]
    /\ UNCHANGED <<rows, saved, nodes, counts, copies, caller, context, events, faults>>

SetRootFails(s) ==
    /\ Step(s, "root", "noSummary")
    /\ Fault
    /\ UNCHANGED <<counts, copies, caller, context, tables, events>>

-----------------------------------------------------------------------------
(* Closing the stream *)

(* The handler goes on without a summary. *)
PublishNoSummary(s) ==
    /\ Step(s, "noSummary", "sections")
    /\ Publish(s, "completed_without_summary")
    /\ UNCHANGED <<counts, copies, caller, context, tables, faults>>

GetSections(s) ==
    /\ Step(s, "sections", "save")
    /\ secs' = [secs EXCEPT ![s] = sections[docOf[s]]]
    /\ UNCHANGED <<seen, counts, caller, context, tables, events, faults>>

(* Sections are written unless there are none. *)
UpdateSections(s) ==
    /\ Step(s, "save", "complete")
    /\ saved' = [saved EXCEPT ![docOf[s]] = IF secs[s] # <<>> THEN secs[s] ELSE @]
    /\ UNCHANGED <<rows, root, nodes, counts, copies, caller, context, events, faults>>

(* An error of UpdateSections is only logged. *)
UpdateSectionsFails(s) ==
    /\ Step(s, "save", "complete")
    /\ secs[s] # <<>>
    /\ Fault
    /\ UNCHANGED <<counts, copies, caller, context, tables, events>>

PublishCompleted(s) ==
    /\ Step(s, "complete", "cleanup")
    /\ Publish(s, "completed")
    /\ UNCHANGED <<counts, copies, caller, context, tables, faults>>

CleanupContext(s) ==
    /\ Step(s, "cleanup", "reply")
    /\ text' = [text EXCEPT ![docOf[s]] = {}]
    /\ sections' = [sections EXCEPT ![docOf[s]] = <<>>]
    /\ UNCHANGED <<counts, copies, caller, tables, events, faults>>

\* Mutant: the failed event is left out.
FailedUnpublished(s) ==
    /\ Step(s, "refuse", "reply")
    /\ UNCHANGED <<counts, copies, caller, context, tables, events, faults>>

(* Some chunk failed: the context stays. *)
PublishFailed(s) ==
    /\ Step(s, "refuse", "reply")
    /\ Publish(s, "failed")
    /\ UNCHANGED <<counts, copies, caller, context, tables, faults>>

SendAndClose(s) ==
    /\ Step(s, "reply", "over")
    /\ Tell(s, IF failed[s] = 0 THEN "ok" ELSE "failed")
    /\ UNCHANGED <<counts, copies, context, tables, events, faults>>

-----------------------------------------------------------------------------
(* Faults *)

(* The row cannot be updated, or an event cannot be published: the handler  *)
(* returns the error.                                                       *)
CallFails(s) ==
    /\ at[s] \in {"describe", "announce", "tick", "noSummary", "complete", "refuse"}
    /\ Step(s, at[s], "over")
    /\ Fault
    /\ Tell(s, "error")
    /\ UNCHANGED <<counts, copies, context, tables, events>>

(* The caller dies or the connection breaks.  What the caller had sent may  *)
(* still be received, and a handler past the end of the stream goes on.     *)
Break(s) ==
    /\ up[s]
    /\ Fault
    /\ Tell(s, "error")
    /\ UNCHANGED <<at, docOf, counts, copies, context, tables, events>>

(* Recv reports the broken stream: no event, no cleanup. *)
RecvError(s) ==
    /\ at[s] \in {"start", "recv"}
    /\ ~up[s]
    /\ Step(s, at[s], "over")
    /\ UNCHANGED <<counts, copies, caller, context, tables, events, faults>>

(* The Go process dies and comes back with empty memory. *)
Crash ==
    /\ \E s \in Streams : at[s] \in Live
    /\ Fault
    /\ at' = [s \in Streams |-> IF at[s] \in Live THEN "over" ELSE at[s]]
    /\ up' = [s \in Streams |-> FALSE]
    /\ told' = [s \in Streams |-> IF up[s] THEN "error" ELSE told[s]]
    /\ text' = [d \in Docs |-> {}]
    /\ sections' = [d \in Docs |-> <<>>]
    /\ UNCHANGED <<docOf, counts, copies, tables, events>>

-----------------------------------------------------------------------------
(* The handler's own steps, and the errors of what it calls. *)
Handle(s) ==
    \/ RecvMetadata(s) \/ Describe(s) \/ Announce(s) \/ SkipChunk(s) \/ RecvChunk(s)
    \/ Insert(s) \/ InsertConflict(s) \/ Tick(s) \/ RecvEOF(s) \/ RecvError(s)
    \/ ReadText(s) \/ Summarise(s) \/ SummariseFails(s) \/ SetRoot(s)
    \/ PublishNoSummary(s) \/ GetSections(s) \/ UpdateSections(s)
    \/ PublishCompleted(s) \/ CleanupContext(s) \/ PublishFailed(s) \/ SendAndClose(s)

Disturb(s) ==
    \/ InsertFails(s) \/ SetRootFails(s) \/ UpdateSectionsFails(s) \/ CallFails(s)
    \/ Break(s)

Next ==
    \/ \E s \in Streams : Open(s) \/ Handle(s) \/ Disturb(s)
    \/ Crash

Spec == Init /\ [][Next]_ingestVars

-----------------------------------------------------------------------------
(* Properties *)

Published(s, e) == \E k \in 1..Len(events[s]) : events[s][k] = e

(* What the whole document gives: its chapters in order of appearance. *)
ChaptersUpTo[i \in 0..N] ==
    IF i = 0 THEN <<>>
    ELSE AddSection(ChaptersUpTo[i - 1], Chapter[i])

(* A stream that has announced completion stored every chunk it sent, by    *)
(* itself: no chunk of it is missing from the table or belongs to another   *)
(* attempt, however the attempts were interleaved.                          *)
CompletedOwnsRows ==
    \A s \in Streams : Published(s, "completed") =>
        \A i \in (1..N) \ skipped[s] : rows[docOf[s]][i] = s

(* Two attempts at a document are never both completed: chunks carry the    *)
(* same ids in every attempt, so the second finds them taken.               *)
OneCompletion ==
    \A s, t \in Streams :
        Published(s, "completed") /\ Published(t, "completed") /\ docOf[s] = docOf[t] => s = t

(* A summary is made from the text of the whole document, although the      *)
(* context is shared by concurrent attempts, cleared by a completed one and *)
(* lost in a crash.                                                         *)
SummaryOfWholeDocument ==
    \A s \in Streams : s \in nodes[docOf[s]] => (1..N) \ skipped[s] \subseteq seen[s]

(* The sections a handler completes with, its copy of the shared list,      *)
(* which it has passed to the table, hold each chapter the stream sent,     *)
(* once, and no other; they are in order of appearance unless an attempt at *)
(* the document left a chunk out, for then a chapter may have come first    *)
(* from an attempt that skipped those before it.                            *)
SectionsOfDocument ==
    \A s \in Streams : Published(s, "completed") =>
        /\ \A k, l \in 1..Len(secs[s]) : secs[s][k] = secs[s][l] => k = l
        /\ \A k \in 1..Len(secs[s]) : secs[s][k] # NoChapter
        /\ \A i \in (1..N) \ skipped[s] :
              Chapter[i] = NoChapter \/ Contains(secs[s], Chapter[i])
        /\ (\A t \in Streams : docOf[t] = docOf[s] => skipped[t] = {})
              => secs[s] = ChaptersUpTo[N]

(* The caller is told success only after completion was announced, failure  *)
(* only after a failed event; a stream is never announced both completed    *)
(* and failed.                                                              *)
ReplyAgreesWithEvents ==
    \A s \in Streams :
        /\ told[s] = "ok" => Published(s, "completed")
        /\ told[s] = "failed" => Published(s, "failed")
        /\ ~(Published(s, "completed") /\ Published(s, "failed"))

(* The root of a document's chat tree, once set, is never replaced: the     *)
(* branches grown from it stay reachable.                                   *)
RootIsStable ==
    [][\A d \in Docs : root[d] # None => root'[d] = root[d]]_ingestVars

(* Every stream that was opened ends with an answer to its caller. *)
EveryStreamAnswered ==
    \A s \in Streams : at[s] = "start" ~> at[s] = "over" /\ told[s] # "none"
=============================================================================
