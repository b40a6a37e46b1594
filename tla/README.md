# BranchGPT in TLA+

BranchGPT takes a PDF from a user, has a pool of Python workers cut it into chunks,
stores the chunks through a Go backend, and lets the user grow a tree of questions
from the document's summary. This directory holds specifications of the part of it
where things can go wrong in ways that are hard to test: the queue with its workers,
the ingest service with its concurrent streams, the two together, the table of
documents that everything writes to, the two-level cache with the settings kept in it,
the questions and their tree, the way of an event to a websocket with the start and the
end of the process around it, and the parser with its chunk generator. TLC checks them on
small instances; TLAPS proves the central invariants for every value of the constants.

Paths below are relative to `src/`; `py/` stands for `pdf_processor/` and `go/` for
`go_chat_backend/`.

## The system

| Component | Code | State | Operations | What makes it correct |
|---|---|---|---|---|
| Upload queue and workers | `py/app/redis_worker.py`, `py/main.py`, `go/platform/redis/redis.go` | the Redis lists `queue:upload_tasks` and `queue:dlq`; the task in each worker's hand; temporary files | LPUSH of a confirmed upload, BLPOP, download, parse, stream, RPUSH of a retry, dead letter, exit, restart | a confirmed upload is settled once; nothing is lost or doubled without a named cause; dead letters used up their retries |
| Ingest service | `go/platform/grpc/servers/grpc_chunk.go`, `go/services/grpc_chunk_services.go` | counters of each stream; `docContexts` in memory; the chunk table; chat roots; events | metadata, chunk, end of stream (summary, sections, completion), broken stream, crash | completed means stored, once; the summary is of the whole document; reply and events agree |
| The worker's stream | `py/app/doc_streamer.py`, `py/service/grpc_ingest_service.py` | a gRPC call | open, send, answer, break | success at the worker means completed in the service |
| Document rows and uploads | `go/services/document_services.go`, `go/repository/document_repository.go` | `document_meta` with a unique index on `file_hash` | RequestUpload, ConfirmUpload, UpdateMetadata by four callers, UpdateRoot | one ingestion per contents; sections survive; refused only for cause |
| RAG mode | `go/services/rag_mode_service.go` | column `rag_mode`, a cache entry | SetRagMode in a goroutine of ConfirmUpload, GetRagMode of a question | an answer uses a mode that was asked for; the mode lasts |
| Two-level cache | `go/platform/cache/` | L1 in memory, L2 in Redis | get, set, delete, expiry | L1 is not newer or older than L2 for longer than its lifetime |
| Chat tree | `go/services/chat_service.go`, `go/repository/chat_repository.go` | chat nodes, cached histories | AskQuestion, GetChatTree, GetHistoryByID | every node reachable; the history is the path to the root |
| LLM configuration | `go/services/llm_config_service.go` | a cache entry of 30 minutes | set, get, override | the user's own key is used |
| Prompts and retrieval | `go/services/llm_services.go`, `go/repository/chunk_repository.go` | none | BuildPrompt, SearchSimilar | total on every input |
| Events and websockets | `go/platform/events/`, `go/handlers/websocket_handler.go` | subscriptions, buffers of 100 | publish, subscribe, forward | a subscriber sees a document's events in order |
| Start and shutdown | `go/main.go`, `go/bootstrap/` | open servers and connections | start, stop in order | everything opened is closed |
| PDF parsing | `py/infra/document_infra/` | none | parse, chunk, embed | every section is in some chunk |
| Storage | `go/platform/storage/` | objects, signed URLs | sign, stat | a URL lives as long as the task needs it |

How they interact: the HTTP API inserts a row (RequestUpload), the client posts the file
to the bucket, ConfirmUpload starts a goroutine for the RAG mode and pushes a task on the
left of a Redis list. A worker removes it from the left, downloads, parses, and opens a
client-streaming gRPC call to the Go ingest service, which writes the row, the chunks, a
summary as the root of the chat tree and the sections, and publishes events over Redis.
The response tells the worker to forget the task or to push it on the right of the same
list; after three retries it goes to the dead-letter list.

Behaviours that are hard to test: the task exists only in a worker's memory between BLPOP
and the next push; a push may raise although it took effect; the gRPC call can break when
the handler is past the point of no return; several streams of one document share one
context in memory; six columns of a row are overwritten at once by four callers, one of
them from an old copy; a unique index over a column that is mostly blank. `PROJECT.json`
lists each with its line.

## Modules

| Module | Models | Size of the checked instances |
|---|---|---|
| `TaskLifecycle` | abstract: an accepted upload is pending until it has an outcome | through `Worker` |
| `Worker` | queue, workers, every path through `process_data` | 2 documents, 2 workers, 1 retry, 2 faults |
| `Ingest` | `IngestDocument` with concurrent streams | 1 document, 3 streams, 3 chunks of which one may be skipped, 1 fault |
| `Pipeline` | `Worker` and `Ingest` composed | 1 document, 2 workers, 2 chunks, 4 streams, 2 faults (3 and 1 for liveness) |
| `DocumentStore` | `document_meta`, uploads, confirmations | 3 documents, two of the same contents, 2 confirmations, 2 attempts |
| `TwoLevelCache` | abstract: the cache of `go/platform/cache` with any keys and values | through `Settings` |
| `Settings` | LLM configurations and RAG modes, as instances of that cache | 1 user, 1 document, 2 questions, 1 confirmation |
| `ChatService` | `AskQuestion`, histories, the conversation tree | 2 documents, 2 questions |
| `Notifications` | events from Redis to the websockets | through `Backend` |
| `Backend` | `main` from its first connection to its end, with `Notifications` | 1 client, 2 documents, 2 streams, 1 request, buffers of 1, 2 events |
| `Parser` | `analyze_text_structure` and the chunk generator | 9 shapes of blocks, up to 4 blocks on one page or 3 on two |
| `MC*` | constants for TLC | |
| `WorkerProofs`, `IngestProofs`, `PipelineProofs`, `DocumentStoreProofs`, `SettingsProofs`, `ChatProofs`, `BackendProofs`, `ParserProofs` | theorems | every instance |

`Worker` and `Ingest` are composed in `Pipeline`, `Notifications` is part of `Backend`, and
`Settings` uses the cache only through `TwoLevelCache`. The others meet at one name each:
a `document` of `ChatService` stands for the root that `Ingest` stores, the events that
`Backend` publishes are those of `Ingest`, the chunks a stream of `Ingest` sends or leaves
out are those of `Parser`, and the attempts of `DocumentStore` are the streams of `Ingest`.

Operators whose comment begins with "Mutant" are small mistakes in the definition that
follows them. Putting one in its place must break the property it is listed with in
`PROJECT.json`; no specification uses them.

### Worker

`pc[w]` is the place in `process_data`: `blpop`, `download`, `parse`, `stream`, the two
pushes of the try block (`requeue`, `dlq`), the unlink after them, `done` after success,
and the two pushes and the unlink of the except block (`xrequeue`, `xdlq`, `xunlink`).
`down` is an exited process. A place is a step between awaits or between calls that may
raise; the code before the first download cannot fail and is part of `Take`. The sleep
before a retry belongs to the place of the push.

Tasks carry the document and the retry count. A confirmation pushes on the left, BLPOP
takes from the left, retries and dead letters are appended on the right, as in the code.
`Raise` is an exception in the try block; which push follows depends on the retry count.
Faults, at most `MaxFaults` of them, are: a BLPOP whose reply is lost, a push that raises
having taken effect or not, an unlink that raises, an exit. `Download` and `Parse` may raise
at any time without counting as faults. `Exit` is SIGTERM (`main.py` exits at once) or a
crash; the latter stands also for the `CancelledError` that a raising chunk generator
turns into, which no `except Exception` catches. `Restart` finds the volume as it was, or
an empty one on another node.

`succeeded`, `failures`, `lost` and `duplicated` are history: `lost` records which fault
dropped a task, `duplicated` which documents an error may have given a second copy of
their task (an ambiguous push, or an unlink error after a push). Properties that admit
loss or duplication name these causes, so nothing else can explain either.

### Ingest

Each stream runs the handler as a sequence of places; another stream, a fault or a crash can
come between any two. A place ends at each lock, database call, publish and Recv. Chunks are
numbers; `text[d]` is the set of pieces in the shared context, 0 for the file name, and
`{}` for no context (a context always has a piece: it is created together with its first).
`rows[d][i]` is the stream that stored chunk `i`, so a conflict is a chunk some stream stored
before: identifiers are hashes of document and index, the same in every attempt, and the
insert is plain. The worker's generator is part of the module as far as the handler can
tell: it sends chunks in order and leaves out those it cannot embed (`Skippable`).

A broken connection (`Break`) is noticed only by a handler that waits in Recv; one that is
past the end of the stream completes the document without anyone to tell. What was
sent before may still be received. A crash of the service ends all handlers and clears
the contexts; rows stay.

Abstracted: repetition of text in a context after a failed attempt (the text is a set),
the text itself, the contents of events. Two handlers that append to a context that another
one deletes from the map keep writing to the deleted one in the code; here they write to
the map in one step, as each handler looks the context up afresh for each chunk.

### Pipeline

Instances of `Worker` and `Ingest` over common `faults`. `BeginStream` opens a fresh stream;
`StreamReturns` is the attempt's outcome as told by the handler; an exit of a worker in a
call breaks its stream. Documents in `Troubled` may fail to download or parse.

### DocumentStore

One row per document with its hash, whether it holds its sections, and its status.
`UpdateMetadata` overwrites hash and sections together and fails if another row has the
hash. A confirmation is the call (read, check, push) and its goroutine, which reads the row
and writes the copy back: that is what `SetRagMode` does to the table, as the mode itself
is not among the columns written. An attempt is a task taken, the metadata, the chunks and
the sections. `Taken` is the unique index; `""` is a value like any other in it.

`TableOfContentsKept` is narrow: it speaks of documents ingested once, with no confirmation
overlapping the attempt. A later attempt's metadata (`grpc_chunk_services.go:104`) and a goroutine that
read the row before the sections were saved (`rag_mode_service.go:72`) do overwrite them in the
code, and the property sets both aside; it says that confirmations after the ingestion
write back what they read. Left out is an error of the database other than the conflict of the hash
when the sections are saved: it leaves the row as it was, and is only logged as well.

### TwoLevelCache and Settings

`l1` is the memory of the process, `l2` Redis. `SetCache` is two steps, `SetL2` and `SetL1`,
with `half[w]` between them; calls on one key interleave there. An error of Redis ends the
call, and Redis may have taken the value (`SetL2Fails`). Entries of `l1` expire
(`LoseL1`), those of `l2` expire or are evicted (`LoseL2`), a restart empties `l1`. `GetCache`
gives what L1 or else L2 holds (`Found`), or a miss though L2 holds the key: any error of Redis
GET counts as one (`redis.go:56`). `upset` is
history: for each key, whether calls overlapped on it, an error may have had an effect,
Redis lost an entry, or a read of it was not answered. `DelCache` has no caller.

In `Settings` the keys are users (their LLM configuration) and documents (their RAG mode).
A configuration is the set of the requests its fields come from: one given in full is the
set of that request alone, and fields given replace those of a copy of the cached one. A
question is `GetOrUseDefault`, then `GetRagMode` (`CachedMode`, or `ReadMode` and the fill of
the cache); a confirmation is `SetUserLLMConfig`, then `SetRagMode`. The row has no other mode
than the column's default, so a question whose read of Redis failed goes on with the default
and writes it over the mode in both levels; `ModeHolds` names that cause (`unread`). `raced` records that a mode was set while a question that had
found none was about to fill in the default.

### ChatService

`line[n]` is the path from a root to the node `n` in `chat_node`, `<<>>` when there is none.
A document stands for the root of its tree, which `SetRoot` (the ingestion) stores and points
the row at. A question goes through the history, the configuration and mode, the prompt
and the model, the insert, the tree and the reply. Its two goroutines are `saver` (the
history that `GetHistoryByID` read, cached under document and parent) and `writer` (the entry
with the answer, cached under a key nobody reads); the second assigns the variable `err` that
`AskQuestion` returns, so `err[a]` is shared. Only L1 yields a hit: L2 returns text, which the
type assertion refuses. `BuildPromptPanics` ends the process with all calls in it. `pruned`
records trees that are incomplete because an error was ignored. Which client names which
parent is free: nothing in the code ties a parent to the document.

### Notifications and Backend

`inbox[c]` is what a subscription holds between Redis and the goroutine of the handler (the
connection and the client library's channel, of `Held` events), `ch[c]` the Go channel of
`Buffer` events, `sent[c]` what was written to the client. Events are their numbers in
`published`. `since[c]` is the number published before the subscription, `linked` whose connection
to Redis is up. The library drops an event that finds its channel full (`Drop`), and a
broken connection loses some and what is published before it is back (`Unlink`, `Relink`);
both are recorded in `lossy`.

In `Backend`, `phase` is where `main` is: one value for each thing it opens, `up`, one for each
thing it shuts down, `exited`. `StartServing` is the goroutine that comes to `Serve`, at a
time of its own. `Gone` is the end of the process, whatever is open. `GracefulStop` closes the
listener, so the `Close` that follows is an error, and `App.Shutdown` returns it: with a
serving server the connections are never closed by the program (`StopGrpc`); with one that
never served they are (`StopUnservedGrpc`, `CloseInfrastructure`).

Left out: an error of `httpServer.Shutdown`, which makes `main` return before it stops the
gRPC server (`main.go:64`) and would cut its streams off (the call fails only if the listener cannot
be closed); and the goroutines that calls leave behind (of a confirmation, of a history),
for which nothing waits: `WorkIsFinished` is about requests and streams alone.

### Parser

A line is reduced to its class: blank, a number in title font, a title, text, odd font, table.
`readable` says whether pymupdf can open the file and read its pages: a corrupt or encrypted one
raises whatever the mode and the text are (`OpenFails`); the other early ends are a model that
cannot be loaded (`LoadModelFails`) and a document without fonts (`NoFont`).
`Chars` gives each class a length on its side of each comparison of the code. `few` is the case of
so few fonts that all are fonts of titles. A section is a record of the lines of its chapter
and of its text, each line by its place in the document. The actions are the branches
of the loop over blocks: `TrimRun` (five or more blocks that are not text), `AddText`,
`OpenSections`, `PassBlock`, `TakeTextAhead` (a block with titles only looks for text in the
blocks that follow, up to `len` of the page's dictionary, which is its number of keys),
`LookPastPage` (the IndexError of that search). The chunk generator follows: sections with
text, plain or in batches; a batch that fails is tried one by one; more failures than
`MaxFailures` raise.

The two loops that have a state of their own, over the first lines of a block (`Titles`) and over its
text (`Kept`), are recursive functions; `TitlesFrom` is the body of the first one.

Left out: the exceptions for formulas and brackets in the filter of long lines, and the
guards against endless loops, which cannot fire but for the one on blank lines, which
is modelled. A number in title font is joined in the code with any next line that begins with a
capital (`pdf_parser.py:243`), in the model only with a title.

## Runs

| Run | Shows | States |
|---|---|---|
| `worker_safety` | no task vanishes; one copy or one outcome; dead letters exhausted; uploads before retries; every step is one of `TaskLifecycle` or a stutter | 118 k |
| `ingest_safety` | completion owns its rows and is unique; a summary is of all that was sent; sections are complete, and in order if nothing was left out; reply and events agree; the root never moves | 528 k |
| `pipeline_safety` | success at the worker is completion in the service; completed and dead, or overlapping attempts, have a named cause | 178 k |
| `pipeline_liveness` | every upload is settled through both sides and leaves no copy; every stream is answered | 85 k |
| `store_rows` | one ingestion per contents; sections survive later confirmations | 306 k |
| `settings` | the levels agree; no cached configuration is mixed from two requests; the mode that was set is found; each but for named causes | 1.68 M |
| `chat` | histories are paths; no path leaves its document; an answer is in the tree it comes with; reply and tree agree until the goroutine touches `err` | 332 k |
| `backend` | clients are told in order and miss nothing silently; work taken is finished before connections close; events arrive; a signal ends the process | 60 k |
| `parsing` | text and titles are kept once, in order and together; chunks are accounted for; parsing raises for named reasons only | 675 k |

Three further runs each find a state of the code that contradicts what a comment or a
document says:

| Run | What is said | What happens |
|---|---|---|
| `pipeline_retry` | "automatic retry on failure" (`redis_worker.py:21`) | after one stored chunk every retry conflicts with it |
| `store_sections` | "update the sections in the database" (`grpc_chunk.go:103`) | the write blanks the hash, may fail, and is only logged |
| `chat_question` | "Combine: history+retrieval+question" (`README.md:242`) | `BuildPrompt` returns before the question when there is no history (`llm_services.go:52`), which is what the documented blank `parent_id` of a first question (`README.md:641`) leads to |

Seen while modelling, and kept in the models as the code has them, without a run of their own.
In the workers and the parser:

- SIGTERM drops the task in hand (`main.py:42`), where `k8s/README.md:308` says "finishing current
  task". It is a cause `NoTaskVanishes` names.
- `redis_worker.py:195` unlinks a name with a second `.pdf` when the document's name already
  has one (`PdfNamed`), so the file of a finally failed task stays.
- A title in one of the last blocks of a page with fewer blocks than its dictionary has keys is an
  IndexError (`pdf_parser.py:153`), and the document is dead-lettered (`LookPastPage`).
- `check_consecutive_non_context` is meant for blocks whose "main font is neither topic nor context"
  (`pdf_parser.py:329`) and called for the others (`pdf_parser.py:102`): only a run that begins with
  a picture or an empty block is left out (`Trims`).
- A blank line before a title keeps the title from being found: the loop looks at the same line
  until its guard ends it (`Titles`).

In the ingest service and the table:

- The reply "processed all chunks" (`grpc_chunk.go:81`) counts what was sent; chunks that the
  worker could not embed (`Skippable`) are not missed by anybody.
- Every upload is inserted with a blank hash (`document_services.go:74`), and the index on the
  hash is unique: while one document waits with a blank hash, no other upload is accepted,
  whatever its contents.
- `document_services.go:115` refuses to confirm a document whose status has advanced, and no
  call ever advances it, so a second confirmation passes.
- `rag_mode_service.go:58` says that the database and the cache are updated; `UpdateMetadata`
  (`document_repository.go:72`) does not write the mode. It lasts as long as the cache entry
  (`ReadMode`).

In the questions:

- A question with a blank parent starts a tree of its own, which no reply shows (`AnswerInTree`).
- "graceful degradation" (`README.md:37`): without an embedding or a similar chunk `BuildPrompt`
  panics, no middleware recovers (`main.go:41`), and the process dies (`llm_services.go:49`).
- "Invalidate parent node history cache" (`README.md:360`): `chat_service.go:137` writes an entry
  under a key that nothing reads, and invalidates nothing. As a history ends at the parent, it
  does not change by new nodes, so the entries stay right (`HistoryIsPath`).
- The search for similar chunks documented at `README.md:943` is restricted to the file; that of
  the code is not. The model leaves open which chunks are found.
- `err` is written by a goroutine and read by its function without a lock; the model
  gives each write one of its two values and leaves out a torn interface value.

In the process:

- Requests hand the context of the HTTP server to the database (`chat_handler.go:25`), and the
  library ends it when its shutdown begins: a request in progress at a signal is waited for
  but may end with an error. `EndRequest` leaves open how a request ends.
- The second `Close` of the listener is an error, which ends `App.Shutdown` before it comes to
  the connections (`bootstrap/app.go:55`). Nothing in the process is left to need them
  (`WorkIsFinished`).
- A client that leaves is noticed only at a write that fails: after the last event of its
  document the handler, its goroutine and its subscription stay (`ServeFails`).
- Websockets are not waited for: an event on its way when the process ends is not written
  (`ClientIsTold` names it).

### Bounds

- `MaxRetries` is 3 in the code and 1 in most runs: one retry reaches both comparisons on
  both sides of their boundary. `pipeline_retry` uses 3, as its point is that no retry helps.
  The proofs are for any number.
- `MaxFaults` 2 allows a fault in the handling of a fault (a push that raises, then a push in
  the except block that raises; a broken stream, then an exit).
- `MaxConfirms` is 1: a second task of one document comes from an ambiguous push or an unlink
  that raises after a push. The proofs about `Worker` are for any number of confirmations,
  and `DocumentStore` is checked with two.
- Three streams let two attempts overlap while a third starts after one has completed; three
  chunks, the first without a chapter and the others with one each, give the sections
  something to leave out and an order to keep, and the middle one may be skipped, so that a
  stream can be short and still complete, and the chapter of the third can be stored before
  the second's. `ProgressEvery` is 10 in the code and N here, so that the event comes
  once.
- In `Pipeline` streams are used once; four are more than the attempts that two workers with
  one retry and two faults can open, so none is refused a stream. The liveness run has one
  fault, and three streams for the same reason.
- In `Settings` two questions and a confirmation are three writers of a mode and of a
  configuration, enough for a write that overtakes two others; keys do not influence each
  other, so one user and one document suffice. The theorems are for any number.
- In `ChatService` two documents let a question name a parent of the other one; two questions let
  one be the parent of the other, and let a goroutine of the one run during the other. The
  violation needs one question, but the run keeps both.
- In `Backend` one event more than the Go channel holds makes the goroutine wait, and one
  more than the library's makes it drop; two streams publish for two documents, of which the
  client wants one. Clients do not influence each other.
- In `Parser` the shapes cover each class of line on each side of each test: text, titles alone and
  several, a number joined with a title, a title before and after a blank line, tables, an
  empty block. `MinRun` is 5 in the code and 3 here, `BatchSize` 8 and 2, `MaxFailures` 5 and 1:
  with four blocks a run can end before the page does and a batch be incomplete. `Keys` is 3
  as in the code.
- In `DocumentStore` a third document shows that rows of other contents are not in the way,
  and two confirmations and two attempts are the least at which a copy can be
  older than a write, and two writes of the same row overlap.

Deadlock is not checked: with bounded confirmations, streams, questions and faults each
system comes to rest.

### Fairness

`Pipeline` and `Backend` state fairness (`FairSpec`). In `Pipeline` it is weak fairness on what each worker does by
itself (`WorkerRuns`), and on each handler (`HandlerStep`). For a worker this is the event loop
and the restart policy of Kubernetes: a call that raises is a step too. For a handler it
says that the database, Redis and the model answer or fail in the end. The code sets no timeout on the model's HTTP call
(`llm_utils.go:39`) nor on the gRPC call (`doc_streamer.py:24`), so this is an assumption
about the environment and the liveness results depend on it: a handler that never ends is
a hazard of the code that no property covers. No fairness is assumed of
confirmations, faults or skipping; a worker is not fair to any one task of the list: with
unbounded arrivals the list, which is a stack for uploads, may starve retries.

In `Backend` weak fairness says that `main` goes on (`Main`), that open requests and
streams end, and that the goroutine and the handler of a websocket run: the Go scheduler
and, for requests and streams, the same assumption about the environment. `EndsOnSignal`
depends on it: `httpServer.Shutdown` and `GracefulStop` wait without a limit. Nothing is assumed
of clients, of the connection to Redis, of signals or of new calls.

## Proofs

Every safety property of the passing runs is a theorem of its module's specification, for all values
of the constants. All proofs follow one pattern: an invariant that holds initially, is kept
by each action (one step per action), and implies the property.

- `WorkerProofs`: `TypeCorrect`. `TasksAreKept` (`Spec => []NoTaskVanishes`) is inductive
  relative to the types: an action that takes the document's task out of one place puts
  it into another or names the fault. `DeadLettersAreExhausted` needs to know, wherever a
  task is, how often its document has failed: a copy with retry count r has r failures
  behind it, and one more once its worker is past a failing step. Copies made by ambiguous
  pushes carry a count that their document's failures cover too, which is why the invariant
  speaks of documents. `RetriesWaitForUploads` is the order of the list.
  `ImplementsLifeCycle` is the refinement of `TaskLifecycle`: each action maps to a step of
  the life cycle or to a stutter, given `KnownConfirmed` (what is queued, in hand or settled was
  confirmed). `OneCopyAlways` says of a document confirmed once, and not duplicated by an error,
  that it has one owner or one outcome. Its invariant `SoleInv` does not count: each place (the list, the hands of the
  workers, the dead letters, the causes of a loss) holds the document once, and the places
  exclude one another. Counting, which the provers do badly, is needed only at the end.
- `IngestProofs`: `TypeCorrect`, with the order of a stream's counters (received but not yet
  stored, failed among received). The invariant `StoreInv` says that a live stream without a
  failed chunk owns the row of each chunk it sent, that one past the end of the stream, or
  announced completed, owns all, and that a root belongs to a stream that owns all.
  `CompletedStoresAll` follows; `CompletedOnce` and `RootNeverMoves` follow for any document
  with a chunk that cannot be skipped, since that chunk's row has one owner. Without such a
  chunk the code does complete an empty document repeatedly. `LeftoverBlocksRetries` is the other side
  of it, and what `pipeline_retry` shows on one instance: rows are never given up, so a
  chunk stored by an attempt that was cut off bars every later one from completion.
  `RepliesAgree` rests on `AnswerInv`: which event is out at each place from which a handler
  answers. `SummariesAreWhole` has to explain the deletion of a shared context under a handler
  that works on: `ContextInv` says that such a handler has its pieces in the context, or
  another stream has sent the whole document, in which case it is bound to meet one of its
  rows and fail; so whoever comes to read the context has all he sent (`SummaryInv`).
  `SectionsAreWhole` needs the same argument for the sections: as long as no attempt left a
  chunk out, they are the chapters of the first k chunks, k being how far the furthest attempt
  came (`OrderedInv`, with `ChaptersUpTo` by induction), until one has completed and all others
  are bound to fail. Both assume a chunk that cannot be skipped, for the reason above.
- `PipelineProofs` puts the two together. Each step is one of the worker only, of the service
  only, or of both (`SidesOf`), so the invariants of `WorkerProofs` and `IngestProofs`, taken
  with `INSTANCE`, hold of the composition. What links them is stated on top: a worker at its stream has
  a call open for its task's document (`CallInv`), a call that is over was told its end
  (`EndsInv`), each stream is waited for, has failed, or told a success that the worker has noted or
  lost (`LinkInv`), and a success comes from a call that told it (`SuccessInv`).
  `SuccessMeansStored`, `CompletedIsNotDead` and `OverlapsAreExplained` follow from those and
  from the theorems of the parts.
- `DocumentStoreProofs`: `TypeCorrect`, `ContentIsIngestedOnce`. The invariant: two rows never have the same
  hash; a row's hash is blank or that of its contents, also in copies; and of the rows with
  one content hash at most one is past its metadata. It rests on the blank hash being
  unique too, the same fact that lets one document at rest refuse another's upload.
  `SectionsStaySaved` follows a copy that a confirmation has read: while an attempt runs
  that is not on record as crowded, no confirmation of its document does (`Undisturbed`), and after its sections are
  saved every copy still to be written back has them (`CopiesHaveToc`).
- `SettingsProofs`: `StepOfCache` shows that each action is a step of `TwoLevelCache` or leaves
  the cache alone, so what is proved of the cache is proved by its few actions;
  `ImplementsCache` (`Spec => Cache!CacheSpec`) is the refinement itself. `CacheAgrees` needs `Ordered`: while
  one call alone is between the levels, L2 has its value. `ConfigsWhole`: every value under
  a user, in either level or on its way, is of one request. `ModeIsKept` follows the one
  confirmation of a document through its call: after L2 is written, whoever still holds
  the default is on record as raced or overlapping, or its read was not answered by Redis.
- `ChatProofs`: `PathsArePermanent` (no action changes the path of a stored node) with `Fresh` (a
  question whose insert is to come has no node) makes cached histories stay right.
  `HistoryInv` adds `Walked`: where a question's history was found, in the table or in L1, the
  document of its parent is its own; `DocumentsStayApart` needs that at the insert, long after
  the walk. `RepliesFollowTrees` rests on `Agreed`: until the goroutine has run, `err` is what
  the tree left in it. `AnswersAreInTrees` rests on `TreeInv`: a node's path extends its
  parent's (`Grown`), so the walk down from a root follows it node by node (`Chained`, an induction
  along the path), and a tree read without an error shows its question exactly if the
  question's path starts at the document asked about (`Shown`). `OnlyRootsAreUnasked` bounds what
  `chat_question` finds: the model answers without the question exactly for a blank parent, since
  a history that was found is never empty (`Prompted`).
- `BackendProofs`: `StepOfNotifications` reduces each action of the process to what it does to the
  websockets. `OrderInv` splits `ToldInOrder` over the three sequences an event goes through, each
  sorted and each below the next; `TellInv` adds to `NothingMissed` that a subscription without
  losses is linked, so that it will receive the next event too. `ProcessInv` says what is open in
  which phase and which calls can be: requests are over when the gRPC server is stopped, streams
  are only there if it serves, so what the second `Close` leaves open is in nobody's use.
  The capacities, the number of clients and the length of the history are arbitrary.
- `ParserProofs`, for blocks of any lines, any number of them, and any sizes of runs and
  batches. First what the operators find in a block: `TitlesFound` (a title looks like one, titles are in
  order and disjoint, and none among the first lines is passed over but behind a blank line),
  `BodyFound` (lines in order, those of the text among them unless the block is filtered),
  `RunEndsOnPage` and `AheadIsFirst` (where the two searches end; what the second one passed has
  neither text nor titles). Then lemmas about sequences of sections alone: titles that open
  sections (`SectionsOpened`) and text that goes to the last one (`TextAdded`) keep them
  `WellCut`, which is all the parser relies on: everything is behind the loop, texts are in order, no
  line heads two sections, and each text is under the last title up to it. `SecInv` adds that
  nothing is current only before the first section, without which a text could be given
  to a section that is closed. `SeenInv` goes block by block: each one the loop has passed is trimmed, or
  all of it is in the sections, but for the exceptions the properties name. `TypeCorrect`, `TextKept`,
  `TitlesKeptOnce` and `TextUnderTitles` follow. `RaisesOnlyForReasons` takes the early ends (model, file, fonts) as they come and for the rest needs `PlaceInv` (the
  loop is on a page) and `PastPage` (a search that leaves the page saw no text in its last
  block); `ChunksAreAccounted` needs `ChunkInv`: what was sent is below what is next, and what is
  before that was sent or counted as failed.

Assumptions are those of the modules: retry and fault bounds are natural numbers, chunks are
numbered 1 to N, hashes are not blank, users, documents and questions are different things,
and markers for "none" are not elements of the sets they stand beside. `PipelineAssumption` is
the assumptions of its two parts. Two theorems of `IngestProofs` on summaries and sections,
like the two on completion and roots, have the hypothesis `(1..N) \ Skippable # {}`: some chunk can
always be embedded.

The hypotheses and the models are the ones that TLC checks; proofs found two of them wanting.
`SectionsOfDocument` once said that the sections of a completed document are in the order of
its chapters; the attempt to prove it led to an instance in which TLC refutes it: an attempt that
leaves a chunk out stores a later chapter first, fails, and its retry finds that chapter
there. The property now claims the order only if no attempt left anything out, and completeness
always. And `TextIsKeptInOrder` excused a lost line by a share of odd lines that fitted the
shapes of the run; for blocks of any shape the excuse has to be the filter itself.

`TypeCorrect` of `DocumentStoreProofs` and of `ChatProofs` are proved and not among the runs'
properties. `ImplementsCache` is proved and not run: the values of one cache are sets for users
and strings for documents, which TLC does not compare.

Only model-checked are the liveness properties, `EventuallySettled` and `EveryStreamAnswered` of
`Pipeline`, `ClientIsTold` and `EndsOnSignal` of `Backend`: fairness and ENABLED are outside
the prover's reach. The induction theorems of the library take an operator as a parameter,
which the provers cannot instantiate. Where an induction is needed (over the prefix
of a sequence, a path, or the lines of a block) it is made from the least element of a set of
natural numbers, a consequence of `WFMin`. `SelectSeq` is opaque to the provers, so of the sections
with text (`Valid`) only the number is used, not which they are.

## Not modelled, and the plan

1. Done: `Worker`, `Ingest`, `Pipeline`, `DocumentStore`, `Settings`, `ChatService`, `Backend` with
   `Notifications`, `Parser`, the abstract `TaskLifecycle` and `TwoLevelCache`; every safety
   property of the passing runs proved, and both refinements.
2. Proofs to add: that what the generator yields are the sections with text, each at its place (it
   needs the defining facts of `SelectSeq`, by induction); types of the composition
   (`Pipeline`) as a theorem of its own; documents of more than two pages, for which the proofs of
   `Parser` hold as they are but `Documents` has none.

Not modelled: which chunks the similarity search returns, the form of object keys and the
clock that ends a signed URL (a download may fail at any time), and the embedding service,
which has no state (its failures are those of `ChatService` and `Parser`).

Left out for good: HTTP routing, middleware, configuration, logging, generated protobuf code
and the calls of external models, which have no state of their own; and code without a caller
(`DelCache`, `InvalidateCache`, `BatchGetRagMode`, `UpdateStatus`, `UpsertByHash` and others named in
`PROJECT.json`).
