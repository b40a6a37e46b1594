------------------------------- MODULE Worker -------------------------------
(***************************************************************************)
(* The Redis list of upload tasks and the pool of Python workers that      *)
(* consume it (pdf_processor/app/redis_worker.py), with the Go side's push *)
(* of a confirmed upload.  A worker removes a task from the list before it *)
(* processes it, so between that step and the next push the only copy of   *)
(* the task is in the memory of one process.  What the ingest service      *)
(* answers is left open here; module Pipeline closes it.                   *)
(***************************************************************************)
EXTENDS Integers, Sequences, FiniteSets

CONSTANTS
    Docs,         \* documents whose upload is confirmed
    Workers,      \* worker processes, one per pod
    PdfNamed,     \* the documents whose FileName already ends with ".pdf"
    MaxRetries,   \* max_retries, 3 in the code
    MaxConfirms,  \* bound: confirmations per document
    MaxFaults,    \* bound: Redis errors, file-system errors and process exits
    NoTask        \* no task in hand

Tasks == [doc : Docs, retry : 0..MaxRetries]

ASSUME WorkerAssumption ==
    /\ PdfNamed \subseteq Docs
    /\ MaxRetries \in Nat
    /\ MaxConfirms \in Nat
    /\ MaxFaults \in Nat
    /\ NoTask \notin Tasks

VARIABLES
    queue,       \* queue:upload_tasks, the head on the left
    dlq,         \* queue:dlq
    pc,          \* where each worker is in process_data
    task,        \* the task each worker has in hand
    tmp,         \* documents with a file in each worker's TEMP_DIR
    confirms,    \* history: accepted confirmations of each document
    failures,    \* history: failed attempts at each document
    succeeded,   \* history: documents for which a worker saw success
    lost,        \* history: a document's task dropped, and by what
    duplicated,  \* history: documents whose task an error may have copied
    faults       \* faults so far

workerVars == <<queue, dlq, pc, task, tmp, confirms, failures, succeeded,
                lost, duplicated, faults>>

(***************************************************************************)
(* The points of process_data at which the worker can be interrupted.      *)
(* "requeue" and "dlq" are in the try block, the names with x in the       *)
(* except block.  The sleep before a push is part of the push's state.     *)
(***************************************************************************)
Busy  == {"download", "parse", "stream", "requeue", "dlq", "xrequeue", "xdlq"}
After == {"done", "unlink", "xunlink"}
PCs   == Busy \cup After \cup {"blpop", "down"}

Causes == {"sigterm", "crash", "redis"}

TypeOK ==
    /\ queue \in Seq(Tasks)
    /\ dlq \in Seq(Tasks)
    /\ pc \in [Workers -> PCs]
    /\ task \in [Workers -> Tasks \cup {NoTask}]
    /\ \A w \in Workers : pc[w] \in Busy \cup After <=> task[w] # NoTask
    /\ tmp \in [Workers -> SUBSET Docs]
    /\ confirms \in [Docs -> Nat]
    /\ failures \in [Docs -> Nat]
    /\ succeeded \in SUBSET Docs
    /\ lost \in SUBSET (Docs \X Causes)
    /\ duplicated \in SUBSET Docs
    /\ faults \in 0..MaxFaults

Fresh(d) == [doc |-> d, retry |-> 0]
Again(t) == [doc |-> t.doc, retry |-> t.retry + 1]

\* The worker's copy of the document's task is the one that counts.
Owns(w, d) == pc[w] \in Busy /\ task[w].doc = d
Queued(d)  == \E i \in 1..Len(queue) : queue[i].doc = d
Dead(d)    == \E i \in 1..Len(dlq) : dlq[i].doc = d
Lost(d)    == \E c \in Causes : <<d, c>> \in lost

Init ==
    /\ queue = <<>>
    /\ dlq = <<>>
    /\ pc = [w \in Workers |-> "blpop"]
    /\ task = [w \in Workers |-> NoTask]
    /\ tmp = [w \in Workers |-> {}]
    /\ confirms = [d \in Docs |-> 0]
    /\ failures = [d \in Docs |-> 0]
    /\ succeeded = {}
    /\ lost = {}
    /\ duplicated = {}
    /\ faults = 0

-----------------------------------------------------------------------------
(* Steps shared by the actions *)

Goto(w, l)  == pc' = [pc EXCEPT ![w] = l]
Idle(w)     == Goto(w, "blpop") /\ task' = [task EXCEPT ![w] = NoTask]
Fault       == faults < MaxFaults /\ faults' = faults + 1
FailAttempt(w) == failures' = [failures EXCEPT ![task[w].doc] = @ + 1]
Drop(w, c)  == lost' = lost \cup {<<task[w].doc, c>>}

\* Mutant: the last retry is not made.
RaiseEarly(w) == Goto(w, IF task[w].retry + 1 < MaxRetries THEN "xrequeue" ELSE "xdlq")

\* An exception inside the try block enters the except block.
Raise(w) == Goto(w, IF task[w].retry < MaxRetries THEN "xrequeue" ELSE "xdlq")

\* Mutant: a retry is pushed on the side the workers pop from.
PushAgainLeft(w) == queue' = <<Again(task[w])>> \o queue

PushAgain(w) == queue' = Append(queue, Again(task[w]))
PushDead(w)  == dlq' = Append(dlq, task[w])

-----------------------------------------------------------------------------
(* The Go backend accepts a confirmation and pushes on the left. *)
Confirm(d) ==
    /\ confirms[d] < MaxConfirms
    /\ confirms' = [confirms EXCEPT ![d] = @ + 1]
    /\ queue' = <<Fresh(d)>> \o queue
    /\ UNCHANGED <<dlq, pc, task, tmp, failures, succeeded, lost, duplicated, faults>>

\* Mutant: the task is read and stays in the list.
TakeKeeps(w) ==
    /\ pc[w] = "blpop"
    /\ queue # <<>>
    /\ task' = [task EXCEPT ![w] = Head(queue)]
    /\ Goto(w, "download")
    /\ UNCHANGED <<queue, dlq, tmp, confirms, failures, succeeded, lost, duplicated, faults>>

(* BLPOP: the task leaves Redis before anything is done with it. *)
Take(w) ==
    /\ pc[w] = "blpop"
    /\ queue # <<>>
    /\ task' = [task EXCEPT ![w] = Head(queue)]
    /\ queue' = Tail(queue)
    /\ Goto(w, "download")
    /\ UNCHANGED <<dlq, tmp, confirms, failures, succeeded, lost, duplicated, faults>>

(* The connection breaks after Redis popped the task: blpop raises, the     *)
(* main loop logs it and listens again.                                     *)
TakeReplyLost(w) ==
    /\ pc[w] = "blpop"
    /\ queue # <<>>
    /\ Fault
    /\ lost' = lost \cup {<<Head(queue).doc, "redis">>}
    /\ queue' = Tail(queue)
    /\ UNCHANGED <<dlq, pc, task, tmp, confirms, failures, succeeded, duplicated>>

Download(w) ==
    /\ pc[w] = "download"
    /\ tmp' = [tmp EXCEPT ![w] = @ \cup {task[w].doc}]
    /\ Goto(w, "parse")
    /\ UNCHANGED <<queue, dlq, task, confirms, failures, succeeded, lost, duplicated, faults>>

(* A download that fails may already have created the local file. *)
DownloadRaises(w) ==
    /\ pc[w] = "download"
    /\ \E partial \in SUBSET {task[w].doc} : tmp' = [tmp EXCEPT ![w] = @ \cup partial]
    /\ FailAttempt(w)
    /\ Raise(w)
    /\ UNCHANGED <<queue, dlq, task, confirms, succeeded, lost, duplicated, faults>>

Parse(w) ==
    /\ pc[w] = "parse"
    /\ Goto(w, "stream")
    /\ UNCHANGED <<queue, dlq, task, tmp, confirms, failures, succeeded, lost, duplicated, faults>>

ParseRaises(w) ==
    /\ pc[w] = "parse"
    /\ FailAttempt(w)
    /\ Raise(w)
    /\ UNCHANGED <<queue, dlq, task, tmp, confirms, succeeded, lost, duplicated, faults>>

StreamSucceeds(w) ==
    /\ pc[w] = "stream"
    /\ succeeded' = succeeded \cup {task[w].doc}
    /\ Goto(w, "done")
    /\ UNCHANGED <<queue, dlq, task, tmp, confirms, failures, lost, duplicated, faults>>

\* Mutant: one retry too many.
StreamFailsLate(w) ==
    /\ pc[w] = "stream"
    /\ FailAttempt(w)
    /\ Goto(w, IF task[w].retry > MaxRetries THEN "dlq" ELSE "requeue")
    /\ UNCHANGED <<queue, dlq, task, tmp, confirms, succeeded, lost, duplicated, faults>>

(* stream_to_go_service turns every error into a result without success. *)
StreamFails(w) ==
    /\ pc[w] = "stream"
    /\ FailAttempt(w)
    /\ Goto(w, IF task[w].retry >= MaxRetries THEN "dlq" ELSE "requeue")
    /\ UNCHANGED <<queue, dlq, task, tmp, confirms, succeeded, lost, duplicated, faults>>

\* Mutant: success falls through to the retry.
FinishFallsThrough(w) ==
    /\ pc[w] = "done"
    /\ Goto(w, "requeue")
    /\ UNCHANGED <<queue, dlq, task, tmp, confirms, failures, succeeded, lost, duplicated, faults>>

(* After success an unlink error is swallowed. *)
Finish(w) ==
    /\ pc[w] = "done"
    /\ Idle(w)
    /\ \/ tmp' = [tmp EXCEPT ![w] = @ \ {task[w].doc}] /\ UNCHANGED faults
       \/ Fault /\ UNCHANGED tmp
    /\ UNCHANGED <<queue, dlq, confirms, failures, succeeded, lost, duplicated>>

Requeue(w) ==
    /\ pc[w] = "requeue"
    /\ PushAgain(w)
    /\ Goto(w, "unlink")
    /\ UNCHANGED <<dlq, task, tmp, confirms, failures, succeeded, lost, duplicated, faults>>

DeadLetter(w) ==
    /\ pc[w] = "dlq"
    /\ PushDead(w)
    /\ Goto(w, "unlink")
    /\ UNCHANGED <<queue, task, tmp, confirms, failures, succeeded, lost, duplicated, faults>>

(* A push that raises may or may not have reached Redis; either way the     *)
(* except block pushes again.                                               *)
RequeueRaises(w) ==
    /\ pc[w] = "requeue"
    /\ Fault
    /\ Raise(w)
    /\ \/ PushAgain(w) /\ duplicated' = duplicated \cup {task[w].doc}
       \/ UNCHANGED <<queue, duplicated>>
    /\ UNCHANGED <<dlq, task, tmp, confirms, failures, succeeded, lost>>

DeadLetterRaises(w) ==
    /\ pc[w] = "dlq"
    /\ Fault
    /\ Raise(w)
    /\ \/ PushDead(w) /\ duplicated' = duplicated \cup {task[w].doc}
       \/ UNCHANGED <<dlq, duplicated>>
    /\ UNCHANGED <<queue, task, tmp, confirms, failures, succeeded, lost>>

Unlink(w) ==
    /\ pc[w] = "unlink"
    /\ tmp' = [tmp EXCEPT ![w] = @ \ {task[w].doc}]
    /\ Idle(w)
    /\ UNCHANGED <<queue, dlq, confirms, failures, succeeded, lost, duplicated, faults>>

(* This unlink is inside the try block: its error sends a task that has     *)
(* already been pushed through the except block.                            *)
UnlinkRaises(w) ==
    /\ pc[w] = "unlink"
    /\ task[w].doc \in tmp[w]
    /\ Fault
    /\ Raise(w)
    /\ duplicated' = duplicated \cup {task[w].doc}
    /\ UNCHANGED <<queue, dlq, task, tmp, confirms, failures, succeeded, lost>>

\* Mutant: the except block only logs.
RequeueForgotten(w) ==
    /\ pc[w] = "xrequeue"
    /\ Idle(w)
    /\ UNCHANGED <<queue, dlq, tmp, confirms, failures, succeeded, lost, duplicated, faults>>

(* The except block: no cleanup before the last attempt. *)
RequeueAfterRaise(w) ==
    /\ pc[w] = "xrequeue"
    /\ PushAgain(w)
    /\ Idle(w)
    /\ UNCHANGED <<dlq, tmp, confirms, failures, succeeded, lost, duplicated, faults>>

\* Mutant: the last failure leaves nothing in the dead-letter queue.
DeadLetterForgotten(w) ==
    /\ pc[w] = "xdlq"
    /\ Goto(w, "xunlink")
    /\ UNCHANGED <<queue, dlq, task, tmp, confirms, failures, succeeded, lost, duplicated, faults>>

DeadLetterAfterRaise(w) ==
    /\ pc[w] = "xdlq"
    /\ PushDead(w)
    /\ Goto(w, "xunlink")
    /\ UNCHANGED <<queue, task, tmp, confirms, failures, succeeded, lost, duplicated, faults>>

(* A push that raises in the except block leaves process_data. *)
PushRaisesAgain(w) ==
    /\ pc[w] \in {"xrequeue", "xdlq"}
    /\ Fault
    /\ Idle(w)
    /\ \/ pc[w] = "xrequeue" /\ PushAgain(w) /\ UNCHANGED <<dlq, lost>>
       \/ pc[w] = "xdlq" /\ PushDead(w) /\ UNCHANGED <<queue, lost>>
       \/ Drop(w, "redis") /\ UNCHANGED <<queue, dlq>>
    /\ UNCHANGED <<tmp, confirms, failures, succeeded, duplicated>>

(* The final cleanup appends ".pdf" to FileName even when it ends with it. *)
UnlinkAfterRaise(w) ==
    /\ pc[w] = "xunlink"
    /\ tmp' = [tmp EXCEPT ![w] = @ \ ({task[w].doc} \ PdfNamed)]
    /\ Idle(w)
    /\ UNCHANGED <<queue, dlq, confirms, failures, succeeded, lost, duplicated, faults>>

(* SIGTERM, or a crash: a failure of the process, or the cancellation that  *)
(* a raising chunk generator ends in.  The process exits where it stands.   *)
Exit(w) ==
    /\ pc[w] # "down"
    /\ Fault
    /\ Goto(w, "down")
    /\ task' = [task EXCEPT ![w] = NoTask]
    /\ IF pc[w] \in Busy THEN \E c \in {"sigterm", "crash"} : Drop(w, c) ELSE UNCHANGED lost
    /\ UNCHANGED <<queue, dlq, tmp, confirms, failures, succeeded, duplicated>>

(* Kubernetes restarts the container on its volume or on a new, empty one. *)
Restart(w) ==
    /\ pc[w] = "down"
    /\ Goto(w, "blpop")
    /\ \E kept \in {tmp[w], {}} : tmp' = [tmp EXCEPT ![w] = kept]
    /\ UNCHANGED <<queue, dlq, task, confirms, failures, succeeded, lost, duplicated, faults>>

-----------------------------------------------------------------------------
(* What a worker does by itself, without an error of its environment. *)
Progress(w) ==
    \/ Take(w) \/ Download(w) \/ DownloadRaises(w) \/ Parse(w) \/ ParseRaises(w)
    \/ StreamSucceeds(w) \/ StreamFails(w) \/ Finish(w) \/ Requeue(w) \/ DeadLetter(w)
    \/ Unlink(w) \/ RequeueAfterRaise(w) \/ DeadLetterAfterRaise(w)
    \/ UnlinkAfterRaise(w) \/ Restart(w)

Disturb(w) ==
    \/ TakeReplyLost(w) \/ RequeueRaises(w) \/ DeadLetterRaises(w) \/ UnlinkRaises(w)
    \/ PushRaisesAgain(w) \/ Exit(w)

Next ==
    \/ \E d \in Docs : Confirm(d)
    \/ \E w \in Workers : Progress(w) \/ Disturb(w)

Spec == Init /\ [][Next]_workerVars

-----------------------------------------------------------------------------
(* Properties *)

(* A confirmed document is queued, in the hands of a worker, ingested,      *)
(* dead-lettered, or was dropped by a named fault: no path through          *)
(* process_data returns without handing the task on.                        *)
NoTaskVanishes ==
    \A d \in Docs : confirms[d] > 0 =>
        \/ Queued(d) \/ \E w \in Workers : Owns(w, d)
        \/ d \in succeeded \/ Dead(d) \/ Lost(d)

Copies(d) ==
    Cardinality({i \in 1..Len(queue) : queue[i].doc = d})
      + Cardinality({w \in Workers : Owns(w, d)})
Outcomes(d) ==
    Cardinality({i \in 1..Len(dlq) : dlq[i].doc = d})
      + Cardinality({o \in {"succeeded"} : d \in succeeded})
      + Cardinality({c \in Causes : <<d, c>> \in lost})

(* A document confirmed once whose pushes all gave a clear answer has       *)
(* exactly one copy of its task or one outcome, whatever worker it went     *)
(* through: it is never processed twice at a time nor settled twice.        *)
OneCopyOrOutcome ==
    \A d \in Docs : confirms[d] = 1 /\ d \notin duplicated => Copies(d) + Outcomes(d) = 1

(* A dead-lettered document has used up its retries, and that many attempts *)
(* really failed, across all the workers that tried it.                     *)
DeadLetterExhausted ==
    \A i \in 1..Len(dlq) :
        dlq[i].retry = MaxRetries /\ failures[dlq[i].doc] >= MaxRetries + 1

(* The Go side pushes on the left, the workers pop on the left and push     *)
(* retries on the right: every new upload in the list is served before      *)
(* every retry.                                                             *)
FreshBeforeRetries ==
    \A i, j \in 1..Len(queue) : i < j /\ queue[j].retry = 0 => queue[i].retry = 0

(* Under fair workers a confirmed document is eventually settled, and no    *)
(* copy of its task stays behind.                                           *)
EventuallySettled ==
    \A d \in Docs : confirms[d] > 0 ~>
        /\ d \in succeeded \/ Dead(d) \/ Lost(d)
        /\ ~Queued(d)
        /\ \A w \in Workers : ~Owns(w, d)

PendingDocs == {d \in Docs : Queued(d) \/ \E w \in Workers : Owns(w, d)}
ResultsOf(d) ==
    (IF d \in succeeded THEN {"succeeded"} ELSE {})
      \cup (IF Dead(d) THEN {"dead"} ELSE {})
      \cup (IF Lost(d) THEN {"lost"} ELSE {})

Life == INSTANCE TaskLifecycle WITH
    accepted <- {d \in Docs : confirms[d] > 0},
    pending  <- PendingDocs,
    outcome  <- [d \in Docs |-> ResultsOf(d)]

(* The queue and the workers implement the life cycle of an upload: a       *)
(* document leaves the system only into an outcome, whatever path through   *)
(* process_data its task takes and whatever fails on it.                    *)
LifeCycle == Life!LifeSpec
=============================================================================
