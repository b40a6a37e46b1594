------------------------------ MODULE Pipeline ------------------------------
(***************************************************************************)
(* The path of an upload end to end: the workers of module Worker are the  *)
(* callers of the handlers of module Ingest.  The worker's stream starts a *)
(* handler, the worker's attempt succeeds or fails by what the handler     *)
(* tells it, and a worker that exits breaks its stream.  The two sides     *)
(* share nothing else but the count of faults.                             *)
(***************************************************************************)
EXTENDS Integers, Sequences, FiniteSets

CONSTANTS
    Docs, Workers, PdfNamed, MaxRetries, MaxConfirms, MaxFaults, NoTask,
    Streams, N, Chapter, NoChapter, Skippable, ProgressEvery, None,
    Troubled    \* documents whose download or parsing may raise

VARIABLES
    queue, dlq, pc, task, tmp, confirms, failures, succeeded, lost, duplicated,
    at, docOf, next, received, failed, skipped, seen, secs, up, told,
    rows, text, sections, saved, root, nodes, events,
    faults,
    streamOf    \* the stream each worker has open, or had last

W == INSTANCE Worker
I == INSTANCE Ingest

\* Each side without the count of faults, which both set.
workerOnly == <<queue, dlq, pc, task, tmp, confirms, failures, succeeded, lost, duplicated>>
ingestOnly == <<at, docOf, next, received, failed, skipped, seen, secs, up, told,
                rows, text, sections, saved, root, nodes, events>>
pipelineVars == <<workerOnly, ingestOnly, faults, streamOf>>

ASSUME PipelineAssumption ==
    /\ Troubled \subseteq Docs
    /\ W!WorkerAssumption
    /\ I!IngestAssumption

Init ==
    /\ W!Init
    /\ I!Init
    /\ streamOf = [w \in Workers |-> None]

Confirm(d) == W!Confirm(d) /\ UNCHANGED <<ingestOnly, streamOf>>

(* The document is parsed and the call of IngestDocument begins. *)
BeginStream(w) ==
    \E s \in Streams :
        /\ W!Parse(w)
        /\ docOf[s] = task[w].doc
        /\ I!Open(s)
        /\ streamOf' = [streamOf EXCEPT ![w] = s]

\* Mutant: any response is success.
AnyReplySucceeds(w) ==
    /\ \/ W!StreamSucceeds(w) /\ told[streamOf[w]] \in {"ok", "failed"}
       \/ W!StreamFails(w) /\ told[streamOf[w]] = "error"
    /\ UNCHANGED <<ingestOnly, streamOf>>

(* The call returns: stream_to_go_service takes success from the response   *)
(* and everything else, an error of the call included, for a failure.       *)
StreamReturns(w) ==
    /\ \/ W!StreamSucceeds(w) /\ told[streamOf[w]] = "ok"
       \/ W!StreamFails(w) /\ told[streamOf[w]] \in {"failed", "error"}
    /\ UNCHANGED <<ingestOnly, streamOf>>

(* Everything else the worker does, it does without the ingest service. *)
WorkerAlone(w) ==
    /\ \/ W!Take(w) \/ W!Download(w) \/ W!Finish(w) \/ W!Requeue(w) \/ W!DeadLetter(w)
       \/ W!Unlink(w) \/ W!RequeueAfterRaise(w) \/ W!DeadLetterAfterRaise(w)
       \/ W!UnlinkAfterRaise(w) \/ W!Restart(w)
       \/ task[w] # NoTask /\ task[w].doc \in Troubled
          /\ (W!DownloadRaises(w) \/ W!ParseRaises(w))
    /\ UNCHANGED <<ingestOnly, streamOf>>

WorkerDisturbed(w) ==
    /\ \/ W!TakeReplyLost(w) \/ W!RequeueRaises(w) \/ W!DeadLetterRaises(w)
       \/ W!UnlinkRaises(w) \/ W!PushRaisesAgain(w)
    /\ UNCHANGED <<ingestOnly, streamOf>>

WorkerExits(w) ==
    /\ W!Exit(w)
    /\ IF pc[w] = "stream" /\ up[streamOf[w]]
       THEN I!Break(streamOf[w])
       ELSE UNCHANGED ingestOnly
    /\ UNCHANGED streamOf

HandlerStep(s)  == I!Handle(s) /\ UNCHANGED <<workerOnly, streamOf>>
HandlerFault(s) == I!Disturb(s) /\ UNCHANGED <<workerOnly, streamOf>>
IngestCrash     == I!Crash /\ UNCHANGED <<workerOnly, streamOf>>

WorkerRuns(w) == BeginStream(w) \/ StreamReturns(w) \/ WorkerAlone(w)

Next ==
    \/ \E d \in Docs : Confirm(d)
    \/ \E w \in Workers : WorkerRuns(w) \/ WorkerDisturbed(w) \/ WorkerExits(w)
    \/ \E s \in Streams : HandlerStep(s) \/ HandlerFault(s)
    \/ IngestCrash

Spec == Init /\ [][Next]_pipelineVars

FairSpec ==
    /\ Spec
    /\ \A w \in Workers : WF_pipelineVars(WorkerRuns(w))
    /\ \A s \in Streams : WF_pipelineVars(HandlerStep(s))

-----------------------------------------------------------------------------
(* Properties *)

StoredBy(s) == \A i \in (1..N) \ skipped[s] : rows[docOf[s]][i] = s

(* A worker deletes its copy and forgets the task only for a document one   *)
(* attempt at which stored every chunk it sent and was announced completed. *)
SuccessIsStored ==
    \A d \in succeeded : \E s \in Streams :
        docOf[s] = d /\ StoredBy(s) /\ I!Published(s, "completed")

(* A document confirmed once, whose task no error copied, is not both       *)
(* announced completed and dead-lettered, unless the answer that it was     *)
(* complete did not reach the worker.                                       *)
CompletedNotDead ==
    \A s \in Streams :
        LET d == docOf[s] IN
        I!Published(s, "completed") /\ W!Dead(d) =>
            confirms[d] > 1 \/ d \in duplicated \/ told[s] = "error"

(* Two attempts at a document overlap in the ingest service only after a    *)
(* duplicate task or a caller that stopped listening to the first.          *)
OverlapOnlyAfterBreak ==
    \A s, t \in Streams :
        /\ s # t /\ docOf[s] = docOf[t]
        /\ at[s] \in I!Live /\ at[t] \in I!Live
        => \/ confirms[docOf[s]] > 1 \/ docOf[s] \in duplicated
           \/ told[s] = "error" \/ told[t] = "error"

(* Under fair workers and handlers every confirmed document is settled and  *)
(* no copy of its task stays behind: a worker never waits for an answer     *)
(* for ever.                                                                *)
EventuallySettled == W!EventuallySettled

(* A handler that was started ends, and its caller has an answer or an      *)
(* error, also when the two lose each other on the way.                     *)
EveryStreamAnswered == I!EveryStreamAnswered

(* redis_worker.py:21, "Implements automatic retry on failure": a document  *)
(* that downloads and parses, and that met no more faults than it has       *)
(* retries, is not dead-lettered.                                           *)
RetryRecovers ==
    faults <= MaxRetries => \A d \in Docs \ Troubled : ~W!Dead(d)
=============================================================================
