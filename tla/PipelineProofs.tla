--------------------------- MODULE PipelineProofs ---------------------------
(***************************************************************************)
(* Proofs about the whole path of an upload.  What is proved of the        *)
(* workers and of the ingest service, each by itself, is put together with *)
(* what links them: whose stream a handler serves, and what its caller was *)
(* told.                                                                   *)
(***************************************************************************)
EXTENDS Pipeline, TLAPS

WP == INSTANCE WorkerProofs
IP == INSTANCE IngestProofs

-----------------------------------------------------------------------------
(* A step of the pipeline is a step of each side, or of one while the other *)
(* keeps all but the count of faults.  The instances the proofs come with   *)
(* are instances of the same modules as those of Pipeline.                  *)

LEMMA WorkerMoves ==
    ASSUME NEW w \in Workers
    PROVE  /\ W!Progress(w) => WP!Progress(w)
           /\ W!Disturb(w) => WP!Disturb(w)
BY DEF W!Progress, WP!Progress, W!Disturb, WP!Disturb, W!Take, WP!Take, W!TakeReplyLost,
    WP!TakeReplyLost, W!Download, WP!Download, W!DownloadRaises, WP!DownloadRaises,
    W!Parse, WP!Parse, W!ParseRaises, WP!ParseRaises, W!StreamSucceeds,
    WP!StreamSucceeds, W!StreamFails, WP!StreamFails, W!Finish, WP!Finish, W!Requeue,
    WP!Requeue, W!DeadLetter, WP!DeadLetter, W!RequeueRaises, WP!RequeueRaises,
    W!DeadLetterRaises, WP!DeadLetterRaises, W!Unlink, WP!Unlink, W!UnlinkRaises,
    WP!UnlinkRaises, W!RequeueAfterRaise, WP!RequeueAfterRaise, W!DeadLetterAfterRaise,
    WP!DeadLetterAfterRaise, W!PushRaisesAgain, WP!PushRaisesAgain, W!UnlinkAfterRaise,
    WP!UnlinkAfterRaise, W!Exit, WP!Exit, W!Restart, WP!Restart, W!Goto, WP!Goto,
    W!Idle, WP!Idle, W!Fault, WP!Fault, W!FailAttempt, WP!FailAttempt, W!Drop, WP!Drop,
    W!Raise, WP!Raise, W!Again, WP!Again, W!PushAgain, WP!PushAgain, W!PushDead,
    WP!PushDead, W!Busy, WP!Busy

LEMMA ConfirmMoves ==
    ASSUME NEW d \in Docs
    PROVE  W!Confirm(d) => WP!Confirm(d)
BY DEF W!Confirm, WP!Confirm, W!Fresh, WP!Fresh

LEMMA HandlerMoves ==
    ASSUME NEW s \in Streams
    PROVE  /\ I!Open(s) => IP!Open(s)
           /\ I!Handle(s) => IP!Handle(s)
           /\ I!Disturb(s) => IP!Disturb(s)
BY DEF I!Handle, IP!Handle, I!Disturb, IP!Disturb, I!RecvMetadata, IP!RecvMetadata, I!Describe,
    IP!Describe, I!Announce, IP!Announce, I!SkipChunk, IP!SkipChunk, I!RecvChunk,
    IP!RecvChunk, I!Insert, IP!Insert, I!InsertConflict, IP!InsertConflict,
    I!InsertFails, IP!InsertFails, I!Tick, IP!Tick, I!RecvEOF, IP!RecvEOF, I!ReadText,
    IP!ReadText, I!Summarise, IP!Summarise, I!SummariseFails, IP!SummariseFails,
    I!SetRoot, IP!SetRoot, I!SetRootFails, IP!SetRootFails, I!PublishNoSummary,
    IP!PublishNoSummary, I!GetSections, IP!GetSections, I!UpdateSections,
    IP!UpdateSections, I!UpdateSectionsFails, IP!UpdateSectionsFails,
    I!PublishCompleted, IP!PublishCompleted, I!CleanupContext, IP!CleanupContext,
    I!PublishFailed, IP!PublishFailed, I!SendAndClose, IP!SendAndClose, I!CallFails,
    IP!CallFails, I!Break, IP!Break, I!RecvError, IP!RecvError, I!Open, IP!Open, I!Goto,
    IP!Goto, I!Step, IP!Step, I!Fault, IP!Fault, I!Publish, IP!Publish, I!Tell, IP!Tell,
    I!Contains, IP!Contains, I!AddSection, IP!AddSection, I!NextMessage, IP!NextMessage,
    I!counts, IP!counts, I!copies, IP!copies, I!caller, IP!caller, I!context,
    IP!context, I!tables, IP!tables

LEMMA CrashMoves == I!Crash => IP!Crash
BY DEF I!Crash, IP!Crash, I!Live, IP!Live, I!Receiving, IP!Receiving, I!Complete, IP!Complete,
    I!Goto, IP!Goto, I!Step, IP!Step, I!Fault, IP!Fault, I!Publish, IP!Publish, I!Tell,
    IP!Tell, I!Contains, IP!Contains, I!AddSection, IP!AddSection, I!NextMessage,
    IP!NextMessage, I!counts, IP!counts, I!copies, IP!copies, I!caller, IP!caller,
    I!context, IP!context, I!tables, IP!tables

LEMMA StartMoves == (W!Init => WP!Init) /\ (I!Init => IP!Init)
BY DEF W!Init, WP!Init, I!Init, IP!Init

\* The assumptions under which the parts were proved.
LEMMA PartsAssumed ==
    /\ /\ PdfNamed \subseteq Docs /\ NoTask \notin WP!Tasks
       /\ MaxRetries \in Nat /\ MaxConfirms \in Nat /\ MaxFaults \in Nat
    /\ /\ N \in Nat /\ DOMAIN Chapter = 1..N /\ Skippable \subseteq 1..N
       /\ ProgressEvery \in Nat \ {0} /\ MaxFaults \in Nat /\ None \notin Streams
BY PipelineAssumption DEF W!Tasks, WP!Tasks

(* A worker at its stream has a call open, for the document of its task. *)
CallInv ==
    \A w \in Workers : pc[w] = "stream" =>
        /\ streamOf[w] \in Streams
        /\ at[streamOf[w]] # "idle"
        /\ docOf[streamOf[w]] = task[w].doc

BothMove   == [WP!Next]_(WP!workerVars) /\ [IP!Next]_(IP!ingestVars)
WorkerOnly == WP!Next /\ UNCHANGED ingestOnly
IngestOnly == IP!Next /\ UNCHANGED workerOnly

LEMMA SidesOf ==
    ASSUME CallInv, [Next]_pipelineVars
    PROVE  BothMove \/ WorkerOnly \/ IngestOnly
<1>1. ASSUME NEW d \in Docs, Confirm(d) PROVE WorkerOnly
    BY <1>1, ConfirmMoves DEF Confirm, WorkerOnly, WP!Next
<1>2. ASSUME NEW w \in Workers, WP!Progress(w) \/ WP!Disturb(w), UNCHANGED ingestOnly
      PROVE  WorkerOnly
    BY <1>2 DEF WorkerOnly, WP!Next
<1>3. ASSUME NEW s \in Streams, IP!Open(s) \/ IP!Handle(s) \/ IP!Disturb(s)
      PROVE  IP!Next
    BY <1>3 DEF IP!Next
<1>4. ASSUME NEW w \in Workers, BeginStream(w) PROVE BothMove
    <2>1. WP!Next
        BY <1>4, WorkerMoves DEF BeginStream, W!Progress, WP!Next
    <2>2. IP!Next
        BY <1>3, <1>4, HandlerMoves DEF BeginStream
    <2>3. QED
        BY <2>1, <2>2 DEF BothMove
<1>5. ASSUME NEW w \in Workers, StreamReturns(w) \/ WorkerAlone(w) \/ WorkerDisturbed(w)
      PROVE  WorkerOnly
    <2>1. W!Progress(w) \/ W!Disturb(w)
        BY <1>5 DEF StreamReturns, WorkerAlone, WorkerDisturbed, W!Progress, W!Disturb
    <2>2. UNCHANGED ingestOnly
        BY <1>5 DEF StreamReturns, WorkerAlone, WorkerDisturbed
    <2>3. QED
        BY <1>2, <2>1, <2>2, WorkerMoves
<1>6. ASSUME NEW w \in Workers, WorkerExits(w) PROVE BothMove \/ WorkerOnly
    <2>1. WP!Next
        BY <1>6, WorkerMoves DEF WorkerExits, W!Disturb, WP!Next
    <2>2. CASE pc[w] = "stream" /\ up[streamOf[w]]
        <3>1. I!Break(streamOf[w]) /\ streamOf[w] \in Streams
            BY <1>6, <2>2 DEF WorkerExits, CallInv
        <3>2. IP!Next
            BY <1>3, <3>1, HandlerMoves DEF I!Disturb
        <3>3. QED
            BY <2>1, <3>2 DEF BothMove
    <2>3. CASE ~(pc[w] = "stream" /\ up[streamOf[w]])
        BY <1>6, <2>1, <2>3 DEF WorkerExits, WorkerOnly
    <2>4. QED
        BY <2>2, <2>3
<1>7. ASSUME NEW s \in Streams, HandlerStep(s) \/ HandlerFault(s) PROVE IngestOnly
    BY <1>3, <1>7, HandlerMoves DEF HandlerStep, HandlerFault, IngestOnly
<1>8. ASSUME IngestCrash PROVE IngestOnly
    BY <1>8, CrashMoves DEF IngestCrash, IngestOnly, IP!Next
<1>9. ASSUME UNCHANGED pipelineVars PROVE BothMove
    BY <1>9 DEF pipelineVars, workerOnly, ingestOnly, BothMove, WP!workerVars,
        IP!ingestVars, IP!counts, IP!copies, IP!caller, IP!context, IP!tables
<1>10. QED
    BY <1>1, <1>4, <1>5, <1>6, <1>7, <1>8, <1>9 DEF Next, WorkerRuns

-----------------------------------------------------------------------------
(* What is proved of each side holds in the pipeline. *)

WorkerInv == WP!TypeInv /\ WP!NoTaskVanishes /\ WP!KnownConfirmed /\ WP!SoleInv
IngestInv == IP!TypeOK /\ IP!StoreInv /\ IP!AnswerInv

LEMMA WorkerInvStep ==
    ASSUME WorkerInv, [WP!Next]_(WP!workerVars)
    PROVE  WorkerInv'
<1>1. WP!TypeInv'
    BY PartsAssumed, WP!TypeStep DEF WorkerInv
<1>2. WP!NoTaskVanishes'
    BY PartsAssumed, WP!VanishStep DEF WorkerInv
<1>3. WP!KnownConfirmed'
    BY <1>1, PartsAssumed, WP!KnownStep DEF WorkerInv
<1>4. WP!SoleInv'
    BY <1>1, PartsAssumed, WP!SoleStep DEF WorkerInv
<1>5. QED
    BY <1>1, <1>2, <1>3, <1>4 DEF WorkerInv

LEMMA IngestInvStep ==
    ASSUME IngestInv, [IP!Next]_(IP!ingestVars)
    PROVE  IngestInv'
<1>1. IP!TypeOK'
    BY PartsAssumed, IP!TypeStep DEF IngestInv
<1>2. IP!StoreInv'
    BY PartsAssumed, IP!StoreStep DEF IngestInv
<1>3. IP!AnswerInv'
    BY PartsAssumed, IP!AnswerStep DEF IngestInv, IP!StoreInv
<1>4. QED
    BY <1>1, <1>2, <1>3 DEF IngestInv

\* Only the range of the count of faults speaks of both sides.
LEMMA FaultsBound ==
    ASSUME WorkerInv \/ IngestInv
    PROVE  faults \in 0..MaxFaults
BY DEF WorkerInv, WP!TypeInv, WP!TypeOK, IngestInv, IP!TypeOK

LEMMA WorkerInvKept ==
    ASSUME WorkerInv, UNCHANGED workerOnly, faults' \in 0..MaxFaults
    PROVE  WorkerInv'
<1> USE DEF workerOnly
<1>1. WP!TypeInv'
    BY DEF WorkerInv, WP!TypeInv, WP!TypeOK, WP!PushByRetry
<1>2. WP!NoTaskVanishes'
    BY DEF WorkerInv, WP!NoTaskVanishes, WP!Queued, WP!Owns, WP!Dead, WP!Lost
<1>3. WP!KnownConfirmed'
    BY DEF WorkerInv, WP!KnownConfirmed, WP!Known, WP!Queued, WP!Settled, WP!InHandOf,
        WP!Dead, WP!Lost
<1>4. WP!SoleInv'
    BY DEF WorkerInv, WP!SoleInv, WP!Sole, WP!QueuedOnce, WP!OwnedOnce, WP!DeadOnce,
        WP!LostOnce, WP!Queued, WP!Owned, WP!Owns, WP!Settled, WP!Dead, WP!Lost
<1>5. QED
    BY <1>1, <1>2, <1>3, <1>4 DEF WorkerInv

LEMMA IngestInvKept ==
    ASSUME IngestInv, UNCHANGED ingestOnly, faults' \in 0..MaxFaults
    PROVE  IngestInv'
<1> USE DEF ingestOnly
<1>1. IP!TypeOK'
    BY DEF IngestInv, IP!TypeOK
<1>2. IP!StoreInv'
    BY DEF IngestInv, IP!StoreInv, IP!OwnsSent, IP!AllSent, IP!Finished, IP!Published,
        IP!RootDone
<1>3. IP!AnswerInv'
    BY DEF IngestInv, IP!AnswerInv, IP!Answers, IP!Published
<1>4. QED
    BY <1>1, <1>2, <1>3 DEF IngestInv

LEMMA SidesStep ==
    ASSUME WorkerInv, IngestInv, CallInv, [Next]_pipelineVars
    PROVE  WorkerInv' /\ IngestInv'
<1>1. CASE BothMove
    BY <1>1, WorkerInvStep, IngestInvStep DEF BothMove
<1>2. CASE WorkerOnly
    <2>1. WorkerInv'
        BY <1>2, WorkerInvStep DEF WorkerOnly
    <2>2. faults' \in 0..MaxFaults
        BY <2>1 DEF WorkerInv, WP!TypeInv, WP!TypeOK
    <2>3. QED
        BY <1>2, <2>1, <2>2, IngestInvKept DEF WorkerOnly
<1>3. CASE IngestOnly
    <2>1. IngestInv'
        BY <1>3, IngestInvStep DEF IngestOnly
    <2>2. faults' \in 0..MaxFaults
        BY <2>1 DEF IngestInv, IP!TypeOK
    <2>3. QED
        BY <1>3, <2>1, <2>2, WorkerInvKept DEF IngestOnly
<1>4. QED
    BY <1>1, <1>2, <1>3, SidesOf

LEMMA SidesInit == Init => WorkerInv /\ IngestInv
BY PartsAssumed, StartMoves, WP!TypeInit, WP!VanishInit, WP!KnownInit, WP!SoleInit, IP!TypeInit,
    IP!StoreInit, IP!AnswerInit
DEF Init, WorkerInv, IngestInv

-----------------------------------------------------------------------------
(* The ends of a call *)

(* A caller that waits has been told nothing, one that has been told        *)
(* something does not wait, and nothing is published before the call.       *)
Ends(s) ==
    /\ at[s] = "idle" => told[s] = "none" /\ ~up[s] /\ events[s] = <<>>
    /\ at[s] # "idle" => (up[s] <=> told[s] = "none")
    /\ at[s] \in IP!Live => told[s] \in {"none", "error"}
EndsInv == \A s \in Streams : Ends(s)

CallGoesOn(s) ==
    /\ docOf'[s] = docOf[s]
    /\ at[s] # "idle" => at'[s] # "idle"
    /\ told'[s] = told[s] \/ told[s] = "none"
    /\ Ends(s)'

Quiet(t) ==
    /\ at[t] # "idle"
    /\ \E m \in IP!Live \cup {"over"} : at' = [at EXCEPT ![t] = m]
    /\ UNCHANGED <<docOf, up, told>>
    /\ \A s \in Streams \ {t} : events'[s] = events[s]
    /\ at[t] \in IP!Live

LEMMA QuietSteps ==
    ASSUME IngestInv, NEW t \in Streams,
           \/ IP!Handle(t) /\ ~IP!SendAndClose(t)
           \/ IP!InsertFails(t) \/ IP!SetRootFails(t) \/ IP!UpdateSectionsFails(t)
    PROVE  Quiet(t)
<1>1. events \in [Streams -> Seq(IP!EventTypes)]
    BY DEF IngestInv, IP!TypeOK
<1> DEFINE Same == \A s \in Streams \ {t} : events'[s] = events[s]
<1>2. \A e : IP!Publish(t, e) => Same
    BY <1>1 DEF IP!Publish
<1>3. UNCHANGED events => Same
    OBVIOUS
<1> HIDE DEF Same
<1>4. QED
    BY <1>2, <1>3 DEF Quiet, Same, IP!Handle, IP!Step, IP!Goto, IP!NextMessage, IP!counts,
        IP!copies, IP!caller, IP!context, IP!tables, IP!Live, IP!Receiving, IP!Complete,
        IP!RecvMetadata, IP!Describe, IP!Announce, IP!SkipChunk, IP!RecvChunk,
        IP!Insert, IP!InsertConflict, IP!Tick, IP!RecvEOF, IP!RecvError,
        IP!ReadText, IP!Summarise, IP!SummariseFails, IP!SetRoot,
        IP!PublishNoSummary, IP!GetSections, IP!UpdateSections,
        IP!PublishCompleted, IP!CleanupContext, IP!PublishFailed,
        IP!InsertFails, IP!SetRootFails, IP!UpdateSectionsFails

LEMMA CallerSteps ==
    ASSUME IngestInv, EndsInv, IP!Next, NEW s \in Streams
    PROVE  CallGoesOn(s)
<1>0. /\ at \in [Streams -> IP!Live \cup {"idle", "over"}]
      /\ up \in [Streams -> BOOLEAN]
      /\ told \in [Streams -> {"none", "ok", "failed", "error"}]
      /\ events \in [Streams -> Seq(IP!EventTypes)]
      /\ Ends(s)
    BY DEF IngestInv, EndsInv, IP!TypeOK
<1>1. \A m \in IP!Live : m # "idle" /\ m # "over"
    BY DEF IP!Live, IP!Receiving, IP!Complete
<1>2. ASSUME NEW t \in Streams, IP!Open(t) PROVE CallGoesOn(s)
    <2>1. /\ at[t] = "idle" /\ at' = [at EXCEPT ![t] = "start"]
          /\ up' = [up EXCEPT ![t] = TRUE] /\ UNCHANGED <<docOf, told, events>>
        BY <1>2 DEF IP!Open, IP!Step, IP!Goto
    <2>2. QED
        BY <1>0, <1>1, <2>1 DEF CallGoesOn, Ends, EndsInv
<1>3. ASSUME NEW t \in Streams, Quiet(t) PROVE CallGoesOn(s)
    <2>1. PICK m \in IP!Live \cup {"over"} : at' = [at EXCEPT ![t] = m]
        BY <1>3 DEF Quiet
    <2>2. m # "idle"
        BY <1>1
    <2>3. QED
        BY <1>0, <1>1, <1>3, <2>1, <2>2 DEF CallGoesOn, Ends, Quiet
<1>4. ASSUME NEW t \in Streams, IP!SendAndClose(t) \/ IP!CallFails(t) \/ IP!Break(t)
      PROVE  CallGoesOn(s)
    <2>1. /\ UNCHANGED <<docOf, events>>
          /\ \E o \in {"ok", "failed", "error"} :
                /\ up' = [up EXCEPT ![t] = FALSE]
                /\ told' = [told EXCEPT ![t] = IF up[t] THEN o ELSE @]
                /\ \/ at' = [at EXCEPT ![t] = "over"]
                   \/ UNCHANGED at /\ up[t] /\ o = "error"
        BY <1>4 DEF IP!SendAndClose, IP!CallFails, IP!Break, IP!Tell, IP!Step, IP!Goto,
            IP!tables
    <2>2. at[t] # "idle"
        BY <1>0, <1>4 DEF IP!SendAndClose, IP!CallFails, IP!Break, IP!Step, EndsInv, Ends
    <2>3. QED
        BY <1>0, <1>1, <2>1, <2>2 DEF CallGoesOn, Ends, EndsInv
<1>5. ASSUME IP!Crash PROVE CallGoesOn(s)
    <2>1. /\ at'[s] = IF at[s] \in IP!Live THEN "over" ELSE at[s]
          /\ up'[s] = FALSE
          /\ told'[s] = IF up[s] THEN "error" ELSE told[s]
          /\ docOf' = docOf /\ events' = events
        BY <1>5 DEF IP!Crash
    <2>2. "over" \notin IP!Live /\ "idle" \notin IP!Live
        BY <1>1
    <2>3. CASE up[s]
        BY <1>0, <2>1, <2>2, <2>3 DEF CallGoesOn, Ends
    <2>4. CASE ~up[s]
        BY <1>0, <2>1, <2>2, <2>4 DEF CallGoesOn, Ends
    <2>5. QED
        BY <2>3, <2>4
<1>6. QED
    BY <1>2, <1>3, <1>4, <1>5, QuietSteps DEF IP!Next, IP!Handle, IP!Disturb

LEMMA EndsStep ==
    ASSUME IngestInv, EndsInv, BothMove \/ WorkerOnly \/ IngestOnly
    PROVE  EndsInv'
<1>1. CASE IP!Next
    BY <1>1, CallerSteps DEF EndsInv, CallGoesOn
<1>2. CASE UNCHANGED <<at, told, up, events>>
    BY <1>2 DEF EndsInv, Ends
<1>3. QED
    BY <1>1, <1>2 DEF BothMove, WorkerOnly, IngestOnly, ingestOnly, IP!ingestVars, IP!caller

-----------------------------------------------------------------------------
(* What links the two sides *)

(* A call that began is still waited for by a worker at its stream, or has  *)
(* failed, or told success to a worker that has noted it or exited.         *)
Waiting(w, s) == pc[w] = "stream" /\ streamOf[w] = s
Linked(s) ==
    \/ \E w \in Workers : Waiting(w, s)
    \/ told[s] \in {"failed", "error"}
    \/ told[s] = "ok" /\ (docOf[s] \in succeeded \/ WP!Lost(docOf[s]))
LinkInv == \A s \in Streams : at[s] # "idle" => Linked(s)

(* Success comes from a call that told it. *)
ToldOf(d) == \E s \in Streams : docOf[s] = d /\ told[s] = "ok"
SuccessInv == \A d \in succeeded : ToldOf(d)

(* The worker's side of a step that neither begins nor ends a call. *)
NoCallMoves ==
    /\ UNCHANGED <<streamOf, succeeded>> /\ lost \subseteq lost'
    /\ \A v \in Workers :
          /\ pc'[v] = "stream" <=> pc[v] = "stream"
          /\ pc[v] = "stream" => task'[v] = task[v]

LEMMA AloneMoves ==
    ASSUME WorkerInv, NEW w \in Workers, WorkerAlone(w) \/ WorkerDisturbed(w)
    PROVE  NoCallMoves /\ UNCHANGED ingestOnly
<1>1. /\ pc \in [Workers -> WP!PCs]
      /\ task \in [Workers -> WP!Tasks \cup {NoTask}]
    BY DEF WorkerInv, WP!TypeInv, WP!TypeOK
<1>2. UNCHANGED <<succeeded, streamOf>> /\ lost \subseteq lost'
    BY DEF WorkerAlone, WorkerDisturbed, W!Drop,
        W!Take, W!TakeReplyLost, W!Download, W!DownloadRaises, W!ParseRaises,
        W!Finish, W!Requeue, W!DeadLetter, W!RequeueRaises,
        W!DeadLetterRaises, W!Unlink, W!UnlinkRaises, W!RequeueAfterRaise,
        W!DeadLetterAfterRaise, W!PushRaisesAgain, W!UnlinkAfterRaise,
        W!Restart
<1>3. /\ pc[w] # "stream"
      /\ \E l \in WP!PCs \ {"stream"} : pc' = [pc EXCEPT ![w] = l]
    BY <1>1 DEF WorkerAlone, WorkerDisturbed, W!Goto, W!Idle, W!Raise, WP!PCs, WP!Busy,
        WP!After, W!Take, W!TakeReplyLost, W!Download, W!DownloadRaises, W!ParseRaises,
        W!Finish, W!Requeue, W!DeadLetter, W!RequeueRaises,
        W!DeadLetterRaises, W!Unlink, W!UnlinkRaises, W!RequeueAfterRaise,
        W!DeadLetterAfterRaise, W!PushRaisesAgain, W!UnlinkAfterRaise,
        W!Restart
<1>4. task' = task \/ \E t : task' = [task EXCEPT ![w] = t]
    BY DEF WorkerAlone, WorkerDisturbed, W!Idle,
        W!Take, W!TakeReplyLost, W!Download, W!DownloadRaises, W!ParseRaises,
        W!Finish, W!Requeue, W!DeadLetter, W!RequeueRaises,
        W!DeadLetterRaises, W!Unlink, W!UnlinkRaises, W!RequeueAfterRaise,
        W!DeadLetterAfterRaise, W!PushRaisesAgain, W!UnlinkAfterRaise,
        W!Restart
<1>5. QED
    BY <1>1, <1>2, <1>3, <1>4 DEF NoCallMoves, WorkerAlone, WorkerDisturbed

\* Such a step keeps the links, whatever the handlers do meanwhile.
LEMMA LinksKept ==
    ASSUME CallInv, LinkInv, SuccessInv, NoCallMoves,
           \A s \in Streams :
              /\ docOf'[s] = docOf[s]
              /\ at[s] # "idle" <=> at'[s] # "idle"
              /\ told'[s] = told[s] \/ told[s] = "none"
    PROVE  CallInv' /\ LinkInv' /\ SuccessInv'
<1>1. CallInv'
    BY DEF CallInv, NoCallMoves
<1>2. ASSUME NEW s \in Streams, at'[s] # "idle" PROVE Linked(s)'
    <2>1. Linked(s)
        BY <1>2 DEF LinkInv
    <2>2. \A w \in Workers : Waiting(w, s) => Waiting(w, s)'
        BY DEF Waiting, NoCallMoves
    <2>3. \A d : WP!Lost(d) => WP!Lost(d)'
        BY DEF WP!Lost, NoCallMoves
    <2>4. QED
        BY <2>1, <2>2, <2>3 DEF Linked, NoCallMoves
<1>3. SuccessInv'
    BY DEF SuccessInv, ToldOf, NoCallMoves
<1>4. QED
    BY <1>1, <1>2, <1>3 DEF LinkInv

LEMMA BeginLinks ==
    ASSUME WorkerInv, IngestInv, EndsInv, CallInv, LinkInv, SuccessInv,
           streamOf \in [Workers -> Streams \cup {None}],
           NEW w \in Workers, BeginStream(w)
    PROVE  CallInv' /\ LinkInv' /\ SuccessInv'
<1>0. /\ pc \in [Workers -> WP!PCs]
      /\ at \in [Streams -> IP!Live \cup {"idle", "over"}]
    BY DEF WorkerInv, WP!TypeInv, WP!TypeOK, IngestInv, IP!TypeOK
<1>1. PICK r \in Streams :
        /\ W!Parse(w) /\ docOf[r] = task[w].doc /\ I!Open(r)
        /\ streamOf' = [streamOf EXCEPT ![w] = r]
    BY DEF BeginStream
<1>2. /\ pc[w] = "parse" /\ pc' = [pc EXCEPT ![w] = "stream"]
      /\ UNCHANGED <<task, succeeded, lost>>
    BY <1>1 DEF W!Parse, W!Goto
<1>3. /\ at[r] = "idle" /\ at' = [at EXCEPT ![r] = "start"]
      /\ UNCHANGED <<docOf, told>>
    BY <1>1 DEF I!Open, I!Step, I!Goto
<1>4. CallInv'
    BY <1>0, <1>1, <1>2, <1>3 DEF CallInv
<1>5. ASSUME NEW s \in Streams, at'[s] # "idle" PROVE Linked(s)'
    <2>1. CASE s = r
        BY <1>0, <1>1, <1>2, <2>1 DEF Linked, Waiting
    <2>2. CASE s # r
        <3>1. Linked(s)
            BY <1>0, <1>3, <1>5, <2>2 DEF LinkInv
        <3>2. \A v \in Workers : Waiting(v, s) => Waiting(v, s)'
            BY <1>0, <1>1, <1>2 DEF Waiting
        <3>3. WP!Lost(docOf[s]) => WP!Lost(docOf[s])'
            BY <1>2, <1>3 DEF WP!Lost
        <3>4. QED
            BY <1>2, <1>3, <3>1, <3>2, <3>3 DEF Linked
    <2>3. QED
        BY <2>1, <2>2
<1>6. SuccessInv'
    BY <1>2, <1>3 DEF SuccessInv, ToldOf
<1>7. QED
    BY <1>4, <1>5, <1>6 DEF LinkInv

LEMMA ReturnLinks ==
    ASSUME WorkerInv, CallInv, LinkInv, SuccessInv, NEW w \in Workers, StreamReturns(w)
    PROVE  CallInv' /\ LinkInv' /\ SuccessInv'
<1> DEFINE r == streamOf[w]
<1>0. /\ pc \in [Workers -> WP!PCs]
      /\ UNCHANGED <<at, docOf, told, streamOf>>
    BY DEF WorkerInv, WP!TypeInv, WP!TypeOK, StreamReturns, ingestOnly
<1>1. /\ pc[w] = "stream"
      /\ \E l \in {"done", "dlq", "requeue"} : pc' = [pc EXCEPT ![w] = l]
      /\ UNCHANGED <<task, lost>>
    BY DEF StreamReturns, W!StreamSucceeds, W!StreamFails, W!Goto
<1>2. \/ told[r] = "ok" /\ succeeded' = succeeded \cup {docOf[r]}
      \/ told[r] \in {"failed", "error"} /\ succeeded' = succeeded
    BY <1>1 DEF StreamReturns, W!StreamSucceeds, W!StreamFails, CallInv
<1>3. r \in Streams
    BY <1>1 DEF CallInv
<1>4. CallInv'
    BY <1>0, <1>1 DEF CallInv
<1>5. ASSUME NEW s \in Streams, at'[s] # "idle" PROVE Linked(s)'
    <2>1. CASE s = r
        BY <1>0, <1>2, <2>1 DEF Linked
    <2>2. CASE s # r
        <3>1. Linked(s)
            BY <1>0, <1>5 DEF LinkInv
        <3>2. \A v \in Workers : Waiting(v, s) => Waiting(v, s)'
            BY <1>0, <1>1, <2>2 DEF Waiting
        <3>3. WP!Lost(docOf[s]) => WP!Lost(docOf[s])'
            BY <1>0, <1>1 DEF WP!Lost
        <3>4. QED
            BY <1>0, <1>2, <3>1, <3>2, <3>3 DEF Linked
    <2>3. QED
        BY <2>1, <2>2
<1>6. SuccessInv'
    BY <1>0, <1>2, <1>3 DEF SuccessInv, ToldOf
<1>7. QED
    BY <1>4, <1>5, <1>6 DEF LinkInv

LEMMA ExitLinks ==
    ASSUME WorkerInv, IngestInv, EndsInv, CallInv, LinkInv, SuccessInv,
           NEW w \in Workers, WorkerExits(w)
    PROVE  CallInv' /\ LinkInv' /\ SuccessInv'
<1> DEFINE r == streamOf[w]
<1>0. /\ pc \in [Workers -> WP!PCs]
      /\ task \in [Workers -> WP!Tasks \cup {NoTask}]
      /\ told \in [Streams -> {"none", "ok", "failed", "error"}]
    BY DEF WorkerInv, WP!TypeInv, WP!TypeOK, IngestInv, IP!TypeOK
<1>1. /\ pc' = [pc EXCEPT ![w] = "down"] /\ task' = [task EXCEPT ![w] = NoTask]
      /\ UNCHANGED <<succeeded, streamOf>> /\ lost \subseteq lost'
    BY DEF WorkerExits, W!Exit, W!Goto, W!Drop
<1>2. UNCHANGED <<at, docOf>>
    BY DEF WorkerExits, I!Break, ingestOnly
<1>3. \/ UNCHANGED told
      \/ pc[w] = "stream" /\ told' = [told EXCEPT ![r] = "error"] /\ up[r]
    BY DEF WorkerExits, I!Break, I!Tell, ingestOnly
<1>4. \A s \in Streams : told'[s] = told[s] \/ told[s] = "none"
    BY <1>0, <1>3 DEF EndsInv, Ends, CallInv
<1>5. CallInv'
    BY <1>0, <1>1, <1>2 DEF CallInv
<1>6. ASSUME NEW s \in Streams, pc[w] = "stream", s = r PROVE Linked(s)'
    <2>1. at[s] # "idle" /\ docOf[s] = task[w].doc
        BY <1>6 DEF CallInv
    <2>2. CASE up[s]
        <3>1. told' = [told EXCEPT ![s] = "error"]
            BY <1>6, <2>2 DEF WorkerExits, I!Break, I!Tell
        <3>2. QED
            BY <1>0, <3>1 DEF Linked
    <2>3. CASE ~up[s]
        <3>1. told[s] \in {"ok", "failed", "error"} /\ told' = told
            BY <1>0, <1>3, <1>6, <2>1, <2>3 DEF EndsInv, Ends
        <3>2. \E c \in WP!Causes : <<task[w].doc, c>> \in lost'
            BY <1>6 DEF WorkerExits, W!Exit, W!Drop, W!Busy, WP!Causes
        <3>3. WP!Lost(docOf[s])'
            BY <1>2, <2>1, <3>2 DEF WP!Lost
        <3>4. QED
            BY <3>1, <3>3 DEF Linked
    <2>4. QED
        BY <2>2, <2>3
<1>7. ASSUME NEW s \in Streams, at'[s] # "idle" PROVE Linked(s)'
    <2>1. CASE pc[w] = "stream" /\ s = r
        BY <1>6, <2>1
    <2>2. CASE ~(pc[w] = "stream" /\ s = r)
        <3>1. Linked(s)
            BY <1>2, <1>7 DEF LinkInv
        <3>2. \A v \in Workers : Waiting(v, s) => Waiting(v, s)'
            BY <1>0, <1>1, <2>2 DEF Waiting
        <3>3. WP!Lost(docOf[s]) => WP!Lost(docOf[s])'
            BY <1>1, <1>2 DEF WP!Lost
        <3>4. QED
            BY <1>1, <1>2, <1>4, <3>1, <3>2, <3>3 DEF Linked
    <2>3. QED
        BY <2>1, <2>2
<1>8. SuccessInv'
    BY <1>1, <1>2, <1>4 DEF SuccessInv, ToldOf
<1>9. QED
    BY <1>5, <1>7, <1>8 DEF LinkInv

\* No handler, error or crash of the service begins a call.
LEMMA IdleStays ==
    ASSUME IngestInv, EndsInv, NEW s \in Streams, at[s] = "idle",
           IP!Crash \/ \E t \in Streams : IP!Handle(t) \/ IP!Disturb(t)
    PROVE  at'[s] = "idle"
<1>0. /\ at \in [Streams -> IP!Live \cup {"idle", "over"}]
      /\ "idle" \notin IP!Live
    BY DEF IngestInv, IP!TypeOK, IP!Live, IP!Receiving, IP!Complete
<1>1. CASE IP!Crash
    BY <1>0, <1>1 DEF IP!Crash
<1>2. ASSUME NEW t \in Streams, Quiet(t) PROVE at'[s] = "idle"
    BY <1>0, <1>2 DEF Quiet
<1>3. ASSUME NEW t \in Streams, IP!SendAndClose(t) \/ IP!CallFails(t) \/ IP!Break(t)
      PROVE  at'[s] = "idle"
    BY <1>0, <1>3 DEF IP!SendAndClose, IP!CallFails, IP!Break, IP!Step, IP!Goto
<1>4. QED
    BY <1>1, <1>2, <1>3, QuietSteps DEF IP!Handle, IP!Disturb

LEMMA HandlerLinks ==
    ASSUME IngestInv, EndsInv, CallInv, LinkInv, SuccessInv,
           UNCHANGED <<workerOnly, streamOf>>,
           IP!Crash \/ \E t \in Streams : IP!Handle(t) \/ IP!Disturb(t)
    PROVE  CallInv' /\ LinkInv' /\ SuccessInv'
<1>1. NoCallMoves
    BY DEF NoCallMoves, workerOnly
<1>2. IP!Next
    BY DEF IP!Next
<1>3. ASSUME NEW s \in Streams
      PROVE  /\ docOf'[s] = docOf[s]
             /\ at[s] # "idle" <=> at'[s] # "idle"
             /\ told'[s] = told[s] \/ told[s] = "none"
    BY <1>2, CallerSteps, IdleStays DEF CallGoesOn
<1>4. QED
    BY <1>1, <1>3, LinksKept

LinksInv == CallInv /\ LinkInv /\ SuccessInv
StreamOfOK == streamOf \in [Workers -> Streams \cup {None}]

LEMMA LinksStep ==
    ASSUME WorkerInv, IngestInv, EndsInv, StreamOfOK, LinksInv, [Next]_pipelineVars
    PROVE  StreamOfOK' /\ LinksInv'
<1> USE DEF LinksInv
<1>1. StreamOfOK'
    BY DEF StreamOfOK, Next, WorkerRuns, Confirm, BeginStream, StreamReturns, WorkerAlone,
        WorkerDisturbed, WorkerExits, HandlerStep, HandlerFault, IngestCrash, pipelineVars
<1>2. ASSUME NoCallMoves, UNCHANGED ingestOnly PROVE LinksInv'
    BY <1>2, LinksKept DEF ingestOnly
<1>3. ASSUME NEW d \in Docs, Confirm(d) PROVE LinksInv'
    BY <1>2, <1>3 DEF Confirm, W!Confirm, NoCallMoves
<1>4. ASSUME NEW w \in Workers, WorkerAlone(w) \/ WorkerDisturbed(w) PROVE LinksInv'
    BY <1>2, <1>4, AloneMoves
<1>5. ASSUME NEW w \in Workers, BeginStream(w) PROVE LinksInv'
    BY <1>5, BeginLinks DEF StreamOfOK
<1>6. ASSUME NEW w \in Workers, StreamReturns(w) PROVE LinksInv'
    BY <1>6, ReturnLinks
<1>7. ASSUME NEW w \in Workers, WorkerExits(w) PROVE LinksInv'
    BY <1>7, ExitLinks
<1>8. ASSUME NEW s \in Streams, HandlerStep(s) \/ HandlerFault(s) PROVE LinksInv'
    BY <1>8, HandlerMoves, HandlerLinks DEF HandlerStep, HandlerFault
<1>9. ASSUME IngestCrash PROVE LinksInv'
    BY <1>9, CrashMoves, HandlerLinks DEF IngestCrash
<1>10. CASE UNCHANGED pipelineVars
    <2>1. UNCHANGED workerOnly /\ UNCHANGED ingestOnly /\ UNCHANGED streamOf
        BY <1>10 DEF pipelineVars
    <2>2. NoCallMoves
        BY <2>1 DEF workerOnly, NoCallMoves
    <2>3. QED
        BY <1>1, <1>2, <2>1, <2>2
<1>11. QED
    BY <1>1, <1>3, <1>4, <1>5, <1>6, <1>7, <1>8, <1>9, <1>10 DEF Next, WorkerRuns

PipelineInv == WorkerInv /\ IngestInv /\ EndsInv /\ StreamOfOK /\ LinksInv

LEMMA PipelineInvInit == Init => PipelineInv
<1> SUFFICES ASSUME Init PROVE PipelineInv
    OBVIOUS
<1>1. WorkerInv /\ IngestInv
    BY SidesInit
<1>2. EndsInv
    BY DEF Init, I!Init, EndsInv, Ends, IP!Live, IP!Receiving, IP!Complete
<1>3. StreamOfOK /\ LinksInv
    BY DEF Init, W!Init, I!Init, StreamOfOK, LinksInv, CallInv, LinkInv, SuccessInv
<1>4. QED
    BY <1>1, <1>2, <1>3 DEF PipelineInv

LEMMA PipelineInvariant == Spec => []PipelineInv
<1>1. PipelineInv /\ [Next]_pipelineVars => PipelineInv'
    <2> SUFFICES ASSUME PipelineInv, [Next]_pipelineVars PROVE PipelineInv'
        OBVIOUS
    <2>1. WorkerInv' /\ IngestInv'
        BY SidesStep DEF PipelineInv, LinksInv
    <2>2. EndsInv'
        BY SidesOf, EndsStep DEF PipelineInv, LinksInv
    <2>3. StreamOfOK' /\ LinksInv'
        BY LinksStep DEF PipelineInv
    <2>4. QED
        BY <2>1, <2>2, <2>3 DEF PipelineInv
<1>2. QED
    BY <1>1, PipelineInvInit, PTL DEF Spec

-----------------------------------------------------------------------------
(* What follows *)

(* A worker forgets a task as done only after one attempt at the document   *)
(* stored every chunk it sent and was announced completed: the True that    *)
(* stream_to_go_service returns means what the Go handler meant by it.      *)
THEOREM SuccessMeansStored == Spec => []SuccessIsStored
<1>1. ASSUME PipelineInv, NEW d \in succeeded PROVE
             \E s \in Streams : docOf[s] = d /\ StoredBy(s) /\ I!Published(s, "completed")
    <2>1. PICK s \in Streams : docOf[s] = d /\ told[s] = "ok"
        BY <1>1 DEF PipelineInv, LinksInv, SuccessInv, ToldOf
    <2>2. IP!Published(s, "completed")
        BY <1>1, <2>1 DEF PipelineInv, IngestInv, IP!AnswerInv, IP!Answers
    <2>3. failed[s] = 0 /\ next[s] = N + 1
        BY <1>1, <2>2 DEF PipelineInv, IngestInv, IP!StoreInv, IP!AllSent, IP!Finished
    <2>4. ASSUME NEW i \in (1..N) \ skipped[s] PROVE rows[docOf[s]][i] = s
        <3>1. i < next[s]
            BY <2>3, PartsAssumed
        <3>2. QED
            BY <1>1, <2>3, <3>1 DEF PipelineInv, IngestInv, IP!StoreInv, IP!OwnsSent
    <2>5. QED
        BY <2>1, <2>2, <2>4 DEF StoredBy, I!Published, IP!Published
<1>2. PipelineInv => SuccessIsStored
    BY <1>1 DEF SuccessIsStored
<1>3. QED
    BY <1>2, PipelineInvariant, PTL

\* A document its worker waits for, or that has an outcome, was confirmed.
LEMMA OnlyConfirmed ==
    ASSUME WorkerInv, NEW d \in Docs, confirms[d] <= 1, d \notin duplicated,
           WP!Owned(d) \/ WP!Settled(d)
    PROVE  WP!Sole(d)
<1>1. WP!Known(d)
    BY DEF WP!Known, WP!Owned, WP!Owns, WP!InHandOf, WP!Busy, WP!After
<1>2. confirms[d] \in Nat /\ confirms[d] > 0
    BY <1>1 DEF WorkerInv, WP!KnownConfirmed, WP!TypeInv, WP!TypeOK
<1>3. confirms[d] = 1
    BY <1>2
<1>4. QED
    BY <1>3 DEF WorkerInv, WP!SoleInv

LEMMA WaitingOwns ==
    ASSUME CallInv, NEW w \in Workers, NEW s \in Streams, Waiting(w, s)
    PROVE  WP!Owns(w, docOf[s])
BY DEF CallInv, Waiting, WP!Owns, WP!Busy

(* A document that one attempt completed is not dead-lettered as well,      *)
(* unless it was confirmed twice, an error copied its task, or the answer   *)
(* did not reach the worker.                                                *)
THEOREM CompletedIsNotDead == Spec => []CompletedNotDead
<1>1. ASSUME PipelineInv, NEW s \in Streams, I!Published(s, "completed"),
             W!Dead(docOf[s]), confirms[docOf[s]] <= 1, docOf[s] \notin duplicated
      PROVE  told[s] = "error"
    <2>1. WorkerInv /\ IngestInv /\ EndsInv /\ CallInv /\ LinkInv
        BY <1>1 DEF PipelineInv, LinksInv
    <2>2. WP!Dead(docOf[s]) /\ docOf[s] \in Docs
        BY <1>1, <2>1 DEF W!Dead, WP!Dead, IngestInv, IP!TypeOK
    <2>3. IP!Published(s, "completed")
        BY <1>1 DEF I!Published, IP!Published
    <2>4. at[s] # "idle"
        BY <2>1, <2>3 DEF EndsInv, Ends, IP!Published
    <2>5. told[s] # "failed"
        BY <2>1, <2>3 DEF IngestInv, IP!StoreInv, IP!AllSent, IP!Finished, IP!AnswerInv,
            IP!Answers
    <2>6. WP!Sole(docOf[s])
        BY <1>1, <2>1, <2>2, OnlyConfirmed DEF WP!Settled
    <2>7. ~WP!Owned(docOf[s]) /\ docOf[s] \notin succeeded /\ ~WP!Lost(docOf[s])
        BY <2>2, <2>6 DEF WP!Sole, WP!Settled
    <2>8. \A w \in Workers : ~Waiting(w, s)
        BY <2>1, <2>7, WaitingOwns DEF WP!Owned
    <2>9. QED
        BY <2>1, <2>4, <2>5, <2>7, <2>8 DEF LinkInv, Linked
<1>2. PipelineInv => CompletedNotDead
    <2>1. ASSUME PipelineInv, NEW s \in Streams
          PROVE  docOf[s] \in Docs /\ confirms[docOf[s]] \in Nat
        BY <2>1 DEF PipelineInv, IngestInv, IP!TypeOK, WorkerInv, WP!TypeInv, WP!TypeOK
    <2>2. QED
        BY <1>1, <2>1 DEF CompletedNotDead
<1>3. QED
    BY <1>2, PipelineInvariant, PTL

(* Two attempts at a document run at a time in the ingest service only if   *)
(* there were two tasks, or the caller of one no longer listens to it.      *)
THEOREM OverlapsAreExplained == Spec => []OverlapOnlyAfterBreak
<1>1. ASSUME PipelineInv, NEW s \in Streams, NEW t \in Streams, s # t,
             docOf[s] = docOf[t], at[s] \in I!Live, at[t] \in I!Live,
             confirms[docOf[s]] <= 1, docOf[s] \notin duplicated,
             told[s] # "error", told[t] # "error"
      PROVE  FALSE
    <2>1. WorkerInv /\ IngestInv /\ EndsInv /\ CallInv /\ LinkInv
        BY <1>1 DEF PipelineInv, LinksInv
    <2>2. docOf[s] \in Docs
        BY <2>1 DEF IngestInv, IP!TypeOK
    <2>3. /\ at[s] # "idle" /\ told[s] = "none"
          /\ at[t] # "idle" /\ told[t] = "none"
        BY <1>1, <2>1 DEF EndsInv, Ends, I!Live, I!Receiving, I!Complete, IP!Live,
            IP!Receiving, IP!Complete
    <2>4. PICK v \in Workers : Waiting(v, s)
        BY <2>1, <2>3 DEF LinkInv, Linked
    <2>5. PICK w \in Workers : Waiting(w, t)
        BY <2>1, <2>3 DEF LinkInv, Linked
    <2>6. WP!Owns(v, docOf[s]) /\ WP!Owns(w, docOf[s])
        BY <1>1, <2>1, <2>4, <2>5, WaitingOwns
    <2>7. WP!Sole(docOf[s])
        BY <1>1, <2>1, <2>2, <2>6, OnlyConfirmed DEF WP!Owned
    <2>8. v = w
        BY <2>6, <2>7 DEF WP!Sole, WP!OwnedOnce
    <2>9. QED
        BY <1>1, <2>4, <2>5, <2>8 DEF Waiting
<1>2. PipelineInv => OverlapOnlyAfterBreak
    <2>1. ASSUME PipelineInv, NEW s \in Streams
          PROVE  docOf[s] \in Docs /\ confirms[docOf[s]] \in Nat
        BY <2>1 DEF PipelineInv, IngestInv, IP!TypeOK, WorkerInv, WP!TypeInv, WP!TypeOK
    <2>2. QED
        BY <1>1, <2>1 DEF OverlapOnlyAfterBreak
<1>3. QED
    BY <1>2, PipelineInvariant, PTL
=============================================================================
