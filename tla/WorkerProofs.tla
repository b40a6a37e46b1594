---------------------------- MODULE WorkerProofs ----------------------------
(***************************************************************************)
(* Safety of module Worker for every set of documents and workers and      *)
(* every value of the bounds.                                              *)
(***************************************************************************)
EXTENDS Worker, SequenceTheorems, TLAPS, FiniteSetTheorems

(* Where a push is due, the retry count decides which: the type of the      *)
(* queue depends on it, since a retry is pushed with the count raised.      *)
PushByRetry ==
    \A w \in Workers :
        /\ pc[w] \in {"requeue", "xrequeue"} => task[w].retry < MaxRetries
        /\ pc[w] \in {"dlq", "xdlq"} => task[w].retry = MaxRetries

TypeInv == TypeOK /\ PushByRetry

\* The part of TypeInv about the workers' places, and the rest of it.
PlaceOK ==
    /\ pc \in [Workers -> PCs]
    /\ task \in [Workers -> Tasks \cup {NoTask}]
    /\ \A w \in Workers : pc[w] \in Busy \cup After <=> task[w] # NoTask
    /\ PushByRetry
DataOK ==
    /\ queue \in Seq(Tasks)
    /\ dlq \in Seq(Tasks)
    /\ tmp \in [Workers -> SUBSET Docs]
    /\ confirms \in [Docs -> Nat]
    /\ failures \in [Docs -> Nat]
    /\ succeeded \in SUBSET Docs
    /\ lost \in SUBSET (Docs \X Causes)
    /\ duplicated \in SUBSET Docs
    /\ faults \in 0..MaxFaults

LEMMA TypeParts == (TypeInv <=> PlaceOK /\ DataOK) /\ (TypeInv' <=> PlaceOK' /\ DataOK')
BY DEF TypeInv, TypeOK, PlaceOK, DataOK

-----------------------------------------------------------------------------
(* Tasks and the list *)

LEMMA TaskFields ==
    ASSUME NEW t \in Tasks
    PROVE  t.doc \in Docs /\ t.retry \in 0..MaxRetries
BY DEF Tasks

LEMMA AgainIsTask ==
    ASSUME NEW t \in Tasks, t.retry < MaxRetries
    PROVE  Again(t) \in Tasks /\ Again(t).doc = t.doc /\ Again(t).retry = t.retry + 1
BY WorkerAssumption DEF Tasks, Again

LEMMA FreshIsTask ==
    ASSUME NEW d \in Docs
    PROVE  Fresh(d) \in Tasks /\ Fresh(d).doc = d /\ Fresh(d).retry = 0
BY WorkerAssumption DEF Tasks, Fresh

LEMMA InHand ==
    ASSUME PlaceOK, NEW w \in Workers, pc[w] \in Busy \cup After
    PROVE  task[w] \in Tasks /\ task[w].doc \in Docs /\ task[w].retry \in 0..MaxRetries
BY TaskFields DEF PlaceOK

LEMMA PopType ==
    ASSUME queue \in Seq(Tasks), queue # <<>>
    PROVE  Head(queue) \in Tasks /\ Tail(queue) \in Seq(Tasks)
OBVIOUS

LEMMA PushAgainType ==
    ASSUME PlaceOK, DataOK, NEW w \in Workers,
           pc[w] \in {"requeue", "xrequeue"}, PushAgain(w)
    PROVE  queue' \in Seq(Tasks)
<1>1. Again(task[w]) \in Tasks
    <2>1. task[w] \in Tasks
        BY InHand DEF Busy, After
    <2>2. task[w].retry < MaxRetries
        BY DEF PlaceOK, PushByRetry
    <2>3. QED
        BY <2>1, <2>2, AgainIsTask
<1>2. QED
    BY <1>1 DEF DataOK, PushAgain

LEMMA PushDeadType ==
    ASSUME PlaceOK, DataOK, NEW w \in Workers, task[w] \in Tasks, PushDead(w)
    PROVE  dlq' \in Seq(Tasks)
BY DEF DataOK, PushDead

LEMMA FaultCount ==
    ASSUME DataOK, Fault
    PROVE  faults' \in 0..MaxFaults
BY WorkerAssumption DEF DataOK, Fault

-----------------------------------------------------------------------------
(* How a worker's place changes: it moves on with the task it has, it       *)
(* raises, it lets the task go, or it takes one.                            *)

LEMMA MoveOn ==
    ASSUME PlaceOK, NEW w \in Workers, pc[w] \in Busy \cup After,
           NEW l \in Busy \cup After, Goto(w, l), UNCHANGED task,
           l \in {"requeue", "xrequeue"} => task[w].retry < MaxRetries,
           l \in {"dlq", "xdlq"} => task[w].retry = MaxRetries
    PROVE  PlaceOK'
BY DEF PlaceOK, PushByRetry, Goto, PCs

LEMMA Raised ==
    ASSUME PlaceOK, NEW w \in Workers, pc[w] \in Busy \cup After,
           Raise(w), UNCHANGED task
    PROVE  PlaceOK'
<1>1. task[w].retry \in 0..MaxRetries
    BY InHand
<1>2. CASE task[w].retry < MaxRetries
    BY <1>2, MoveOn DEF Raise, Busy
<1>3. CASE ~(task[w].retry < MaxRetries)
    <2>1. task[w].retry = MaxRetries
        BY <1>1, <1>3, WorkerAssumption
    <2>2. Goto(w, "xdlq")
        BY <1>3 DEF Raise
    <2>3. QED
        BY <2>1, <2>2, MoveOn DEF Busy
<1>4. QED
    BY <1>2, <1>3

LEMMA LetGo ==
    ASSUME PlaceOK, NEW w \in Workers, NEW l \in {"blpop", "down"}, Goto(w, l),
           task' = [task EXCEPT ![w] = NoTask]
    PROVE  PlaceOK'
BY DEF PlaceOK, PushByRetry, Goto, PCs, Busy, After

LEMMA TakeUp ==
    ASSUME PlaceOK, NEW w \in Workers, NEW t \in Tasks, Goto(w, "download"),
           task' = [task EXCEPT ![w] = t]
    PROVE  PlaceOK'
BY WorkerAssumption DEF PlaceOK, PushByRetry, Goto, PCs, Busy, After

LEMMA Stay ==
    ASSUME PlaceOK, UNCHANGED <<pc, task>>
    PROVE  PlaceOK'
BY DEF PlaceOK, PushByRetry

-----------------------------------------------------------------------------
LEMMA TypeInit == Init => TypeInv
BY WorkerAssumption DEF Init, TypeInv, TypeOK, PushByRetry, Busy, After, PCs

LEMMA TypeStep == TypeInv /\ [Next]_workerVars => TypeInv'
<1> SUFFICES ASSUME PlaceOK, DataOK, [Next]_workerVars PROVE PlaceOK' /\ DataOK'
    BY TypeParts
<1>1. ASSUME NEW d \in Docs, Confirm(d) PROVE PlaceOK' /\ DataOK'
    <2>1. PlaceOK'
        BY <1>1, Stay DEF Confirm
    <2>2. queue' \in Seq(Tasks)
        BY <1>1, FreshIsTask DEF Confirm, DataOK
    <2>3. QED
        BY <1>1, <2>1, <2>2 DEF Confirm, DataOK
<1>2. ASSUME NEW w \in Workers, Take(w) PROVE PlaceOK' /\ DataOK'
    <2>1. Head(queue) \in Tasks /\ Tail(queue) \in Seq(Tasks)
        BY <1>2, PopType DEF Take, DataOK
    <2>2. PlaceOK'
        BY <1>2, <2>1, TakeUp DEF Take
    <2>3. QED
        BY <1>2, <2>1, <2>2 DEF Take, DataOK
<1>3. ASSUME NEW w \in Workers, TakeReplyLost(w) PROVE PlaceOK' /\ DataOK'
    <2>1. Head(queue).doc \in Docs /\ Tail(queue) \in Seq(Tasks)
        BY <1>3, PopType, TaskFields DEF TakeReplyLost, DataOK
    <2>2. PlaceOK'
        BY <1>3, Stay DEF TakeReplyLost
    <2>3. lost' \in SUBSET (Docs \X Causes)
        BY <1>3, <2>1 DEF TakeReplyLost, DataOK, Causes
    <2>4. QED
        BY <1>3, <2>1, <2>2, <2>3, FaultCount DEF TakeReplyLost, DataOK
<1>4. ASSUME NEW w \in Workers, Download(w) PROVE PlaceOK' /\ DataOK'
    <2>1. task[w] \in Tasks /\ task[w].doc \in Docs /\ task[w].retry \in 0..MaxRetries
        BY <1>4, InHand DEF Download, Busy, After
    <2>2. PlaceOK'
        BY <1>4, MoveOn DEF Download, Busy, After
    <2>3. QED
        BY <1>4, <2>1, <2>2 DEF Download, DataOK
<1>5. ASSUME NEW w \in Workers, DownloadRaises(w) PROVE PlaceOK' /\ DataOK'
    <2>1. task[w] \in Tasks /\ task[w].doc \in Docs /\ task[w].retry \in 0..MaxRetries
        BY <1>5, InHand DEF DownloadRaises, Busy, After
    <2>2. PlaceOK'
        BY <1>5, Raised DEF DownloadRaises, Busy, After
    <2>3. failures' \in [Docs -> Nat]
        BY <1>5, <2>1 DEF DownloadRaises, FailAttempt, DataOK
    <2>4. QED
        BY <1>5, <2>1, <2>2, <2>3 DEF DownloadRaises, DataOK
<1>6. ASSUME NEW w \in Workers, Parse(w) PROVE PlaceOK' /\ DataOK'
    <2>1. task[w] \in Tasks /\ task[w].doc \in Docs /\ task[w].retry \in 0..MaxRetries
        BY <1>6, InHand DEF Parse, Busy, After
    <2>2. PlaceOK'
        BY <1>6, MoveOn DEF Parse, Busy, After
    <2>3. QED
        BY <1>6, <2>1, <2>2 DEF Parse, DataOK
<1>7. ASSUME NEW w \in Workers, ParseRaises(w) PROVE PlaceOK' /\ DataOK'
    <2>1. task[w] \in Tasks /\ task[w].doc \in Docs /\ task[w].retry \in 0..MaxRetries
        BY <1>7, InHand DEF ParseRaises, Busy, After
    <2>2. PlaceOK'
        BY <1>7, Raised DEF ParseRaises, Busy, After
    <2>3. failures' \in [Docs -> Nat]
        BY <1>7, <2>1 DEF ParseRaises, FailAttempt, DataOK
    <2>4. QED
        BY <1>7, <2>1, <2>2, <2>3 DEF ParseRaises, DataOK
<1>8. ASSUME NEW w \in Workers, StreamSucceeds(w) PROVE PlaceOK' /\ DataOK'
    <2>1. task[w] \in Tasks /\ task[w].doc \in Docs /\ task[w].retry \in 0..MaxRetries
        BY <1>8, InHand DEF StreamSucceeds, Busy, After
    <2>2. PlaceOK'
        BY <1>8, MoveOn DEF StreamSucceeds, Busy, After
    <2>3. QED
        BY <1>8, <2>1, <2>2 DEF StreamSucceeds, DataOK
<1>9. ASSUME NEW w \in Workers, StreamFails(w) PROVE PlaceOK' /\ DataOK'
    <2>1. task[w] \in Tasks /\ task[w].doc \in Docs /\ task[w].retry \in 0..MaxRetries
        BY <1>9, InHand DEF StreamFails, Busy, After
    <2>2. PlaceOK'
        <3>1. CASE task[w].retry >= MaxRetries
            <4>1. Goto(w, "dlq") /\ task[w].retry = MaxRetries
                BY <1>9, <2>1, <3>1, WorkerAssumption DEF StreamFails
            <4>2. QED
                BY <1>9, <4>1, MoveOn DEF StreamFails, Busy
        <3>2. CASE ~(task[w].retry >= MaxRetries)
            <4>1. Goto(w, "requeue") /\ task[w].retry < MaxRetries
                BY <1>9, <2>1, <3>2, WorkerAssumption DEF StreamFails
            <4>2. QED
                BY <1>9, <4>1, MoveOn DEF StreamFails, Busy
        <3>3. QED
            BY <3>1, <3>2
    <2>3. failures' \in [Docs -> Nat]
        BY <1>9, <2>1 DEF StreamFails, FailAttempt, DataOK
    <2>4. QED
        BY <1>9, <2>1, <2>2, <2>3 DEF StreamFails, DataOK
<1>10. ASSUME NEW w \in Workers, Finish(w) PROVE PlaceOK' /\ DataOK'
    <2>1. task[w] \in Tasks /\ task[w].doc \in Docs /\ task[w].retry \in 0..MaxRetries
        BY <1>10, InHand DEF Finish, Busy, After
    <2>2. PlaceOK'
        BY <1>10, LetGo DEF Finish, Idle
    <2>3. tmp' \in [Workers -> SUBSET Docs] /\ faults' \in 0..MaxFaults
        BY <1>10, FaultCount DEF Finish, DataOK
    <2>4. QED
        BY <1>10, <2>1, <2>2, <2>3 DEF Finish, DataOK
<1>11. ASSUME NEW w \in Workers, Requeue(w) PROVE PlaceOK' /\ DataOK'
    <2>1. task[w] \in Tasks /\ task[w].doc \in Docs /\ task[w].retry \in 0..MaxRetries
        BY <1>11, InHand DEF Requeue, Busy, After
    <2>2. PlaceOK'
        BY <1>11, MoveOn DEF Requeue, Busy, After
    <2>3. queue' \in Seq(Tasks)
        BY <1>11, PushAgainType DEF Requeue
    <2>4. QED
        BY <1>11, <2>1, <2>2, <2>3 DEF Requeue, DataOK
<1>12. ASSUME NEW w \in Workers, DeadLetter(w) PROVE PlaceOK' /\ DataOK'
    <2>1. task[w] \in Tasks /\ task[w].doc \in Docs /\ task[w].retry \in 0..MaxRetries
        BY <1>12, InHand DEF DeadLetter, Busy, After
    <2>2. PlaceOK'
        BY <1>12, MoveOn DEF DeadLetter, Busy, After
    <2>3. dlq' \in Seq(Tasks)
        BY <1>12, <2>1, PushDeadType DEF DeadLetter
    <2>4. QED
        BY <1>12, <2>1, <2>2, <2>3 DEF DeadLetter, DataOK
<1>13. ASSUME NEW w \in Workers, RequeueRaises(w) PROVE PlaceOK' /\ DataOK'
    <2>1. task[w] \in Tasks /\ task[w].doc \in Docs /\ task[w].retry \in 0..MaxRetries
        BY <1>13, InHand DEF RequeueRaises, Busy, After
    <2>2. PlaceOK'
        BY <1>13, Raised DEF RequeueRaises, Busy, After
    <2>3. queue' \in Seq(Tasks)
        BY <1>13, PushAgainType DEF RequeueRaises, DataOK
    <2>4. duplicated' \in SUBSET Docs /\ faults' \in 0..MaxFaults
        BY <1>13, <2>1, FaultCount DEF RequeueRaises, DataOK
    <2>5. QED
        BY <1>13, <2>1, <2>2, <2>3, <2>4 DEF RequeueRaises, DataOK
<1>14. ASSUME NEW w \in Workers, DeadLetterRaises(w) PROVE PlaceOK' /\ DataOK'
    <2>1. task[w] \in Tasks /\ task[w].doc \in Docs /\ task[w].retry \in 0..MaxRetries
        BY <1>14, InHand DEF DeadLetterRaises, Busy, After
    <2>2. PlaceOK'
        BY <1>14, Raised DEF DeadLetterRaises, Busy, After
    <2>3. dlq' \in Seq(Tasks)
        BY <1>14, <2>1, PushDeadType DEF DeadLetterRaises, DataOK
    <2>4. duplicated' \in SUBSET Docs /\ faults' \in 0..MaxFaults
        BY <1>14, <2>1, FaultCount DEF DeadLetterRaises, DataOK
    <2>5. QED
        BY <1>14, <2>1, <2>2, <2>3, <2>4 DEF DeadLetterRaises, DataOK
<1>15. ASSUME NEW w \in Workers, Unlink(w) PROVE PlaceOK' /\ DataOK'
    <2>1. task[w] \in Tasks /\ task[w].doc \in Docs /\ task[w].retry \in 0..MaxRetries
        BY <1>15, InHand DEF Unlink, Busy, After
    <2>2. PlaceOK'
        BY <1>15, LetGo DEF Unlink, Idle
    <2>3. QED
        BY <1>15, <2>1, <2>2 DEF Unlink, DataOK
<1>16. ASSUME NEW w \in Workers, UnlinkRaises(w) PROVE PlaceOK' /\ DataOK'
    <2>1. task[w] \in Tasks /\ task[w].doc \in Docs /\ task[w].retry \in 0..MaxRetries
        BY <1>16, InHand DEF UnlinkRaises, Busy, After
    <2>2. PlaceOK'
        BY <1>16, Raised DEF UnlinkRaises, Busy, After
    <2>3. QED
        BY <1>16, <2>1, <2>2, FaultCount DEF UnlinkRaises, DataOK
<1>17. ASSUME NEW w \in Workers, RequeueAfterRaise(w) PROVE PlaceOK' /\ DataOK'
    <2>1. task[w] \in Tasks /\ task[w].doc \in Docs /\ task[w].retry \in 0..MaxRetries
        BY <1>17, InHand DEF RequeueAfterRaise, Busy, After
    <2>2. PlaceOK'
        BY <1>17, LetGo DEF RequeueAfterRaise, Idle
    <2>3. queue' \in Seq(Tasks)
        BY <1>17, PushAgainType DEF RequeueAfterRaise
    <2>4. QED
        BY <1>17, <2>1, <2>2, <2>3 DEF RequeueAfterRaise, DataOK
<1>18. ASSUME NEW w \in Workers, DeadLetterAfterRaise(w) PROVE PlaceOK' /\ DataOK'
    <2>1. task[w] \in Tasks /\ task[w].doc \in Docs /\ task[w].retry \in 0..MaxRetries
        BY <1>18, InHand DEF DeadLetterAfterRaise, Busy, After
    <2>2. PlaceOK'
        BY <1>18, MoveOn DEF DeadLetterAfterRaise, Busy, After
    <2>3. dlq' \in Seq(Tasks)
        BY <1>18, <2>1, PushDeadType DEF DeadLetterAfterRaise
    <2>4. QED
        BY <1>18, <2>1, <2>2, <2>3 DEF DeadLetterAfterRaise, DataOK
<1>19. ASSUME NEW w \in Workers, PushRaisesAgain(w) PROVE PlaceOK' /\ DataOK'
    <2>1. task[w] \in Tasks /\ task[w].doc \in Docs /\ task[w].retry \in 0..MaxRetries
        BY <1>19, InHand DEF PushRaisesAgain, Busy, After
    <2>2. PlaceOK'
        BY <1>19, LetGo DEF PushRaisesAgain, Idle
    <2>3. queue' \in Seq(Tasks)
        BY <1>19, PushAgainType DEF PushRaisesAgain, DataOK
    <2>4. dlq' \in Seq(Tasks)
        BY <1>19, <2>1, PushDeadType DEF PushRaisesAgain, DataOK
    <2>5. lost' \in SUBSET (Docs \X Causes)
        BY <1>19, <2>1 DEF PushRaisesAgain, Drop, Causes, DataOK
    <2>6. QED
        BY <1>19, <2>1, <2>2, <2>3, <2>4, <2>5, FaultCount DEF PushRaisesAgain, DataOK
<1>20. ASSUME NEW w \in Workers, UnlinkAfterRaise(w) PROVE PlaceOK' /\ DataOK'
    <2>1. task[w] \in Tasks /\ task[w].doc \in Docs /\ task[w].retry \in 0..MaxRetries
        BY <1>20, InHand DEF UnlinkAfterRaise, Busy, After
    <2>2. PlaceOK'
        BY <1>20, LetGo DEF UnlinkAfterRaise, Idle
    <2>3. QED
        BY <1>20, <2>1, <2>2 DEF UnlinkAfterRaise, DataOK
<1>21. ASSUME NEW w \in Workers, Exit(w) PROVE PlaceOK' /\ DataOK'
    <2>1. PlaceOK'
        BY <1>21, LetGo DEF Exit
    <2>2. lost' \in SUBSET (Docs \X Causes)
        <3>1. CASE pc[w] \in Busy
            <4>1. task[w].doc \in Docs
                BY <3>1, InHand
            <4>2. PICK c \in {"sigterm", "crash"} : lost' = lost \cup {<<task[w].doc, c>>}
                BY <1>21, <3>1 DEF Exit, Drop
            <4>3. QED
                BY <4>1, <4>2 DEF DataOK, Causes
        <3>2. CASE pc[w] \notin Busy
            BY <1>21, <3>2 DEF Exit, DataOK
        <3>3. QED
            BY <3>1, <3>2
    <2>3. QED
        BY <1>21, <2>1, <2>2, FaultCount DEF Exit, DataOK
<1>22. ASSUME NEW w \in Workers, Restart(w) PROVE PlaceOK' /\ DataOK'
    <2>1. PlaceOK'
        BY <1>22 DEF Restart, PlaceOK, PushByRetry, Goto, PCs, Busy, After
    <2>2. QED
        BY <1>22, <2>1 DEF Restart, DataOK
<1>23. CASE UNCHANGED workerVars
    BY <1>23, Stay DEF workerVars, DataOK
<1>24. QED
    BY <1>1, <1>2, <1>3, <1>4, <1>5, <1>6, <1>7, <1>8, <1>9, <1>10, <1>11, <1>12, <1>13, <1>14, <1>15, <1>16, <1>17, <1>18, <1>19, <1>20, <1>21, <1>22, <1>23 DEF Next, Progress, Disturb

(* Type correctness, with the retry counts each kind of push relies on: no  *)
(* task is ever requeued past MaxRetries.                                   *)
THEOREM TypeCorrect == Spec => []TypeOK
<1>1. TypeInv => TypeOK
    BY DEF TypeInv
<1>2. QED
    BY <1>1, TypeInit, TypeStep, PTL DEF Spec

-----------------------------------------------------------------------------
(* No task vanishes: a document that some copy or outcome accounts for is   *)
(* still accounted for after every step.                                    *)

Accounted(d) ==
    \/ Queued(d) \/ \E w \in Workers : Owns(w, d)
    \/ d \in succeeded \/ Dead(d) \/ Lost(d)

LEMMA QueuedAfterPush ==
    ASSUME DataOK, NEW w \in Workers, PushAgain(w),
           NEW d, d = task[w].doc \/ Queued(d)
    PROVE  Queued(d)'
<1>1. queue' = Append(queue, Again(task[w])) /\ Again(task[w]).doc = task[w].doc
    BY DEF PushAgain, Again
<1>2. /\ Len(queue') = Len(queue) + 1 /\ Len(queue) \in Nat
      /\ queue'[Len(queue) + 1] = Again(task[w])
      /\ \A i \in 1..Len(queue) : queue'[i] = queue[i]
    BY <1>1 DEF DataOK
<1>3. Len(queue) + 1 \in 1..Len(queue') /\ 1..Len(queue) \subseteq 1..Len(queue')
    BY <1>2
<1>4. QED
    BY <1>1, <1>2, <1>3 DEF Queued

LEMMA DeadAfterPush ==
    ASSUME DataOK, NEW w \in Workers, PushDead(w), NEW d, d = task[w].doc \/ Dead(d)
    PROVE  Dead(d)'
<1>1. dlq' = Append(dlq, task[w])
    BY DEF PushDead
<1>2. /\ Len(dlq') = Len(dlq) + 1 /\ Len(dlq) \in Nat
      /\ dlq'[Len(dlq) + 1] = task[w]
      /\ \A i \in 1..Len(dlq) : dlq'[i] = dlq[i]
    BY <1>1 DEF DataOK
<1>3. Len(dlq) + 1 \in 1..Len(dlq') /\ 1..Len(dlq) \subseteq 1..Len(dlq')
    BY <1>2
<1>4. QED
    BY <1>2, <1>3 DEF Dead

LEMMA QueuedAfterPop ==
    ASSUME DataOK, queue # <<>>, queue' = Tail(queue), NEW d, Queued(d)
    PROVE  Queued(d)' \/ Head(queue).doc = d
<1>1. PICK i \in 1..Len(queue) : queue[i].doc = d
    BY DEF Queued
<1>2. CASE i = 1
    BY <1>1, <1>2 DEF DataOK
<1>3. CASE i # 1
    <2>1. i - 1 \in 1..Len(Tail(queue)) /\ Tail(queue)[i - 1] = queue[i]
        BY <1>1, <1>3 DEF DataOK
    <2>2. QED
        BY <1>1, <2>1 DEF Queued
<1>4. QED
    BY <1>2, <1>3

LEMMA QueuedAfterConfirm ==
    ASSUME DataOK, NEW c \in Docs, queue' = <<Fresh(c)>> \o queue,
           NEW d, d = c \/ Queued(d)
    PROVE  Queued(d)'
<1>1. /\ Len(queue') = Len(queue) + 1 /\ Len(queue) \in Nat
      /\ queue'[1] = Fresh(c)
      /\ \A i \in 1..Len(queue) : queue'[i + 1] = queue[i]
    BY FreshIsTask DEF DataOK
<1>2. 1 \in 1..Len(queue') /\ \A i \in 1..Len(queue) : i + 1 \in 1..Len(queue')
    BY <1>1
<1>3. QED
    BY <1>1, <1>2, FreshIsTask DEF Queued

LEMMA OthersKeep ==
    ASSUME PlaceOK, NEW w \in Workers, NEW l, Goto(w, l), NEW t,
           task' = task \/ task' = [task EXCEPT ![w] = t],
           NEW v \in Workers \ {w}, NEW d, Owns(v, d)
    PROVE  Owns(v, d)'
BY DEF PlaceOK, Goto, Owns

(* A step of worker w keeps d accounted for if it does so for the list and  *)
(* for its own copy.                                                        *)
LEMMA StepOf ==
    ASSUME NEW w \in Workers, NEW d \in Docs, Accounted(d),
           Queued(d) => Accounted(d)',
           Owns(w, d) => Accounted(d)',
           \A v \in Workers \ {w} : Owns(v, d) => Owns(v, d)',
           succeeded \subseteq succeeded', lost \subseteq lost', Dead(d) => Dead(d)'
    PROVE  Accounted(d)'
BY DEF Accounted, Lost

LEMMA AccountedStep ==
    ASSUME PlaceOK, DataOK, [Next]_workerVars, NEW d \in Docs, Accounted(d)
    PROVE  Accounted(d)'
<1>1. ASSUME NEW c \in Docs, Confirm(c) PROVE Accounted(d)'
    BY <1>1, QueuedAfterConfirm DEF Confirm, Accounted, Owns, Dead, Lost
<1>2. ASSUME NEW w \in Workers, Take(w) PROVE Accounted(d)'
    <2>1. Queued(d) => Accounted(d)'
        <3>1. ASSUME Queued(d), Head(queue).doc = d PROVE Owns(w, d)'
            BY <1>2, <3>1 DEF Take, Owns, Goto, Busy, PlaceOK
        <3>2. QED
            BY <1>2, <3>1, QueuedAfterPop DEF Take, Accounted
    <2>2. Owns(w, d) => Accounted(d)'
        BY <1>2 DEF Take, Owns, Busy
    <2>3. \A v \in Workers \ {w} : Owns(v, d) => Owns(v, d)'
        BY <1>2, OthersKeep DEF Take
    <2>4. Dead(d) => Dead(d)'
        BY <1>2 DEF Take, Dead
    <2>5. QED
        BY <1>2, <2>1, <2>2, <2>3, <2>4, StepOf DEF Take
<1>3. ASSUME NEW w \in Workers, TakeReplyLost(w) PROVE Accounted(d)'
    <2>1. Queued(d) => Accounted(d)'
        <3>1. ASSUME Queued(d), Head(queue).doc = d PROVE Lost(d)'
            BY <1>3, <3>1 DEF TakeReplyLost, Lost, Causes
        <3>2. QED
            BY <1>3, <3>1, QueuedAfterPop DEF TakeReplyLost, Accounted
    <2>2. Owns(w, d) => Accounted(d)'
        BY <1>3 DEF TakeReplyLost, Owns, Busy
    <2>3. \A v \in Workers \ {w} : Owns(v, d) => Owns(v, d)'
        BY <1>3 DEF TakeReplyLost, Owns
    <2>4. Dead(d) => Dead(d)'
        BY <1>3 DEF TakeReplyLost, Dead
    <2>5. QED
        BY <1>3, <2>1, <2>2, <2>3, <2>4, StepOf DEF TakeReplyLost
<1>4. ASSUME NEW w \in Workers, Download(w) PROVE Accounted(d)'
    <2>1. Queued(d) => Accounted(d)'
        BY <1>4 DEF Download, Accounted, Queued
    <2>2. Owns(w, d) => Accounted(d)'
        BY <1>4 DEF Download, Accounted, Owns, Goto, Busy, PlaceOK
    <2>3. \A v \in Workers \ {w} : Owns(v, d) => Owns(v, d)'
        BY <1>4, OthersKeep DEF Download
    <2>4. Dead(d) => Dead(d)'
        BY <1>4 DEF Download, Dead
    <2>5. QED
        BY <1>4, <2>1, <2>2, <2>3, <2>4, StepOf DEF Download
<1>5. ASSUME NEW w \in Workers, DownloadRaises(w) PROVE Accounted(d)'
    <2>1. Queued(d) => Accounted(d)'
        BY <1>5 DEF DownloadRaises, Accounted, Queued
    <2>2. Owns(w, d) => Accounted(d)'
        BY <1>5 DEF DownloadRaises, Accounted, Owns, Raise, Goto, Busy, PlaceOK
    <2>3. \A v \in Workers \ {w} : Owns(v, d) => Owns(v, d)'
        BY <1>5, OthersKeep DEF DownloadRaises, Raise
    <2>4. Dead(d) => Dead(d)'
        BY <1>5 DEF DownloadRaises, Dead
    <2>5. QED
        BY <1>5, <2>1, <2>2, <2>3, <2>4, StepOf DEF DownloadRaises
<1>6. ASSUME NEW w \in Workers, Parse(w) PROVE Accounted(d)'
    <2>1. Queued(d) => Accounted(d)'
        BY <1>6 DEF Parse, Accounted, Queued
    <2>2. Owns(w, d) => Accounted(d)'
        BY <1>6 DEF Parse, Accounted, Owns, Goto, Busy, PlaceOK
    <2>3. \A v \in Workers \ {w} : Owns(v, d) => Owns(v, d)'
        BY <1>6, OthersKeep DEF Parse
    <2>4. Dead(d) => Dead(d)'
        BY <1>6 DEF Parse, Dead
    <2>5. QED
        BY <1>6, <2>1, <2>2, <2>3, <2>4, StepOf DEF Parse
<1>7. ASSUME NEW w \in Workers, ParseRaises(w) PROVE Accounted(d)'
    <2>1. Queued(d) => Accounted(d)'
        BY <1>7 DEF ParseRaises, Accounted, Queued
    <2>2. Owns(w, d) => Accounted(d)'
        BY <1>7 DEF ParseRaises, Accounted, Owns, Raise, Goto, Busy, PlaceOK
    <2>3. \A v \in Workers \ {w} : Owns(v, d) => Owns(v, d)'
        BY <1>7, OthersKeep DEF ParseRaises, Raise
    <2>4. Dead(d) => Dead(d)'
        BY <1>7 DEF ParseRaises, Dead
    <2>5. QED
        BY <1>7, <2>1, <2>2, <2>3, <2>4, StepOf DEF ParseRaises
<1>8. ASSUME NEW w \in Workers, StreamSucceeds(w) PROVE Accounted(d)'
    <2>1. Queued(d) => Accounted(d)'
        BY <1>8 DEF StreamSucceeds, Accounted, Queued
    <2>2. Owns(w, d) => Accounted(d)'
        BY <1>8 DEF StreamSucceeds, Accounted, Owns
    <2>3. \A v \in Workers \ {w} : Owns(v, d) => Owns(v, d)'
        BY <1>8, OthersKeep DEF StreamSucceeds
    <2>4. Dead(d) => Dead(d)'
        BY <1>8 DEF StreamSucceeds, Dead
    <2>5. QED
        BY <1>8, <2>1, <2>2, <2>3, <2>4, StepOf DEF StreamSucceeds
<1>9. ASSUME NEW w \in Workers, StreamFails(w) PROVE Accounted(d)'
    <2>1. Queued(d) => Accounted(d)'
        BY <1>9 DEF StreamFails, Accounted, Queued
    <2>2. Owns(w, d) => Accounted(d)'
        BY <1>9 DEF StreamFails, Accounted, Owns, Goto, Busy, PlaceOK
    <2>3. \A v \in Workers \ {w} : Owns(v, d) => Owns(v, d)'
        BY <1>9, OthersKeep DEF StreamFails
    <2>4. Dead(d) => Dead(d)'
        BY <1>9 DEF StreamFails, Dead
    <2>5. QED
        BY <1>9, <2>1, <2>2, <2>3, <2>4, StepOf DEF StreamFails
<1>10. ASSUME NEW w \in Workers, Finish(w) PROVE Accounted(d)'
    <2>1. Queued(d) => Accounted(d)'
        BY <1>10 DEF Finish, Accounted, Queued
    <2>2. Owns(w, d) => Accounted(d)'
        BY <1>10 DEF Finish, Owns, Busy
    <2>3. \A v \in Workers \ {w} : Owns(v, d) => Owns(v, d)'
        BY <1>10, OthersKeep DEF Finish, Idle
    <2>4. Dead(d) => Dead(d)'
        BY <1>10 DEF Finish, Dead
    <2>5. QED
        BY <1>10, <2>1, <2>2, <2>3, <2>4, StepOf DEF Finish
<1>11. ASSUME NEW w \in Workers, Requeue(w) PROVE Accounted(d)'
    <2>1. Queued(d) => Accounted(d)'
        BY <1>11, QueuedAfterPush DEF Requeue, Accounted
    <2>2. Owns(w, d) => Accounted(d)'
        BY <1>11, QueuedAfterPush DEF Requeue, Accounted, Owns
    <2>3. \A v \in Workers \ {w} : Owns(v, d) => Owns(v, d)'
        BY <1>11, OthersKeep DEF Requeue
    <2>4. Dead(d) => Dead(d)'
        BY <1>11 DEF Requeue, Dead
    <2>5. QED
        BY <1>11, <2>1, <2>2, <2>3, <2>4, StepOf DEF Requeue
<1>12. ASSUME NEW w \in Workers, DeadLetter(w) PROVE Accounted(d)'
    <2>1. Queued(d) => Accounted(d)'
        BY <1>12 DEF DeadLetter, Accounted, Queued
    <2>2. Owns(w, d) => Accounted(d)'
        BY <1>12, DeadAfterPush DEF DeadLetter, Accounted, Owns
    <2>3. \A v \in Workers \ {w} : Owns(v, d) => Owns(v, d)'
        BY <1>12, OthersKeep DEF DeadLetter
    <2>4. Dead(d) => Dead(d)'
        BY <1>12, DeadAfterPush DEF DeadLetter
    <2>5. QED
        BY <1>12, <2>1, <2>2, <2>3, <2>4, StepOf DEF DeadLetter
<1>13. ASSUME NEW w \in Workers, RequeueRaises(w) PROVE Accounted(d)'
    <2>1. Queued(d) => Accounted(d)'
        BY <1>13, QueuedAfterPush DEF RequeueRaises, Accounted, Queued
    <2>2. Owns(w, d) => Accounted(d)'
        BY <1>13 DEF RequeueRaises, Accounted, Owns, Raise, Goto, Busy, PlaceOK
    <2>3. \A v \in Workers \ {w} : Owns(v, d) => Owns(v, d)'
        BY <1>13, OthersKeep DEF RequeueRaises, Raise
    <2>4. Dead(d) => Dead(d)'
        BY <1>13 DEF RequeueRaises, Dead
    <2>5. QED
        BY <1>13, <2>1, <2>2, <2>3, <2>4, StepOf DEF RequeueRaises
<1>14. ASSUME NEW w \in Workers, DeadLetterRaises(w) PROVE Accounted(d)'
    <2>1. Queued(d) => Accounted(d)'
        BY <1>14 DEF DeadLetterRaises, Accounted, Queued
    <2>2. Owns(w, d) => Accounted(d)'
        BY <1>14 DEF DeadLetterRaises, Accounted, Owns, Raise, Goto, Busy, PlaceOK
    <2>3. \A v \in Workers \ {w} : Owns(v, d) => Owns(v, d)'
        BY <1>14, OthersKeep DEF DeadLetterRaises, Raise
    <2>4. Dead(d) => Dead(d)'
        BY <1>14, DeadAfterPush DEF DeadLetterRaises, Dead
    <2>5. QED
        BY <1>14, <2>1, <2>2, <2>3, <2>4, StepOf DEF DeadLetterRaises
<1>15. ASSUME NEW w \in Workers, Unlink(w) PROVE Accounted(d)'
    <2>1. Queued(d) => Accounted(d)'
        BY <1>15 DEF Unlink, Accounted, Queued
    <2>2. Owns(w, d) => Accounted(d)'
        BY <1>15 DEF Unlink, Owns, Busy
    <2>3. \A v \in Workers \ {w} : Owns(v, d) => Owns(v, d)'
        BY <1>15, OthersKeep DEF Unlink, Idle
    <2>4. Dead(d) => Dead(d)'
        BY <1>15 DEF Unlink, Dead
    <2>5. QED
        BY <1>15, <2>1, <2>2, <2>3, <2>4, StepOf DEF Unlink
<1>16. ASSUME NEW w \in Workers, UnlinkRaises(w) PROVE Accounted(d)'
    <2>1. Queued(d) => Accounted(d)'
        BY <1>16 DEF UnlinkRaises, Accounted, Queued
    <2>2. Owns(w, d) => Accounted(d)'
        BY <1>16 DEF UnlinkRaises, Owns, Busy
    <2>3. \A v \in Workers \ {w} : Owns(v, d) => Owns(v, d)'
        BY <1>16, OthersKeep DEF UnlinkRaises, Raise
    <2>4. Dead(d) => Dead(d)'
        BY <1>16 DEF UnlinkRaises, Dead
    <2>5. QED
        BY <1>16, <2>1, <2>2, <2>3, <2>4, StepOf DEF UnlinkRaises
<1>17. ASSUME NEW w \in Workers, RequeueAfterRaise(w) PROVE Accounted(d)'
    <2>1. Queued(d) => Accounted(d)'
        BY <1>17, QueuedAfterPush DEF RequeueAfterRaise, Accounted
    <2>2. Owns(w, d) => Accounted(d)'
        BY <1>17, QueuedAfterPush DEF RequeueAfterRaise, Accounted, Owns
    <2>3. \A v \in Workers \ {w} : Owns(v, d) => Owns(v, d)'
        BY <1>17, OthersKeep DEF RequeueAfterRaise, Idle
    <2>4. Dead(d) => Dead(d)'
        BY <1>17 DEF RequeueAfterRaise, Dead
    <2>5. QED
        BY <1>17, <2>1, <2>2, <2>3, <2>4, StepOf DEF RequeueAfterRaise
<1>18. ASSUME NEW w \in Workers, DeadLetterAfterRaise(w) PROVE Accounted(d)'
    <2>1. Queued(d) => Accounted(d)'
        BY <1>18 DEF DeadLetterAfterRaise, Accounted, Queued
    <2>2. Owns(w, d) => Accounted(d)'
        BY <1>18, DeadAfterPush DEF DeadLetterAfterRaise, Accounted, Owns
    <2>3. \A v \in Workers \ {w} : Owns(v, d) => Owns(v, d)'
        BY <1>18, OthersKeep DEF DeadLetterAfterRaise
    <2>4. Dead(d) => Dead(d)'
        BY <1>18, DeadAfterPush DEF DeadLetterAfterRaise
    <2>5. QED
        BY <1>18, <2>1, <2>2, <2>3, <2>4, StepOf DEF DeadLetterAfterRaise
<1>19. ASSUME NEW w \in Workers, PushRaisesAgain(w) PROVE Accounted(d)'
    <2>1. Queued(d) => Accounted(d)'
        BY <1>19, QueuedAfterPush DEF PushRaisesAgain, Accounted, Queued
    <2>2. Owns(w, d) => Accounted(d)'
        BY <1>19, QueuedAfterPush, DeadAfterPush DEF PushRaisesAgain, Accounted, Owns, Drop, Lost, Causes
    <2>3. \A v \in Workers \ {w} : Owns(v, d) => Owns(v, d)'
        BY <1>19, OthersKeep DEF PushRaisesAgain, Idle
    <2>4. Dead(d) => Dead(d)'
        BY <1>19, DeadAfterPush DEF PushRaisesAgain, Dead
    <2>5. QED
        BY <1>19, <2>1, <2>2, <2>3, <2>4, StepOf DEF PushRaisesAgain, Drop
<1>20. ASSUME NEW w \in Workers, UnlinkAfterRaise(w) PROVE Accounted(d)'
    <2>1. Queued(d) => Accounted(d)'
        BY <1>20 DEF UnlinkAfterRaise, Accounted, Queued
    <2>2. Owns(w, d) => Accounted(d)'
        BY <1>20 DEF UnlinkAfterRaise, Owns, Busy
    <2>3. \A v \in Workers \ {w} : Owns(v, d) => Owns(v, d)'
        BY <1>20, OthersKeep DEF UnlinkAfterRaise, Idle
    <2>4. Dead(d) => Dead(d)'
        BY <1>20 DEF UnlinkAfterRaise, Dead
    <2>5. QED
        BY <1>20, <2>1, <2>2, <2>3, <2>4, StepOf DEF UnlinkAfterRaise
<1>21. ASSUME NEW w \in Workers, Exit(w) PROVE Accounted(d)'
    <2>1. Queued(d) => Accounted(d)'
        BY <1>21 DEF Exit, Accounted, Queued
    <2>2. Owns(w, d) => Accounted(d)'
        BY <1>21 DEF Exit, Accounted, Owns, Drop, Lost, Causes
    <2>3. \A v \in Workers \ {w} : Owns(v, d) => Owns(v, d)'
        BY <1>21, OthersKeep DEF Exit
    <2>4. Dead(d) => Dead(d)'
        BY <1>21 DEF Exit, Dead
    <2>5. QED
        BY <1>21, <2>1, <2>2, <2>3, <2>4, StepOf DEF Exit, Drop
<1>22. ASSUME NEW w \in Workers, Restart(w) PROVE Accounted(d)'
    <2>1. Queued(d) => Accounted(d)'
        BY <1>22 DEF Restart, Accounted, Queued
    <2>2. Owns(w, d) => Accounted(d)'
        BY <1>22 DEF Restart, Owns, Busy
    <2>3. \A v \in Workers \ {w} : Owns(v, d) => Owns(v, d)'
        BY <1>22, OthersKeep DEF Restart
    <2>4. Dead(d) => Dead(d)'
        BY <1>22 DEF Restart, Dead
    <2>5. QED
        BY <1>22, <2>1, <2>2, <2>3, <2>4, StepOf DEF Restart
<1>23. CASE UNCHANGED workerVars
    BY <1>23 DEF workerVars, Accounted, Queued, Owns, Dead, Lost
<1>24. QED
    BY <1>1, <1>2, <1>3, <1>4, <1>5, <1>6, <1>7, <1>8, <1>9, <1>10, <1>11, <1>12, <1>13, <1>14, <1>15, <1>16, <1>17, <1>18, <1>19, <1>20, <1>21, <1>22, <1>23 DEF Next, Progress, Disturb

LEMMA VanishInit == Init => NoTaskVanishes
BY DEF Init, NoTaskVanishes

LEMMA VanishStep == TypeInv /\ NoTaskVanishes /\ [Next]_workerVars => NoTaskVanishes'
<1> SUFFICES ASSUME PlaceOK, DataOK, NoTaskVanishes, [Next]_workerVars,
                    NEW d \in Docs, confirms'[d] > 0
             PROVE  Accounted(d)'
    BY TypeParts DEF NoTaskVanishes, Accounted
<1>1. CASE confirms[d] > 0
    BY <1>1, AccountedStep DEF NoTaskVanishes, Accounted
<1>2. CASE ~(confirms[d] > 0)
    <2>1. confirms'[d] # confirms[d]
        BY <1>2
    <2>2. PICK c \in Docs : Confirm(c)
        BY <2>1 DEF Next, workerVars, Progress, Disturb, Take, TakeReplyLost, Download,
            DownloadRaises, Parse, ParseRaises, StreamSucceeds, StreamFails, Finish,
            Requeue, DeadLetter, RequeueRaises, DeadLetterRaises, Unlink, UnlinkRaises,
            RequeueAfterRaise, DeadLetterAfterRaise, PushRaisesAgain, UnlinkAfterRaise,
            Exit, Restart
    <2>3. c = d
        BY <2>1, <2>2 DEF Confirm, DataOK
    <2>4. QED
        BY <2>2, <2>3, QueuedAfterConfirm DEF Confirm, Accounted
<1>3. QED
    BY <1>1, <1>2

(* A confirmed document is never without both a copy of its task and an     *)
(* outcome: every return of process_data, by whatever path, hands the task  *)
(* on or is one of the named losses.                                        *)
THEOREM TasksAreKept == Spec => []NoTaskVanishes
BY TypeInit, TypeStep, VanishInit, VanishStep, PTL DEF Spec

-----------------------------------------------------------------------------
(* What the retry count of a task says: that many attempts at its document  *)
(* have failed.  A dead-lettered document has therefore failed as often as  *)
(* the code promises, although its attempts may have run on different       *)
(* workers and its task went through the list each time.                    *)

\* The places a worker reaches only after its attempt failed.
Tried == {"requeue", "dlq", "xrequeue", "xdlq", "unlink", "xunlink"}

QueueCounted ==
    \A i \in 1..Len(queue) : failures[queue[i].doc] >= queue[i].retry

HandCounted ==
    \A w \in Workers :
        /\ pc[w] \in Busy \cup After => failures[task[w].doc] >= task[w].retry
        /\ pc[w] \in Tried => failures[task[w].doc] >= task[w].retry + 1

RetryInv == QueueCounted /\ HandCounted /\ DeadLetterExhausted

LEMMA RetryInit == Init => RetryInv
BY DEF Init, RetryInv, QueueCounted, HandCounted, DeadLetterExhausted, Busy, After, Tried

-----------------------------------------------------------------------------
(* Failures are only ever added. *)

LEMMA FailuresGrow ==
    ASSUME DataOK, NEW w \in Workers, task[w].doc \in Docs,
           FailAttempt(w) \/ UNCHANGED failures, NEW d \in Docs
    PROVE  /\ failures[d] \in Nat /\ failures'[d] \in Nat /\ failures'[d] >= failures[d]
           /\ FailAttempt(w) => failures'[task[w].doc] = failures[task[w].doc] + 1
<1>1. failures \in [Docs -> Nat]
    BY DEF DataOK
<1>2. CASE UNCHANGED failures
    <2>1. FailAttempt(w) => failures'[task[w].doc] = failures[task[w].doc] + 1
        BY <1>1 DEF FailAttempt
    <2>2. QED
        BY <1>1, <1>2, <2>1
<1>3. CASE FailAttempt(w)
    BY <1>1, <1>3 DEF FailAttempt
<1>4. QED
    BY <1>2, <1>3

LEMMA QueueTasks ==
    ASSUME DataOK, NEW i \in 1..Len(queue)
    PROVE  queue[i] \in Tasks /\ queue[i].doc \in Docs /\ queue[i].retry \in Nat
<1>1. queue[i] \in Tasks
    BY DEF DataOK
<1>2. QED
    BY <1>1, TaskFields

LEMMA DeadTasks ==
    ASSUME DataOK, NEW i \in 1..Len(dlq)
    PROVE  dlq[i] \in Tasks /\ dlq[i].doc \in Docs
<1>1. dlq[i] \in Tasks
    BY DEF DataOK
<1>2. QED
    BY <1>1, TaskFields

-----------------------------------------------------------------------------
(* The list *)

LEMMA QueueFail ==
    ASSUME DataOK, QueueCounted, NEW w \in Workers, task[w].doc \in Docs,
           FailAttempt(w) \/ UNCHANGED failures, UNCHANGED queue
    PROVE  QueueCounted'
<1> SUFFICES ASSUME NEW i \in 1..Len(queue)
             PROVE  failures'[queue[i].doc] >= queue[i].retry
    BY DEF QueueCounted
<1>1. failures[queue[i].doc] >= queue[i].retry
    BY DEF QueueCounted
<1>2. QED
    BY <1>1, QueueTasks, FailuresGrow

LEMMA QueuePop ==
    ASSUME DataOK, QueueCounted, queue # <<>>, queue' = Tail(queue), UNCHANGED failures
    PROVE  QueueCounted'
<1>1. /\ Len(queue') = Len(queue) - 1 /\ Len(queue) \in Nat
      /\ \A i \in 1..Len(queue') : queue'[i] = queue[i + 1]
    BY DEF DataOK
<1>2. QED
    BY <1>1 DEF QueueCounted

LEMMA QueuePush ==
    ASSUME PlaceOK, DataOK, QueueCounted, HandCounted, NEW w \in Workers,
           pc[w] \in {"requeue", "xrequeue"}, PushAgain(w), UNCHANGED failures
    PROVE  QueueCounted'
<1>1. failures[task[w].doc] >= task[w].retry + 1
    BY DEF HandCounted, Tried
<1>2. /\ Len(queue') = Len(queue) + 1 /\ Len(queue) \in Nat
      /\ queue'[Len(queue) + 1] = Again(task[w])
      /\ \A i \in 1..Len(queue) : queue'[i] = queue[i]
    BY DEF DataOK, PushAgain
<1>3. Again(task[w]).doc = task[w].doc /\ Again(task[w]).retry = task[w].retry + 1
    BY DEF Again
<1>4. QED
    BY <1>1, <1>2, <1>3 DEF QueueCounted

-----------------------------------------------------------------------------
(* The tasks in hand *)

LEMMA HandFail ==
    ASSUME PlaceOK, DataOK, HandCounted, NEW w \in Workers, pc[w] \in Busy \cup After,
           FailAttempt(w), NEW l, Goto(w, l), UNCHANGED task
    PROVE  HandCounted'
<1>0. task[w].doc \in Docs /\ task[w].retry \in 0..MaxRetries
    BY InHand
<1> SUFFICES ASSUME NEW v \in Workers, pc'[v] \in Busy \cup After
             PROVE  /\ failures'[task[v].doc] >= task[v].retry
                    /\ pc'[v] \in Tried => failures'[task[v].doc] >= task[v].retry + 1
    BY DEF HandCounted, Tried, Busy, After
<1>1. CASE v = w
    <2>1. failures[task[w].doc] >= task[w].retry
        BY DEF HandCounted
    <2>2. QED
        BY <1>0, <1>1, <2>1, FailuresGrow
<1>2. CASE v # w
    <2>1. pc[v] \in Busy \cup After /\ pc'[v] = pc[v]
        BY <1>2 DEF Goto, PlaceOK
    <2>2. task[v].doc \in Docs /\ task[v].retry \in 0..MaxRetries
        BY <2>1, InHand
    <2>3. /\ failures[task[v].doc] >= task[v].retry
          /\ pc[v] \in Tried => failures[task[v].doc] >= task[v].retry + 1
        BY <2>1 DEF HandCounted
    <2>4. QED
        BY <1>0, <2>1, <2>2, <2>3, FailuresGrow
<1>3. QED
    BY <1>1, <1>2

LEMMA HandMove ==
    ASSUME PlaceOK, HandCounted, NEW w \in Workers, pc[w] \in Busy \cup After,
           NEW l, Goto(w, l), l \in Tried => pc[w] \in Tried,
           UNCHANGED <<task, failures>>
    PROVE  HandCounted'
BY DEF PlaceOK, HandCounted, Goto

LEMMA HandRaise ==
    ASSUME PlaceOK, HandCounted, NEW w \in Workers, pc[w] \in Tried,
           Raise(w), UNCHANGED <<task, failures>>
    PROVE  HandCounted'
BY HandMove DEF Raise, Tried, Busy, After

LEMMA HandLetGo ==
    ASSUME PlaceOK, HandCounted, NEW w \in Workers, NEW l \in {"blpop", "down"},
           Goto(w, l), NEW t, task' = [task EXCEPT ![w] = t], UNCHANGED failures
    PROVE  HandCounted'
BY DEF PlaceOK, HandCounted, Goto, Busy, After, Tried

-----------------------------------------------------------------------------
(* The dead-letter list *)

LEMMA DeadFail ==
    ASSUME DataOK, DeadLetterExhausted, NEW w \in Workers, task[w].doc \in Docs,
           FailAttempt(w) \/ UNCHANGED failures, UNCHANGED dlq
    PROVE  DeadLetterExhausted'
<1> SUFFICES ASSUME NEW i \in 1..Len(dlq)
             PROVE  dlq[i].retry = MaxRetries /\ failures'[dlq[i].doc] >= MaxRetries + 1
    BY DEF DeadLetterExhausted
<1>1. dlq[i].retry = MaxRetries /\ failures[dlq[i].doc] >= MaxRetries + 1
    BY DEF DeadLetterExhausted
<1>2. QED
    BY <1>1, DeadTasks, FailuresGrow, WorkerAssumption

LEMMA DeadPush ==
    ASSUME PlaceOK, DataOK, HandCounted, DeadLetterExhausted, NEW w \in Workers,
           pc[w] \in {"dlq", "xdlq"}, PushDead(w), UNCHANGED failures
    PROVE  DeadLetterExhausted'
<1>1. task[w].retry = MaxRetries /\ failures[task[w].doc] >= MaxRetries + 1
    BY DEF HandCounted, Tried, PlaceOK, PushByRetry
<1>2. /\ Len(dlq') = Len(dlq) + 1 /\ Len(dlq) \in Nat
      /\ dlq'[Len(dlq) + 1] = task[w]
      /\ \A i \in 1..Len(dlq) : dlq'[i] = dlq[i]
    BY DEF DataOK, PushDead
<1>3. QED
    BY <1>1, <1>2 DEF DeadLetterExhausted

-----------------------------------------------------------------------------
LEMMA RetryStep == TypeInv /\ RetryInv /\ [Next]_workerVars => RetryInv'
<1> SUFFICES ASSUME PlaceOK, DataOK, QueueCounted, HandCounted, DeadLetterExhausted,
                    [Next]_workerVars
             PROVE  QueueCounted' /\ HandCounted' /\ DeadLetterExhausted'
    BY TypeParts DEF RetryInv
<1>1. ASSUME NEW c \in Docs, Confirm(c) PROVE QueueCounted' /\ HandCounted' /\ DeadLetterExhausted'
    <2>1. QueueCounted'
        <3>1. /\ Len(queue') = Len(queue) + 1 /\ Len(queue) \in Nat
              /\ queue'[1] = Fresh(c)
              /\ \A i \in 2..Len(queue') : i - 1 \in 1..Len(queue) /\ queue'[i] = queue[i - 1]
            BY <1>1, FreshIsTask DEF Confirm, DataOK
        <3>2. failures[c] >= 0
            BY DEF DataOK
        <3>3. QED
            BY <1>1, <3>1, <3>2, FreshIsTask DEF Confirm, QueueCounted
    <2>2. QED
        BY <1>1, <2>1 DEF Confirm, HandCounted, DeadLetterExhausted
<1>2. ASSUME NEW w \in Workers, Take(w) PROVE QueueCounted' /\ HandCounted' /\ DeadLetterExhausted'
    <2>1. QueueCounted'
        BY <1>2, QueuePop DEF Take
    <2>2. failures[Head(queue).doc] >= Head(queue).retry
        <3>1. 1 \in 1..Len(queue) /\ Head(queue) = queue[1]
            BY <1>2 DEF Take, DataOK
        <3>2. QED
            BY <3>1 DEF QueueCounted
    <2>3. HandCounted'
        BY <1>2, <2>2 DEF Take, Goto, HandCounted, PlaceOK, Tried, Busy, After
    <2>4. QED
        BY <1>2, <2>1, <2>3 DEF Take, DeadLetterExhausted
<1>3. ASSUME NEW w \in Workers, TakeReplyLost(w) PROVE QueueCounted' /\ HandCounted' /\ DeadLetterExhausted'
    BY <1>3, QueuePop DEF TakeReplyLost, HandCounted, DeadLetterExhausted
<1>4. ASSUME NEW w \in Workers, Download(w) PROVE QueueCounted' /\ HandCounted' /\ DeadLetterExhausted'
    <2>1. pc[w] \in Busy \cup After /\ task[w].doc \in Docs
        BY <1>4, InHand DEF Download, Busy, After
    <2>2. QueueCounted'
        BY <1>4, <2>1, QueueFail DEF Download
    <2>3. HandCounted'
        BY <1>4, <2>1, HandMove DEF Download, Tried
    <2>4. DeadLetterExhausted'
        BY <1>4, <2>1, DeadFail DEF Download
    <2>5. QED
        BY <2>2, <2>3, <2>4
<1>5. ASSUME NEW w \in Workers, DownloadRaises(w) PROVE QueueCounted' /\ HandCounted' /\ DeadLetterExhausted'
    <2>1. pc[w] \in Busy \cup After /\ task[w].doc \in Docs
        BY <1>5, InHand DEF DownloadRaises, Busy, After
    <2>2. QueueCounted'
        BY <1>5, <2>1, QueueFail DEF DownloadRaises
    <2>3. HandCounted'
        BY <1>5, <2>1, HandFail DEF DownloadRaises, Raise
    <2>4. DeadLetterExhausted'
        BY <1>5, <2>1, DeadFail DEF DownloadRaises
    <2>5. QED
        BY <2>2, <2>3, <2>4
<1>6. ASSUME NEW w \in Workers, Parse(w) PROVE QueueCounted' /\ HandCounted' /\ DeadLetterExhausted'
    <2>1. pc[w] \in Busy \cup After /\ task[w].doc \in Docs
        BY <1>6, InHand DEF Parse, Busy, After
    <2>2. QueueCounted'
        BY <1>6, <2>1, QueueFail DEF Parse
    <2>3. HandCounted'
        BY <1>6, <2>1, HandMove DEF Parse, Tried
    <2>4. DeadLetterExhausted'
        BY <1>6, <2>1, DeadFail DEF Parse
    <2>5. QED
        BY <2>2, <2>3, <2>4
<1>7. ASSUME NEW w \in Workers, ParseRaises(w) PROVE QueueCounted' /\ HandCounted' /\ DeadLetterExhausted'
    <2>1. pc[w] \in Busy \cup After /\ task[w].doc \in Docs
        BY <1>7, InHand DEF ParseRaises, Busy, After
    <2>2. QueueCounted'
        BY <1>7, <2>1, QueueFail DEF ParseRaises
    <2>3. HandCounted'
        BY <1>7, <2>1, HandFail DEF ParseRaises, Raise
    <2>4. DeadLetterExhausted'
        BY <1>7, <2>1, DeadFail DEF ParseRaises
    <2>5. QED
        BY <2>2, <2>3, <2>4
<1>8. ASSUME NEW w \in Workers, StreamSucceeds(w) PROVE QueueCounted' /\ HandCounted' /\ DeadLetterExhausted'
    <2>1. pc[w] \in Busy \cup After /\ task[w].doc \in Docs
        BY <1>8, InHand DEF StreamSucceeds, Busy, After
    <2>2. QueueCounted'
        BY <1>8, <2>1, QueueFail DEF StreamSucceeds
    <2>3. HandCounted'
        BY <1>8, <2>1, HandMove DEF StreamSucceeds, Tried
    <2>4. DeadLetterExhausted'
        BY <1>8, <2>1, DeadFail DEF StreamSucceeds
    <2>5. QED
        BY <2>2, <2>3, <2>4
<1>9. ASSUME NEW w \in Workers, StreamFails(w) PROVE QueueCounted' /\ HandCounted' /\ DeadLetterExhausted'
    <2>1. pc[w] \in Busy \cup After /\ task[w].doc \in Docs
        BY <1>9, InHand DEF StreamFails, Busy, After
    <2>2. QueueCounted'
        BY <1>9, <2>1, QueueFail DEF StreamFails
    <2>3. HandCounted'
        BY <1>9, <2>1, HandFail DEF StreamFails, Raise
    <2>4. DeadLetterExhausted'
        BY <1>9, <2>1, DeadFail DEF StreamFails
    <2>5. QED
        BY <2>2, <2>3, <2>4
<1>10. ASSUME NEW w \in Workers, Finish(w) PROVE QueueCounted' /\ HandCounted' /\ DeadLetterExhausted'
    <2>1. pc[w] \in Busy \cup After /\ task[w].doc \in Docs
        BY <1>10, InHand DEF Finish, Busy, After
    <2>2. QueueCounted'
        BY <1>10, <2>1, QueueFail DEF Finish
    <2>3. HandCounted'
        BY <1>10, HandLetGo DEF Finish, Idle
    <2>4. DeadLetterExhausted'
        BY <1>10, <2>1, DeadFail DEF Finish
    <2>5. QED
        BY <2>2, <2>3, <2>4
<1>11. ASSUME NEW w \in Workers, Requeue(w) PROVE QueueCounted' /\ HandCounted' /\ DeadLetterExhausted'
    <2>1. pc[w] \in Busy \cup After /\ task[w].doc \in Docs
        BY <1>11, InHand DEF Requeue, Busy, After
    <2>2. QueueCounted'
        BY <1>11, QueuePush DEF Requeue
    <2>3. HandCounted'
        BY <1>11, <2>1, HandMove DEF Requeue, Tried
    <2>4. DeadLetterExhausted'
        BY <1>11, <2>1, DeadFail DEF Requeue
    <2>5. QED
        BY <2>2, <2>3, <2>4
<1>12. ASSUME NEW w \in Workers, DeadLetter(w) PROVE QueueCounted' /\ HandCounted' /\ DeadLetterExhausted'
    <2>1. pc[w] \in Busy \cup After /\ task[w].doc \in Docs
        BY <1>12, InHand DEF DeadLetter, Busy, After
    <2>2. QueueCounted'
        BY <1>12, <2>1, QueueFail DEF DeadLetter
    <2>3. HandCounted'
        BY <1>12, <2>1, HandMove DEF DeadLetter, Tried
    <2>4. DeadLetterExhausted'
        BY <1>12, DeadPush DEF DeadLetter
    <2>5. QED
        BY <2>2, <2>3, <2>4
<1>13. ASSUME NEW w \in Workers, RequeueRaises(w) PROVE QueueCounted' /\ HandCounted' /\ DeadLetterExhausted'
    <2>1. pc[w] \in Busy \cup After /\ task[w].doc \in Docs
        BY <1>13, InHand DEF RequeueRaises, Busy, After
    <2>2. QueueCounted'
        BY <1>13, <2>1, QueuePush, QueueFail DEF RequeueRaises
    <2>3. HandCounted'
        BY <1>13, HandRaise DEF RequeueRaises, Tried
    <2>4. DeadLetterExhausted'
        BY <1>13, <2>1, DeadFail DEF RequeueRaises
    <2>5. QED
        BY <2>2, <2>3, <2>4
<1>14. ASSUME NEW w \in Workers, DeadLetterRaises(w) PROVE QueueCounted' /\ HandCounted' /\ DeadLetterExhausted'
    <2>1. pc[w] \in Busy \cup After /\ task[w].doc \in Docs
        BY <1>14, InHand DEF DeadLetterRaises, Busy, After
    <2>2. QueueCounted'
        BY <1>14, <2>1, QueueFail DEF DeadLetterRaises
    <2>3. HandCounted'
        BY <1>14, HandRaise DEF DeadLetterRaises, Tried
    <2>4. DeadLetterExhausted'
        BY <1>14, <2>1, DeadPush, DeadFail DEF DeadLetterRaises
    <2>5. QED
        BY <2>2, <2>3, <2>4
<1>15. ASSUME NEW w \in Workers, Unlink(w) PROVE QueueCounted' /\ HandCounted' /\ DeadLetterExhausted'
    <2>1. pc[w] \in Busy \cup After /\ task[w].doc \in Docs
        BY <1>15, InHand DEF Unlink, Busy, After
    <2>2. QueueCounted'
        BY <1>15, <2>1, QueueFail DEF Unlink
    <2>3. HandCounted'
        BY <1>15, HandLetGo DEF Unlink, Idle
    <2>4. DeadLetterExhausted'
        BY <1>15, <2>1, DeadFail DEF Unlink
    <2>5. QED
        BY <2>2, <2>3, <2>4
<1>16. ASSUME NEW w \in Workers, UnlinkRaises(w) PROVE QueueCounted' /\ HandCounted' /\ DeadLetterExhausted'
    <2>1. pc[w] \in Busy \cup After /\ task[w].doc \in Docs
        BY <1>16, InHand DEF UnlinkRaises, Busy, After
    <2>2. QueueCounted'
        BY <1>16, <2>1, QueueFail DEF UnlinkRaises
    <2>3. HandCounted'
        BY <1>16, HandRaise DEF UnlinkRaises, Tried
    <2>4. DeadLetterExhausted'
        BY <1>16, <2>1, DeadFail DEF UnlinkRaises
    <2>5. QED
        BY <2>2, <2>3, <2>4
<1>17. ASSUME NEW w \in Workers, RequeueAfterRaise(w) PROVE QueueCounted' /\ HandCounted' /\ DeadLetterExhausted'
    <2>1. pc[w] \in Busy \cup After /\ task[w].doc \in Docs
        BY <1>17, InHand DEF RequeueAfterRaise, Busy, After
    <2>2. QueueCounted'
        BY <1>17, QueuePush DEF RequeueAfterRaise
    <2>3. HandCounted'
        BY <1>17, HandLetGo DEF RequeueAfterRaise, Idle
    <2>4. DeadLetterExhausted'
        BY <1>17, <2>1, DeadFail DEF RequeueAfterRaise
    <2>5. QED
        BY <2>2, <2>3, <2>4
<1>18. ASSUME NEW w \in Workers, DeadLetterAfterRaise(w) PROVE QueueCounted' /\ HandCounted' /\ DeadLetterExhausted'
    <2>1. pc[w] \in Busy \cup After /\ task[w].doc \in Docs
        BY <1>18, InHand DEF DeadLetterAfterRaise, Busy, After
    <2>2. QueueCounted'
        BY <1>18, <2>1, QueueFail DEF DeadLetterAfterRaise
    <2>3. HandCounted'
        BY <1>18, <2>1, HandMove DEF DeadLetterAfterRaise, Tried
    <2>4. DeadLetterExhausted'
        BY <1>18, DeadPush DEF DeadLetterAfterRaise
    <2>5. QED
        BY <2>2, <2>3, <2>4
<1>19. ASSUME NEW w \in Workers, PushRaisesAgain(w) PROVE QueueCounted' /\ HandCounted' /\ DeadLetterExhausted'
    <2>1. pc[w] \in Busy \cup After /\ task[w].doc \in Docs
        BY <1>19, InHand DEF PushRaisesAgain, Busy, After
    <2>2. QueueCounted'
        BY <1>19, <2>1, QueuePush, QueueFail DEF PushRaisesAgain
    <2>3. HandCounted'
        BY <1>19, HandLetGo DEF PushRaisesAgain, Idle
    <2>4. DeadLetterExhausted'
        BY <1>19, <2>1, DeadPush, DeadFail DEF PushRaisesAgain
    <2>5. QED
        BY <2>2, <2>3, <2>4
<1>20. ASSUME NEW w \in Workers, UnlinkAfterRaise(w) PROVE QueueCounted' /\ HandCounted' /\ DeadLetterExhausted'
    <2>1. pc[w] \in Busy \cup After /\ task[w].doc \in Docs
        BY <1>20, InHand DEF UnlinkAfterRaise, Busy, After
    <2>2. QueueCounted'
        BY <1>20, <2>1, QueueFail DEF UnlinkAfterRaise
    <2>3. HandCounted'
        BY <1>20, HandLetGo DEF UnlinkAfterRaise, Idle
    <2>4. DeadLetterExhausted'
        BY <1>20, <2>1, DeadFail DEF UnlinkAfterRaise
    <2>5. QED
        BY <2>2, <2>3, <2>4
<1>21. ASSUME NEW w \in Workers, Exit(w) PROVE QueueCounted' /\ HandCounted' /\ DeadLetterExhausted'
    BY <1>21, HandLetGo DEF Exit, QueueCounted, DeadLetterExhausted
<1>22. ASSUME NEW w \in Workers, Restart(w) PROVE QueueCounted' /\ HandCounted' /\ DeadLetterExhausted'
    BY <1>22 DEF Restart, Goto, PlaceOK, HandCounted, Tried, Busy, After,
        QueueCounted, DeadLetterExhausted
<1>23. CASE UNCHANGED workerVars
    BY <1>23 DEF workerVars, QueueCounted, HandCounted, DeadLetterExhausted
<1>24. QED
    BY <1>1, <1>2, <1>3, <1>4, <1>5, <1>6, <1>7, <1>8, <1>9, <1>10, <1>11, <1>12, <1>13, <1>14, <1>15, <1>16, <1>17, <1>18, <1>19, <1>20, <1>21, <1>22, <1>23 DEF Next, Progress, Disturb

(* A document reaches the dead-letter list only with its retries used up    *)
(* and after MaxRetries + 1 attempts at it really failed.                   *)
THEOREM DeadLettersAreExhausted == Spec => []DeadLetterExhausted
<1>1. RetryInv => DeadLetterExhausted
    BY DEF RetryInv
<1>2. QED
    BY <1>1, TypeInit, TypeStep, RetryInit, RetryStep, PTL DEF Spec

-----------------------------------------------------------------------------
(* The order of the list *)

LEMMA OrderPop ==
    ASSUME DataOK, FreshBeforeRetries, queue # <<>>, queue' = Tail(queue)
    PROVE  FreshBeforeRetries'
<1>1. /\ Len(queue') = Len(queue) - 1 /\ Len(queue) \in Nat
      /\ \A i \in 1..Len(queue') : queue'[i] = queue[i + 1]
    BY DEF DataOK
<1> SUFFICES ASSUME NEW i \in 1..Len(queue'), NEW j \in 1..Len(queue'),
                    i < j, queue'[j].retry = 0
             PROVE  queue'[i].retry = 0
    BY DEF FreshBeforeRetries
<1>2. i + 1 \in 1..Len(queue) /\ j + 1 \in 1..Len(queue) /\ i + 1 < j + 1
    BY <1>1
<1>3. QED
    BY <1>1, <1>2 DEF FreshBeforeRetries

LEMMA OrderPushLeft ==
    ASSUME DataOK, FreshBeforeRetries, NEW c \in Docs, queue' = <<Fresh(c)>> \o queue
    PROVE  FreshBeforeRetries'
<1>1. /\ Len(queue') = Len(queue) + 1 /\ Len(queue) \in Nat
      /\ queue'[1].retry = 0
      /\ \A i \in 2..Len(queue') : i - 1 \in 1..Len(queue) /\ queue'[i] = queue[i - 1]
    BY FreshIsTask DEF DataOK
<1> SUFFICES ASSUME NEW i \in 1..Len(queue'), NEW j \in 1..Len(queue'),
                    i < j, queue'[j].retry = 0, i # 1
             PROVE  queue'[i].retry = 0
    BY <1>1 DEF FreshBeforeRetries
<1>2. i \in 2..Len(queue') /\ j \in 2..Len(queue') /\ i - 1 < j - 1
    BY <1>1
<1>3. QED
    BY <1>1, <1>2 DEF FreshBeforeRetries

LEMMA OrderPushRight ==
    ASSUME PlaceOK, DataOK, FreshBeforeRetries, NEW w \in Workers,
           pc[w] \in {"requeue", "xrequeue"}, PushAgain(w)
    PROVE  FreshBeforeRetries'
<1>1. task[w].retry \in 0..MaxRetries
    BY InHand DEF Busy, After
<1>2. Again(task[w]).retry # 0
    BY <1>1, WorkerAssumption DEF Again
<1>3. /\ Len(queue') = Len(queue) + 1 /\ Len(queue) \in Nat
      /\ queue'[Len(queue) + 1] = Again(task[w])
      /\ \A i \in 1..Len(queue) : queue'[i] = queue[i]
    BY DEF DataOK, PushAgain
<1> SUFFICES ASSUME NEW i \in 1..Len(queue'), NEW j \in 1..Len(queue'),
                    i < j, queue'[j].retry = 0
             PROVE  queue'[i].retry = 0
    BY DEF FreshBeforeRetries
<1>4. i \in 1..Len(queue) /\ j \in 1..Len(queue)
    BY <1>2, <1>3
<1>5. QED
    BY <1>3, <1>4 DEF FreshBeforeRetries

LEMMA OrderInit == Init => FreshBeforeRetries
BY DEF Init, FreshBeforeRetries

LEMMA OrderStep == TypeInv /\ FreshBeforeRetries /\ [Next]_workerVars => FreshBeforeRetries'
<1> SUFFICES ASSUME PlaceOK, DataOK, FreshBeforeRetries, [Next]_workerVars
             PROVE  FreshBeforeRetries'
    BY TypeParts
<1>1. ASSUME NEW c \in Docs, Confirm(c) PROVE FreshBeforeRetries'
    BY <1>1, OrderPushLeft DEF Confirm
<1>2. ASSUME NEW w \in Workers, Take(w) \/ TakeReplyLost(w) PROVE FreshBeforeRetries'
    BY <1>2, OrderPop DEF Take, TakeReplyLost
<1>3. ASSUME NEW w \in Workers, Requeue(w) \/ RequeueAfterRaise(w) PROVE FreshBeforeRetries'
    BY <1>3, OrderPushRight DEF Requeue, RequeueAfterRaise
<1>4. ASSUME NEW w \in Workers, RequeueRaises(w) \/ PushRaisesAgain(w)
      PROVE  FreshBeforeRetries'
    BY <1>4, OrderPushRight DEF RequeueRaises, PushRaisesAgain, FreshBeforeRetries
<1>5. CASE UNCHANGED queue
    BY <1>5 DEF FreshBeforeRetries
<1>6. QED
    BY <1>1, <1>2, <1>3, <1>4, <1>5 DEF Next, workerVars, Progress, Disturb, Download,
        DownloadRaises, Parse, ParseRaises, StreamSucceeds, StreamFails, Finish,
        DeadLetter, DeadLetterRaises, Unlink, UnlinkRaises, DeadLetterAfterRaise,
        UnlinkAfterRaise, Exit, Restart

(* The list never holds a retry ahead of a new upload: whatever the number  *)
(* of workers and errors, a retry waits for every upload confirmed meanwhile.*)
THEOREM RetriesWaitForUploads == Spec => []FreshBeforeRetries
BY TypeInit, TypeStep, OrderInit, OrderStep, PTL DEF Spec

-----------------------------------------------------------------------------
(* The life of one task: where its copies and outcomes are, and how a step  *)
(* moves them.                                                              *)

Owned(d)   == \E w \in Workers : Owns(w, d)
Settled(d) == d \in succeeded \/ Dead(d) \/ Lost(d)
InHandOf(w, d) == pc[w] \in Busy \cup After /\ task[w].doc = d

QueuedOnce(d) == \A i, j \in 1..Len(queue) : queue[i].doc = d /\ queue[j].doc = d => i = j
DeadOnce(d)   == \A i, j \in 1..Len(dlq) : dlq[i].doc = d /\ dlq[j].doc = d => i = j

(* What a step leaves alone of document d. *)
SameQueue(d)  == (Queued(d)' <=> Queued(d)) /\ (QueuedOnce(d) => QueuedOnce(d)')
SameOwners(d) == \A w \in Workers : Owns(w, d)' <=> Owns(w, d)
SameDone(d)   == d \in succeeded' <=> d \in succeeded
SameDead(d)   == (Dead(d)' <=> Dead(d)) /\ (DeadOnce(d) => DeadOnce(d)')
SameLost(d)   == \A c \in Causes : <<d, c>> \in lost' <=> <<d, c>> \in lost
SameResults(d) == SameDone(d) /\ SameDead(d) /\ SameLost(d)
Untouched(d)  == SameQueue(d) /\ SameOwners(d) /\ SameResults(d)

(* The ways a worker's step can touch a document. *)
LeavesQueue(d) == Queued(d) /\ (QueuedOnce(d) => ~Queued(d)') /\ (QueuedOnce(d) => QueuedOnce(d)')
OnlyOwner(w, d) == \A v \in Workers \ {w} : Owns(v, d)' <=> Owns(v, d)
LetsGo(w, d)  == Owns(w, d) /\ ~Owns(w, d)' /\ OnlyOwner(w, d)
GetsLost(d)   ==
    \E c \in Causes :
        /\ <<d, c>> \in lost'
        /\ \A b \in Causes \ {c} : <<d, b>> \in lost' <=> <<d, b>> \in lost
GetsDead(d)   == Dead(d)' /\ (~Dead(d) => DeadOnce(d)')

Taken(w, d) == LeavesQueue(d) /\ Owns(w, d)' /\ OnlyOwner(w, d) /\ SameResults(d)
TakenLost(d) ==
    LeavesQueue(d) /\ SameOwners(d) /\ SameDone(d) /\ SameDead(d) /\ GetsLost(d)
PutBack(w, d) ==
    LetsGo(w, d) /\ Queued(d)' /\ (~Queued(d) => QueuedOnce(d)') /\ SameResults(d)
Succeeds(w, d) ==
    LetsGo(w, d) /\ SameQueue(d) /\ d \in succeeded' /\ SameDead(d) /\ SameLost(d)
Dies(w, d) ==
    LetsGo(w, d) /\ SameQueue(d) /\ SameDone(d) /\ GetsDead(d) /\ SameLost(d)
DroppedBy(w, d) ==
    LetsGo(w, d) /\ SameQueue(d) /\ SameDone(d) /\ SameDead(d) /\ GetsLost(d)
Copied(w, d) ==
    /\ d \in duplicated' /\ InHandOf(w, d) /\ Owned(d)'
    /\ SameDone(d) /\ SameLost(d)
    /\ Dead(d) => Dead(d)'
    /\ Dead(d)' => Dead(d) \/ Owned(d)

Touched(w, d) ==
    \/ Taken(w, d) \/ TakenLost(d) \/ PutBack(w, d) \/ Succeeds(w, d)
    \/ Dies(w, d) \/ DroppedBy(w, d) \/ Copied(w, d)

\* The document a step of worker w is about.
Subject(w) == IF pc[w] = "blpop" THEN Head(queue).doc ELSE task[w].doc

-----------------------------------------------------------------------------
(* The list and the dead-letter queue *)

LEMMA PopMoves ==
    ASSUME DataOK, queue # <<>>, queue' = Tail(queue), NEW d
    PROVE  /\ Head(queue).doc # d => SameQueue(d)
           /\ Head(queue).doc = d => LeavesQueue(d)
<1>1. /\ Len(queue') = Len(queue) - 1 /\ Len(queue) \in Nat /\ Len(queue) > 0
      /\ Head(queue) = queue[1]
      /\ \A i \in 1..Len(queue') : queue'[i] = queue[i + 1]
    BY DEF DataOK
<1>2. QueuedOnce(d) => QueuedOnce(d)'
    <2> SUFFICES ASSUME QueuedOnce(d), NEW i \in 1..Len(queue'), NEW j \in 1..Len(queue'),
                        queue'[i].doc = d, queue'[j].doc = d
                 PROVE  i = j
        BY DEF QueuedOnce
    <2>1. i + 1 \in 1..Len(queue) /\ j + 1 \in 1..Len(queue)
        BY <1>1
    <2>2. i + 1 = j + 1
        BY <1>1, <2>1 DEF QueuedOnce
    <2>3. QED
        BY <2>2
<1>3. Queued(d)' => Queued(d)
    <2> SUFFICES ASSUME NEW i \in 1..Len(queue'), queue'[i].doc = d PROVE Queued(d)
        BY DEF Queued
    <2>1. i + 1 \in 1..Len(queue)
        BY <1>1
    <2>2. QED
        BY <1>1, <2>1 DEF Queued
<1>4. CASE Head(queue).doc # d
    BY <1>2, <1>3, <1>4, QueuedAfterPop DEF SameQueue
<1>5. CASE Head(queue).doc = d
    <2>1. Queued(d)
        <3>1. 1 \in 1..Len(queue)
            BY <1>1
        <3>2. QED
            BY <1>1, <1>5, <3>1 DEF Queued
    <2>2. QueuedOnce(d) => ~Queued(d)'
        <3> SUFFICES ASSUME QueuedOnce(d), NEW i \in 1..Len(queue'), queue'[i].doc = d
                     PROVE  FALSE
            BY DEF Queued
        <3>1. i + 1 \in 1..Len(queue) /\ 1 \in 1..Len(queue)
            BY <1>1
        <3>2. i + 1 = 1
            BY <1>1, <1>5, <3>1 DEF QueuedOnce
        <3>3. QED
            BY <3>2
    <2>3. QED
        BY <1>2, <1>5, <2>1, <2>2 DEF LeavesQueue
<1>6. QED
    BY <1>4, <1>5

LEMMA PopQueued ==
    ASSUME DataOK, queue # <<>>
    PROVE  Queued(Head(queue).doc)
<1>1. 1 \in 1..Len(queue) /\ Head(queue) = queue[1]
    BY DEF DataOK
<1>2. QED
    BY <1>1 DEF Queued

LEMMA PushMoves ==
    ASSUME PlaceOK, DataOK, NEW w \in Workers, PushAgain(w), NEW d
    PROVE  /\ task[w].doc # d => SameQueue(d)
           /\ task[w].doc = d => Queued(d)' /\ (~Queued(d) => QueuedOnce(d)')
<1>1. /\ Len(queue') = Len(queue) + 1 /\ Len(queue) \in Nat
      /\ queue'[Len(queue) + 1] = Again(task[w])
      /\ \A i \in 1..Len(queue) : queue'[i] = queue[i]
    BY DEF DataOK, PushAgain
<1>2. Again(task[w]).doc = task[w].doc
    BY DEF Again
<1>3. \A i \in 1..Len(queue') : i \in 1..Len(queue) \/ i = Len(queue) + 1
    BY <1>1
<1>4. Len(queue) + 1 \in 1..Len(queue') /\ \A i \in 1..Len(queue) : i \in 1..Len(queue')
    BY <1>1
<1>5. CASE task[w].doc # d
    <2>1. Queued(d)' <=> Queued(d)
        BY <1>1, <1>2, <1>3, <1>4, <1>5 DEF Queued
    <2>2. QueuedOnce(d) => QueuedOnce(d)'
        BY <1>1, <1>2, <1>3, <1>4, <1>5 DEF QueuedOnce
    <2>3. QED
        BY <1>5, <2>1, <2>2 DEF SameQueue
<1>6. CASE task[w].doc = d
    <2>1. Queued(d)'
        BY <1>1, <1>2, <1>4, <1>6 DEF Queued
    <2>2. ~Queued(d) => QueuedOnce(d)'
        BY <1>1, <1>3 DEF Queued, QueuedOnce
    <2>3. QED
        BY <1>6, <2>1, <2>2
<1>7. QED
    BY <1>5, <1>6

LEMMA DeadMoves ==
    ASSUME PlaceOK, DataOK, NEW w \in Workers, PushDead(w), NEW d
    PROVE  /\ task[w].doc # d => SameDead(d)
           /\ task[w].doc = d => GetsDead(d)
<1>1. /\ Len(dlq') = Len(dlq) + 1 /\ Len(dlq) \in Nat
      /\ dlq'[Len(dlq) + 1] = task[w]
      /\ \A i \in 1..Len(dlq) : dlq'[i] = dlq[i]
    BY DEF DataOK, PushDead
<1>2. \A i \in 1..Len(dlq') : i \in 1..Len(dlq) \/ i = Len(dlq) + 1
    BY <1>1
<1>3. Len(dlq) + 1 \in 1..Len(dlq') /\ \A i \in 1..Len(dlq) : i \in 1..Len(dlq')
    BY <1>1
<1>4. CASE task[w].doc # d
    <2>1. Dead(d)' <=> Dead(d)
        BY <1>1, <1>2, <1>3, <1>4 DEF Dead
    <2>2. DeadOnce(d) => DeadOnce(d)'
        BY <1>1, <1>2, <1>3, <1>4 DEF DeadOnce
    <2>3. QED
        BY <1>4, <2>1, <2>2 DEF SameDead
<1>5. CASE task[w].doc = d
    <2>1. Dead(d)'
        BY <1>1, <1>3, <1>5 DEF Dead
    <2>2. ~Dead(d) => DeadOnce(d)'
        BY <1>1, <1>2 DEF Dead, DeadOnce
    <2>3. QED
        BY <1>5, <2>1, <2>2 DEF GetsDead
<1>6. QED
    BY <1>4, <1>5

LEMMA ConfirmMoves ==
    ASSUME DataOK, NEW c \in Docs, queue' = <<Fresh(c)>> \o queue, NEW d
    PROVE  /\ c # d => SameQueue(d)
           /\ c = d => Queued(d)' /\ (~Queued(d) => QueuedOnce(d)')
<1>1. /\ Len(queue') = Len(queue) + 1 /\ Len(queue) \in Nat
      /\ queue'[1] = Fresh(c)
      /\ \A i \in 1..Len(queue) : queue'[i + 1] = queue[i]
    BY FreshIsTask DEF DataOK
<1>2. \A i \in 1..Len(queue') : i = 1 \/ (i - 1 \in 1..Len(queue) /\ queue'[i] = queue[i - 1])
    <2> SUFFICES ASSUME NEW i \in 1..Len(queue'), i # 1
                 PROVE  i - 1 \in 1..Len(queue) /\ queue'[i] = queue[i - 1]
        OBVIOUS
    <2>1. i - 1 \in 1..Len(queue) /\ (i - 1) + 1 = i
        BY <1>1
    <2>2. QED
        BY <1>1, <2>1
<1>3. 1 \in 1..Len(queue') /\ \A i \in 1..Len(queue) : i + 1 \in 1..Len(queue')
    BY <1>1
<1>4. Fresh(c).doc = c
    BY FreshIsTask
<1>5. CASE c # d
    <2>1. Queued(d)' <=> Queued(d)
        BY <1>1, <1>2, <1>3, <1>4, <1>5 DEF Queued
    <2>2. ASSUME QueuedOnce(d), NEW i \in 1..Len(queue'), NEW j \in 1..Len(queue'),
                 queue'[i].doc = d, queue'[j].doc = d
          PROVE  i = j
        <3>1. i # 1 /\ j # 1
            BY <1>1, <1>4, <1>5, <2>2
        <3>2. i - 1 = j - 1
            BY <1>2, <2>2, <3>1 DEF QueuedOnce
        <3>3. QED
            BY <3>2
    <2>3. QED
        BY <1>5, <2>1, <2>2 DEF SameQueue, QueuedOnce
<1>6. CASE c = d
    <2>1. Queued(d)'
        BY <1>1, <1>3, <1>4, <1>6 DEF Queued
    <2>2. ~Queued(d) => QueuedOnce(d)'
        BY <1>1, <1>2 DEF Queued, QueuedOnce
    <2>3. QED
        BY <1>6, <2>1, <2>2
<1>7. QED
    BY <1>5, <1>6

-----------------------------------------------------------------------------
(* The workers *)

LEMMA QueueKept ==
    ASSUME UNCHANGED queue, NEW d
    PROVE  SameQueue(d)
BY DEF SameQueue, Queued, QueuedOnce

LEMMA DeadKept ==
    ASSUME UNCHANGED dlq, NEW d
    PROVE  SameDead(d)
BY DEF SameDead, Dead, DeadOnce

LEMMA OthersOwn ==
    ASSUME PlaceOK, NEW w \in Workers, NEW l, Goto(w, l), NEW t,
           task' = task \/ task' = [task EXCEPT ![w] = t], NEW d
    PROVE  OnlyOwner(w, d) /\ (Owns(w, d)' <=> l \in Busy /\ task'[w].doc = d)
BY DEF PlaceOK, Goto, Owns, OnlyOwner

LEMMA OwnersKept ==
    ASSUME NEW w \in Workers, NEW d, OnlyOwner(w, d), Owns(w, d)' <=> Owns(w, d)
    PROVE  SameOwners(d)
BY DEF SameOwners, OnlyOwner

(* A worker that goes from one place in process_data to another, with or    *)
(* without an attempt that counts, changes nothing for any document.        *)
LEMMA MovesOnly ==
    ASSUME PlaceOK, NEW w \in Workers, NEW l, Goto(w, l),
           UNCHANGED <<queue, dlq, succeeded, lost>>,
           \/ pc[w] \in Busy /\ l \in Busy /\ UNCHANGED task
           \/ /\ pc[w] \notin Busy /\ l \notin Busy
              /\ task' = task \/ task' = [task EXCEPT ![w] = NoTask],
           NEW d
    PROVE  Untouched(d)
<1>1. OnlyOwner(w, d) /\ (Owns(w, d)' <=> l \in Busy /\ task'[w].doc = d)
    BY OthersOwn
<1>2. Owns(w, d)' <=> Owns(w, d)
    BY <1>1 DEF Owns
<1>3. QED
    BY <1>1, <1>2, OwnersKept, QueueKept, DeadKept
    DEF Untouched, SameResults, SameDone, SameLost

LEMMA RaisePlace ==
    ASSUME NEW w, Raise(w)
    PROVE  \E l \in {"xrequeue", "xdlq"} : Goto(w, l)
BY DEF Raise

(* What a worker with a task in its hands does to other documents. *)
LEMMA OthersUntouched ==
    ASSUME PlaceOK, DataOK, NEW w \in Workers, pc[w] \in Busy \cup After,
           NEW l, Goto(w, l), task' = task \/ task' = [task EXCEPT ![w] = NoTask],
           task' # task => l \notin Busy,
           UNCHANGED queue \/ PushAgain(w), UNCHANGED dlq \/ PushDead(w),
           UNCHANGED lost \/ \E c \in Causes : Drop(w, c),
           succeeded' \in {succeeded, succeeded \cup {task[w].doc}},
           NEW d, d # task[w].doc
    PROVE  Untouched(d)
<1>1. OnlyOwner(w, d) /\ (Owns(w, d)' <=> l \in Busy /\ task'[w].doc = d)
    BY OthersOwn
<1>2. SameOwners(d)
    <2>1. ~Owns(w, d) /\ ~Owns(w, d)'
        BY <1>1 DEF Owns
    <2>2. QED
        BY <1>1, <2>1, OwnersKept
<1>3. SameQueue(d)
    BY QueueKept, PushMoves
<1>4. SameDead(d)
    BY DeadKept, DeadMoves
<1>5. SameLost(d) /\ SameDone(d)
    BY DEF SameLost, SameDone, Drop
<1>6. QED
    BY <1>2, <1>3, <1>4, <1>5 DEF Untouched, SameResults

(* What becomes of the document in hand when the worker lets it go. *)
LEMMA SubjectLeft ==
    ASSUME PlaceOK, NEW w \in Workers, pc[w] \in Busy, NEW l, l \notin Busy, Goto(w, l),
           task' = task \/ task' = [task EXCEPT ![w] = NoTask],
           NEW d, d = task[w].doc
    PROVE  LetsGo(w, d)
<1>1. OnlyOwner(w, d) /\ ~Owns(w, d)'
    BY OthersOwn
<1>2. QED
    BY <1>1 DEF LetsGo, Owns

LEMMA SubjectDropped ==
    ASSUME NEW w \in Workers, NEW c \in Causes, Drop(w, c), NEW d, d = task[w].doc
    PROVE  GetsLost(d)
<1>1. <<d, c>> \in lost'
    BY DEF Drop
<1>2. \A b \in Causes \ {c} : <<d, b>> \in lost' <=> <<d, b>> \in lost
    BY DEF Drop
<1>3. QED
    BY <1>1, <1>2 DEF GetsLost

-----------------------------------------------------------------------------
(* Every step of a worker is about one document, and touches it in one of   *)
(* the ways named above; to every other document it does nothing.           *)
LEMMA WorkerSteps ==
    ASSUME PlaceOK, DataOK, NEW w \in Workers, Progress(w) \/ Disturb(w), NEW d \in Docs
    PROVE  Untouched(d) \/ (d = Subject(w) /\ Touched(w, d))
<1> DEFINE Goal == Untouched(d) \/ (d = Subject(w) /\ Touched(w, d))
<1>a. ASSUME pc[w] \in Busy \cup After
      PROVE  Subject(w) = task[w].doc
    BY <1>a DEF Subject, Busy, After
<1>b. "sigterm" \in Causes /\ "crash" \in Causes /\ "redis" \in Causes
    BY DEF Causes
<1>1. CASE Take(w)
    <2>1. OnlyOwner(w, d) /\ (Owns(w, d)' <=> Head(queue).doc = d)
        <3>1. task'[w] = Head(queue)
            BY <1>1 DEF Take, PlaceOK
        <3>2. QED
            BY <1>1, <3>1, OthersOwn DEF Take, Busy
    <2>2. SameResults(d)
        BY <1>1, DeadKept DEF Take, SameResults, SameDone, SameLost
    <2>3. CASE Head(queue).doc = d
        <3>1. LeavesQueue(d)
            BY <1>1, <2>3, PopMoves DEF Take
        <3>2. QED
            BY <1>1, <2>1, <2>2, <2>3, <3>1 DEF Take, Touched, Taken, Subject
    <2>4. CASE Head(queue).doc # d
        <3>1. SameQueue(d)
            BY <1>1, <2>4, PopMoves DEF Take
        <3>2. SameOwners(d)
            BY <1>1, <2>1, <2>4, OwnersKept DEF Take, Owns, Busy
        <3>3. QED
            BY <2>2, <3>1, <3>2 DEF Untouched
    <2>5. QED
        BY <2>3, <2>4
<1>2. CASE TakeReplyLost(w)
    <2>1. SameOwners(d) /\ SameDone(d) /\ SameDead(d)
        BY <1>2, DeadKept DEF TakeReplyLost, SameOwners, Owns, SameDone
    <2>2. CASE Head(queue).doc = d
        <3>1. LeavesQueue(d)
            BY <1>2, <2>2, PopMoves DEF TakeReplyLost
        <3>2. GetsLost(d)
            <4>1. \A b \in Causes \ {"redis"} : <<d, b>> \in lost' <=> <<d, b>> \in lost
                BY <1>2 DEF TakeReplyLost
            <4>2. <<d, "redis">> \in lost'
                BY <1>2, <2>2 DEF TakeReplyLost
            <4>3. QED
                BY <1>b, <4>1, <4>2 DEF GetsLost
        <3>3. QED
            BY <1>2, <2>1, <2>2, <3>1, <3>2 DEF TakeReplyLost, Touched, TakenLost, Subject
    <2>3. CASE Head(queue).doc # d
        <3>1. SameQueue(d)
            BY <1>2, <2>3, PopMoves DEF TakeReplyLost
        <3>2. SameLost(d)
            BY <1>2, <2>3 DEF TakeReplyLost, SameLost
        <3>3. QED
            BY <2>1, <3>1, <3>2 DEF Untouched, SameResults
    <2>4. QED
        BY <2>2, <2>3
<1>3. CASE Download(w) \/ Parse(w) \/ StreamFails(w)
    <2>1. \E l \in Busy : Goto(w, l)
        BY <1>3 DEF Download, Parse, StreamFails, Busy
    <2>2. QED
        BY <1>3, <2>1, MovesOnly DEF Download, Parse, StreamFails, Busy
<1>4. CASE DownloadRaises(w) \/ ParseRaises(w)
    <2>1. \E l \in Busy : Goto(w, l)
        BY <1>4, RaisePlace DEF DownloadRaises, ParseRaises, Busy
    <2>2. QED
        BY <1>4, <2>1, MovesOnly DEF DownloadRaises, ParseRaises, Busy
<1>5. CASE Finish(w) \/ Unlink(w) \/ UnlinkAfterRaise(w)
    BY <1>5, MovesOnly DEF Finish, Unlink, UnlinkAfterRaise, Idle, Busy
<1>6. CASE Restart(w)
    BY <1>6, MovesOnly DEF Restart, Busy
<1>7. CASE StreamSucceeds(w)
    <2>1. d # task[w].doc => Untouched(d)
        BY <1>7, OthersUntouched DEF StreamSucceeds, Busy
    <2>2. d = task[w].doc => Succeeds(w, d)
        <3>1. d = task[w].doc => LetsGo(w, d)
            BY <1>7, SubjectLeft DEF StreamSucceeds, Busy
        <3>2. QED
            BY <1>7, <3>1, QueueKept, DeadKept DEF StreamSucceeds, Succeeds, SameLost
    <2>3. QED
        BY <1>7, <1>a, <2>1, <2>2 DEF StreamSucceeds, Touched, Busy
<1>8. CASE Requeue(w) \/ RequeueAfterRaise(w)
    <2>0. /\ pc[w] \in Busy /\ UNCHANGED <<dlq, lost, succeeded>> /\ PushAgain(w)
          /\ \E l \in {"unlink", "blpop"} : Goto(w, l)
          /\ task' = task \/ task' = [task EXCEPT ![w] = NoTask]
        BY <1>8 DEF Requeue, RequeueAfterRaise, Idle, Busy
    <2>1. d # task[w].doc => Untouched(d)
        BY <2>0, OthersUntouched DEF Busy
    <2>2. d = task[w].doc => PutBack(w, d)
        <3>1. d = task[w].doc => LetsGo(w, d)
            BY <2>0, SubjectLeft DEF Busy
        <3>2. QED
            BY <2>0, <3>1, PushMoves, DeadKept DEF PutBack, SameResults, SameLost, SameDone
    <2>3. QED
        BY <1>a, <2>0, <2>1, <2>2 DEF Touched
<1>9. CASE DeadLetter(w) \/ DeadLetterAfterRaise(w)
    <2>0. /\ pc[w] \in Busy /\ UNCHANGED <<queue, lost, succeeded, task>> /\ PushDead(w)
          /\ \E l \in {"unlink", "xunlink"} : Goto(w, l)
        BY <1>9 DEF DeadLetter, DeadLetterAfterRaise, Busy
    <2>1. d # task[w].doc => Untouched(d)
        BY <2>0, OthersUntouched DEF Busy
    <2>2. d = task[w].doc => Dies(w, d)
        <3>1. d = task[w].doc => LetsGo(w, d)
            BY <2>0, SubjectLeft DEF Busy
        <3>2. QED
            BY <2>0, <3>1, QueueKept, DeadMoves DEF Dies, SameLost, SameDone
    <2>3. QED
        BY <1>a, <2>0, <2>1, <2>2 DEF Touched
<1>10. CASE RequeueRaises(w) \/ DeadLetterRaises(w)
    <2>0. /\ pc[w] \in Busy /\ UNCHANGED <<lost, succeeded, task>>
          /\ \E l \in {"xrequeue", "xdlq"} : Goto(w, l)
          /\ \/ UNCHANGED <<queue, dlq>>
             \/ /\ task[w].doc \in duplicated'
                /\ \/ PushAgain(w) /\ UNCHANGED dlq
                   \/ PushDead(w) /\ UNCHANGED queue
        BY <1>10, RaisePlace DEF RequeueRaises, DeadLetterRaises, Busy
    <2>1. d # task[w].doc => Untouched(d)
        BY <2>0, OthersUntouched DEF Busy
    <2>2. CASE UNCHANGED <<queue, dlq>>
        BY <2>0, <2>2, MovesOnly DEF Busy
    <2>3. CASE d = task[w].doc /\ ~UNCHANGED <<queue, dlq>>
        <3>1. Owns(w, d) /\ Owns(w, d)'
            BY <2>0, <2>3, OthersOwn DEF Owns, Busy
        <3>2. (Dead(d) => Dead(d)') /\ d \in duplicated'
            BY <2>0, <2>3, DeadMoves, DeadKept DEF SameDead, GetsDead
        <3>3. Copied(w, d)
            BY <2>0, <2>3, <3>1, <3>2
            DEF Copied, InHandOf, Owned, Owns, SameLost, SameDone
        <3>4. QED
            BY <1>a, <2>0, <2>3, <3>3 DEF Touched
    <2>4. QED
        BY <2>1, <2>2, <2>3
<1>11. CASE UnlinkRaises(w)
    <2>0. pc[w] = "unlink" /\ pc[w] \in Busy \cup After
        BY <1>11 DEF UnlinkRaises, After
    <2>1. \E l \in {"xrequeue", "xdlq"} : Goto(w, l)
        BY <1>11, RaisePlace DEF UnlinkRaises
    <2>2. d # task[w].doc => Untouched(d)
        BY <1>11, <2>0, <2>1, OthersUntouched DEF UnlinkRaises
    <2>3. d = task[w].doc => Copied(w, d)
        <3>1. d = task[w].doc => Owns(w, d)'
            BY <1>11, <2>1, OthersOwn DEF UnlinkRaises, Busy
        <3>2. SameDead(d)
            BY <1>11, DeadKept DEF UnlinkRaises
        <3>3. QED
            BY <1>11, <2>0, <3>1, <3>2
            DEF UnlinkRaises, Copied, InHandOf, Owned, SameLost, SameDone, SameDead
    <2>4. QED
        BY <1>a, <2>0, <2>2, <2>3 DEF Touched
<1>12. CASE PushRaisesAgain(w)
    <2>0. /\ pc[w] \in Busy /\ UNCHANGED succeeded
          /\ Goto(w, "blpop") /\ task' = [task EXCEPT ![w] = NoTask]
          /\ \/ PushAgain(w) /\ UNCHANGED <<dlq, lost>>
             \/ PushDead(w) /\ UNCHANGED <<queue, lost>>
             \/ Drop(w, "redis") /\ UNCHANGED <<queue, dlq>>
        BY <1>12 DEF PushRaisesAgain, Idle, Busy
    <2>1. d # task[w].doc => Untouched(d)
        BY <1>b, <2>0, OthersUntouched DEF Busy
    <2>2. d = task[w].doc => LetsGo(w, d)
        BY <2>0, SubjectLeft DEF Busy
    <2>3. CASE d = task[w].doc /\ PushAgain(w) /\ UNCHANGED <<dlq, lost>>
        <3>1. PutBack(w, d)
            BY <2>0, <2>2, <2>3, PushMoves, DeadKept DEF PutBack, SameResults, SameLost, SameDone
        <3>2. QED
            BY <1>a, <2>0, <2>3, <3>1 DEF Touched
    <2>4. CASE d = task[w].doc /\ PushDead(w) /\ UNCHANGED <<queue, lost>>
        <3>1. Dies(w, d)
            BY <2>0, <2>2, <2>4, QueueKept, DeadMoves DEF Dies, SameLost, SameDone
        <3>2. QED
            BY <1>a, <2>0, <2>4, <3>1 DEF Touched
    <2>5. CASE d = task[w].doc /\ Drop(w, "redis") /\ UNCHANGED <<queue, dlq>>
        <3>1. DroppedBy(w, d)
            BY <1>b, <2>0, <2>2, <2>5, QueueKept, DeadKept, SubjectDropped
            DEF DroppedBy, SameDone
        <3>2. QED
            BY <1>a, <2>0, <2>5, <3>1 DEF Touched
    <2>6. QED
        BY <2>0, <2>1, <2>3, <2>4, <2>5
<1>13. CASE Exit(w)
    <2>1. CASE pc[w] \in Busy
        <3>0. /\ Goto(w, "down") /\ task' = [task EXCEPT ![w] = NoTask]
              /\ \E c \in Causes : Drop(w, c)
              /\ UNCHANGED <<queue, dlq, succeeded>>
            BY <1>13, <1>b, <2>1 DEF Exit
        <3>1. d # task[w].doc => Untouched(d)
            BY <2>1, <3>0, OthersUntouched DEF Busy
        <3>2. d = task[w].doc => DroppedBy(w, d)
            <4>1. d = task[w].doc => LetsGo(w, d)
                BY <2>1, <3>0, SubjectLeft DEF Busy
            <4>2. QED
                BY <3>0, <4>1, QueueKept, DeadKept, SubjectDropped DEF DroppedBy, SameDone
        <3>3. QED
            BY <1>a, <2>1, <3>1, <3>2 DEF Touched
    <2>2. CASE pc[w] \notin Busy
        BY <1>13, <2>2, MovesOnly DEF Exit, Busy
    <2>3. QED
        BY <2>1, <2>2
<1>14. QED
    BY <1>1, <1>2, <1>3, <1>4, <1>5, <1>6, <1>7, <1>8, <1>9, <1>10, <1>11, <1>12, <1>13
    DEF Progress, Disturb

-----------------------------------------------------------------------------
(* A document that is somewhere was confirmed. *)

Known(d) == Queued(d) \/ Settled(d) \/ \E w \in Workers : InHandOf(w, d)
KnownConfirmed == \A d \in Docs : Known(d) => confirms[d] > 0

LEMMA HandsKnown ==
    ASSUME PlaceOK, PlaceOK', DataOK, NEW w \in Workers, Progress(w) \/ Disturb(w),
           NEW v \in Workers, NEW d, InHandOf(v, d)'
    PROVE  InHandOf(v, d) \/ Queued(d)
<1>1. task'[v] # NoTask /\ task'[v].doc = d
    BY DEF InHandOf, PlaceOK
<1>2. CASE Take(w)
    <2>1. CASE v = w
        <3>1. Head(queue).doc = d /\ queue # <<>>
            BY <1>1, <1>2, <2>1 DEF Take, PlaceOK
        <3>2. QED
            BY <3>1, PopQueued
    <2>2. CASE v # w
        <3>1. task'[v] = task[v]
            BY <1>2, <2>2 DEF Take, PlaceOK
        <3>2. QED
            BY <1>1, <3>1 DEF InHandOf, PlaceOK
    <2>3. QED
        BY <2>1, <2>2
<1>3. CASE ~Take(w)
    <2>1. task' \in {task, [task EXCEPT ![w] = NoTask]}
        BY <1>3 DEF Progress, Disturb, TakeReplyLost, Download,
            DownloadRaises, Parse, ParseRaises, StreamSucceeds, StreamFails, Finish,
            Requeue, DeadLetter, RequeueRaises, DeadLetterRaises, Unlink, UnlinkRaises,
            RequeueAfterRaise, DeadLetterAfterRaise, PushRaisesAgain, UnlinkAfterRaise,
            Exit, Restart, Idle
    <2>2. task'[v] = task[v]
        BY <1>1, <2>1 DEF PlaceOK
    <2>3. QED
        BY <1>1, <2>2 DEF InHandOf, PlaceOK
<1>4. QED
    BY <1>2, <1>3

LEMMA WorkerConfirmsNone ==
    ASSUME NEW w \in Workers, Progress(w) \/ Disturb(w)
    PROVE  UNCHANGED confirms /\ duplicated \subseteq duplicated'
BY DEF Progress, Disturb, Take, TakeReplyLost, Download,
    DownloadRaises, Parse, ParseRaises, StreamSucceeds, StreamFails, Finish,
    Requeue, DeadLetter, RequeueRaises, DeadLetterRaises, Unlink, UnlinkRaises,
    RequeueAfterRaise, DeadLetterAfterRaise, PushRaisesAgain, UnlinkAfterRaise,
    Exit, Restart, Idle

LEMMA KnownInit == Init => KnownConfirmed
BY DEF Init, KnownConfirmed, Known, Queued, Settled, Dead, Lost, InHandOf, Busy, After

LEMMA KnownStep ==
    ASSUME TypeInv, TypeInv', KnownConfirmed, [Next]_workerVars
    PROVE  KnownConfirmed'
<1>0. PlaceOK /\ PlaceOK' /\ DataOK
    BY TypeParts
<1> SUFFICES ASSUME NEW d \in Docs, Known(d)' PROVE confirms'[d] > 0
    BY DEF KnownConfirmed
<1>1. ASSUME NEW c \in Docs, Confirm(c) PROVE confirms'[d] > 0
    <2>1. CASE c = d
        BY <1>0, <1>1, <2>1 DEF Confirm, DataOK
    <2>2. CASE c # d
        <3>1. SameQueue(d)
            BY <1>0, <1>1, <2>2, ConfirmMoves DEF Confirm
        <3>2. Known(d)
            BY <1>1, <3>1 DEF Confirm, Known, SameQueue, Settled, Dead, Lost, InHandOf
        <3>3. QED
            BY <1>0, <1>1, <2>2, <3>2 DEF Confirm, KnownConfirmed, DataOK
    <2>3. QED
        BY <2>1, <2>2
<1>2. ASSUME NEW w \in Workers, Progress(w) \/ Disturb(w) PROVE confirms'[d] > 0
    <2>1. (\E v \in Workers : InHandOf(v, d)') => Known(d)
        BY <1>0, <1>2, HandsKnown DEF Known
    <2>2. Queued(d)' \/ Settled(d)' => Known(d)
        <3>1. Owned(d) => Known(d)
            BY DEF Owned, Owns, Known, InHandOf
        <3>2. CASE Untouched(d)
            BY <3>2 DEF Untouched, SameQueue, SameResults, SameDone, SameDead, SameLost,
                Known, Settled, Lost
        <3>3. CASE Touched(w, d)
            <4>1. CASE Taken(w, d) \/ TakenLost(d)
                BY <4>1 DEF Taken, TakenLost, LeavesQueue, Known
            <4>2. CASE Copied(w, d)
                BY <4>2 DEF Copied, Known
            <4>3. CASE PutBack(w, d) \/ Succeeds(w, d) \/ Dies(w, d) \/ DroppedBy(w, d)
                BY <3>1, <4>3 DEF PutBack, Succeeds, Dies, DroppedBy, LetsGo, Owned
            <4>4. QED
                BY <3>3, <4>1, <4>2, <4>3 DEF Touched
        <3>4. QED
            BY <1>0, <1>2, <3>2, <3>3, WorkerSteps
    <2>3. Known(d)
        BY <2>1, <2>2 DEF Known
    <2>4. QED
        BY <1>2, <2>3, WorkerConfirmsNone DEF KnownConfirmed
<1>3. CASE UNCHANGED workerVars
    BY <1>3 DEF workerVars, KnownConfirmed, Known, Queued, Settled, Dead, Lost, InHandOf
<1>4. QED
    BY <1>1, <1>2, <1>3 DEF Next

-----------------------------------------------------------------------------
(* The refinement: what the steps do to the variables of TaskLifecycle *)

Accepted == {d \in Docs : confirms[d] > 0}
Outcome  == [d \in Docs |-> ResultsOf(d)]

LEMMA PendingIs ==
    /\ \A d \in Docs : d \in PendingDocs <=> Queued(d) \/ Owned(d)
    /\ \A d \in Docs : d \in PendingDocs' <=> Queued(d)' \/ Owned(d)'
BY DEF PendingDocs, Owned

\* Seen from the life cycle nothing happens to d.
Unmoved(d) == (d \in PendingDocs' <=> d \in PendingDocs) /\ ResultsOf(d)' = ResultsOf(d)

LEMMA ResultsKept ==
    ASSUME NEW d, SameResults(d)
    PROVE  ResultsOf(d)' = ResultsOf(d)
BY DEF SameResults, SameDone, SameDead, SameLost, ResultsOf, Lost

LEMMA UntouchedUnmoved ==
    ASSUME NEW d \in Docs, Untouched(d)
    PROVE  Unmoved(d)
<1>1. Owned(d)' <=> Owned(d)
    BY DEF Untouched, SameOwners, Owned
<1>2. QED
    BY <1>1, ResultsKept, PendingIs DEF Untouched, SameQueue, Unmoved

(* A result is added to one document, which may stay pending or not. *)
LEMMA SettleStep ==
    ASSUME NEW t \in Docs, \A d \in Docs \ {t} : Unmoved(d), UNCHANGED confirms,
           t \in PendingDocs, NEW r \in Life!Results, ResultsOf(t)' = ResultsOf(t) \cup {r}
    PROVE  Life!LifeNext
<1>1. Outcome' = [Outcome EXCEPT ![t] = @ \cup {r}]
    BY DEF Outcome, Unmoved
<1>2. PendingDocs' \in {PendingDocs, PendingDocs \ {t}}
    <2>1. PendingDocs \subseteq Docs /\ PendingDocs' \subseteq Docs
        BY DEF PendingDocs
    <2>2. CASE t \in PendingDocs'
        <3>1. PendingDocs' = PendingDocs
            BY <2>1, <2>2 DEF Unmoved
        <3>2. QED
            BY <3>1
    <2>3. CASE t \notin PendingDocs'
        <3>1. PendingDocs' = PendingDocs \ {t}
            BY <2>1, <2>3 DEF Unmoved
        <3>2. QED
            BY <3>1
    <2>4. QED
        BY <2>2, <2>3
<1>3. Life!Settle(t, r)
    BY <1>1, <1>2 DEF Life!Settle, Outcome
<1>4. QED
    BY <1>3 DEF Life!LifeNext

LEMMA DuplicateStep ==
    ASSUME NEW t \in Docs, \A d \in Docs \ {t} : Unmoved(d), UNCHANGED confirms,
           confirms[t] > 0, t \in PendingDocs', ResultsOf(t)' = ResultsOf(t)
    PROVE  Life!LifeNext
<1>1. Outcome' = Outcome
    BY DEF Outcome, Unmoved
<1>2. PendingDocs' = PendingDocs \cup {t}
    BY DEF Unmoved, PendingDocs
<1>3. Life!Duplicate(t)
    BY <1>1, <1>2 DEF Life!Duplicate, Outcome
<1>4. QED
    BY <1>3 DEF Life!LifeNext

LEMMA StutterStep ==
    ASSUME \A d \in Docs : Unmoved(d), UNCHANGED confirms
    PROVE  UNCHANGED Life!lifeVars
<1>1. Outcome' = Outcome
    BY DEF Outcome, Unmoved
<1>2. PendingDocs' = PendingDocs
    BY DEF Unmoved, PendingDocs
<1>3. QED
    BY <1>1, <1>2 DEF Life!lifeVars, Outcome

LEMMA AcceptStep ==
    ASSUME DataOK, NEW c \in Docs, Confirm(c)
    PROVE  Life!LifeNext
<1>1. \A d \in Docs \ {c} : Unmoved(d)
    <2> SUFFICES ASSUME NEW d \in Docs, d # c PROVE Unmoved(d)
        OBVIOUS
    <2>1. SameQueue(d)
        BY ConfirmMoves DEF Confirm
    <2>2. Untouched(d)
        BY <2>1, DeadKept
        DEF Confirm, Untouched, SameOwners, Owns, SameResults, SameDone, SameLost
    <2>3. QED
        BY <2>2, UntouchedUnmoved
<1>2. Queued(c)' /\ ResultsOf(c)' = ResultsOf(c)
    <2>1. Queued(c)'
        BY ConfirmMoves DEF Confirm
    <2>2. QED
        BY <2>1 DEF Confirm, ResultsOf, Dead, Lost
<1>3. Outcome' = Outcome
    BY <1>1, <1>2 DEF Outcome, Unmoved
<1>4. PendingDocs' = PendingDocs \cup {c}
    <2>1. c \in PendingDocs'
        BY <1>2, PendingIs
    <2>2. QED
        BY <1>1, <2>1 DEF Unmoved, PendingDocs
<1>5. Accepted' = Accepted \cup {c}
    BY DEF Confirm, DataOK, Accepted
<1>6. Life!Accept(c)
    BY <1>3, <1>4, <1>5 DEF Life!Accept, Outcome, Accepted
<1>7. QED
    BY <1>6 DEF Life!LifeNext

LEMMA ResultAdded ==
    ASSUME NEW d
    PROVE  /\ d \in succeeded' /\ SameDead(d) /\ SameLost(d)
                => ResultsOf(d)' = ResultsOf(d) \cup {"succeeded"}
           /\ SameDone(d) /\ GetsDead(d) /\ SameLost(d)
                => ResultsOf(d)' = ResultsOf(d) \cup {"dead"}
           /\ SameDone(d) /\ SameDead(d) /\ GetsLost(d)
                => ResultsOf(d)' = ResultsOf(d) \cup {"lost"}
<1>1. SameLost(d) => (Lost(d)' <=> Lost(d))
    BY DEF SameLost, Lost
<1>2. GetsLost(d) => Lost(d)'
    BY DEF GetsLost, Lost
<1>3. QED
    BY <1>1, <1>2 DEF SameDead, SameDone, GetsDead, ResultsOf

LEMMA WorkerLives ==
    ASSUME PlaceOK, PlaceOK', DataOK, KnownConfirmed,
           NEW w \in Workers, Progress(w) \/ Disturb(w)
    PROVE  [Life!LifeNext]_Life!lifeVars
<1>0. {"succeeded", "dead", "lost"} = Life!Results
    BY DEF Life!Results
<1>1. UNCHANGED confirms
    BY WorkerConfirmsNone
<1>2. CASE \A d \in Docs : Unmoved(d)
    BY <1>1, <1>2, StutterStep
<1>3. ASSUME NEW t \in Docs, ~Unmoved(t)
      PROVE  Life!LifeNext
    <2>0. t = Subject(w) /\ Touched(w, t)
        BY <1>3, WorkerSteps, UntouchedUnmoved
    <2>1. \A d \in Docs \ {t} : Unmoved(d)
        BY <2>0, WorkerSteps, UntouchedUnmoved
    <2>2. Owned(t) => t \in PendingDocs
        BY PendingIs
    <2>3. CASE Taken(w, t) \/ PutBack(w, t)
        <3>1. Queued(t) \/ Owned(t)
            BY <2>3 DEF Taken, PutBack, LeavesQueue, LetsGo, Owned
        <3>2. Queued(t)' \/ Owned(t)'
            BY <2>3 DEF Taken, PutBack, Owned
        <3>3. ResultsOf(t)' = ResultsOf(t)
            BY <2>3, ResultsKept DEF Taken, PutBack
        <3>4. QED
            BY <1>3, <3>1, <3>2, <3>3, PendingIs DEF Unmoved
    <2>4. CASE TakenLost(t)
        <3>1. t \in PendingDocs
            BY <2>4, PendingIs DEF TakenLost, LeavesQueue
        <3>2. ResultsOf(t)' = ResultsOf(t) \cup {"lost"}
            BY <2>4, ResultAdded DEF TakenLost
        <3>3. QED
            BY <1>0, <1>1, <2>1, <3>1, <3>2, SettleStep
    <2>5. CASE Succeeds(w, t) \/ Dies(w, t) \/ DroppedBy(w, t)
        <3>1. t \in PendingDocs
            BY <2>2, <2>5 DEF Succeeds, Dies, DroppedBy, LetsGo, Owned
        <3>2. \E r \in Life!Results : ResultsOf(t)' = ResultsOf(t) \cup {r}
            BY <1>0, <2>5, ResultAdded DEF Succeeds, Dies, DroppedBy
        <3>3. QED
            BY <1>1, <2>1, <3>1, <3>2, SettleStep
    <2>6. CASE Copied(w, t)
        <3>1. t \in PendingDocs'
            BY <2>6, PendingIs DEF Copied
        <3>2. confirms[t] > 0
            BY <2>6 DEF Copied, KnownConfirmed, Known
        <3>3. CASE Dead(t)' <=> Dead(t)
            <4>1. ResultsOf(t)' = ResultsOf(t)
                BY <2>6, <3>3 DEF Copied, ResultsOf, SameDone, SameLost, Lost
            <4>2. QED
                BY <1>1, <2>1, <3>1, <3>2, <4>1, DuplicateStep
        <3>4. CASE Dead(t)' /\ ~Dead(t)
            <4>1. t \in PendingDocs
                BY <2>2, <2>6, <3>4 DEF Copied
            <4>2. ResultsOf(t)' = ResultsOf(t) \cup {"dead"}
                BY <2>6, <3>4 DEF Copied, ResultsOf, SameDone, SameLost, Lost
            <4>3. QED
                BY <1>0, <1>1, <2>1, <4>1, <4>2, SettleStep
        <3>5. QED
            BY <2>6, <3>3, <3>4 DEF Copied
    <2>7. QED
        BY <2>0, <2>3, <2>4, <2>5, <2>6 DEF Touched
<1>4. QED
    BY <1>2, <1>3

LEMMA LifeInits == Init => Life!LifeInit
<1> SUFFICES ASSUME Init PROVE Life!LifeInit
    OBVIOUS
<1>1. \A d \in Docs : ~Queued(d) /\ ~Owned(d) /\ ResultsOf(d) = {}
    BY DEF Init, Queued, Owned, Owns, Busy, ResultsOf, Dead, Lost
<1>2. PendingDocs = {}
    BY <1>1, PendingIs DEF PendingDocs
<1>3. Accepted = {}
    BY DEF Init, Accepted
<1>4. Outcome = [d \in Docs |-> {}]
    BY <1>1 DEF Outcome
<1>5. QED
    BY <1>2, <1>3, <1>4 DEF Life!LifeInit, Accepted, Outcome

LEMMA LifeSteps ==
    ASSUME TypeInv, TypeInv', KnownConfirmed, [Next]_workerVars
    PROVE  [Life!LifeNext]_Life!lifeVars
<1>0. PlaceOK /\ PlaceOK' /\ DataOK
    BY TypeParts
<1>1. ASSUME NEW c \in Docs, Confirm(c) PROVE Life!LifeNext
    BY <1>0, <1>1, AcceptStep
<1>2. ASSUME NEW w \in Workers, Progress(w) \/ Disturb(w)
      PROVE  [Life!LifeNext]_Life!lifeVars
    BY <1>0, <1>2, WorkerLives
<1>3. CASE UNCHANGED workerVars
    BY <1>3 DEF workerVars, Life!lifeVars, PendingDocs, Queued, Owns, ResultsOf, Dead, Lost
<1>4. QED
    BY <1>1, <1>2, <1>3 DEF Next

(* The queue and the workers, for any number of them and any faults,        *)
(* implement the life cycle of an upload: whatever path process_data takes  *)
(* and whatever error, exit or restart meets it, a confirmed document stops *)
(* being pending only in the step that gives it an outcome, and only a      *)
(* confirmed one ever becomes pending again.                                *)
THEOREM ImplementsLifeCycle == Spec => LifeCycle
<1>1. Init => TypeInv /\ KnownConfirmed
    BY TypeInit, KnownInit
<1>2. TypeInv /\ KnownConfirmed /\ [Next]_workerVars => (TypeInv /\ KnownConfirmed)'
    BY TypeStep, KnownStep
<1>3. TypeInv /\ TypeInv' /\ KnownConfirmed /\ [Next]_workerVars
        => [Life!LifeNext]_Life!lifeVars
    BY LifeSteps
<1>4. QED
    BY <1>1, <1>2, <1>3, LifeInits, PTL DEF Spec, LifeCycle, Life!LifeSpec

-----------------------------------------------------------------------------
(* One copy or one outcome *)

OwnedOnce(d) == \A v, w \in Workers : Owns(v, d) /\ Owns(w, d) => v = w
LostOnce(d)  == \A b, c \in Causes : <<d, b>> \in lost /\ <<d, c>> \in lost => b = c

(* The places of d exclude one another, and each holds it once. *)
Sole(d) ==
    /\ QueuedOnce(d) /\ OwnedOnce(d) /\ DeadOnce(d) /\ LostOnce(d)
    /\ Queued(d) => ~Owned(d) /\ ~Settled(d)
    /\ Owned(d) => ~Settled(d)
    /\ d \in succeeded => ~Dead(d) /\ ~Lost(d)
    /\ Dead(d) => ~Lost(d)

SoleInv == \A d \in Docs : confirms[d] = 1 /\ d \notin duplicated => Sole(d)

LEMMA UntouchedSole ==
    ASSUME NEW d, Sole(d), Untouched(d)
    PROVE  Sole(d)'
<1>1. OwnedOnce(d)' /\ (Owned(d)' <=> Owned(d))
    BY DEF Untouched, SameOwners, Sole, OwnedOnce, Owned
<1>2. LostOnce(d)' /\ (Lost(d)' <=> Lost(d))
    BY DEF Untouched, SameResults, SameLost, Sole, LostOnce, Lost
<1>3. QED
    BY <1>1, <1>2 DEF Untouched, SameQueue, SameResults, SameDone, SameDead, Sole, Settled

LEMMA LeftSole ==
    ASSUME NEW d, NEW w \in Workers, Sole(d), LetsGo(w, d)
    PROVE  /\ ~Owned(d)' /\ OwnedOnce(d)'
           /\ ~Queued(d) /\ ~Settled(d)
<1>1. Owned(d) /\ \A v \in Workers \ {w} : ~Owns(v, d)
    BY DEF LetsGo, Owned, Sole, OwnedOnce
<1>2. \A v \in Workers : ~Owns(v, d)'
    BY <1>1 DEF LetsGo, OnlyOwner
<1>3. QED
    BY <1>1, <1>2 DEF Sole, Owned, OwnedOnce

LEMMA LostSole ==
    ASSUME NEW d
    PROVE  /\ SameLost(d) => (Lost(d)' <=> Lost(d)) /\ (LostOnce(d) => LostOnce(d)')
           /\ GetsLost(d) /\ ~Lost(d) => LostOnce(d)'
BY DEF SameLost, GetsLost, Lost, LostOnce

LEMMA TouchedSole ==
    ASSUME NEW d, NEW w \in Workers, Sole(d), Touched(w, d), d \notin duplicated'
    PROVE  Sole(d)'
<1>1. CASE Taken(w, d)
    <2>1. ~Settled(d) /\ ~Owned(d)
        BY <1>1 DEF Taken, LeavesQueue, Sole
    <2>2. OwnedOnce(d)'
        BY <1>1, <2>1 DEF Taken, OnlyOwner, Owned, OwnedOnce
    <2>3. ~Queued(d)' /\ QueuedOnce(d)'
        BY <1>1 DEF Taken, LeavesQueue, Sole
    <2>4. ~Settled(d)' /\ DeadOnce(d)' /\ LostOnce(d)'
        BY <1>1, <2>1, LostSole DEF Taken, SameResults, SameDone, SameDead, Settled, Sole
    <2>5. QED
        BY <2>2, <2>3, <2>4 DEF Sole, Settled
<1>2. CASE TakenLost(d)
    <2>1. ~Settled(d) /\ ~Owned(d)
        BY <1>2 DEF TakenLost, LeavesQueue, Sole
    <2>2. ~Owned(d)' /\ OwnedOnce(d)'
        BY <1>2, <2>1 DEF TakenLost, SameOwners, Owned, OwnedOnce
    <2>3. ~Queued(d)' /\ QueuedOnce(d)'
        BY <1>2 DEF TakenLost, LeavesQueue, Sole
    <2>4. d \notin succeeded' /\ ~Dead(d)' /\ DeadOnce(d)' /\ LostOnce(d)'
        BY <1>2, <2>1, LostSole DEF TakenLost, SameDone, SameDead, Settled, Sole
    <2>5. QED
        BY <2>2, <2>3, <2>4 DEF Sole
<1>3. CASE PutBack(w, d)
    <2>1. ~Owned(d)' /\ OwnedOnce(d)' /\ ~Queued(d) /\ ~Settled(d)
        BY <1>3, LeftSole DEF PutBack
    <2>2. QueuedOnce(d)'
        BY <1>3, <2>1 DEF PutBack
    <2>3. ~Settled(d)' /\ DeadOnce(d)' /\ LostOnce(d)'
        BY <1>3, <2>1, LostSole DEF PutBack, SameResults, SameDone, SameDead, Settled, Sole
    <2>4. QED
        BY <2>1, <2>2, <2>3 DEF Sole, Settled
<1>4. CASE Succeeds(w, d) \/ Dies(w, d) \/ DroppedBy(w, d)
    <2>1. ~Owned(d)' /\ OwnedOnce(d)' /\ ~Queued(d) /\ ~Settled(d)
        BY <1>4, LeftSole DEF Succeeds, Dies, DroppedBy
    <2>2. ~Queued(d)' /\ QueuedOnce(d)'
        BY <1>4, <2>1 DEF Succeeds, Dies, DroppedBy, SameQueue, Sole
    <2>3. DeadOnce(d)' /\ LostOnce(d)'
        BY <1>4, <2>1, LostSole
        DEF Succeeds, Dies, DroppedBy, SameDead, GetsDead, Settled, Sole
    <2>4. /\ d \in succeeded' => ~Dead(d)' /\ ~Lost(d)'
          /\ Dead(d)' => ~Lost(d)'
        BY <1>4, <2>1, LostSole DEF Succeeds, Dies, DroppedBy, SameDead, SameDone, Settled
    <2>5. QED
        BY <2>1, <2>2, <2>3, <2>4 DEF Sole
<1>5. QED
    BY <1>1, <1>2, <1>3, <1>4 DEF Touched, Copied

LEMMA SoleInit == Init => SoleInv
BY DEF Init, SoleInv

LEMMA SoleStep ==
    ASSUME TypeInv, KnownConfirmed, SoleInv, [Next]_workerVars
    PROVE  SoleInv'
<1>0. PlaceOK /\ DataOK
    BY TypeParts
<1> SUFFICES ASSUME NEW d \in Docs, confirms'[d] = 1, d \notin duplicated' PROVE Sole(d)'
    BY DEF SoleInv
<1>1. ASSUME NEW c \in Docs, Confirm(c) PROVE Sole(d)'
    <2>1. CASE c = d
        <3>1. confirms[d] = 0
            BY <1>0, <1>1, <2>1 DEF Confirm, DataOK
        <3>2. ~Queued(d) /\ ~Settled(d) /\ ~Owned(d)
            BY <3>1 DEF KnownConfirmed, Known, Owned, Owns, InHandOf
        <3>3. QueuedOnce(d)'
            BY <1>0, <1>1, <2>1, <3>2, ConfirmMoves DEF Confirm
        <3>4. ~Settled(d)' /\ ~Owned(d)'
            BY <1>1, <3>2 DEF Confirm, Settled, Dead, Lost, Owned, Owns
        <3>5. QED
            BY <3>3, <3>4
            DEF Sole, Settled, OwnedOnce, Owned, DeadOnce, Dead, LostOnce, Lost
    <2>2. CASE c # d
        <3>1. SameQueue(d)
            BY <1>0, <1>1, <2>2, ConfirmMoves DEF Confirm
        <3>2. Untouched(d)
            BY <1>1, <3>1, DeadKept
            DEF Confirm, Untouched, SameOwners, Owns, SameResults, SameDone, SameLost
        <3>3. confirms[d] = 1 /\ d \notin duplicated
            BY <1>0, <1>1, <2>2 DEF Confirm, DataOK
        <3>4. QED
            BY <3>2, <3>3, UntouchedSole DEF SoleInv
    <2>3. QED
        BY <2>1, <2>2
<1>2. ASSUME NEW w \in Workers, Progress(w) \/ Disturb(w) PROVE Sole(d)'
    <2>1. confirms[d] = 1 /\ d \notin duplicated
        BY <1>2, WorkerConfirmsNone
    <2>2. Sole(d)
        BY <2>1 DEF SoleInv
    <2>3. QED
        BY <1>0, <1>2, <2>2, WorkerSteps, UntouchedSole, TouchedSole
<1>3. CASE UNCHANGED workerVars
    <2>1. confirms[d] = 1 /\ d \notin duplicated
        BY <1>3 DEF workerVars
    <2>2. Untouched(d)
        BY <1>3, QueueKept, DeadKept
        DEF workerVars, Untouched, SameOwners, Owns, SameResults, SameDone, SameLost
    <2>3. QED
        BY <2>1, <2>2, UntouchedSole DEF SoleInv
<1>4. QED
    BY <1>1, <1>2, <1>3 DEF Next

(* A set with at most one element has cardinality 1 or 0. *)
LEMMA AtMostOne ==
    ASSUME NEW S, \A x, y \in S : x = y
    PROVE  Cardinality(S) = IF S = {} THEN 0 ELSE 1
<1>1. CASE S = {}
    BY <1>1, FS_EmptySet
<1>2. CASE S # {}
    <2>1. PICK x : x \in S
        BY <1>2
    <2>2. S = {x}
        BY <2>1
    <2>3. QED
        BY <1>2, <2>2, FS_Singleton
<1>3. QED
    BY <1>1, <1>2

LEMMA SoleCounts ==
    ASSUME NEW d, Sole(d), Queued(d) \/ Owned(d) \/ Settled(d)
    PROVE  Copies(d) + Outcomes(d) = 1
<1> DEFINE Q == {i \in 1..Len(queue) : queue[i].doc = d}
           O == {w \in Workers : Owns(w, d)}
           D == {i \in 1..Len(dlq) : dlq[i].doc = d}
           S == {o \in {"succeeded"} : d \in succeeded}
           L == {c \in Causes : <<d, c>> \in lost}
<1>1. Cardinality(Q) = IF Queued(d) THEN 1 ELSE 0
    <2>1. \A x, y \in Q : x = y
        BY DEF Sole, QueuedOnce
    <2>2. Q = {} <=> ~Queued(d)
        BY DEF Queued
    <2> HIDE DEF Q
    <2>3. QED
        BY <2>1, <2>2, AtMostOne
<1>2. Cardinality(O) = IF Owned(d) THEN 1 ELSE 0
    <2>1. \A x, y \in O : x = y
        BY DEF Sole, OwnedOnce
    <2>2. O = {} <=> ~Owned(d)
        BY DEF Owned
    <2> HIDE DEF O
    <2>3. QED
        BY <2>1, <2>2, AtMostOne
<1>3. Cardinality(D) = IF Dead(d) THEN 1 ELSE 0
    <2>1. \A x, y \in D : x = y
        BY DEF Sole, DeadOnce
    <2>2. D = {} <=> ~Dead(d)
        BY DEF Dead
    <2> HIDE DEF D
    <2>3. QED
        BY <2>1, <2>2, AtMostOne
<1>4. Cardinality(S) = IF d \in succeeded THEN 1 ELSE 0
    <2>1. \A x, y \in S : x = y
        OBVIOUS
    <2>2. S = {} <=> d \notin succeeded
        OBVIOUS
    <2> HIDE DEF S
    <2>3. QED
        BY <2>1, <2>2, AtMostOne
<1>5. Cardinality(L) = IF Lost(d) THEN 1 ELSE 0
    <2>1. \A x, y \in L : x = y
        BY DEF Sole, LostOnce
    <2>2. L = {} <=> ~Lost(d)
        BY DEF Lost
    <2> HIDE DEF L
    <2>3. QED
        BY <2>1, <2>2, AtMostOne
<1>6. /\ Copies(d) = Cardinality(Q) + Cardinality(O)
      /\ Outcomes(d) = Cardinality(D) + Cardinality(S) + Cardinality(L)
    BY DEF Copies, Outcomes
<1> HIDE DEF Q, O, D, S, L
<1>7. QED
    BY <1>1, <1>2, <1>3, <1>4, <1>5, <1>6 DEF Sole, Settled

LEMMA SoleIsOne ==
    ASSUME NoTaskVanishes, SoleInv
    PROVE  OneCopyOrOutcome
<1> SUFFICES ASSUME NEW d \in Docs, confirms[d] = 1, d \notin duplicated
             PROVE  Copies(d) + Outcomes(d) = 1
    BY DEF OneCopyOrOutcome
<1>1. Queued(d) \/ Owned(d) \/ Settled(d)
    BY DEF NoTaskVanishes, Owned, Settled
<1>2. QED
    BY <1>1, SoleCounts DEF SoleInv

(* A document confirmed once whose pushes all gave a clear answer is, after *)
(* any number of retries on any workers, in exactly one place: once in the  *)
(* list, in the hands of one worker, or settled with exactly one outcome.   *)
THEOREM OneCopyAlways == Spec => []OneCopyOrOutcome
<1>1. Init => TypeInv /\ KnownConfirmed /\ SoleInv
    BY TypeInit, KnownInit, SoleInit
<1>2. TypeInv /\ KnownConfirmed /\ SoleInv /\ [Next]_workerVars
        => (TypeInv /\ KnownConfirmed /\ SoleInv)'
    BY TypeStep, KnownStep, SoleStep
<1>3. NoTaskVanishes /\ SoleInv => OneCopyOrOutcome
    BY SoleIsOne
<1>4. QED
    BY <1>1, <1>2, <1>3, TasksAreKept, PTL DEF Spec
=============================================================================
