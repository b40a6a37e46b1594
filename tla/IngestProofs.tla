---------------------------- MODULE IngestProofs ----------------------------
(***************************************************************************)
(* Safety of module Ingest for every set of documents and streams, every   *)
(* document length and any number of faults: types, the chunk table, what  *)
(* callers are told, and what the context that all attempts at a document  *)
(* share gives the one that completes.                                     *)
(***************************************************************************)
EXTENDS Ingest, SequenceTheorems, WellFoundedInduction, TLAPS

LEMMA AddSectionType ==
    ASSUME NEW list \in Seq(Chapters), NEW c \in Chapters
    PROVE  AddSection(list, c) \in Seq(Chapters)
BY DEF AddSection

LEMMA FaultCount ==
    ASSUME faults \in 0..MaxFaults, Fault
    PROVE  faults' \in 0..MaxFaults
BY IngestAssumption DEF Fault

LEMMA PublishType ==
    ASSUME events \in [Streams -> Seq(EventTypes)], NEW s \in Streams, NEW e \in EventTypes,
           Publish(s, e)
    PROVE  events' \in [Streams -> Seq(EventTypes)]
BY DEF Publish

LEMMA TellType ==
    ASSUME up \in [Streams -> BOOLEAN],
           told \in [Streams -> {"none", "ok", "failed", "error"}],
           NEW s \in Streams, NEW o \in {"ok", "failed", "error"}, Tell(s, o)
    PROVE  /\ up' \in [Streams -> BOOLEAN]
           /\ told' \in [Streams -> {"none", "ok", "failed", "error"}]
<1>1. up' \in [Streams -> BOOLEAN]
    BY DEF Tell
<1>2. CASE up[s]
    BY <1>2 DEF Tell
<1>3. CASE ~up[s]
    BY <1>3 DEF Tell
<1>4. QED
    BY <1>1, <1>2, <1>3

\* At "insert" a message is in hand, counted as received and not yet failed.
LEMMA InHand ==
    ASSUME TypeOK, NEW s \in Streams, at[s] = "insert"
    PROVE  /\ next[s] \in 1..N /\ next[s] + 1 \in 1..N+1
           /\ failed[s] < received[s] /\ failed[s] + 1 \in 0..N
<1>1. failed[s] < received[s] /\ next[s] <= N
    BY DEF TypeOK
<1>2. N \in Nat /\ next[s] \in 1..N+1 /\ received[s] \in 0..N /\ failed[s] \in 0..N
    BY IngestAssumption DEF TypeOK
<1>3. QED
    BY <1>1, <1>2

\* A message that was in hand is dealt with: the counters keep their order.
LEMMA CountersInOrder ==
    ASSUME TypeOK, NEW s \in Streams, NEW t \in Streams, NextMessage(s), UNCHANGED received,
           failed' \in {failed, [failed EXCEPT ![s] = @ + 1]}
    PROVE  /\ failed'[t] <= received'[t] /\ received'[t] <= next'[t]
           /\ at'[t] \in {"idle", "start", "describe", "announce", "recv", "tick"}
                => received'[t] < next'[t]
           /\ at'[t] = "insert" => failed'[t] < received'[t] /\ next'[t] <= N
<1>1. /\ next[t] \in Nat /\ received[t] \in Nat /\ failed[t] \in Nat
      /\ failed[t] <= received[t] /\ received[t] <= next[t]
      /\ at[t] \in {"idle", "start", "describe", "announce", "recv", "tick"}
           => received[t] < next[t]
      /\ at[t] = "insert" => failed[t] < received[t] /\ next[t] <= N
    BY IngestAssumption DEF TypeOK
<1>2. received'[t] = received[t]
    OBVIOUS
<1>3. CASE t = s
    <2>1. at[s] = "insert"
        BY DEF NextMessage, Step
    <2>2. at'[s] \in {"recv", "tick"}
        BY DEF NextMessage, Step, Goto, TypeOK
    <2>3. next'[s] = next[s] + 1
        BY DEF NextMessage, TypeOK
    <2>4. failed'[s] \in {failed[s], failed[s] + 1}
        BY DEF TypeOK
    <2>5. QED
        BY <1>1, <1>2, <1>3, <2>1, <2>2, <2>3, <2>4
<1>4. CASE t # s
    <2>1. at'[t] = at[t] /\ next'[t] = next[t]
        BY <1>4 DEF NextMessage, Step, Goto, TypeOK
    <2>2. failed'[t] = failed[t]
        BY <1>4 DEF TypeOK
    <2>3. QED
        BY <1>1, <1>2, <2>1, <2>2
<1>5. QED
    BY <1>3, <1>4

LEMMA TypeInit == Init => TypeOK
BY IngestAssumption DEF Init, TypeOK, Live, Receiving, Complete

LEMMA TypeStep == TypeOK /\ [Next]_ingestVars => TypeOK'
<1> SUFFICES ASSUME TypeOK, [Next]_ingestVars PROVE TypeOK'
    OBVIOUS
<1> USE IngestAssumption DEF TypeOK, Live, Receiving, Complete, counts, copies, caller,
        context, tables, Step, Goto
<1>1. ASSUME NEW s \in Streams, Open(s) PROVE TypeOK'
    BY <1>1 DEF Open
<1>2. ASSUME NEW s \in Streams, RecvMetadata(s) PROVE TypeOK'
    BY <1>2 DEF RecvMetadata
<1>3. ASSUME NEW s \in Streams, Describe(s) PROVE TypeOK'
    BY <1>3 DEF Describe
<1>4. ASSUME NEW s \in Streams, Announce(s) PROVE TypeOK'
    BY <1>4, PublishType DEF Announce, EventTypes
<1>5. ASSUME NEW s \in Streams, SkipChunk(s) PROVE TypeOK'
    BY <1>5 DEF SkipChunk
<1>6. ASSUME NEW s \in Streams, RecvChunk(s) PROVE TypeOK'
    <2>1. Chapter[next[s]] \in Chapters /\ docOf[s] \in Docs
        BY <1>6 DEF RecvChunk, Chapters
    <2>2. sections' \in [Docs -> Seq(Chapters)]
        BY <1>6, <2>1, AddSectionType DEF RecvChunk
    <2>3. text' \in [Docs -> SUBSET (0..N)]
        BY <1>6, <2>1 DEF RecvChunk
    <2>4. received[s] + 1 \in 0..N /\ received[s] + 1 <= next[s] /\ failed[s] < received[s] + 1
        BY <1>6 DEF RecvChunk
    <2>5. QED
        BY <1>6, <2>2, <2>3, <2>4 DEF RecvChunk
<1>7. ASSUME NEW s \in Streams, Insert(s) PROVE TypeOK'
    BY <1>7 DEF Insert, NextMessage
<1>8. ASSUME NEW s \in Streams, InsertConflict(s) PROVE TypeOK'
    <2>1. /\ next[s] \in 1..N /\ next[s] + 1 \in 1..N+1
          /\ failed[s] < received[s] /\ failed[s] + 1 \in 0..N
        <3>1. at[s] = "insert"
            BY <1>8 DEF InsertConflict, NextMessage
        <3>2. QED
            BY <3>1, InHand
    <2>2. at' \in [Streams -> Live \cup {"idle", "over"}] /\ at'[s] \in {"tick", "recv"}
        BY <1>8 DEF InsertConflict, NextMessage
    <2>3. \A t \in Streams :
              /\ failed'[t] <= received'[t] /\ received'[t] <= next'[t]
              /\ at'[t] \in {"idle", "start", "describe", "announce", "recv", "tick"}
                   => received'[t] < next'[t]
              /\ at'[t] = "insert" => failed'[t] < received'[t] /\ next'[t] <= N
        <3>1. NextMessage(s) /\ UNCHANGED received
              /\ failed' = [failed EXCEPT ![s] = @ + 1]
            BY <1>8 DEF InsertConflict
        <3>2. QED
            BY <3>1, CountersInOrder
    <2>4. QED
        BY <1>8, <2>1, <2>2, <2>3 DEF InsertConflict, NextMessage
<1>9. ASSUME NEW s \in Streams, InsertFails(s) PROVE TypeOK'
    <2>1. /\ next[s] \in 1..N /\ next[s] + 1 \in 1..N+1
          /\ failed[s] < received[s] /\ failed[s] + 1 \in 0..N
        <3>1. at[s] = "insert"
            BY <1>9 DEF InsertFails, NextMessage
        <3>2. QED
            BY <3>1, InHand
    <2>2. at' \in [Streams -> Live \cup {"idle", "over"}] /\ at'[s] \in {"tick", "recv"}
        BY <1>9 DEF InsertFails, NextMessage
    <2>3. \A t \in Streams :
              /\ failed'[t] <= received'[t] /\ received'[t] <= next'[t]
              /\ at'[t] \in {"idle", "start", "describe", "announce", "recv", "tick"}
                   => received'[t] < next'[t]
              /\ at'[t] = "insert" => failed'[t] < received'[t] /\ next'[t] <= N
        <3>1. NextMessage(s) /\ UNCHANGED received
              /\ failed' = [failed EXCEPT ![s] = @ + 1]
            BY <1>9 DEF InsertFails
        <3>2. QED
            BY <3>1, CountersInOrder
    <2>4. rows' \in [Docs -> [1..N -> Streams \cup {None}]]
        <3>1. docOf[s] \in Docs
            OBVIOUS
        <3>2. CASE rows' = rows
            BY <3>2
        <3>3. CASE rows' = [rows EXCEPT ![docOf[s]] = [@ EXCEPT ![next[s]] = s]]
            <4>1. rows[docOf[s]] \in [1..N -> Streams \cup {None}]
                BY <3>1
            <4>2. [rows[docOf[s]] EXCEPT ![next[s]] = s] \in [1..N -> Streams \cup {None}]
                BY <4>1, <2>1
            <4>3. rows' = [rows EXCEPT ![docOf[s]] = [rows[docOf[s]] EXCEPT ![next[s]] = s]]
                BY <3>3
            <4>4. QED
                BY <3>1, <4>2, <4>3
        <3>4. QED
            BY <1>9, <3>2, <3>3 DEF InsertFails
    <2>5. QED
        BY <1>9, <2>1, <2>2, <2>3, <2>4, FaultCount DEF InsertFails, NextMessage
<1>10. ASSUME NEW s \in Streams, Tick(s) PROVE TypeOK'
    BY <1>10, PublishType DEF Tick, EventTypes
<1>11. ASSUME NEW s \in Streams, RecvEOF(s) PROVE TypeOK'
    BY <1>11 DEF RecvEOF
<1>12. ASSUME NEW s \in Streams, ReadText(s) PROVE TypeOK'
    BY <1>12 DEF ReadText
<1>13. ASSUME NEW s \in Streams, Summarise(s) PROVE TypeOK'
    BY <1>13 DEF Summarise
<1>14. ASSUME NEW s \in Streams, SummariseFails(s) PROVE TypeOK'
    BY <1>14 DEF SummariseFails
<1>15. ASSUME NEW s \in Streams, SetRoot(s) PROVE TypeOK'
    BY <1>15 DEF SetRoot
<1>16. ASSUME NEW s \in Streams, SetRootFails(s) PROVE TypeOK'
    BY <1>16, FaultCount DEF SetRootFails
<1>17. ASSUME NEW s \in Streams, PublishNoSummary(s) PROVE TypeOK'
    BY <1>17, PublishType DEF PublishNoSummary, EventTypes
<1>18. ASSUME NEW s \in Streams, GetSections(s) PROVE TypeOK'
    BY <1>18 DEF GetSections
<1>19. ASSUME NEW s \in Streams, UpdateSections(s) PROVE TypeOK'
    BY <1>19 DEF UpdateSections
<1>20. ASSUME NEW s \in Streams, UpdateSectionsFails(s) PROVE TypeOK'
    BY <1>20, FaultCount DEF UpdateSectionsFails
<1>21. ASSUME NEW s \in Streams, PublishCompleted(s) PROVE TypeOK'
    BY <1>21, PublishType DEF PublishCompleted, EventTypes
<1>22. ASSUME NEW s \in Streams, CleanupContext(s) PROVE TypeOK'
    BY <1>22 DEF CleanupContext
<1>23. ASSUME NEW s \in Streams, PublishFailed(s) PROVE TypeOK'
    BY <1>23, PublishType DEF PublishFailed, EventTypes
<1>24. ASSUME NEW s \in Streams, SendAndClose(s) PROVE TypeOK'
    BY <1>24, TellType DEF SendAndClose
<1>25. ASSUME NEW s \in Streams, CallFails(s) PROVE TypeOK'
    BY <1>25, TellType, FaultCount DEF CallFails
<1>26. ASSUME NEW s \in Streams, Break(s) PROVE TypeOK'
    BY <1>26, TellType, FaultCount DEF Break
<1>27. ASSUME NEW s \in Streams, RecvError(s) PROVE TypeOK'
    BY <1>27 DEF RecvError
<1>28. CASE Crash
    BY <1>28, FaultCount DEF Crash
<1>29. CASE UNCHANGED ingestVars
    BY <1>29 DEF ingestVars
<1>30. QED
    BY <1>1, <1>2, <1>3, <1>4, <1>5, <1>6, <1>7, <1>8, <1>9, <1>10, <1>11, <1>12, <1>13,
       <1>14, <1>15, <1>16, <1>17, <1>18, <1>19, <1>20, <1>21, <1>22, <1>23, <1>24,
       <1>25, <1>26, <1>27, <1>28, <1>29 DEF Next, Handle, Disturb

(* Type correctness: a handler never counts more failures than messages,    *)
(* and never stores past the last chunk.                                    *)
THEOREM TypeCorrect == Spec => []TypeOK
BY TypeInit, TypeStep, PTL DEF Spec

-----------------------------------------------------------------------------
(* What concurrent attempts at a document do to the chunk table, the shared *)
(* context and the root of the chat tree.  Everything rests on who stored   *)
(* which chunk: an attempt without a failure stored all it sent.            *)

(* An attempt that has not failed on any chunk stored every one it sent. *)
OwnsSent ==
    \A s \in Streams : failed[s] = 0 =>
        \A i \in (1..N) \ skipped[s] : i < next[s] => rows[docOf[s]][i] = s

(* An attempt past the end of its stream, or announced completed, sent the  *)
(* whole document without a failure.                                        *)
Finished(s) == at[s] \in Complete \/ Published(s, "completed")
AllSent ==
    \A s \in Streams : Finished(s) => failed[s] = 0 /\ next[s] = N + 1

(* The root of a document was written by an attempt at it that sent all. *)
RootDone ==
    \A d \in Docs : root[d] # None =>
        /\ root[d] \in Streams
        /\ docOf[root[d]] = d
        /\ failed[root[d]] = 0
        /\ next[root[d]] = N + 1

StoreInv == OwnsSent /\ AllSent /\ RootDone

-----------------------------------------------------------------------------
(* How a step moves what the invariants speak of *)

Stores(s) == SkipChunk(s) \/ Insert(s) \/ InsertConflict(s) \/ InsertFails(s)
storing == <<rows, next, failed, skipped, docOf>>

(* Only four steps touch the chunk table or the counts it is compared with. *)
LEMMA StoringSteps ==
    ASSUME [Next]_ingestVars
    PROVE  UNCHANGED storing \/ \E s \in Streams : Stores(s)
<1> USE DEF storing, counts, copies, caller, context, tables, Step
<1>1. ASSUME NEW s \in Streams, Handle(s), ~Stores(s) PROVE UNCHANGED storing
    BY <1>1 DEF Handle, Stores, RecvMetadata, Describe, Announce, RecvChunk, Tick, RecvEOF,
        RecvError, ReadText, Summarise, SummariseFails, SetRoot, PublishNoSummary,
        GetSections, UpdateSections, PublishCompleted, CleanupContext, PublishFailed,
        SendAndClose
<1>2. ASSUME NEW s \in Streams, Disturb(s), ~Stores(s) PROVE UNCHANGED storing
    BY <1>2 DEF Disturb, Stores, SetRootFails, UpdateSectionsFails, CallFails, Break
<1>3. ASSUME NEW s \in Streams, Open(s) PROVE UNCHANGED storing
    BY <1>3 DEF Open
<1>4. CASE Crash
    BY <1>4 DEF Crash
<1>5. CASE UNCHANGED ingestVars
    BY <1>5 DEF ingestVars
<1>6. QED
    BY <1>1, <1>2, <1>3, <1>4, <1>5 DEF Next

(* A stream is for one document. *)
LEMMA DocOfStays ==
    ASSUME [Next]_ingestVars
    PROVE  docOf' = docOf
<1>1. ASSUME NEW s \in Streams, Stores(s) PROVE docOf' = docOf
    BY <1>1 DEF Stores, SkipChunk, Insert, InsertConflict, InsertFails, NextMessage, Step
<1>2. QED
    BY <1>1, StoringSteps DEF storing

LEMMA PublishedGrows ==
    ASSUME TypeOK, NEW s \in Streams, NEW e \in EventTypes, Publish(s, e),
           NEW t \in Streams, NEW f \in EventTypes
    PROVE  Published(t, f)' <=> Published(t, f) \/ (t = s /\ f = e)
<1>1. events \in [Streams -> Seq(EventTypes)]
    BY DEF TypeOK
<1>2. CASE t # s
    <2>1. events'[t] = events[t]
        BY <1>1, <1>2 DEF Publish
    <2>2. QED
        BY <1>2, <2>1 DEF Published
<1>3. CASE t = s
    <2>1. events'[t] = Append(events[t], e) /\ events[t] \in Seq(EventTypes)
        BY <1>1, <1>3 DEF Publish
    <2>2. /\ Len(events'[t]) = Len(events[t]) + 1
          /\ events'[t][Len(events[t]) + 1] = e
          /\ \A k \in 1..Len(events[t]) : events'[t][k] = events[t][k]
        BY <2>1
    <2>3. Len(events[t]) \in Nat
        BY <2>1
    <2>4. QED
        BY <1>3, <2>2, <2>3 DEF Published
<1>4. QED
    BY <1>2, <1>3

(* A stream comes to its end only when it has sent all without a failure. *)
LEMMA ComesToEnd ==
    ASSUME TypeOK, [Next]_ingestVars, NEW t \in Streams, Finished(t)'
    PROVE  Finished(t) \/ (failed[t] = 0 /\ next[t] = N + 1 /\ UNCHANGED storing)
<1> USE DEF TypeOK, Step, Goto, counts, copies, caller, context, tables, Complete, Finished
<1>1. ASSUME NEW s \in Streams, RecvEOF(s)
      PROVE  Finished(t) \/ (failed[t] = 0 /\ next[t] = N + 1 /\ UNCHANGED storing)
    <2>1. Published(t, "completed")' <=> Published(t, "completed")
        BY <1>1 DEF RecvEOF, Published
    <2>2. QED
        BY <1>1, <2>1 DEF RecvEOF, storing
<1>2. ASSUME NEW s \in Streams, NEW e \in EventTypes, Publish(s, e),
             at' = [at EXCEPT ![s] = at'[s]],
             e = "completed" => at[s] = "complete", at'[s] \in Complete => at[s] \in Complete
      PROVE  Finished(t)
    <2>1. "completed" \in EventTypes
        BY DEF EventTypes
    <2>2. Published(t, "completed")'
            <=> Published(t, "completed") \/ (t = s /\ "completed" = e)
        BY <1>2, <2>1, PublishedGrows
    <2>3. QED
        BY <1>2, <2>2
<1>3. ASSUME NEW s \in Streams, UNCHANGED events, at' = [at EXCEPT ![s] = at'[s]],
             at'[s] \in Complete => at[s] \in Complete
      PROVE  Finished(t)
    BY <1>3 DEF Published
<1>4. ASSUME NEW s \in Streams, Open(s) PROVE Finished(t)
    BY <1>3, <1>4 DEF Open
<1>5. ASSUME NEW s \in Streams, Handle(s), ~RecvEOF(s) PROVE Finished(t)
    <2>1. CASE Announce(s) \/ Tick(s) \/ PublishNoSummary(s) \/ PublishCompleted(s)
                 \/ PublishFailed(s)
        BY <1>2, <2>1 DEF Announce, Tick, PublishNoSummary, PublishCompleted, PublishFailed,
            EventTypes
    <2>2. CASE RecvMetadata(s) \/ Describe(s) \/ SkipChunk(s) \/ RecvChunk(s) \/ Insert(s)
                 \/ InsertConflict(s) \/ RecvError(s)
        BY <1>3, <2>2 DEF RecvMetadata, Describe, SkipChunk, RecvChunk, Insert,
            InsertConflict, RecvError, NextMessage
    <2>3. CASE ReadText(s) \/ Summarise(s) \/ SummariseFails(s) \/ SetRoot(s)
                 \/ GetSections(s) \/ UpdateSections(s) \/ CleanupContext(s) \/ SendAndClose(s)
        BY <1>3, <2>3 DEF ReadText, Summarise, SummariseFails, SetRoot, GetSections,
            UpdateSections, CleanupContext, SendAndClose
    <2>4. QED
        BY <1>5, <2>1, <2>2, <2>3 DEF Handle
<1>6. ASSUME NEW s \in Streams, Disturb(s) PROVE Finished(t)
    BY <1>3, <1>6 DEF Disturb, InsertFails, SetRootFails, UpdateSectionsFails, CallFails,
        Break, NextMessage
<1>7. CASE Crash
    BY <1>7 DEF Crash, Published, Live, Receiving
<1>8. CASE UNCHANGED ingestVars
    BY <1>8 DEF ingestVars, Published
<1>9. QED
    BY <1>1, <1>4, <1>5, <1>6, <1>7, <1>8 DEF Next

-----------------------------------------------------------------------------
(* The step of each invariant *)

LEMMA StoreInit == Init => StoreInv
BY IngestAssumption DEF Init, StoreInv, OwnsSent, AllSent, RootDone, Finished, Published,
    Complete

\* What an attempt owns is taken from it by no step: rows are never rewritten.
LEMMA RowsStay ==
    ASSUME TypeOK, [Next]_ingestVars, NEW d \in Docs, NEW i \in 1..N, rows[d][i] # None
    PROVE  rows'[d][i] = rows[d][i]
<1> USE DEF TypeOK
<1>1. CASE UNCHANGED storing
    BY <1>1 DEF storing
<1>2. ASSUME NEW s \in Streams, Stores(s) PROVE rows'[d][i] = rows[d][i]
    <2>1. CASE rows' = rows
        BY <2>1
    <2>2. CASE /\ rows[docOf[s]][next[s]] = None
               /\ rows' = [rows EXCEPT ![docOf[s]] = [@ EXCEPT ![next[s]] = s]]
        BY <2>2
    <2>3. QED
        BY <1>2, <2>1, <2>2 DEF Stores, SkipChunk, Insert, InsertConflict, InsertFails, tables
<1>3. QED
    BY <1>1, <1>2, StoringSteps

LEMMA OwnsSentStep ==
    ASSUME TypeOK, [Next]_ingestVars, OwnsSent
    PROVE  OwnsSent'
<1> SUFFICES ASSUME NEW t \in Streams, failed'[t] = 0,
                    NEW i \in (1..N) \ skipped'[t], i < next'[t]
             PROVE  rows'[docOf'[t]][i] = t
    BY DEF OwnsSent
<1>0. t # None /\ docOf[t] \in Docs /\ N \in Nat
    BY IngestAssumption DEF TypeOK
<1>1. ASSUME docOf' = docOf, failed[t] = 0, i \notin skipped[t], i < next[t]
      PROVE  rows'[docOf'[t]][i] = t
    BY <1>0, <1>1, RowsStay DEF OwnsSent
<1>2. CASE UNCHANGED storing
    BY <1>1, <1>2 DEF storing
<1>3. ASSUME NEW s \in Streams, Stores(s) PROVE rows'[docOf'[t]][i] = t
    <2> USE DEF Step, Goto, TypeOK, counts, tables
    <2>1. CASE t # s
        <3>1. /\ docOf' = docOf /\ failed'[t] = failed[t] /\ next'[t] = next[t]
              /\ skipped'[t] = skipped[t]
            BY <1>3, <2>1 DEF Stores, SkipChunk, Insert, InsertConflict, InsertFails,
                NextMessage
        <3>2. QED
            BY <1>1, <3>1
    <2>2. CASE t = s /\ SkipChunk(s)
        <3>1. /\ docOf' = docOf /\ failed' = failed /\ next'[t] = next[t] + 1
              /\ skipped'[t] = skipped[t] \cup {next[t]} /\ next[t] \in 1..N+1
            BY <2>2 DEF SkipChunk
        <3>2. i # next[t] /\ i \notin skipped[t]
            BY <3>1
        <3>3. i < next[t]
            BY <1>0, <3>1, <3>2
        <3>4. QED
            BY <1>1, <3>1, <3>2, <3>3
    <2>3. CASE t = s /\ Insert(s)
        <3>1. /\ docOf' = docOf /\ failed' = failed /\ next'[t] = next[t] + 1
              /\ skipped' = skipped /\ next[t] \in 1..N+1
            BY <2>3 DEF Insert, NextMessage
        <3>2. CASE i = next[t]
            BY <1>0, <2>3, <3>2 DEF Insert, NextMessage
        <3>3. CASE i # next[t]
            BY <1>0, <1>1, <3>1, <3>3
        <3>4. QED
            BY <3>2, <3>3
    <2>4. CASE t = s /\ (InsertConflict(s) \/ InsertFails(s))
        <3>1. failed'[t] = failed[t] + 1 /\ failed[t] \in Nat
            BY <2>4 DEF InsertConflict, InsertFails
        <3>2. QED
            BY <3>1
    <2>5. QED
        BY <1>3, <2>1, <2>2, <2>3, <2>4 DEF Stores
<1>4. QED
    BY <1>2, <1>3, StoringSteps

LEMMA AllSentStep ==
    ASSUME TypeOK, [Next]_ingestVars, AllSent
    PROVE  AllSent'
<1> SUFFICES ASSUME NEW t \in Streams, Finished(t)'
             PROVE  failed'[t] = 0 /\ next'[t] = N + 1
    BY DEF AllSent
<1>1. failed[t] = 0 /\ next[t] = N + 1
    BY ComesToEnd DEF AllSent
<1>2. CASE UNCHANGED storing
    BY <1>1, <1>2 DEF storing
<1>3. ASSUME NEW s \in Streams, Stores(s) PROVE failed'[t] = 0 /\ next'[t] = N + 1
    <2> USE DEF Step, Goto, TypeOK, counts
    <2>1. next[s] \in Nat /\ next[s] <= N
        BY <1>3, InHand, IngestAssumption DEF Stores, SkipChunk, Insert, InsertConflict,
            InsertFails, NextMessage
    <2>2. t # s
        BY <1>1, <2>1, IngestAssumption
    <2>3. QED
        BY <1>1, <1>3, <2>2 DEF Stores, SkipChunk, Insert, InsertConflict, InsertFails,
            NextMessage
<1>4. QED
    BY <1>2, <1>3, StoringSteps

\* Once a stream has sent all without a failure, its counts are final.
LEMMA SentIsFinal ==
    ASSUME TypeOK, [Next]_ingestVars, NEW t \in Streams, failed[t] = 0, next[t] = N + 1
    PROVE  /\ failed'[t] = 0 /\ next'[t] = N + 1
           /\ docOf'[t] = docOf[t] /\ skipped'[t] = skipped[t]
<1>1. CASE UNCHANGED storing
    BY <1>1 DEF storing
<1>2. ASSUME NEW s \in Streams, Stores(s)
      PROVE  /\ failed'[t] = 0 /\ next'[t] = N + 1
             /\ docOf'[t] = docOf[t] /\ skipped'[t] = skipped[t]
    <2> USE DEF Step, Goto, TypeOK, counts
    <2>1. next[s] \in Nat /\ next[s] <= N
        BY <1>2, InHand, IngestAssumption DEF Stores, SkipChunk, Insert, InsertConflict,
            InsertFails, NextMessage
    <2>2. t # s
        BY <2>1, IngestAssumption
    <2>3. QED
        BY <1>2, <2>2 DEF Stores, SkipChunk, Insert, InsertConflict, InsertFails, NextMessage
<1>3. QED
    BY <1>1, <1>2, StoringSteps

\* The root column is written by SetRoot alone.
LEMMA RootSteps ==
    ASSUME [Next]_ingestVars
    PROVE  UNCHANGED root \/ \E s \in Streams : SetRoot(s)
<1> USE DEF tables
<1>1. ASSUME NEW s \in Streams, Handle(s), ~SetRoot(s) PROVE UNCHANGED root
    BY <1>1 DEF Handle, RecvMetadata, Describe, Announce, SkipChunk, RecvChunk, Insert,
        InsertConflict, Tick, RecvEOF, RecvError, ReadText, Summarise, SummariseFails,
        PublishNoSummary, GetSections, UpdateSections, PublishCompleted, CleanupContext,
        PublishFailed, SendAndClose
<1>2. ASSUME NEW s \in Streams, Disturb(s) \/ Open(s) PROVE UNCHANGED root
    BY <1>2 DEF Disturb, InsertFails, SetRootFails, UpdateSectionsFails, CallFails, Break, Open
<1>3. CASE Crash \/ UNCHANGED ingestVars
    BY <1>3 DEF Crash, ingestVars
<1>4. QED
    BY <1>1, <1>2, <1>3 DEF Next

LEMMA RootDoneStep ==
    ASSUME TypeOK, [Next]_ingestVars, AllSent, RootDone
    PROVE  RootDone'
<1> SUFFICES ASSUME NEW d \in Docs, root'[d] # None
             PROVE  /\ root'[d] \in Streams
                    /\ docOf'[root'[d]] = d
                    /\ failed'[root'[d]] = 0
                    /\ next'[root'[d]] = N + 1
    BY DEF RootDone
<1>1. ASSUME root'[d] = root[d]
      PROVE  /\ root'[d] \in Streams
             /\ docOf'[root'[d]] = d
             /\ failed'[root'[d]] = 0
             /\ next'[root'[d]] = N + 1
    <2>1. /\ root[d] \in Streams /\ docOf[root[d]] = d
          /\ failed[root[d]] = 0 /\ next[root[d]] = N + 1
        BY <1>1 DEF RootDone
    <2>2. QED
        BY <1>1, <2>1, SentIsFinal
<1>2. ASSUME NEW s \in Streams, SetRoot(s), root'[d] # root[d]
      PROVE  /\ root'[d] \in Streams
             /\ docOf'[root'[d]] = d
             /\ failed'[root'[d]] = 0
             /\ next'[root'[d]] = N + 1
    <2>1. root'[d] = s /\ docOf[s] = d
        BY <1>2 DEF SetRoot, TypeOK
    <2>2. Finished(s)
        BY <1>2 DEF SetRoot, Step, Finished, Complete
    <2>3. failed[s] = 0 /\ next[s] = N + 1
        BY <2>2 DEF AllSent
    <2>4. QED
        BY <2>1, <2>3, SentIsFinal
<1>3. QED
    BY <1>1, <1>2, RootSteps

LEMMA StoreStep ==
    ASSUME TypeOK, [Next]_ingestVars, StoreInv
    PROVE  StoreInv'
BY OwnsSentStep, AllSentStep, RootDoneStep DEF StoreInv

LEMMA StoreInvariant == Spec => [](TypeOK /\ StoreInv)
<1>1. Init => TypeOK /\ StoreInv
    BY TypeInit, StoreInit
<1>2. TypeOK /\ StoreInv /\ [Next]_ingestVars => (TypeOK /\ StoreInv)'
    BY TypeStep, StoreStep
<1>3. QED
    BY <1>1, <1>2, PTL DEF Spec

-----------------------------------------------------------------------------
(* What follows *)

\* Two attempts at a document that sent all are one.
LEMMA SentOnce ==
    ASSUME TypeOK, OwnsSent, (1..N) \ Skippable # {},
           NEW s \in Streams, failed[s] = 0, next[s] = N + 1,
           NEW t \in Streams, failed[t] = 0, next[t] = N + 1, docOf[s] = docOf[t]
    PROVE  s = t
<1>1. PICK i \in 1..N : i \notin Skippable
    OBVIOUS
<1>2. i \notin skipped[s] /\ i \notin skipped[t] /\ i < N + 1
    BY <1>1, IngestAssumption DEF TypeOK
<1>3. rows[docOf[s]][i] = s
    BY <1>2 DEF OwnsSent
<1>4. rows[docOf[t]][i] = t
    BY <1>2 DEF OwnsSent
<1>5. QED
    BY <1>3, <1>4

(* A stream that announced completion stored every chunk it sent. *)
THEOREM CompletedStoresAll == Spec => []CompletedOwnsRows
<1>1. TypeOK /\ StoreInv => CompletedOwnsRows
    <2> SUFFICES ASSUME StoreInv, NEW s \in Streams, Published(s, "completed"),
                        NEW i \in (1..N) \ skipped[s]
                 PROVE  rows[docOf[s]][i] = s
        BY DEF CompletedOwnsRows
    <2>1. failed[s] = 0 /\ next[s] = N + 1
        BY DEF StoreInv, AllSent, Finished
    <2>2. i < next[s]
        BY <2>1, IngestAssumption
    <2>3. QED
        BY <2>1, <2>2 DEF StoreInv, OwnsSent
<1>2. QED
    BY <1>1, StoreInvariant, PTL

(* A document is completed at most once, whatever its attempts do, if some  *)
(* chunk of it is never skipped.                                            *)
THEOREM CompletedOnce ==
    ASSUME (1..N) \ Skippable # {}
    PROVE  Spec => []OneCompletion
<1>1. TypeOK /\ StoreInv => OneCompletion
    BY SentOnce DEF StoreInv, AllSent, Finished, OneCompletion
<1>2. QED
    BY <1>1, StoreInvariant, PTL

(* The root of a chat tree never moves: only one attempt ever gets to set   *)
(* it.                                                                      *)
THEOREM RootNeverMoves ==
    ASSUME (1..N) \ Skippable # {}
    PROVE  Spec => RootIsStable
<1>1. TypeOK /\ StoreInv /\ [Next]_ingestVars
        => [\A d \in Docs : root[d] # None => root'[d] = root[d]]_ingestVars
    <2> SUFFICES ASSUME TypeOK, StoreInv, [Next]_ingestVars, NEW d \in Docs, root[d] # None
                 PROVE  root'[d] = root[d]
        OBVIOUS
    <2>1. ASSUME NEW s \in Streams, SetRoot(s) PROVE root'[d] = root[d]
        <3>1. CASE docOf[s] = d
            <4>1. failed[s] = 0 /\ next[s] = N + 1
                BY <2>1 DEF SetRoot, Step, StoreInv, AllSent, Finished, Complete
            <4>2. /\ root[d] \in Streams /\ docOf[root[d]] = docOf[s]
                  /\ failed[root[d]] = 0 /\ next[root[d]] = N + 1
                BY <3>1 DEF StoreInv, RootDone
            <4>3. root[d] = s
                BY <4>1, <4>2, SentOnce DEF StoreInv
            <4>4. QED
                BY <2>1, <3>1, <4>3 DEF SetRoot, TypeOK
        <3>2. CASE docOf[s] # d
            BY <2>1, <3>2 DEF SetRoot, TypeOK
        <3>3. QED
            BY <3>1, <3>2
    <2>2. QED
        BY <2>1, RootSteps
<1>2. QED
    BY <1>1, StoreInvariant, PTL DEF Spec, RootIsStable

(* Why retries fail: a chunk that one stream stored, and that the generator *)
(* never skips, is never given up, so no other stream of the document is    *)
(* ever announced completed.  An attempt cut off after its first chunk      *)
(* forecloses every later one.                                              *)
THEOREM LeftoverBlocksRetries ==
    ASSUME NEW s \in Streams, NEW t \in Streams, s # t, NEW i \in (1..N) \ Skippable
    PROVE  Spec => [](rows[docOf[t]][i] = s => []~Published(t, "completed"))
<1> DEFINE Taken == rows[docOf[t]][i] = s
<1>1. TypeOK /\ StoreInv /\ Taken => ~Published(t, "completed")
    <2> SUFFICES ASSUME TypeOK, StoreInv, Published(t, "completed")
                 PROVE  rows[docOf[t]][i] = t
        OBVIOUS
    <2>1. failed[t] = 0 /\ next[t] = N + 1
        BY DEF StoreInv, AllSent, Finished
    <2>2. i \in (1..N) \ skipped[t] /\ i < next[t]
        BY <2>1, IngestAssumption DEF TypeOK
    <2>3. QED
        BY <2>1, <2>2 DEF StoreInv, OwnsSent
<1>2. TypeOK /\ Taken /\ [Next]_ingestVars => Taken'
    <2> SUFFICES ASSUME TypeOK, Taken, [Next]_ingestVars PROVE Taken'
        OBVIOUS
    <2>1. docOf'[t] = docOf[t] /\ docOf[t] \in Docs
        BY DocOfStays DEF TypeOK
    <2>2. rows[docOf[t]][i] # None
        BY IngestAssumption
    <2>3. QED
        BY <2>1, <2>2, RowsStay
<1>3. Spec => [](Taken => []~Published(t, "completed"))
    <2> HIDE DEF Taken
    <2>1. QED
        BY <1>1, <1>2, StoreInvariant, PTL DEF Spec
<1>4. QED
    BY <1>3

-----------------------------------------------------------------------------
(* What a step leaves of a stream *)

own(t) == <<at[t], docOf[t], next[t], received[t], failed[t], skipped[t], seen[t], secs[t],
            told[t], events[t]>>

\* A step of one handler or its caller leaves the other streams as they are.
LEMMA OthersUntouched ==
    ASSUME TypeOK, NEW s \in Streams, Open(s) \/ Handle(s) \/ Disturb(s),
           NEW t \in Streams, t # s
    PROVE  UNCHANGED own(t)
<1> USE DEF TypeOK, Step, Goto, counts, copies, caller, own, Publish, Tell, NextMessage
<1>1. CASE Open(s)
    BY <1>1 DEF Open
<1>2. CASE Handle(s)
    <2>1. CASE RecvMetadata(s) \/ Describe(s) \/ Announce(s) \/ SkipChunk(s) \/ RecvChunk(s)
                 \/ Tick(s) \/ RecvEOF(s) \/ RecvError(s)
        BY <2>1 DEF RecvMetadata, Describe, Announce, SkipChunk, RecvChunk, Tick, RecvEOF,
            RecvError
    <2>2. CASE Insert(s) \/ InsertConflict(s)
        BY <2>2 DEF Insert, InsertConflict
    <2>3. CASE ReadText(s) \/ Summarise(s) \/ SummariseFails(s) \/ SetRoot(s)
                 \/ PublishNoSummary(s) \/ GetSections(s) \/ UpdateSections(s)
                 \/ PublishCompleted(s)
        BY <2>3 DEF ReadText, Summarise, SummariseFails, SetRoot, PublishNoSummary,
            GetSections, UpdateSections, PublishCompleted
    <2>4. CASE CleanupContext(s) \/ PublishFailed(s) \/ SendAndClose(s)
        BY <2>4 DEF CleanupContext, PublishFailed, SendAndClose
    <2>5. QED
        BY <1>2, <2>1, <2>2, <2>3, <2>4 DEF Handle
<1>3. CASE Disturb(s)
    BY <1>3 DEF Disturb, InsertFails, SetRootFails, UpdateSectionsFails, CallFails, Break
<1>4. QED
    BY <1>1, <1>2, <1>3

-----------------------------------------------------------------------------
(* What the caller is told *)

(* A handler that answers has published its outcome, and only one that      *)
(* failed on a chunk publishes the failure.                                 *)
Answers(s) ==
    /\ told[s] = "ok" => Published(s, "completed")
    /\ told[s] = "failed" => Published(s, "failed")
    /\ at[s] = "cleanup" => Published(s, "completed")
    /\ at[s] = "reply" => Published(s, IF failed[s] = 0 THEN "completed" ELSE "failed")
    /\ at[s] = "refuse" => failed[s] # 0
    /\ Published(s, "failed") => failed[s] # 0

AnswerInv == \A s \in Streams : Answers(s)

LEMMA AnswerInit == Init => AnswerInv
BY DEF Init, AnswerInv, Answers, Published

\* A step that moves a stream on quietly, to no place from which it answers.
LEMMA QuietStep ==
    ASSUME TypeOK, NEW t \in Streams, Answers(t), UNCHANGED <<events, told, failed>>,
           at'[t] = at[t] \/ at'[t] \notin {"cleanup", "reply", "refuse"}
    PROVE  Answers(t)'
<1>1. \A e \in EventTypes : Published(t, e)' <=> Published(t, e)
    BY DEF Published
<1>2. "completed" \in EventTypes /\ "failed" \in EventTypes
    BY DEF EventTypes
<1>3. QED
    BY <1>1, <1>2 DEF Answers

LEMMA AnswerStep ==
    ASSUME TypeOK, [Next]_ingestVars, AllSent, AnswerInv
    PROVE  AnswerInv'
<1> SUFFICES ASSUME NEW t \in Streams PROVE Answers(t)'
    BY DEF AnswerInv
<1> USE DEF Step, Goto, counts, copies, caller, context, tables
<1>0. /\ Answers(t)
      /\ "completed" \in EventTypes /\ "failed" \in EventTypes
      /\ at \in [Streams -> Live \cup {"idle", "over"}]
      /\ failed \in [Streams -> 0..N] /\ N \in Nat
      /\ told \in [Streams -> {"none", "ok", "failed", "error"}]
    BY IngestAssumption DEF AnswerInv, EventTypes, TypeOK
<1>1. CASE UNCHANGED own(t)
    BY <1>0, <1>1 DEF own, Answers, Published
<1>2. ASSUME NEW e \in EventTypes, Publish(t, e), UNCHANGED <<told, failed>>,
             e \notin {"completed", "failed"},
             at'[t] \notin {"cleanup", "reply", "refuse"}
      PROVE  Answers(t)'
    <2>1. /\ Published(t, "completed")' <=> Published(t, "completed")
          /\ Published(t, "failed")' <=> Published(t, "failed")
        BY <1>0, <1>2, PublishedGrows
    <2>2. QED
        BY <1>0, <1>2, <2>1 DEF Answers
<1>3. CASE Open(t)
    BY <1>0, <1>3, QuietStep DEF Open
<1>4. CASE RecvMetadata(t) \/ Describe(t) \/ SkipChunk(t) \/ RecvChunk(t) \/ RecvError(t)
    BY <1>0, <1>4, QuietStep DEF RecvMetadata, Describe, SkipChunk, RecvChunk, RecvError
<1>5. CASE Announce(t) \/ Tick(t) \/ PublishNoSummary(t)
    BY <1>0, <1>2, <1>5 DEF Announce, Tick, PublishNoSummary, EventTypes
<1>6. CASE Insert(t)
    BY <1>0, <1>6, QuietStep DEF Insert, NextMessage
<1>7. CASE InsertConflict(t) \/ InsertFails(t)
    <2>1. /\ UNCHANGED <<events, told>> /\ at'[t] \in {"recv", "tick"}
          /\ failed'[t] = failed[t] + 1
        BY <1>0, <1>7 DEF InsertConflict, InsertFails, NextMessage
    <2>2. /\ Published(t, "completed")' <=> Published(t, "completed")
          /\ Published(t, "failed")' <=> Published(t, "failed")
        BY <2>1 DEF Published
    <2>3. failed[t] \in Nat /\ failed'[t] # 0
        BY <1>0, <2>1
    <2>4. QED
        BY <1>0, <2>1, <2>2, <2>3 DEF Answers
<1>8. CASE RecvEOF(t)
    <2>1. UNCHANGED <<events, told, failed>> /\ at'[t] = IF failed[t] = 0 THEN "summary" ELSE "refuse"
        BY <1>0, <1>8 DEF RecvEOF
    <2>2. /\ Published(t, "completed")' <=> Published(t, "completed")
          /\ Published(t, "failed")' <=> Published(t, "failed")
        BY <2>1 DEF Published
    <2>3. QED
        BY <1>0, <2>1, <2>2 DEF Answers
<1>9. CASE ReadText(t) \/ Summarise(t) \/ SummariseFails(t) \/ SetRoot(t) \/ GetSections(t)
             \/ UpdateSections(t) \/ SetRootFails(t) \/ UpdateSectionsFails(t)
    BY <1>0, <1>9, QuietStep DEF ReadText, Summarise, SummariseFails, SetRoot, GetSections,
        UpdateSections, SetRootFails, UpdateSectionsFails
<1>10. CASE PublishCompleted(t)
    <2>1. /\ Publish(t, "completed") /\ UNCHANGED <<told, failed>>
          /\ at[t] = "complete" /\ at'[t] = "cleanup"
        BY <1>0, <1>10 DEF PublishCompleted
    <2>2. /\ Published(t, "completed")'
          /\ Published(t, "failed")' <=> Published(t, "failed")
        BY <1>0, <2>1, PublishedGrows
    <2>3. QED
        BY <1>0, <2>1, <2>2 DEF Answers
<1>11. CASE CleanupContext(t)
    <2>1. UNCHANGED <<events, told, failed>> /\ at[t] = "cleanup" /\ at'[t] = "reply"
        BY <1>0, <1>11 DEF CleanupContext
    <2>2. failed[t] = 0
        BY <2>1 DEF AllSent, Finished, Complete
    <2>3. /\ Published(t, "completed")' <=> Published(t, "completed")
          /\ Published(t, "failed")' <=> Published(t, "failed")
        BY <2>1 DEF Published
    <2>4. QED
        BY <1>0, <2>1, <2>2, <2>3 DEF Answers
<1>12. CASE PublishFailed(t)
    <2>1. /\ Publish(t, "failed") /\ UNCHANGED <<told, failed>>
          /\ at[t] = "refuse" /\ at'[t] = "reply"
        BY <1>0, <1>12 DEF PublishFailed
    <2>2. /\ Published(t, "failed")'
          /\ Published(t, "completed")' <=> Published(t, "completed")
        BY <1>0, <2>1, PublishedGrows
    <2>3. QED
        BY <1>0, <2>1, <2>2 DEF Answers
<1>13. CASE SendAndClose(t)
    <2>1. /\ UNCHANGED <<events, failed>> /\ at[t] = "reply" /\ at'[t] = "over"
          /\ told'[t] \in {told[t], IF failed[t] = 0 THEN "ok" ELSE "failed"}
        BY <1>0, <1>13 DEF SendAndClose, Tell
    <2>2. /\ Published(t, "completed")' <=> Published(t, "completed")
          /\ Published(t, "failed")' <=> Published(t, "failed")
        BY <2>1 DEF Published
    <2>3. QED
        BY <1>0, <2>1, <2>2 DEF Answers
<1>14. CASE CallFails(t) \/ Break(t)
    <2>1. /\ UNCHANGED <<events, failed>> /\ at'[t] \in {at[t], "over"}
          /\ told'[t] \in {told[t], "error"}
        BY <1>0, <1>14 DEF CallFails, Break, Tell
    <2>2. /\ Published(t, "completed")' <=> Published(t, "completed")
          /\ Published(t, "failed")' <=> Published(t, "failed")
        BY <2>1 DEF Published
    <2>3. QED
        BY <1>0, <2>1, <2>2 DEF Answers
<1>15. CASE Crash
    <2>1. /\ UNCHANGED <<events, failed>> /\ at'[t] \in {"idle", "over"}
          /\ told'[t] \in {told[t], "error"}
        BY <1>0, <1>15 DEF Crash
    <2>2. /\ Published(t, "completed")' <=> Published(t, "completed")
          /\ Published(t, "failed")' <=> Published(t, "failed")
        BY <2>1 DEF Published
    <2>3. QED
        BY <1>0, <2>1, <2>2 DEF Answers
<1>16. CASE UNCHANGED ingestVars
    BY <1>1, <1>16 DEF ingestVars, own
<1>17. ASSUME NEW s \in Streams, s # t, Open(s) \/ Handle(s) \/ Disturb(s) PROVE Answers(t)'
    BY <1>1, <1>17, OthersUntouched
<1>18. CASE Open(t) \/ Handle(t) \/ Disturb(t)
    BY <1>3, <1>4, <1>5, <1>6, <1>7, <1>8, <1>9, <1>10, <1>11, <1>12, <1>13, <1>14, <1>18
       DEF Handle, Disturb
<1>19. QED
    BY <1>15, <1>16, <1>17, <1>18 DEF Next

(* What the caller is told agrees with what the clients of the websocket    *)
(* were told: SendAndClose answers success or failure after that event.     *)
THEOREM RepliesAgree == Spec => []ReplyAgreesWithEvents
<1>1. Init => AnswerInv
    BY AnswerInit
<1>2. TypeOK /\ StoreInv /\ AnswerInv /\ [Next]_ingestVars => AnswerInv'
    BY AnswerStep DEF StoreInv
<1>3. StoreInv /\ AnswerInv => ReplyAgreesWithEvents
    <2>1. ASSUME StoreInv, NEW s \in Streams, Published(s, "completed") PROVE failed[s] = 0
        BY <2>1 DEF StoreInv, AllSent, Finished
    <2>2. QED
        BY <2>1 DEF AnswerInv, Answers, ReplyAgreesWithEvents
<1>4. QED
    BY <1>1, <1>2, <1>3, StoreInvariant, PTL DEF Spec

-----------------------------------------------------------------------------
(* The shared context *)

Sent(s)    == failed[s] = 0 /\ next[s] = N + 1
Working    == Receiving \cup Complete
Cleared(s) == Sent(s) /\ at[s] \in {"reply", "over"}

\* A chunk the handler has put into the context, unless the caller left it out.
Behind(s, i) == i < next[s] \/ (i = next[s] /\ at[s] = "insert")

Holds(list, i)  == Chapter[i] = NoChapter \/ Contains(list, Chapter[i])
InContext(d, i) == i \in text[d] /\ Holds(sections[d], i)

(* While a handler works and has not failed, the context of its document    *)
(* holds what it received, unless another attempt sent the whole document:  *)
(* then this one is bound to meet a chunk of that attempt and fail.         *)
Kept(s) ==
    \/ \A i \in (1..N) \ skipped[s] : Behind(s, i) => InContext(docOf[s], i)
    \/ \E t \in Streams \ {s} : docOf[t] = docOf[s] /\ Sent(t)

ContextInv ==
    \A s \in Streams :
        /\ at[s] = "idle" => next[s] = 1
        /\ at[s] \in Working /\ failed[s] = 0 => Kept(s)

LEMMA AddSectionHolds ==
    ASSUME NEW list \in Seq(Chapters), NEW i \in 1..N, NEW j \in 1..N
    PROVE  /\ Holds(list, i) => Holds(AddSection(list, Chapter[j]), i)
           /\ Holds(AddSection(list, Chapter[j]), j)
<1> DEFINE c == Chapter[j]
<1>1. CASE c = NoChapter \/ Contains(list, c)
    BY <1>1 DEF AddSection, Holds
<1>2. CASE ~(c = NoChapter \/ Contains(list, c))
    <2>1. AddSection(list, c) = Append(list, c) /\ c \in Chapters
        BY <1>2 DEF AddSection, Chapters
    <2>2. /\ Len(Append(list, c)) = Len(list) + 1 /\ Len(list) \in Nat
          /\ Append(list, c)[Len(list) + 1] = c
          /\ \A k \in 1..Len(list) : Append(list, c)[k] = list[k]
        BY <2>1
    <2>3. QED
        BY <2>1, <2>2 DEF Holds, Contains
<1>3. QED
    BY <1>1, <1>2

\* The context is written in three places and lost in a crash.
LEMMA ContextSteps ==
    ASSUME [Next]_ingestVars
    PROVE  \/ UNCHANGED context
           \/ \E s \in Streams : RecvMetadata(s) \/ RecvChunk(s) \/ CleanupContext(s)
           \/ Crash
<1> USE DEF context
<1>1. ASSUME NEW s \in Streams, Handle(s),
             ~(RecvMetadata(s) \/ RecvChunk(s) \/ CleanupContext(s))
      PROVE  UNCHANGED context
    BY <1>1 DEF Handle, Describe, Announce, SkipChunk, Insert, InsertConflict, Tick, RecvEOF,
        RecvError, ReadText, Summarise, SummariseFails, SetRoot, PublishNoSummary,
        GetSections, UpdateSections, PublishCompleted, PublishFailed, SendAndClose
<1>2. ASSUME NEW s \in Streams, Disturb(s) \/ Open(s) PROVE UNCHANGED context
    BY <1>2 DEF Disturb, InsertFails, SetRootFails, UpdateSectionsFails, CallFails, Break, Open
<1>3. CASE UNCHANGED ingestVars
    BY <1>3 DEF ingestVars
<1>4. QED
    BY <1>1, <1>2, <1>3 DEF Next

\* Failures and chunks left out only become more.
LEMMA CountsGrow ==
    ASSUME TypeOK, [Next]_ingestVars, NEW t \in Streams
    PROVE  /\ docOf' = docOf
           /\ failed'[t] = 0 => failed[t] = 0
           /\ skipped[t] \subseteq skipped'[t]
<1>1. CASE UNCHANGED storing
    BY <1>1 DEF storing
<1>2. ASSUME NEW s \in Streams, Stores(s)
      PROVE  /\ docOf' = docOf
             /\ failed'[t] = 0 => failed[t] = 0
             /\ skipped[t] \subseteq skipped'[t]
    <2>1. docOf' = docOf
        BY <1>2 DEF Stores, SkipChunk, Insert, InsertConflict, InsertFails, NextMessage, Step
    <2>2. failed' = failed \/ (failed' = [failed EXCEPT ![s] = @ + 1])
        BY <1>2 DEF Stores, SkipChunk, Insert, InsertConflict, InsertFails
    <2>3. skipped' = skipped \/ skipped' = [skipped EXCEPT ![s] = @ \cup {next[s]}]
        BY <1>2 DEF Stores, SkipChunk, Insert, InsertConflict, InsertFails
    <2>4. failed[t] \in Nat
        BY IngestAssumption DEF TypeOK
    <2>5. failed'[t] = 0 => failed[t] = 0
        BY <2>2, <2>4 DEF TypeOK
    <2>6. skipped[t] \subseteq skipped'[t]
        <3>1. skipped \in [Streams -> SUBSET Skippable]
            BY DEF TypeOK
        <3>2. QED
            BY <2>3, <3>1
    <2>7. QED
        BY <2>1, <2>5, <2>6
<1>3. QED
    BY <1>1, <1>2, StoringSteps

\* A chunk falls behind a handler when the handler receives it.
LEMMA BehindSteps ==
    ASSUME TypeOK, [Next]_ingestVars, NEW t \in Streams, at[t] = "idle" => next[t] = 1,
           at'[t] \in Working, NEW i \in (1..N) \ skipped'[t], Behind(t, i)'
    PROVE  (at[t] \in Working /\ Behind(t, i)) \/ (RecvChunk(t) /\ i = next[t])
<1> DEFINE Goal == (at[t] \in Working /\ Behind(t, i)) \/ (RecvChunk(t) /\ i = next[t])
<1> USE DEF Step, Goto, counts, copies, caller, context, tables
<1>0. /\ at \in [Streams -> Live \cup {"idle", "over"}] /\ next \in [Streams -> 1..N+1]
      /\ skipped \in [Streams -> SUBSET Skippable] /\ N \in Nat
    BY IngestAssumption DEF TypeOK
<1>1. CASE UNCHANGED <<at[t], next[t]>>
    BY <1>1 DEF Behind
<1>2. CASE Open(t)
    BY <1>0, <1>2 DEF Open, Behind, Working, Receiving
<1>3. CASE RecvMetadata(t) \/ Describe(t) \/ Announce(t) \/ Tick(t)
    BY <1>0, <1>3 DEF RecvMetadata, Describe, Announce, Tick, Behind, Working, Receiving
<1>4. CASE SkipChunk(t)
    <2>1. /\ next'[t] = next[t] + 1 /\ at[t] = "recv" /\ at'[t] = "recv"
          /\ skipped'[t] = skipped[t] \cup {next[t]} /\ next[t] \in Nat
        BY <1>0, <1>4 DEF SkipChunk
    <2>2. QED
        BY <2>1, <1>0 DEF Behind, Working, Receiving
<1>5. CASE RecvChunk(t)
    BY <1>0, <1>5 DEF RecvChunk, Behind, Working, Receiving
<1>6. CASE NextMessage(t)
    <2>1. next'[t] = next[t] + 1 /\ at[t] = "insert" /\ at'[t] \in {"recv", "tick"}
          /\ next[t] \in Nat
        BY <1>0, <1>6 DEF NextMessage
    <2>2. QED
        BY <2>1, <1>0 DEF Behind, Working, Receiving
<1>7. CASE RecvEOF(t)
    BY <1>0, <1>7 DEF RecvEOF, Behind, Working, Receiving, Complete
<1>8. CASE ReadText(t) \/ Summarise(t) \/ SummariseFails(t) \/ SetRoot(t) \/ PublishNoSummary(t)
             \/ GetSections(t) \/ UpdateSections(t) \/ PublishCompleted(t)
             \/ SetRootFails(t) \/ UpdateSectionsFails(t)
    BY <1>0, <1>8 DEF ReadText, Summarise, SummariseFails, SetRoot, PublishNoSummary,
        GetSections, UpdateSections, PublishCompleted, SetRootFails, UpdateSectionsFails,
        Behind, Working, Receiving, Complete
<1>9. CASE RecvError(t) \/ CleanupContext(t) \/ PublishFailed(t) \/ SendAndClose(t)
             \/ CallFails(t)
    BY <1>0, <1>9 DEF RecvError, CleanupContext, PublishFailed, SendAndClose, CallFails,
        Working, Receiving, Complete
<1>10. CASE Break(t)
    BY <1>1, <1>10 DEF Break
<1>11. CASE Crash
    BY <1>0, <1>11 DEF Crash, Working, Receiving, Complete, Live
<1>12. CASE UNCHANGED ingestVars
    BY <1>1, <1>12 DEF ingestVars
<1>13. ASSUME NEW s \in Streams, s # t, Open(s) \/ Handle(s) \/ Disturb(s) PROVE Goal
    BY <1>1, <1>13, OthersUntouched DEF own
<1>14. CASE Handle(t)
    BY <1>3, <1>4, <1>5, <1>6, <1>7, <1>8, <1>9, <1>14 DEF Handle, Insert, InsertConflict
<1>15. CASE Disturb(t)
    BY <1>6, <1>8, <1>9, <1>10, <1>15 DEF Disturb, InsertFails
<1>16. QED
    BY <1>2, <1>11, <1>12, <1>13, <1>14, <1>15 DEF Next

LEMMA IdleStep ==
    ASSUME TypeOK, [Next]_ingestVars, NEW t \in Streams, at[t] = "idle" => next[t] = 1,
           at'[t] = "idle"
    PROVE  next'[t] = 1
<1> USE DEF TypeOK, Step, Goto, counts, copies, caller, context, tables
<1>1. CASE UNCHANGED <<at[t], next[t]>>
    BY <1>1
<1>2. CASE Open(t)
    BY <1>2 DEF Open
<1>3. CASE Handle(t)
    BY <1>3 DEF Handle, RecvMetadata, Describe, Announce, SkipChunk, RecvChunk, Insert,
        InsertConflict, NextMessage, Tick, RecvEOF, RecvError, ReadText, Summarise,
        SummariseFails, SetRoot, PublishNoSummary, GetSections, UpdateSections,
        PublishCompleted, CleanupContext, PublishFailed, SendAndClose
<1>4. CASE Disturb(t)
    BY <1>1, <1>4 DEF Disturb, InsertFails, NextMessage, SetRootFails, UpdateSectionsFails,
        CallFails, Break
<1>5. CASE Crash
    BY <1>5 DEF Crash
<1>6. CASE UNCHANGED ingestVars
    BY <1>6 DEF ingestVars
<1>7. ASSUME NEW s \in Streams, s # t, Open(s) \/ Handle(s) \/ Disturb(s) PROVE next'[t] = 1
    BY <1>1, <1>7, OthersUntouched DEF own
<1>8. QED
    BY <1>2, <1>3, <1>4, <1>5, <1>6, <1>7 DEF Next

\* What is in a context stays there until it is cleared.
LEMMA InContextStays ==
    ASSUME TypeOK, [Next]_ingestVars, NEW d \in Docs, NEW i \in 1..N, InContext(d, i)
    PROVE  \/ InContext(d, i)'
           \/ \E s \in Streams : CleanupContext(s) /\ docOf[s] = d
           \/ Crash
<1>0. text \in [Docs -> SUBSET (0..N)] /\ sections \in [Docs -> Seq(Chapters)]
      /\ docOf \in [Streams -> Docs]
    BY DEF TypeOK
<1>1. CASE UNCHANGED context
    BY <1>1 DEF context, InContext
<1>2. ASSUME NEW s \in Streams, RecvMetadata(s) PROVE InContext(d, i)'
    BY <1>0, <1>2 DEF RecvMetadata, InContext
<1>3. ASSUME NEW s \in Streams, CleanupContext(s), docOf[s] # d PROVE InContext(d, i)'
    BY <1>0, <1>3 DEF CleanupContext, InContext
<1>4. ASSUME NEW s \in Streams, RecvChunk(s) PROVE InContext(d, i)'
    <2>1. CASE docOf[s] = d
        <3>1. PICK j \in 1..N : j = next[s]
            BY <1>4 DEF RecvChunk
        <3>2. i \in text'[d] /\ sections'[d] = AddSection(sections[d], Chapter[j])
            BY <1>0, <1>4, <2>1, <3>1 DEF RecvChunk, InContext
        <3>3. Holds(sections'[d], i)
            BY <1>0, <3>2, AddSectionHolds DEF InContext
        <3>4. QED
            BY <3>2, <3>3 DEF InContext
    <2>2. CASE docOf[s] # d
        BY <1>0, <1>4, <2>2 DEF RecvChunk, InContext
    <2>3. QED
        BY <2>1, <2>2
<1>5. QED
    BY <1>1, <1>2, <1>3, <1>4, ContextSteps

LEMMA KeptStep ==
    ASSUME TypeOK, [Next]_ingestVars, AllSent, NEW t \in Streams,
           at[t] = "idle" => next[t] = 1,
           at[t] \in Working /\ failed[t] = 0 => Kept(t),
           at'[t] \in Working, failed'[t] = 0
    PROVE  Kept(t)'
<1>0. docOf' = docOf /\ failed[t] = 0
    BY CountsGrow
<1>1. CASE \E u \in Streams \ {t} : docOf[u] = docOf[t] /\ Sent(u)
    BY <1>0, <1>1, SentIsFinal DEF Kept, Sent
<1>2. CASE ~\E u \in Streams \ {t} : docOf[u] = docOf[t] /\ Sent(u)
    <2>1. SUFFICES ASSUME NEW i \in (1..N) \ skipped'[t], Behind(t, i)'
                   PROVE  InContext(docOf[t], i)'
        BY <1>0 DEF Kept
    <2>2. PICK d \in Docs : d = docOf[t]
        BY DEF TypeOK
    <2>3. CASE RecvChunk(t) /\ i = next[t]
        <3>1. i \in text'[d] /\ sections'[d] = AddSection(sections[d], Chapter[i])
              /\ sections[d] \in Seq(Chapters)
            BY <2>2, <2>3 DEF RecvChunk, TypeOK
        <3>2. Holds(sections'[d], i)
            BY <3>1, AddSectionHolds
        <3>3. QED
            BY <1>0, <2>2, <3>1, <3>2 DEF InContext
    <2>4. CASE at[t] \in Working /\ Behind(t, i)
        <3>1. i \notin skipped[t]
            BY CountsGrow
        <3>2. InContext(d, i)
            BY <1>0, <1>2, <2>2, <2>4, <3>1 DEF Kept
        <3>3. ASSUME NEW s \in Streams, CleanupContext(s), docOf[s] = d PROVE FALSE
            <4>1. Sent(s) /\ at'[s] = "reply"
                BY <3>3 DEF CleanupContext, Step, Goto, AllSent, Finished, Complete, Sent, TypeOK
            <4>2. s # t
                BY <4>1 DEF Working, Receiving, Complete
            <4>3. QED
                BY <1>2, <2>2, <3>3, <4>1, <4>2
        <3>4. ~Crash
            BY DEF Crash, Working, Receiving, Complete, Live, TypeOK
        <3>5. InContext(d, i)'
            BY <3>2, <3>3, <3>4, InContextStays
        <3>6. QED
            BY <1>0, <2>2, <3>5 DEF InContext
    <2>5. (at[t] \in Working /\ Behind(t, i)) \/ (RecvChunk(t) /\ i = next[t])
        BY <2>1, BehindSteps
    <2>6. QED
        BY <2>3, <2>4, <2>5
<1>3. QED
    BY <1>1, <1>2

LEMMA ContextInit == Init => ContextInv
BY DEF Init, ContextInv, Working, Receiving, Complete

LEMMA ContextStep ==
    ASSUME TypeOK, [Next]_ingestVars, AllSent, ContextInv
    PROVE  ContextInv'
BY IdleStep, KeptStep DEF ContextInv

(* A summary in the making, or written, was made from all the stream sent.  *)
Read(s) == at[s] \in {"llm", "root"} \/ s \in nodes[docOf[s]]
SummaryInv ==
    \A s \in Streams : Read(s) => Sent(s) /\ (1..N) \ skipped[s] \subseteq seen[s]

LEMMA ReadSteps ==
    ASSUME TypeOK, [Next]_ingestVars, NEW t \in Streams, Read(t)'
    PROVE  ReadText(t) \/ (Read(t) /\ seen'[t] = seen[t])
<1> DEFINE Goal == ReadText(t) \/ (Read(t) /\ seen'[t] = seen[t])
<1> USE DEF Read, Step, Goto, counts, copies, caller, context, tables
<1>0. /\ at \in [Streams -> Live \cup {"idle", "over"}] /\ seen \in [Streams -> SUBSET (0..N)]
      /\ nodes \in [Docs -> SUBSET Streams] /\ docOf \in [Streams -> Docs]
    BY DEF TypeOK
<1>1. ASSUME UNCHANGED <<nodes, docOf, seen>>, at'[t] = at[t] \/ at'[t] \notin {"llm", "root"}
      PROVE  Goal
    BY <1>1
<1>2. ASSUME NEW s \in Streams, Handle(s),
             ~(ReadText(s) \/ Summarise(s) \/ (s = t /\ RecvEOF(s)))
      PROVE  Goal
    <2>1. CASE s # t
        <3>1. at'[t] = at[t]
            BY <1>2, <2>1, OthersUntouched DEF own
        <3>2. UNCHANGED <<nodes, docOf, seen>>
            BY <1>2 DEF Handle, RecvMetadata, Describe, Announce, SkipChunk, RecvChunk, Insert,
                InsertConflict, NextMessage, Tick, RecvEOF, RecvError, SummariseFails, SetRoot,
                PublishNoSummary, GetSections, UpdateSections, PublishCompleted,
                CleanupContext, PublishFailed, SendAndClose
        <3>3. QED
            BY <1>1, <3>1, <3>2
    <2>2. CASE s = t
        BY <1>0, <1>1, <1>2, <2>2 DEF Handle, RecvMetadata, Describe, Announce, SkipChunk,
            RecvChunk, Insert, InsertConflict, NextMessage, Tick, RecvError, SummariseFails,
            SetRoot, PublishNoSummary, GetSections, UpdateSections, PublishCompleted,
            CleanupContext, PublishFailed, SendAndClose
    <2>3. QED
        BY <2>1, <2>2
<1>3. CASE RecvEOF(t)
    BY <1>0, <1>1, <1>3 DEF RecvEOF
<1>4. ASSUME NEW s \in Streams, ReadText(s) PROVE Goal
    BY <1>0, <1>4 DEF ReadText
<1>5. ASSUME NEW s \in Streams, Summarise(s) PROVE Goal
    BY <1>0, <1>5 DEF Summarise
<1>6. ASSUME NEW s \in Streams, Open(s) PROVE Goal
    BY <1>0, <1>1, <1>6 DEF Open
<1>7. ASSUME NEW s \in Streams, Disturb(s) PROVE Goal
    BY <1>0, <1>1, <1>7 DEF Disturb, InsertFails, NextMessage, SetRootFails,
        UpdateSectionsFails, CallFails, Break
<1>8. CASE Crash
    BY <1>0, <1>1, <1>8 DEF Crash
<1>9. CASE UNCHANGED ingestVars
    BY <1>1, <1>9 DEF ingestVars
<1>10. QED
    BY <1>2, <1>3, <1>4, <1>5, <1>6, <1>7, <1>8, <1>9 DEF Next

\* At the end of a stream nobody else can have sent the document as a whole.
LEMMA WholeContext ==
    ASSUME TypeOK, OwnsSent, AllSent, ContextInv, (1..N) \ Skippable # {},
           NEW t \in Streams, at[t] \in Complete
    PROVE  Sent(t) /\ \A i \in (1..N) \ skipped[t] : InContext(docOf[t], i)
<1>1. Sent(t)
    BY DEF AllSent, Finished, Sent
<1>2. Kept(t)
    BY <1>1 DEF ContextInv, Working, Sent
<1>3. ~\E u \in Streams \ {t} : docOf[u] = docOf[t] /\ Sent(u)
    BY <1>1, SentOnce DEF Sent
<1>4. \A i \in 1..N : Behind(t, i)
    BY <1>1, IngestAssumption DEF Behind, Sent
<1>5. QED
    BY <1>1, <1>2, <1>3, <1>4 DEF Kept

LEMMA SummaryStep ==
    ASSUME TypeOK, [Next]_ingestVars, StoreInv, ContextInv, (1..N) \ Skippable # {}, SummaryInv
    PROVE  SummaryInv'
<1> SUFFICES ASSUME NEW t \in Streams, Read(t)'
             PROVE  Sent(t)' /\ (1..N) \ skipped'[t] \subseteq seen'[t]
    BY DEF SummaryInv
<1>1. Sent(t) /\ (1..N) \ skipped[t] \subseteq seen'[t]
    <2>1. CASE ReadText(t)
        <3>1. at[t] \in Complete /\ seen'[t] = text[docOf[t]]
            BY <2>1 DEF ReadText, Step, Complete, TypeOK
        <3>2. QED
            BY <3>1, WholeContext DEF StoreInv, InContext
    <2>2. CASE Read(t) /\ seen'[t] = seen[t]
        BY <2>2 DEF SummaryInv
    <2>3. QED
        BY <2>1, <2>2, ReadSteps
<1>2. Sent(t)' /\ skipped'[t] = skipped[t]
    BY <1>1, SentIsFinal DEF Sent
<1>3. QED
    BY <1>1, <1>2

LEMMA SummaryInit == Init => SummaryInv
BY DEF Init, SummaryInv, Read

LEMMA ContextInvariant ==
    ASSUME (1..N) \ Skippable # {}
    PROVE  Spec => [](TypeOK /\ StoreInv /\ ContextInv /\ SummaryInv)
<1>1. Init => TypeOK /\ StoreInv /\ ContextInv /\ SummaryInv
    BY TypeInit, StoreInit, ContextInit, SummaryInit
<1>2. TypeOK /\ StoreInv /\ ContextInv /\ SummaryInv /\ [Next]_ingestVars
        => (TypeOK /\ StoreInv /\ ContextInv /\ SummaryInv)'
    <2>1. TypeOK /\ StoreInv /\ ContextInv /\ [Next]_ingestVars => ContextInv'
        BY ContextStep DEF StoreInv
    <2>2. QED
        BY <2>1, TypeStep, StoreStep, SummaryStep
<1>3. QED
    BY <1>1, <1>2, PTL DEF Spec

(* A summary is made from the text of the whole document, whatever other    *)
(* attempts add to the context GenerateDocumentSummary reads, clear in it   *)
(* or lose, if some chunk is never skipped.                                 *)
THEOREM SummariesAreWhole ==
    ASSUME (1..N) \ Skippable # {}
    PROVE  Spec => []SummaryOfWholeDocument
<1>1. SummaryInv => SummaryOfWholeDocument
    BY DEF SummaryInv, Read, SummaryOfWholeDocument
<1>2. QED
    BY <1>1, ContextInvariant, PTL

-----------------------------------------------------------------------------
(* The sections *)

\* Induction over the natural numbers, for a set given as an expression.
LEMMA SetInduction ==
    ASSUME NEW S, 0 \in S, \A n \in Nat : n \in S => n + 1 \in S
    PROVE  Nat \subseteq S
<1> DEFINE T == Nat \ S
           R == OpToRel(<, Nat)
<1>1. IsWellFoundedOn(R, Nat)
    BY NatLessThanWellFounded
<1>2. \A x, y \in Nat : x < y => <<x, y>> \in R
    BY DEF OpToRel
<1> HIDE DEF R
<1>3. SUFFICES ASSUME T # {} PROVE FALSE
    OBVIOUS
<1>4. \E x \in T : \A y \in T : ~(<<y, x>> \in R)
    BY <1>1, <1>3, WFMin
<1>5. QED
    <2>1. PICK x \in T : \A y \in T : ~(<<y, x>> \in R)
        BY <1>4
    <2>2. x # 0 /\ x \in Nat
        OBVIOUS
    <2>3. x - 1 \in Nat /\ <<x - 1, x>> \in R
        BY <1>2, <2>2
    <2>4. x - 1 \in S
        BY <2>1, <2>3
    <2>5. (x - 1) + 1 \in S
        BY <2>3, <2>4
    <2>6. QED
        BY <2>2, <2>5

\* The recursive definition of ChaptersUpTo means what it says.
LEMMA ChaptersOneByOne ==
    /\ ChaptersUpTo[0] = <<>>
    /\ \A i \in 1..N : ChaptersUpTo[i] = AddSection(ChaptersUpTo[i - 1], Chapter[i])
<1> DEFINE Def(g, k) == g = [i \in 0..k |-> IF i = 0 THEN <<>>
                                            ELSE AddSection(g[i - 1], Chapter[i])]
           S == {k \in Nat : \E g : Def(g, k)}
<1>1. 0 \in S
    <2>1. Def([i \in 0..0 |-> <<>>], 0)
        OBVIOUS
    <2>2. QED
        BY <2>1
<1>2. \A n \in Nat : n \in S => n + 1 \in S
    <2> SUFFICES ASSUME NEW n \in Nat, n \in S PROVE n + 1 \in S
        OBVIOUS
    <2>1. PICK g : Def(g, n)
        OBVIOUS
    <2> DEFINE h == [i \in 0..n+1 |-> IF i = n + 1 THEN AddSection(g[n], Chapter[n + 1])
                                      ELSE g[i]]
    <2>2. \A i \in 0..n+1 : h[i] = IF i = 0 THEN <<>> ELSE AddSection(h[i - 1], Chapter[i])
        <3> SUFFICES ASSUME NEW i \in 0..n+1
                     PROVE  h[i] = IF i = 0 THEN <<>> ELSE AddSection(h[i - 1], Chapter[i])
            OBVIOUS
        <3>1. CASE i = n + 1
            <4>1. h[n] = g[n] /\ h[n + 1] = AddSection(g[n], Chapter[n + 1]) /\ i - 1 = n
                BY <3>1
            <4>2. QED
                BY <3>1, <4>1
        <3>2. CASE i # n + 1 /\ i # 0
            <4>1. i \in 0..n /\ i - 1 \in 0..n
                BY <3>2
            <4>2. g[i] = AddSection(g[i - 1], Chapter[i])
                BY <2>1, <3>2, <4>1
            <4>3. h[i] = g[i] /\ h[i - 1] = g[i - 1]
                BY <4>1, <3>2
            <4>4. QED
                BY <3>2, <4>2, <4>3
        <3>3. CASE i = 0
            <4>1. h[0] = g[0] /\ g[0] = <<>>
                BY <2>1
            <4>2. QED
                BY <3>3, <4>1
        <3>4. QED
            BY <3>1, <3>2, <3>3
    <2>3. Def(h, n + 1)
        <3> HIDE DEF h
        <3>1. h = [i \in 0..n+1 |-> h[i]]
            BY DEF h
        <3>2. QED
            BY <2>2, <3>1
    <2> HIDE DEF Def
    <2>4. QED
        BY <2>3
<1> HIDE DEF S
<1>3. N \in S
    BY <1>1, <1>2, SetInduction, IngestAssumption
<1>4. \E g : Def(g, N)
    BY <1>3 DEF S
<1>5. Def(ChaptersUpTo, N)
    BY <1>4 DEF ChaptersUpTo
<1>6. QED
    BY <1>5, IngestAssumption

\* No chapter twice, and no empty one.
Distinct(list) ==
    /\ \A k, l \in 1..Len(list) : list[k] = list[l] => k = l
    /\ \A k \in 1..Len(list) : list[k] # NoChapter

DistinctInv ==
    /\ \A d \in Docs : Distinct(sections[d])
    /\ \A s \in Streams : Distinct(secs[s])

(* While no attempt at a document left a chunk out, its sections are those  *)
(* of the first k chunks, k being how far the furthest attempt came; after  *)
(* an attempt completed, all others are bound to fail.                      *)
NoSkips(d) == \A s \in Streams : docOf[s] = d => skipped[s] = {}

UpTo(d, k) ==
    /\ sections[d] = ChaptersUpTo[k]
    /\ \A i \in 1..k : Holds(sections[d], i)
    /\ \A s \in Streams : docOf[s] = d /\ at[s] \in Working =>
          \A i \in 1..N : Behind(s, i) => i <= k

OrderedInv ==
    \A d \in Docs : NoSkips(d) =>
        \/ \E s \in Streams : docOf[s] = d /\ Cleared(s)
        \/ \E k \in 0..N : UpTo(d, k)

(* The handler's copy has all chapters of its stream, in their order if     *)
(* nothing was left out.                                                    *)
HasSecs(s) == at[s] \in {"save", "complete"} \/ Published(s, "completed")
SecsInv ==
    \A s \in Streams : HasSecs(s) =>
        /\ Sent(s)
        /\ \A i \in (1..N) \ skipped[s] : Holds(secs[s], i)
        /\ NoSkips(docOf[s]) => secs[s] = ChaptersUpTo[N]

SectionsInv == DistinctInv /\ OrderedInv /\ SecsInv

LEMMA AddSectionDistinct ==
    ASSUME NEW list \in Seq(Chapters), NEW c \in Chapters, Distinct(list)
    PROVE  Distinct(AddSection(list, c))
<1>1. CASE c = NoChapter \/ Contains(list, c)
    BY <1>1 DEF AddSection
<1>2. CASE ~(c = NoChapter \/ Contains(list, c))
    <2>1. AddSection(list, c) = Append(list, c)
        BY <1>2 DEF AddSection
    <2>2. /\ Len(Append(list, c)) = Len(list) + 1 /\ Len(list) \in Nat
          /\ Append(list, c)[Len(list) + 1] = c
          /\ \A k \in 1..Len(list) : Append(list, c)[k] = list[k]
        OBVIOUS
    <2>3. \A k \in 1..Len(list) : list[k] # c
        BY <1>2 DEF Contains
    <2>4. \A k \in 1..Len(list) + 1 : k \in 1..Len(list) \/ k = Len(list) + 1
        BY <2>2
    <2>5. QED
        BY <1>2, <2>1, <2>2, <2>3, <2>4 DEF Distinct
<1>3. QED
    BY <1>1, <1>2

\* The handler's copy of the sections is written by GetSections alone.
LEMMA SecsSteps ==
    ASSUME [Next]_ingestVars
    PROVE  UNCHANGED secs \/ \E s \in Streams : GetSections(s)
<1> USE DEF copies
<1>1. ASSUME NEW s \in Streams, Handle(s), ~GetSections(s) PROVE UNCHANGED secs
    BY <1>1 DEF Handle, RecvMetadata, Describe, Announce, SkipChunk, RecvChunk, Insert,
        InsertConflict, Tick, RecvEOF, RecvError, ReadText, Summarise, SummariseFails,
        SetRoot, PublishNoSummary, UpdateSections, PublishCompleted, CleanupContext,
        PublishFailed, SendAndClose
<1>2. ASSUME NEW s \in Streams, Disturb(s) \/ Open(s) PROVE UNCHANGED secs
    BY <1>2 DEF Disturb, InsertFails, SetRootFails, UpdateSectionsFails, CallFails, Break, Open
<1>3. CASE Crash \/ UNCHANGED ingestVars
    BY <1>3 DEF Crash, ingestVars
<1>4. QED
    BY <1>1, <1>2, <1>3 DEF Next

LEMMA DistinctStep ==
    ASSUME TypeOK, [Next]_ingestVars, DistinctInv
    PROVE  DistinctInv'
<1>0. sections \in [Docs -> Seq(Chapters)] /\ secs \in [Streams -> Seq(Chapters)]
      /\ docOf \in [Streams -> Docs]
    BY DEF TypeOK
<1>1. ASSUME NEW d \in Docs PROVE Distinct(sections'[d])
    <2>1. CASE sections'[d] = sections[d]
        BY <2>1 DEF DistinctInv
    <2>2. CASE sections'[d] = <<>>
        BY <2>2 DEF Distinct
    <2>3. ASSUME NEW s \in Streams, RecvChunk(s), docOf[s] = d PROVE Distinct(sections'[d])
        <3>1. PICK c \in Chapters : c = Chapter[next[s]]
            BY <2>3 DEF RecvChunk, Chapters
        <3>2. sections'[d] = AddSection(sections[d], c)
            BY <1>0, <2>3, <3>1 DEF RecvChunk
        <3>3. QED
            BY <1>0, <3>2, AddSectionDistinct DEF DistinctInv
    <2>4. ASSUME NEW s \in Streams, RecvMetadata(s) \/ CleanupContext(s) \/ RecvChunk(s)
          PROVE  sections'[d] \in {sections[d], <<>>} \/ (RecvChunk(s) /\ docOf[s] = d)
        BY <1>0, <2>4 DEF RecvMetadata, CleanupContext, RecvChunk
    <2>5. CASE Crash
        BY <2>2, <2>5 DEF Crash
    <2>6. QED
        BY <2>1, <2>2, <2>3, <2>4, <2>5, ContextSteps DEF context
<1>2. ASSUME NEW t \in Streams PROVE Distinct(secs'[t])
    <2>1. ASSUME NEW s \in Streams, GetSections(s) PROVE Distinct(secs'[t])
        BY <1>0, <2>1 DEF GetSections, DistinctInv
    <2>2. QED
        BY <2>1, SecsSteps DEF DistinctInv
<1>3. QED
    BY <1>1, <1>2 DEF DistinctInv

LEMMA ClearedStays ==
    ASSUME TypeOK, [Next]_ingestVars, NEW t \in Streams, Cleared(t)
    PROVE  Cleared(t)'
<1> USE DEF Step, Goto, counts, copies, caller, context, tables
<1>1. Sent(t)'
    BY SentIsFinal DEF Cleared, Sent
<1>2. at'[t] \in {"reply", "over"}
    <2>0. at \in [Streams -> Live \cup {"idle", "over"}] /\ at[t] \in {"reply", "over"}
        BY DEF TypeOK, Cleared
    <2>1. ASSUME NEW s \in Streams, s # t, Open(s) \/ Handle(s) \/ Disturb(s)
          PROVE  at'[t] \in {"reply", "over"}
        BY <2>0, <2>1, OthersUntouched DEF own
    <2>2. CASE Open(t)
        BY <2>0, <2>2 DEF Open
    <2>3. CASE Handle(t)
        BY <2>0, <2>3 DEF Handle, RecvMetadata, Describe, Announce, SkipChunk, RecvChunk,
            Insert, InsertConflict, NextMessage, Tick, RecvEOF, RecvError, ReadText,
            Summarise, SummariseFails, SetRoot, PublishNoSummary, GetSections,
            UpdateSections, PublishCompleted, CleanupContext, PublishFailed, SendAndClose
    <2>4. CASE Disturb(t)
        BY <2>0, <2>4 DEF Disturb, InsertFails, NextMessage, SetRootFails,
            UpdateSectionsFails, CallFails, Break
    <2>5. CASE Crash \/ UNCHANGED ingestVars
        BY <2>0, <2>5 DEF Crash, ingestVars
    <2>6. QED
        BY <2>1, <2>2, <2>3, <2>4, <2>5 DEF Next
<1>3. QED
    BY <1>1, <1>2 DEF Cleared

\* The sections of d after chunk j of a stream that is not ahead of k + 1.
LEMMA SectionAdded ==
    ASSUME NEW list \in Seq(Chapters), NEW k \in 0..N, list = ChaptersUpTo[k],
           \A i \in 1..k : Holds(list, i), NEW j \in 1..N, j <= k + 1,
           NEW m \in 0..N, m = IF j <= k THEN k ELSE j
    PROVE  /\ AddSection(list, Chapter[j]) = ChaptersUpTo[m]
           /\ \A i \in 1..m : Holds(AddSection(list, Chapter[j]), i)
<1>0. N \in Nat
    BY IngestAssumption
<1>1. CASE j <= k
    <2>1. m = k /\ j \in 1..k
        BY <1>0, <1>1
    <2>2. Holds(list, j)
        BY <2>1
    <2>3. AddSection(list, Chapter[j]) = list
        BY <2>2 DEF AddSection, Holds
    <2>4. QED
        BY <2>1, <2>3
<1>2. CASE ~(j <= k)
    <2>1. m = j /\ j = k + 1 /\ j - 1 = k
        BY <1>0, <1>2
    <2>2. AddSection(list, Chapter[j]) = ChaptersUpTo[m]
        BY <2>1, ChaptersOneByOne
    <2>3. ASSUME NEW i \in 1..m PROVE Holds(AddSection(list, Chapter[j]), i)
        <3>1. i \in 1..N /\ (i \in 1..k \/ i = j)
            BY <1>0, <2>1
        <3>2. QED
            BY <3>1, AddSectionHolds
    <2>4. QED
        BY <2>2, <2>3
<1>3. QED
    BY <1>1, <1>2

LEMMA OrderedStep ==
    ASSUME TypeOK, [Next]_ingestVars, AllSent, ContextInv, OrderedInv
    PROVE  OrderedInv'
<1> SUFFICES ASSUME NEW d \in Docs, NoSkips(d)'
             PROVE  \/ \E s \in Streams : docOf'[s] = d /\ Cleared(s)'
                    \/ \E k \in 0..N : UpTo(d, k)'
    BY DEF OrderedInv
<1>0. /\ docOf' = docOf /\ NoSkips(d) /\ N \in Nat
      /\ sections \in [Docs -> Seq(Chapters)] /\ docOf \in [Streams -> Docs]
    <2>1. docOf' = docOf
        BY DocOfStays
    <2>2. NoSkips(d)
        BY <2>1, CountsGrow DEF NoSkips
    <2>3. QED
        BY <2>1, <2>2, IngestAssumption DEF TypeOK
<1>1. ASSUME NEW u \in Streams, docOf[u] = d, Cleared(u)
      PROVE  \E s \in Streams : docOf'[s] = d /\ Cleared(s)'
    BY <1>0, <1>1, ClearedStays
<1>2. ASSUME NEW k \in 0..N, UpTo(d, k), ~Crash
      PROVE  \/ \E s \in Streams : docOf'[s] = d /\ Cleared(s)'
             \/ \E m \in 0..N : UpTo(d, m)'
    \* How far an attempt is after the step.
    <2>1. ASSUME NEW s \in Streams, docOf[s] = d, at'[s] \in Working,
                 NEW i \in 1..N, Behind(s, i)'
          PROVE  i <= k \/ (RecvChunk(s) /\ i = next[s])
        <3>1. i \in (1..N) \ skipped'[s]
            BY <1>0, <2>1 DEF NoSkips
        <3>2. at[s] = "idle" => next[s] = 1
            BY DEF ContextInv
        <3>3. (at[s] \in Working /\ Behind(s, i)) \/ (RecvChunk(s) /\ i = next[s])
            BY <2>1, <3>1, <3>2, BehindSteps
        <3>4. QED
            BY <1>2, <2>1, <3>3 DEF UpTo
    <2>2. ASSUME NEW u \in Streams, RecvChunk(u), docOf[u] = d
          PROVE  \E m \in 0..N : UpTo(d, m)'
        <3>1. PICK j \in 1..N : j = next[u]
            BY <2>2 DEF RecvChunk
        <3>2. j <= k + 1
            <4>1. CASE j = 1
                BY <4>1
            <4>2. CASE j # 1
                <5>1. j - 1 \in 1..N /\ Behind(u, j - 1)
                    BY <1>0, <3>1, <4>2 DEF Behind
                <5>2. at[u] \in Working
                    BY <2>2 DEF RecvChunk, Step, Working, Receiving
                <5>3. j - 1 <= k
                    BY <1>2, <2>2, <5>1, <5>2 DEF UpTo
                <5>4. QED
                    BY <5>3
            <4>3. QED
                BY <4>1, <4>2
        <3>3. PICK m \in 0..N : m = IF j <= k THEN k ELSE j
            OBVIOUS
        <3>4. sections'[d] = AddSection(sections[d], Chapter[j])
            BY <1>0, <2>2, <3>1 DEF RecvChunk
        <3>5. /\ sections'[d] = ChaptersUpTo[m]
              /\ \A i \in 1..m : Holds(sections'[d], i)
            <4>1. PICK list \in Seq(Chapters) : list = sections[d]
                BY <1>0
            <4>2. list = ChaptersUpTo[k] /\ \A i \in 1..k : Holds(list, i)
                BY <1>2, <4>1 DEF UpTo
            <4>3. /\ AddSection(list, Chapter[j]) = ChaptersUpTo[m]
                  /\ \A i \in 1..m : Holds(AddSection(list, Chapter[j]), i)
                BY <3>2, <3>3, <4>2, SectionAdded
            <4>4. QED
                BY <3>4, <4>1, <4>3
        <3>6. k <= m /\ j <= m
            BY <1>0, <3>3
        <3>7. ASSUME NEW s \in Streams, docOf[s] = d, at'[s] \in Working,
                     NEW i \in 1..N, Behind(s, i)'
              PROVE  i <= m
            <4>1. CASE i <= k
                BY <3>6, <4>1
            <4>2. CASE RecvChunk(s) /\ i = next[s]
                <5>1. s = u
                    BY <2>2, <4>2 DEF RecvChunk, Step, Goto, TypeOK
                <5>2. QED
                    BY <3>1, <3>6, <4>2, <5>1
            <4>3. QED
                BY <2>1, <3>7, <4>1, <4>2
        <3>8. UpTo(d, m)'
            BY <1>0, <3>5, <3>7 DEF UpTo
        <3>9. QED
            BY <3>8
    <2>3. ASSUME NEW u \in Streams, CleanupContext(u), docOf[u] = d
          PROVE  \E s \in Streams : docOf'[s] = d /\ Cleared(s)'
        <3>1. failed[u] = 0 /\ next[u] = N + 1 /\ at'[u] = "reply"
            BY <2>3 DEF CleanupContext, Step, Goto, AllSent, Finished, Complete, TypeOK
        <3>2. Cleared(u)'
            BY <3>1, SentIsFinal DEF Cleared, Sent
        <3>3. QED
            BY <1>0, <2>3, <3>2
    <2>4. CASE sections'[d] = sections[d] /\ ~\E u \in Streams : RecvChunk(u) /\ docOf[u] = d
        <3>1. UpTo(d, k)'
            BY <1>0, <1>2, <2>1, <2>4 DEF UpTo
        <3>2. QED
            BY <3>1
    <2>5. ASSUME NEW s \in Streams, RecvMetadata(s) \/ CleanupContext(s) \/ RecvChunk(s)
          PROVE  \/ sections'[d] = sections[d]
                 \/ (docOf[s] = d /\ (RecvChunk(s) \/ CleanupContext(s)))
        BY <1>0, <2>5 DEF RecvMetadata, CleanupContext, RecvChunk
    <2>6. QED
        BY <1>2, <2>2, <2>3, <2>4, <2>5, ContextSteps DEF context
<1>3. CASE Crash
    <2>1. sections'[d] = ChaptersUpTo[0]
        BY <1>3, ChaptersOneByOne DEF Crash
    <2>2. \A s \in Streams : at'[s] \notin Working
        BY <1>3 DEF Crash, Working, Receiving, Complete, Live, TypeOK
    <2>3. UpTo(d, 0)'
        BY <2>1, <2>2 DEF UpTo
    <2>4. QED
        BY <1>0, <2>3
<1>4. QED
    BY <1>0, <1>1, <1>2, <1>3 DEF OrderedInv

LEMMA HasSecsSteps ==
    ASSUME TypeOK, [Next]_ingestVars, NEW t \in Streams, HasSecs(t)'
    PROVE  GetSections(t) \/ (HasSecs(t) /\ secs'[t] = secs[t])
<1> DEFINE Goal == GetSections(t) \/ (HasSecs(t) /\ secs'[t] = secs[t])
<1> USE DEF Step, Goto, counts, copies, caller, context, tables
<1>0. /\ at \in [Streams -> Live \cup {"idle", "over"}]
      /\ secs \in [Streams -> Seq(Chapters)]
    BY DEF TypeOK
<1>1. ASSUME UNCHANGED <<events[t], secs[t]>>, at'[t] = at[t] \/ at'[t] \notin {"save", "complete"}
      PROVE  Goal
    BY <1>1 DEF HasSecs, Published
<1>2. ASSUME NEW e \in EventTypes, Publish(t, e), UNCHANGED secs, e # "completed",
             at'[t] \notin {"save", "complete"}
      PROVE  Goal
    <2>1. "completed" \in EventTypes
        BY DEF EventTypes
    <2>2. Published(t, "completed")' <=> Published(t, "completed")
        BY <1>2, <2>1, PublishedGrows
    <2>3. QED
        BY <1>2, <2>2 DEF HasSecs
<1>3. CASE Open(t)
    BY <1>0, <1>1, <1>3 DEF Open
<1>4. CASE Announce(t) \/ Tick(t) \/ PublishNoSummary(t) \/ PublishFailed(t)
    BY <1>0, <1>2, <1>4 DEF Announce, Tick, PublishNoSummary, PublishFailed, EventTypes
<1>5. CASE PublishCompleted(t)
    BY <1>5 DEF PublishCompleted, HasSecs
<1>6. CASE UpdateSections(t) \/ UpdateSectionsFails(t)
    BY <1>6 DEF UpdateSections, UpdateSectionsFails, HasSecs
<1>7. CASE Handle(t) /\ ~(Announce(t) \/ Tick(t) \/ PublishNoSummary(t) \/ PublishFailed(t)
             \/ PublishCompleted(t) \/ UpdateSections(t))
    BY <1>0, <1>1, <1>7 DEF Handle, RecvMetadata, Describe, SkipChunk, RecvChunk, Insert,
        InsertConflict, NextMessage, RecvEOF, RecvError, ReadText, Summarise,
        SummariseFails, SetRoot, CleanupContext, SendAndClose
<1>8. CASE Disturb(t) /\ ~UpdateSectionsFails(t)
    BY <1>0, <1>1, <1>8 DEF Disturb, InsertFails, NextMessage, SetRootFails, CallFails, Break
<1>9. CASE Crash
    BY <1>0, <1>1, <1>9 DEF Crash
<1>10. CASE UNCHANGED ingestVars
    BY <1>1, <1>10 DEF ingestVars
<1>11. ASSUME NEW s \in Streams, s # t, Open(s) \/ Handle(s) \/ Disturb(s) PROVE Goal
    BY <1>1, <1>11, OthersUntouched DEF own
<1>12. QED
    BY <1>3, <1>4, <1>5, <1>6, <1>7, <1>8, <1>9, <1>10, <1>11 DEF Next

\* Where a handler copies the sections, they are those of its document.
LEMMA SectionsRead ==
    ASSUME TypeOK, StoreInv, ContextInv, OrderedInv, (1..N) \ Skippable # {},
           NEW t \in Streams, GetSections(t), NoSkips(docOf[t])
    PROVE  sections[docOf[t]] = ChaptersUpTo[N]
<1>1. at[t] = "sections"
    BY DEF GetSections, Step
<1>2. Sent(t)
    BY <1>1, WholeContext DEF StoreInv, Complete
<1>3. PICK d \in Docs : d = docOf[t]
    BY DEF TypeOK
<1>4. ~\E s \in Streams : docOf[s] = d /\ Cleared(s)
    <2> SUFFICES ASSUME NEW s \in Streams, docOf[s] = d, Cleared(s) PROVE FALSE
        OBVIOUS
    <2>1. s = t
        BY <1>2, <1>3, SentOnce DEF Cleared, Sent, StoreInv
    <2>2. QED
        BY <1>1, <2>1 DEF Cleared
<1>5. PICK k \in 0..N : UpTo(d, k)
    BY <1>3, <1>4 DEF OrderedInv
<1>6. N \in 1..N /\ Behind(t, N)
    BY <1>2, IngestAssumption DEF Behind, Sent
<1>7. N <= k
    BY <1>1, <1>3, <1>5, <1>6 DEF UpTo, Working, Complete
<1>8. QED
    BY <1>3, <1>5, <1>7, IngestAssumption DEF UpTo

LEMMA SecsStep ==
    ASSUME TypeOK, [Next]_ingestVars, StoreInv, ContextInv, OrderedInv, SecsInv,
           (1..N) \ Skippable # {}
    PROVE  SecsInv'
<1> SUFFICES ASSUME NEW t \in Streams, HasSecs(t)'
             PROVE  /\ Sent(t)'
                    /\ \A i \in (1..N) \ skipped'[t] : Holds(secs'[t], i)
                    /\ NoSkips(docOf[t])' => secs'[t] = ChaptersUpTo[N]
    BY DocOfStays DEF SecsInv
<1>1. /\ Sent(t)
      /\ \A i \in (1..N) \ skipped[t] : Holds(secs'[t], i)
      /\ NoSkips(docOf[t]) => secs'[t] = ChaptersUpTo[N]
    <2>1. CASE GetSections(t)
        <3>1. at[t] = "sections" /\ secs'[t] = sections[docOf[t]]
            BY <2>1 DEF GetSections, Step, TypeOK
        <3>2. Sent(t) /\ \A i \in (1..N) \ skipped[t] : Holds(secs'[t], i)
            BY <3>1, WholeContext DEF StoreInv, Complete, InContext
        <3>3. QED
            BY <2>1, <3>1, <3>2, SectionsRead
    <2>2. CASE HasSecs(t) /\ secs'[t] = secs[t]
        BY <2>2 DEF SecsInv
    <2>3. QED
        BY <2>1, <2>2, HasSecsSteps
<1>2. Sent(t)' /\ skipped'[t] = skipped[t]
    BY <1>1, SentIsFinal DEF Sent
<1>3. NoSkips(docOf[t])' => NoSkips(docOf[t])
    BY DocOfStays, CountsGrow DEF NoSkips
<1>4. QED
    BY <1>1, <1>2, <1>3

LEMMA SectionsInit == Init => SectionsInv
<1> SUFFICES ASSUME Init PROVE SectionsInv
    OBVIOUS
<1>1. DistinctInv
    BY DEF Init, DistinctInv, Distinct
<1>2. SecsInv
    BY DEF Init, SecsInv, HasSecs, Published
<1>3. ASSUME NEW d \in Docs PROVE UpTo(d, 0)
    BY ChaptersOneByOne DEF Init, UpTo, Working, Receiving, Complete
<1>4. 0 \in 0..N
    BY IngestAssumption
<1>5. QED
    BY <1>1, <1>2, <1>3, <1>4 DEF SectionsInv, OrderedInv

LEMMA SectionsInvariant ==
    ASSUME (1..N) \ Skippable # {}
    PROVE  Spec => []SectionsInv
<1>1. Init => SectionsInv
    BY SectionsInit
<1>2. TypeOK /\ StoreInv /\ ContextInv /\ SectionsInv /\ [Next]_ingestVars => SectionsInv'
    BY DistinctStep, OrderedStep, SecsStep DEF StoreInv, SectionsInv
<1>3. QED
    BY <1>1, <1>2, ContextInvariant, PTL DEF Spec

(* A completed document has the chapters its stream sent, each once and     *)
(* none empty, and in their order if no attempt left a chunk out: the list  *)
(* ProcessChunk builds is shared by all attempts, and GetSections copies it *)
(* at a moment when no other attempt has sent the document or cleared it.   *)
THEOREM SectionsAreWhole ==
    ASSUME (1..N) \ Skippable # {}
    PROVE  Spec => []SectionsOfDocument
<1>1. SectionsInv => SectionsOfDocument
    BY DEF SectionsInv, DistinctInv, Distinct, SecsInv, HasSecs, NoSkips, Holds,
        SectionsOfDocument
<1>2. QED
    BY <1>1, SectionsInvariant, PTL
=============================================================================
