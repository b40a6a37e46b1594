------------------------ MODULE DocumentStoreProofs -------------------------
(***************************************************************************)
(* Safety of module DocumentStore for every set of documents, calls and    *)
(* attempts: its types, that two documents with the same contents are      *)
(* never both ingested, and that sections which were saved stay.           *)
(***************************************************************************)
EXTENDS DocumentStore, TLAPS

LEMMA TypeInit == Init => TypeOK
BY StoreAssumption DEF Init, TypeOK, Hashes, Statuses

LEMMA UpdateType ==
    ASSUME hash \in [Docs -> Hashes], toc \in [Docs -> BOOLEAN],
           NEW d \in Docs, NEW h \in Hashes, NEW t \in BOOLEAN, UpdateMetadata(d, h, t)
    PROVE  hash' \in [Docs -> Hashes] /\ toc' \in [Docs -> BOOLEAN]
BY DEF UpdateMetadata

LEMMA TypeStep == TypeOK /\ [Next]_storeVars => TypeOK'
<1> SUFFICES ASSUME TypeOK, [Next]_storeVars PROVE TypeOK'
    OBVIOUS
<1> USE StoreAssumption DEF TypeOK, columns, table, confirms, setters, ingestion
<1>1. ASSUME NEW d \in Docs, RequestUpload(d) \/ UploadFile(d) PROVE TypeOK'
    BY <1>1 DEF RequestUpload, UploadFile
<1>2. ASSUME NEW c \in Confirms, ConfirmUpload(c) PROVE TypeOK'
    BY <1>2 DEF ConfirmUpload, Busy
<1>3. ASSUME NEW c \in Confirms, ReadInfo(c) \/ CheckInfo(c) \/ PushTask(c) \/ ConfirmFails(c)
      PROVE  TypeOK'
    BY <1>3 DEF ReadInfo, CheckInfo, PushTask, ConfirmFails
<1>4. ASSUME NEW c \in Confirms, ReadRow(c) PROVE TypeOK'
    BY <1>4 DEF ReadRow
<1>5. ASSUME NEW c \in Confirms, WriteRow(c) PROVE TypeOK'
    <2>1. hash' \in [Docs -> Hashes] /\ toc' \in [Docs -> BOOLEAN]
        BY <1>5, UpdateType DEF WriteRow
    <2>2. QED
        BY <1>5, <2>1 DEF WriteRow, UpdateMetadata
<1>6. ASSUME NEW c \in Confirms, SetterFails(c) PROVE TypeOK'
    BY <1>6 DEF SetterFails
<1>7. ASSUME NEW a \in Attempts, Begin(a) PROVE TypeOK'
    BY <1>7 DEF Begin, Busy
<1>8. ASSUME NEW a \in Attempts, WriteMetadata(a) PROVE TypeOK'
    <2>1. Hash[attemptDoc[a]] \in Hashes
        BY DEF Hashes
    <2>2. hash' \in [Docs -> Hashes] /\ toc' \in [Docs -> BOOLEAN]
        BY <1>8, <2>1, UpdateType DEF WriteMetadata
    <2>3. QED
        BY <1>8, <2>2 DEF WriteMetadata, UpdateMetadata
<1>9. ASSUME NEW a \in Attempts, StoreChunks(a) PROVE TypeOK'
    BY <1>9 DEF StoreChunks
<1>10. ASSUME NEW a \in Attempts, UpdateSections(a) PROVE TypeOK'
    <2>1. Blank \in Hashes
        BY DEF Hashes
    <2>2. hash' \in [Docs -> Hashes] /\ toc' \in [Docs -> BOOLEAN]
        BY <1>10, <2>1, UpdateType DEF UpdateSections
    <2>3. QED
        BY <1>10, <2>2 DEF UpdateSections, UpdateMetadata
<1>11. ASSUME NEW a \in Attempts, UpdateSectionsFails(a) PROVE TypeOK'
    BY <1>11 DEF UpdateSectionsFails
<1>12. ASSUME NEW a \in Attempts, AttemptFails(a) PROVE TypeOK'
    BY <1>12 DEF AttemptFails
<1>13. CASE UNCHANGED storeVars
    BY <1>13 DEF storeVars
<1>14. QED
    BY <1>1, <1>2, <1>3, <1>4, <1>5, <1>6, <1>7, <1>8, <1>9, <1>10, <1>11, <1>12,
       <1>13 DEF Next

(* Type correctness: in particular no task is taken that is not there, and  *)
(* no file is uploaded for a document without a row.                        *)
THEOREM TypeCorrect == Spec => []TypeOK
BY TypeInit, TypeStep, PTL DEF Spec

-----------------------------------------------------------------------------
(* The invariant *)

\* A document without a row is known to nobody.
Unknown(d) ==
    /\ hash[d] = Blank
    /\ queue[d] = 0
    /\ \A c \in Confirms : confirmDoc[c] = d =>
          confirmAt[c] = "idle" /\ setterAt[c] = "off" /\ copyHash[c] = Blank
    /\ \A a \in Of(d) : attemptAt[a] = "idle"

\* The unique index.
HashesApart == \A d, e \in row : d # e => hash[d] # hash[e]

\* A row and its copies carry no other document's hash.
OwnHash ==
    /\ \A d \in Docs : hash[d] \in {Blank, Hash[d]}
    /\ \A c \in Confirms : copyHash[c] \in {Blank, Hash[confirmDoc[c]]}

\* No attempt at d got past its metadata, and no trace of its hash is left.
Fresh(d) ==
    /\ hash[d] = Blank
    /\ \A c \in Confirms : confirmDoc[c] = d => copyHash[c] = Blank
    /\ \A a \in Of(d) : attemptAt[a] \in {"idle", "metadata", "failed"}

OneIsFresh ==
    \A d, e \in row : d # e /\ Hash[d] = Hash[e] => Fresh(d) \/ Fresh(e)

ContentInv ==
    /\ \A d \in Docs \ row : Unknown(d)
    /\ HashesApart
    /\ OwnHash
    /\ OneIsFresh

-----------------------------------------------------------------------------
(* Its steps *)

LEMMA ContentInit == Init => ContentInv
BY DEF Init, ContentInv, Unknown, HashesApart, OwnHash, OneIsFresh, Of

\* No step changes which document a call or an attempt is about.
LEMMA DocsFixed ==
    ASSUME [Next]_storeVars
    PROVE  confirmDoc' = confirmDoc /\ attemptDoc' = attemptDoc
BY DEF Next, storeVars, table, columns, confirms, setters, ingestion, RequestUpload,
    UploadFile, ConfirmUpload, ReadInfo, CheckInfo, PushTask, ConfirmFails, ReadRow,
    WriteRow, SetterFails, Begin, WriteMetadata, StoreChunks, UpdateSections,
    UpdateSectionsFails, AttemptFails

LEMMA UnknownStep ==
    ASSUME TypeOK, [Next]_storeVars, \A e \in Docs \ row : Unknown(e), NEW d \in Docs \ row'
    PROVE  d \notin row /\ Unknown(d)'
<1> USE DEF TypeOK, table, columns, confirms, setters, ingestion
<1>1. row \subseteq row'
    BY DEF Next, storeVars, RequestUpload, UploadFile, ConfirmUpload, ReadInfo,
        CheckInfo, PushTask, ConfirmFails, ReadRow, WriteRow, SetterFails, Begin,
        WriteMetadata, StoreChunks, UpdateSections, UpdateSectionsFails, AttemptFails, UpdateMetadata
<1>2. d \notin row /\ Unknown(d)
    BY <1>1
<1>3. ASSUME NEW e \in Docs, RequestUpload(e) \/ UploadFile(e) PROVE Unknown(d)'
    BY <1>2, <1>3 DEF RequestUpload, UploadFile, Unknown, Of
<1>4. ASSUME NEW c \in Confirms,
             ReadInfo(c) \/ CheckInfo(c) \/ PushTask(c) \/ ConfirmFails(c) \/ ConfirmUpload(c)
      PROVE  Unknown(d)'
    <2>1. confirmDoc[c] # d
        BY <1>2, <1>4 DEF Unknown, ReadInfo, CheckInfo, PushTask, ConfirmFails, ConfirmUpload
    <2>2. QED
        BY <1>2, <1>4, <2>1 DEF Unknown, Of, ReadInfo, CheckInfo, PushTask, ConfirmFails,
            ConfirmUpload
<1>5. ASSUME NEW c \in Confirms, ReadRow(c) \/ WriteRow(c) \/ SetterFails(c)
      PROVE  Unknown(d)'
    <2>1. confirmDoc[c] # d
        BY <1>2, <1>5 DEF Unknown, ReadRow, WriteRow, SetterFails
    <2>2. QED
        BY <1>2, <1>5, <2>1 DEF Unknown, Of, ReadRow, WriteRow, SetterFails,
            UpdateMetadata
<1>6. ASSUME NEW a \in Attempts,
             Begin(a) \/ WriteMetadata(a) \/ StoreChunks(a) \/ UpdateSections(a)
             \/ UpdateSectionsFails(a) \/ AttemptFails(a)
      PROVE  Unknown(d)'
    <2>1. attemptDoc[a] # d
        <3>1. CASE Begin(a)
            BY <1>2, <3>1 DEF Unknown, Begin
        <3>2. CASE ~Begin(a)
            <4>1. attemptAt[a] # "idle"
                BY <1>6, <3>2 DEF WriteMetadata, StoreChunks, UpdateSections,
                    UpdateSectionsFails, AttemptFails
            <4>2. QED
                BY <1>2, <4>1 DEF Unknown, Of
        <3>3. QED
            BY <3>1, <3>2
    <2>2. QED
        BY <1>2, <1>6, <2>1 DEF Unknown, Of, Begin, WriteMetadata, StoreChunks,
            UpdateSections, UpdateSectionsFails, AttemptFails, UpdateMetadata
<1>7. CASE UNCHANGED storeVars
    BY <1>2, <1>7 DEF storeVars, Unknown, Of
<1>8. QED
    BY <1>2, <1>3, <1>4, <1>5, <1>6, <1>7 DEF Next

(* Only four steps touch the rows and their hashes, each under the index. *)
LEMMA HashSteps ==
    ASSUME TypeOK, [Next]_storeVars
    PROVE  \/ UNCHANGED <<row, hash>>
           \/ \E d \in Docs : RequestUpload(d)
           \/ /\ row' = row
              /\ \E d \in Docs, h \in Hashes :
                    ~Taken(d, h) /\ hash' = [hash EXCEPT ![d] = h]
<1> USE DEF TypeOK, table, columns, confirms, setters, ingestion
<1>1. ASSUME NEW c \in Confirms, WriteRow(c)
      PROVE  /\ row' = row
             /\ \E d \in Docs, h \in Hashes : ~Taken(d, h) /\ hash' = [hash EXCEPT ![d] = h]
    <2>1. confirmDoc[c] \in Docs /\ copyHash[c] \in Hashes
        OBVIOUS
    <2>2. QED
        BY <1>1, <2>1 DEF WriteRow, UpdateMetadata
<1>2. ASSUME NEW a \in Attempts, WriteMetadata(a) \/ UpdateSections(a)
      PROVE  /\ row' = row
             /\ \E d \in Docs, h \in Hashes : ~Taken(d, h) /\ hash' = [hash EXCEPT ![d] = h]
    <2>1. attemptDoc[a] \in Docs /\ Hash[attemptDoc[a]] \in Hashes /\ Blank \in Hashes
        BY DEF Hashes
    <2>2. QED
        BY <1>2, <2>1 DEF WriteMetadata, UpdateSections, UpdateMetadata
<1>3. QED
    BY <1>1, <1>2 DEF Next, storeVars, UploadFile, ConfirmUpload, ReadInfo, CheckInfo,
        PushTask, ConfirmFails, ReadRow, SetterFails, Begin, StoreChunks,
        UpdateSectionsFails, AttemptFails

LEMMA HashesApartStep ==
    ASSUME TypeOK, [Next]_storeVars, \A d \in Docs \ row : Unknown(d), HashesApart
    PROVE  HashesApart'
<1> USE DEF TypeOK, HashesApart
<1>1. CASE UNCHANGED <<row, hash>>
    BY <1>1
<1>2. ASSUME NEW d \in Docs, RequestUpload(d) PROVE HashesApart'
    BY <1>2 DEF RequestUpload, Taken, Unknown, columns
<1>3. ASSUME row' = row, NEW d \in Docs, NEW h \in Hashes, ~Taken(d, h),
             hash' = [hash EXCEPT ![d] = h]
      PROVE  HashesApart'
    BY <1>3 DEF Taken
<1>4. QED
    BY <1>1, <1>2, <1>3, HashSteps

LEMMA OwnHashStep ==
    ASSUME TypeOK, [Next]_storeVars, OwnHash
    PROVE  OwnHash'
<1> USE DEF TypeOK, OwnHash, table, columns, confirms, setters, ingestion
<1>1. ASSUME NEW c \in Confirms, ReadRow(c) PROVE OwnHash'
    BY <1>1 DEF ReadRow
<1>2. ASSUME NEW c \in Confirms, WriteRow(c) PROVE OwnHash'
    BY <1>2 DEF WriteRow, UpdateMetadata
<1>3. ASSUME NEW a \in Attempts, WriteMetadata(a) \/ UpdateSections(a) PROVE OwnHash'
    BY <1>3 DEF WriteMetadata, UpdateSections, UpdateMetadata
<1>4. CASE UNCHANGED <<hash, copyHash>>
    BY <1>4, DocsFixed
<1>5. QED
    BY <1>1, <1>2, <1>3, <1>4 DEF Next, storeVars, RequestUpload, UploadFile,
        ConfirmUpload, ReadInfo, CheckInfo, PushTask, ConfirmFails, SetterFails,
        Begin, StoreChunks, UpdateSectionsFails, AttemptFails

(* A document whose hash is in another row stays fresh. *)
LEMMA FreshStays ==
    ASSUME TypeOK, [Next]_storeVars, NEW x \in Docs, Fresh(x), Taken(x, Hash[x])
    PROVE  Fresh(x)'
<1> USE DEF TypeOK, Fresh, Of, table, columns, confirms, setters, ingestion
<1>1. ASSUME NEW c \in Confirms, ReadRow(c) PROVE Fresh(x)'
    BY <1>1 DEF ReadRow
<1>2. ASSUME NEW c \in Confirms, WriteRow(c) PROVE Fresh(x)'
    <2>1. hash'[x] = Blank
        BY <1>2 DEF WriteRow, UpdateMetadata
    <2>2. QED
        BY <1>2, <2>1 DEF WriteRow
<1>3. ASSUME NEW a \in Attempts, WriteMetadata(a) PROVE Fresh(x)'
    <2>1. attemptDoc[a] # x
        BY <1>3 DEF WriteMetadata, UpdateMetadata
    <2>2. QED
        BY <1>3, <2>1 DEF WriteMetadata, UpdateMetadata
<1>4. ASSUME NEW a \in Attempts,
             StoreChunks(a) \/ UpdateSections(a) \/ UpdateSectionsFails(a)
      PROVE  Fresh(x)'
    <2>1. attemptDoc[a] # x
        BY <1>4 DEF StoreChunks, UpdateSections, UpdateSectionsFails
    <2>2. QED
        BY <1>4, <2>1 DEF StoreChunks, UpdateSections, UpdateSectionsFails, UpdateMetadata
<1>5. ASSUME NEW a \in Attempts, Begin(a) \/ AttemptFails(a) PROVE Fresh(x)'
    BY <1>5 DEF Begin, AttemptFails
<1>6. CASE UNCHANGED <<hash, copyHash, attemptAt>>
    BY <1>6, DocsFixed
<1>7. QED
    BY <1>1, <1>2, <1>3, <1>4, <1>5, <1>6 DEF Next, storeVars, RequestUpload, UploadFile,
        ConfirmUpload, ReadInfo, CheckInfo, PushTask, ConfirmFails,
        SetterFails

LEMMA OneIsFreshStep ==
    ASSUME TypeOK, [Next]_storeVars, ContentInv
    PROVE  OneIsFresh'
<1> SUFFICES ASSUME NEW d \in Docs, NEW e \in Docs, d \in row', e \in row', d # e,
                    Hash[d] = Hash[e]
             PROVE  Fresh(d)' \/ Fresh(e)'
    BY TypeStep DEF TypeOK, OneIsFresh
<1>1. ASSUME NEW x \in Docs, NEW y \in row, x # y, Hash[x] = Hash[y], Fresh(x), x \in row
      PROVE  Fresh(x)'
    <2>1. hash[y] # Blank
        BY <1>1 DEF ContentInv, HashesApart, Fresh
    <2>2. hash[y] = Hash[x]
        BY <1>1, <2>1 DEF ContentInv, OwnHash, TypeOK
    <2>3. Taken(x, Hash[x])
        BY <1>1, <2>2 DEF Taken
    <2>4. QED
        BY <2>3, <1>1, FreshStays
<1>2. CASE d \in row /\ e \in row
    BY <1>1, <1>2 DEF ContentInv, OneIsFresh
<1>3. ASSUME NEW x \in Docs, x \in row', x \notin row PROVE Fresh(x)'
    <2>1. PICK z \in Docs : RequestUpload(z)
        BY <1>3, HashSteps
    <2>2. Unknown(x)
        BY <1>3 DEF ContentInv
    <2>3. QED
        BY <2>1, <2>2 DEF RequestUpload, columns, confirms, setters, ingestion, Unknown,
            Fresh, Of
<1>4. QED
    BY <1>2, <1>3

LEMMA ContentStep ==
    ASSUME TypeOK, [Next]_storeVars, ContentInv
    PROVE  ContentInv'
<1>1. (\A d \in Docs \ row : Unknown(d))'
    BY UnknownStep DEF ContentInv
<1>2. QED
    BY <1>1, HashesApartStep, OwnHashStep, OneIsFreshStep DEF ContentInv

(* Of two documents with the same contents one at most is ingested, however *)
(* uploads, confirmations, retries and stale writes of the row interleave:  *)
(* the second one stays fresh, its row blank, for as long as it is there.   *)
THEOREM ContentIsIngestedOnce == Spec => []OneOfEachContent
<1>1. Init => TypeOK /\ ContentInv
    BY TypeInit, ContentInit
<1>2. TypeOK /\ ContentInv /\ [Next]_storeVars => (TypeOK /\ ContentInv)'
    BY TypeStep, ContentStep
<1>3. TypeOK /\ ContentInv => OneOfEachContent
    <2> SUFFICES ASSUME ContentInv, NEW d \in Docs, NEW e \in Docs, Completed(d),
                        Completed(e), Hash[d] = Hash[e], d # e
                 PROVE  FALSE
        BY DEF OneOfEachContent
    <2>1. d \in row /\ e \in row
        BY DEF ContentInv, Unknown, Completed, Of
    <2>2. Fresh(d) \/ Fresh(e)
        BY <2>1 DEF ContentInv, OneIsFresh
    <2>3. QED
        BY <2>2 DEF Fresh, Completed, Of
<1>4. QED
    BY <1>1, <1>2, <1>3, PTL DEF Spec

-----------------------------------------------------------------------------
(* The sections of a document ingested alone *)

Setting(c, d) == confirmDoc[c] = d /\ setterAt[c] \in {"read", "write"}
Running(a)    == attemptAt[a] \in {"metadata", "chunks", "save"}

(* An attempt that is not crowded has no goroutine beside it: one that was  *)
(* at work when it began, or started since, has made it crowded.  So all    *)
(* that copy the row later find the sections in it.                         *)
Undisturbed ==
    \A a \in Attempts \ crowded : Running(a) =>
        \A c \in Confirms : ~Setting(c, attemptDoc[a])

CopiesHaveToc ==
    \A a \in Attempts : CleanlySaved(a) =>
        /\ toc[attemptDoc[a]]
        /\ \A c \in Confirms :
              confirmDoc[c] = attemptDoc[a] /\ setterAt[c] = "write" => copyToc[c]

TocInv == Undisturbed /\ CopiesHaveToc

LEMMA TocInit == Init => TocInv
BY DEF Init, TocInv, Undisturbed, Running, CopiesHaveToc, CleanlySaved

LEMMA UndisturbedStep ==
    ASSUME TypeOK, [Next]_storeVars, Undisturbed
    PROVE  Undisturbed'
<1> SUFFICES ASSUME NEW a \in Attempts \ crowded', Running(a)', NEW c \in Confirms
             PROVE  ~Setting(c, attemptDoc[a])'
    BY DocsFixed DEF Undisturbed
<1> USE DEF table, columns, confirms, setters, ingestion, Setting, Running
<1>0. /\ attemptDoc' = attemptDoc /\ confirmDoc' = confirmDoc
      /\ attemptAt \in [Attempts ->
            {"idle", "metadata", "chunks", "save", "completed", "bare", "failed"}]
      /\ setterAt \in [Confirms -> {"off", "read", "write", "ended", "failed"}]
    BY DocsFixed DEF TypeOK
<1>1. ASSUME a \notin crowded, Running(a), setterAt'[c] \in {"read", "write"} =>
                setterAt[c] \in {"read", "write"}
      PROVE  ~Setting(c, attemptDoc[a])'
    BY <1>0, <1>1 DEF Undisturbed
<1>2. ASSUME NEW d \in Docs, RequestUpload(d) \/ UploadFile(d)
      PROVE  ~Setting(c, attemptDoc[a])'
    BY <1>1, <1>2 DEF RequestUpload, UploadFile
<1>3. ASSUME NEW e \in Confirms, ConfirmUpload(e) PROVE ~Setting(c, attemptDoc[a])'
    <2>1. a \notin crowded /\ Running(a) /\ a \notin Busy(confirmDoc[e])
        BY <1>3 DEF ConfirmUpload
    <2>2. CASE e = c
        BY <1>0, <2>1, <2>2 DEF Busy
    <2>3. CASE e # c
        BY <1>0, <1>1, <1>3, <2>1, <2>3 DEF ConfirmUpload
    <2>4. QED
        BY <2>2, <2>3
<1>4. ASSUME NEW e \in Confirms,
             \/ ReadInfo(e) \/ CheckInfo(e) \/ PushTask(e) \/ ConfirmFails(e)
             \/ ReadRow(e) \/ WriteRow(e) \/ SetterFails(e)
      PROVE  ~Setting(c, attemptDoc[a])'
    BY <1>0, <1>1, <1>4 DEF ReadInfo, CheckInfo, PushTask, ConfirmFails, ReadRow, WriteRow,
        SetterFails
<1>5. ASSUME NEW b \in Attempts, Begin(b) PROVE ~Setting(c, attemptDoc[a])'
    <2>1. a \notin crowded /\ setterAt' = setterAt
        BY <1>5 DEF Begin
    <2>2. CASE a = b
        <3>1. ~AtWork(attemptDoc[a])
            BY <1>5, <2>2 DEF Begin
        <3>2. QED
            BY <1>0, <2>1, <3>1 DEF AtWork
    <2>3. CASE a # b
        BY <1>0, <1>1, <1>5, <2>1, <2>3 DEF Begin
    <2>4. QED
        BY <2>2, <2>3
<1>6. ASSUME NEW b \in Attempts,
             \/ WriteMetadata(b) \/ StoreChunks(b) \/ UpdateSections(b)
             \/ UpdateSectionsFails(b) \/ AttemptFails(b)
      PROVE  ~Setting(c, attemptDoc[a])'
    BY <1>0, <1>1, <1>6 DEF WriteMetadata, StoreChunks, UpdateSections, UpdateSectionsFails,
        AttemptFails
<1>7. CASE UNCHANGED storeVars
    BY <1>1, <1>7 DEF storeVars
<1>8. QED
    BY <1>2, <1>3, <1>4, <1>5, <1>6, <1>7 DEF Next

\* An attempt becomes cleanly saved by saving its sections only.
LEMMA SavedSteps ==
    ASSUME TypeOK, [Next]_storeVars, NEW a \in Attempts, CleanlySaved(a)'
    PROVE  CleanlySaved(a) \/ UpdateSections(a)
<1> USE DEF table, columns, confirms, setters, ingestion, CleanlySaved, Of
<1>0. /\ attemptDoc' = attemptDoc
      /\ attemptAt \in [Attempts ->
            {"idle", "metadata", "chunks", "save", "completed", "bare", "failed"}]
    BY DocsFixed DEF TypeOK
<1>1. ASSUME crowded \subseteq crowded', UNCHANGED attemptAt PROVE CleanlySaved(a)
    BY <1>0, <1>1
<1>2. ASSUME NEW b \in Attempts,
             \/ Begin(b) \/ WriteMetadata(b) \/ StoreChunks(b) \/ UpdateSectionsFails(b)
             \/ AttemptFails(b) \/ (UpdateSections(b) /\ a # b)
      PROVE  CleanlySaved(a)
    <2>1. crowded \subseteq crowded'
        BY <1>2 DEF Begin, WriteMetadata, StoreChunks, UpdateSections, UpdateSectionsFails,
            AttemptFails
    <2>2. a # b /\ attemptAt[a] = "completed"
        BY <1>0, <1>2 DEF Begin, WriteMetadata, StoreChunks, UpdateSections,
            UpdateSectionsFails, AttemptFails
    <2>3. attemptDoc[b] = attemptDoc[a] => attemptAt[b] \in {"idle", "metadata"}
        BY <1>0, <1>2, <2>2 DEF Begin, WriteMetadata, StoreChunks, UpdateSections,
            UpdateSectionsFails, AttemptFails
    <2>4. \A x \in Attempts \ {b} : attemptAt'[x] = attemptAt[x]
        BY <1>0, <1>2 DEF Begin, WriteMetadata, StoreChunks, UpdateSections,
            UpdateSectionsFails, AttemptFails
    <2>5. QED
        BY <1>0, <2>1, <2>2, <2>3, <2>4
<1>3. QED
    BY <1>1, <1>2 DEF Next, storeVars, RequestUpload, UploadFile, ConfirmUpload, ReadInfo,
        CheckInfo, PushTask, ConfirmFails, ReadRow, WriteRow, SetterFails

LEMMA CopiesStep ==
    ASSUME TypeOK, [Next]_storeVars, TocInv
    PROVE  CopiesHaveToc'
<1> SUFFICES ASSUME NEW a \in Attempts, CleanlySaved(a)'
             PROVE  /\ toc'[attemptDoc[a]]
                    /\ \A c \in Confirms :
                          confirmDoc[c] = attemptDoc[a] /\ setterAt'[c] = "write" => copyToc'[c]
    BY DocsFixed DEF CopiesHaveToc
<1> DEFINE d == attemptDoc[a]
           Goal == /\ toc'[d]
                   /\ \A c \in Confirms :
                         confirmDoc[c] = d /\ setterAt'[c] = "write" => copyToc'[c]
<1> USE DEF table, columns, confirms, setters, ingestion
<1>0. /\ toc \in [Docs -> BOOLEAN] /\ copyToc \in [Confirms -> BOOLEAN] /\ d \in Docs
      /\ setterAt \in [Confirms -> {"off", "read", "write", "ended", "failed"}]
    BY DEF TypeOK
<1>1. CASE UpdateSections(a)
    <2>1. toc'[d] /\ UNCHANGED <<setterAt, copyToc>>
        BY <1>0, <1>1 DEF UpdateSections, UpdateMetadata
    <2>2. a \notin crowded /\ Running(a)
        BY <1>1 DEF UpdateSections, CleanlySaved, Running
    <2>3. QED
        BY <2>1, <2>2 DEF TocInv, Undisturbed, Setting
<1>2. CASE CleanlySaved(a)
    <2>0. toc[d] /\ \A c \in Confirms : confirmDoc[c] = d /\ setterAt[c] = "write" => copyToc[c]
        BY <1>2 DEF TocInv, CopiesHaveToc
    <2>1. ASSUME NEW e \in Docs, RequestUpload(e) \/ UploadFile(e) PROVE Goal
        BY <2>0, <2>1 DEF RequestUpload, UploadFile
    <2>2. ASSUME NEW c \in Confirms,
                 \/ ConfirmUpload(c) \/ ReadInfo(c) \/ CheckInfo(c) \/ PushTask(c)
                 \/ ConfirmFails(c) \/ SetterFails(c)
          PROVE  Goal
        BY <1>0, <2>0, <2>2 DEF ConfirmUpload, ReadInfo, CheckInfo, PushTask, ConfirmFails,
            SetterFails
    <2>3. ASSUME NEW c \in Confirms, ReadRow(c) PROVE Goal
        BY <1>0, <2>0, <2>3 DEF ReadRow
    <2>4. ASSUME NEW c \in Confirms, WriteRow(c) PROVE Goal
        <3>1. /\ setterAt[c] = "write" /\ setterAt' = [setterAt EXCEPT ![c] = "ended"]
              /\ toc' = [toc EXCEPT ![confirmDoc[c]] = copyToc[c]] /\ copyToc' = copyToc
            BY <2>4 DEF WriteRow, UpdateMetadata
        <3>2. QED
            BY <1>0, <2>0, <3>1
    <2>5. ASSUME NEW b \in Attempts, WriteMetadata(b) PROVE Goal
        <3>1. attemptDoc[b] # d
            <4>1. attemptAt'[b] = "chunks"
                BY <2>5 DEF WriteMetadata, TypeOK
            <4>2. QED
                BY <4>1, DocsFixed DEF CleanlySaved, Of
        <3>2. toc' = [toc EXCEPT ![attemptDoc[b]] = FALSE] /\ UNCHANGED setters
            BY <2>5 DEF WriteMetadata, UpdateMetadata
        <3>3. QED
            BY <1>0, <2>0, <3>1, <3>2
    <2>6. ASSUME NEW b \in Attempts, UpdateSections(b) PROVE Goal
        <3>1. toc' = [toc EXCEPT ![attemptDoc[b]] = TRUE] /\ UNCHANGED setters
            BY <2>6 DEF UpdateSections, UpdateMetadata
        <3>2. QED
            BY <1>0, <2>0, <3>1
    <2>7. ASSUME NEW b \in Attempts,
                 Begin(b) \/ StoreChunks(b) \/ UpdateSectionsFails(b) \/ AttemptFails(b)
          PROVE  Goal
        BY <2>0, <2>7 DEF Begin, StoreChunks, UpdateSectionsFails, AttemptFails
    <2>8. CASE UNCHANGED storeVars
        BY <2>0, <2>8 DEF storeVars
    <2>9. QED
        BY <2>1, <2>2, <2>3, <2>4, <2>5, <2>6, <2>7, <2>8 DEF Next
<1>3. QED
    BY <1>1, <1>2, SavedSteps

(* Whatever copies of the row the goroutines of later confirmations write   *)
(* back with UpdateMetadata, the sections of a document that was ingested   *)
(* alone stay in it.                                                        *)
THEOREM SectionsStaySaved == Spec => []TableOfContentsKept
<1>1. Init => TypeOK /\ TocInv
    BY TypeInit, TocInit
<1>2. TypeOK /\ TocInv /\ [Next]_storeVars => (TypeOK /\ TocInv)'
    BY TypeStep, UndisturbedStep, CopiesStep DEF TocInv
<1>3. TocInv => TableOfContentsKept
    BY DEF TocInv, CopiesHaveToc, TableOfContentsKept
<1>4. QED
    BY <1>1, <1>2, <1>3, PTL DEF Spec
=============================================================================
