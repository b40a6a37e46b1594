---------------------------- MODULE ParserProofs ----------------------------
(***************************************************************************)
(* Proofs about the parser and its chunk generator, for documents of any   *)
(* blocks and any size of batch.                                           *)
(***************************************************************************)
EXTENDS Parser, TLAPS, WellFoundedInduction

-----------------------------------------------------------------------------
(* The chunk generator *)

(* The sections sent are increasing and below the next one, each section    *)
(* before that was sent or failed, and the generator goes on only while the *)
(* failures are few.                                                        *)
Increasing == \A a, b \in 1..Len(sent) : a < b => sent[a] < sent[b]
CountsInv ==
    /\ next \in Nat \ {0} /\ batch \in Nat /\ failed \in Nat
    /\ sent \in Seq(Nat)
    /\ \A a \in 1..Len(sent) : sent[a] < next
    /\ Increasing
    /\ Len(sent) + failed = next - 1
StageInv ==
    /\ status \in {"loading", "parsing"} => next = 1 /\ batch = 0 /\ failed = 0
    /\ status = "chunking" => next <= Len(Valid) + 1 /\ batch <= Len(Valid)
    /\ status = "ended" => next = Len(Valid) + 1
    /\ status \in {"chunking", "ended"} => failed <= MaxFailures
    /\ batch > 0 => rag
ChunkInv == CountsInv /\ StageInv

LEMMA ValidLength == Len(Valid) \in Nat /\ Len(Valid)' \in Nat
BY DEF Valid

LEMMA Sizes == BatchSize \in Nat \ {0} /\ Keys \in Nat \ {0} /\ MaxFailures \in Nat
BY ParserAssumption

LEMMA ParseKeepsChunks ==
    ASSUME ChunkInv, Parse
    PROVE  ChunkInv'
<1>1. UNCHANGED <<chunking, given>>
    BY DEF Parse, Start, StartRaises, LoadModelFails, OpenFails, NoFont, Refuse, TrimRun,
        AddText, OpenSections, PassBlock, TitleAlone, TakeTextAhead, LookPastPage, NextPage,
        Parsed
<1>2. CountsInv'
    BY <1>1 DEF ChunkInv, CountsInv, Increasing, chunking
<1>3. /\ status \in {"loading", "parsing"}
      /\ status' \in {"parsing", "chunking", "raised"}
    BY DEF Parse, Start, StartRaises, LoadModelFails, OpenFails, NoFont, Refuse, TrimRun,
        AddText, OpenSections, PassBlock, TitleAlone, TakeTextAhead, LookPastPage, NextPage,
        Parsed, Looking
<1>4. next' = 1 /\ batch' = 0 /\ failed' = 0
    BY <1>1, <1>3 DEF ChunkInv, StageInv, chunking
<1>5. StageInv'
    BY <1>3, <1>4, ValidLength, Sizes DEF StageInv
<1>6. QED
    BY <1>2, <1>5 DEF ChunkInv

\* Two sums the proofs need.
LEMMA Beyond ==
    ASSUME NEW x \in Nat, NEW n \in Nat, NEW b \in Nat, NEW l \in Nat, x < n, b > l
    PROVE  x < n + (b - l) - 1
OBVIOUS

LEMMA Total ==
    ASSUME NEW l \in Nat, NEW f \in Nat, NEW n \in Nat, NEW e \in Nat, l + f = n - 1
    PROVE  (l + (e - n + 1)) + f = (e + 1) - 1
OBVIOUS

\* What is sent next is appended in order.
LEMMA SendOne ==
    ASSUME CountsInv, sent' = Append(sent, next)
    PROVE  /\ sent' \in Seq(Nat) /\ Len(sent') = Len(sent) + 1
           /\ \A a \in 1..Len(sent') : sent'[a] < next + 1
           /\ \A a, b \in 1..Len(sent') : a < b => sent'[a] < sent'[b]
<1>1. /\ Len(sent') = Len(sent) + 1 /\ Len(sent) \in Nat /\ sent' \in Seq(Nat)
      /\ sent'[Len(sent) + 1] = next
      /\ \A a \in 1..Len(sent) : sent'[a] = sent[a] /\ sent[a] \in Nat /\ sent[a] < next
    BY DEF CountsInv
<1>2. \A a \in 1..Len(sent') : a \in 1..Len(sent) \/ a = Len(sent) + 1
    BY <1>1
<1>3. next \in Nat
    BY DEF CountsInv
<1>4. \A a \in 1..Len(sent') : sent'[a] < next + 1
    BY <1>1, <1>2, <1>3
<1>5. ASSUME NEW a \in 1..Len(sent'), NEW b \in 1..Len(sent'), a < b
      PROVE  sent'[a] < sent'[b]
    <2>1. a \in 1..Len(sent)
        BY <1>1, <1>5
    <2>2. CASE b \in 1..Len(sent)
        BY <1>1, <1>5, <2>1, <2>2 DEF CountsInv, Increasing
    <2>3. CASE b = Len(sent) + 1
        BY <1>1, <2>1, <2>3
    <2>4. QED
        BY <1>2, <2>2, <2>3
<1>6. QED
    BY <1>1, <1>4, <1>5

\* A whole batch is appended in order.
LEMMA SendBatch ==
    ASSUME CountsInv, next <= Len(Valid), sent' = sent \o Batch
    PROVE  /\ BatchEnd \in next..Len(Valid)
           /\ sent' \in Seq(Nat) /\ Len(sent') = Len(sent) + (BatchEnd - next + 1)
           /\ \A a \in 1..Len(sent') : sent'[a] < BatchEnd + 1
           /\ \A a, b \in 1..Len(sent') : a < b => sent'[a] < sent'[b]
<1>1. BatchEnd \in next..Len(Valid) /\ next \in Nat \ {0} /\ BatchEnd \in Nat
    BY ValidLength, Sizes DEF BatchEnd, CountsInv
<1>2. /\ Batch \in Seq(Nat) /\ Len(Batch) = BatchEnd - next + 1
      /\ \A k \in 1..(BatchEnd - next + 1) : Batch[k] = next + k - 1
    BY <1>1 DEF Batch
<1> HIDE DEF Batch
<1>3. /\ sent' \in Seq(Nat) /\ Len(sent) \in Nat /\ Len(sent') = Len(sent) + Len(Batch)
      /\ \A a \in 1..Len(sent) : sent'[a] = sent[a] /\ sent[a] \in Nat /\ sent[a] < next
      /\ \A a \in 1..Len(sent') : a > Len(sent) => sent'[a] = Batch[a - Len(sent)]
    <2>1. sent \in Seq(Nat) /\ \A a \in 1..Len(sent) : sent[a] < next
        BY DEF CountsInv
    <2>2. PICK new \in Seq(Nat) : new = Batch
        BY <1>2
    <2>3. sent' = sent \o new
        BY <2>2
    <2>4. QED
        BY <2>1, <2>2, <2>3
<1>4. ASSUME NEW a \in 1..Len(sent'), a > Len(sent)
      PROVE  sent'[a] = next + (a - Len(sent)) - 1
    <2>1. a - Len(sent) \in 1..(BatchEnd - next + 1)
        BY <1>1, <1>2, <1>3, <1>4
    <2>2. QED
        BY <1>2, <1>3, <1>4, <2>1
<1>5. ASSUME NEW a \in 1..Len(sent') PROVE sent'[a] < BatchEnd + 1
    <2>1. CASE a > Len(sent)
        BY <1>1, <1>2, <1>3, <1>4, <2>1
    <2>2. CASE a <= Len(sent)
        <3>1. a \in 1..Len(sent)
            BY <1>3, <2>2
        <3>2. QED
            BY <1>1, <1>3, <3>1
    <2>3. QED
        BY <1>3, <2>1, <2>2
<1>6. ASSUME NEW a \in 1..Len(sent'), NEW b \in 1..Len(sent'), a < b
      PROVE  sent'[a] < sent'[b]
    <2>1. CASE b <= Len(sent)
        <3>1. a \in 1..Len(sent) /\ b \in 1..Len(sent)
            BY <1>3, <1>6, <2>1
        <3>2. QED
            BY <1>3, <1>6, <3>1 DEF CountsInv, Increasing
    <2>2. CASE b > Len(sent)
        <3>1. CASE a <= Len(sent)
            <4>1. a \in 1..Len(sent)
                BY <1>3, <3>1
            <4>2. sent'[a] < next /\ sent'[a] \in Nat
                BY <1>3, <4>1
            <4>3. sent'[b] = next + (b - Len(sent)) - 1 /\ b \in Nat
                BY <1>4, <2>2
            <4>4. next \in Nat /\ Len(sent) \in Nat
                BY <1>1, <1>3
            <4>5. sent'[a] < next + (b - Len(sent)) - 1
                BY <2>2, <4>2, <4>3, <4>4, Beyond
            <4>6. QED
                BY <4>3, <4>5
        <3>2. CASE a > Len(sent)
            BY <1>1, <1>3, <1>4, <1>6, <2>2, <3>2
        <3>3. QED
            BY <1>3, <3>1, <3>2
    <2>3. QED
        BY <1>3, <2>1, <2>2
<1>7. QED
    BY <1>1, <1>2, <1>3, <1>5, <1>6

LEMMA GenerateKeepsChunks ==
    ASSUME ChunkInv, Generate
    PROVE  ChunkInv'
<1>a. status = "chunking" /\ UNCHANGED <<given, sections>>
    BY DEF Generate, YieldPlain, EncodeBatch, BatchFails, EncodeOne, OneFails, Exhausted
<1>b. Len(Valid)' = Len(Valid)
    BY <1>a DEF Valid
<1>0. /\ CountsInv /\ StageInv /\ status = "chunking"
      /\ Len(Valid)' = Len(Valid) /\ Len(Valid) \in Nat /\ UNCHANGED rag
      /\ MaxFailures \in Nat
    BY <1>a, <1>b, ValidLength, Sizes DEF ChunkInv, given
<1> USE DEF chunking
<1>1. CASE YieldPlain \/ EncodeOne
    <2>1. /\ sent' = Append(sent, next) /\ next' = next + 1 /\ next <= Len(Valid)
          /\ UNCHANGED <<batch, failed, status>>
        BY <1>0, <1>1 DEF YieldPlain, EncodeOne, StageInv, CountsInv
    <2>2. CountsInv'
        BY <1>0, <2>1, SendOne DEF CountsInv, Increasing
    <2>3. StageInv'
        BY <1>0, <2>1 DEF StageInv, CountsInv
    <2>4. QED
        BY <2>2, <2>3 DEF ChunkInv
<1>2. CASE EncodeBatch
    <2>1. /\ sent' = sent \o Batch /\ next' = BatchEnd + 1 /\ next <= Len(Valid)
          /\ UNCHANGED <<batch, failed, status>>
        BY <1>2 DEF EncodeBatch
    <2>2. BatchEnd \in next..Len(Valid) /\ BatchEnd \in Nat
        BY <1>0, <2>1, SendBatch DEF CountsInv
    <2>3. CountsInv'
        <3>1. /\ sent' \in Seq(Nat) /\ Len(sent') = Len(sent) + (BatchEnd - next + 1)
              /\ \A a \in 1..Len(sent') : sent'[a] < next'
              /\ Increasing'
            BY <1>0, <2>1, SendBatch DEF Increasing
        <3>2. /\ next \in Nat /\ Len(sent) \in Nat /\ failed \in Nat /\ batch \in Nat
              /\ Len(sent) + failed = next - 1
            BY <1>0 DEF CountsInv
        <3>3. Len(sent') + failed = (BatchEnd + 1) - 1 /\ BatchEnd + 1 \in Nat \ {0}
            <4>1. (Len(sent) + (BatchEnd - next + 1)) + failed = (BatchEnd + 1) - 1
                BY <2>2, <3>2, Total
            <4>2. QED
                BY <2>2, <3>1, <4>1
        <3>4. QED
            BY <2>1, <2>2, <3>1, <3>2, <3>3 DEF CountsInv
    <2>4. StageInv'
        BY <1>0, <2>1, <2>2 DEF StageInv, CountsInv
    <2>5. QED
        BY <2>3, <2>4 DEF ChunkInv
<1>3. CASE BatchFails
    <2>1. /\ batch' = BatchEnd /\ next <= Len(Valid) /\ rag
          /\ UNCHANGED <<sent, next, failed, status>>
        BY <1>3 DEF BatchFails
    <2>2. BatchEnd \in 0..Len(Valid)
        BY <1>0, <2>1, ValidLength, Sizes DEF BatchEnd, CountsInv
    <2>3. QED
        BY <1>0, <2>1, <2>2 DEF ChunkInv, CountsInv, StageInv, Increasing
<1>4. CASE OneFails
    <2>1. /\ failed' = failed + 1 /\ next' = next + 1 /\ next <= batch
          /\ status' = IF failed + 1 > MaxFailures THEN "raised" ELSE status
          /\ UNCHANGED <<batch, sent>>
        BY <1>4 DEF OneFails
    <2>2. CountsInv'
        <3>1. \A a \in 1..Len(sent) : sent[a] \in Nat /\ sent[a] < next
            BY <1>0 DEF CountsInv
        <3>2. \A a \in 1..Len(sent) : sent[a] < next + 1
            BY <1>0, <3>1 DEF CountsInv
        <3>3. QED
            BY <1>0, <2>1, <3>2 DEF CountsInv, Increasing
    <2>3. StageInv'
        BY <1>0, <2>1 DEF StageInv, CountsInv
    <2>4. QED
        BY <2>2, <2>3 DEF ChunkInv
<1>5. CASE Exhausted
    <2>1. status' = "ended" /\ next > Len(Valid) /\ UNCHANGED chunking
        BY <1>5 DEF Exhausted
    <2>2. QED
        BY <1>0, <2>1 DEF ChunkInv, CountsInv, StageInv, Increasing
<1>6. QED
    BY <1>1, <1>2, <1>3, <1>4, <1>5 DEF Generate

LEMMA ChunkInvariant == Spec => []ChunkInv
<1>1. Init => ChunkInv
    BY ValidLength, Sizes DEF Init, ChunkInv, CountsInv, StageInv, Increasing
<1>2. ChunkInv /\ [Next]_vars => ChunkInv'
    <2>1. CASE UNCHANGED vars
        <3>1. UNCHANGED <<chunking, status, sections, rag>>
            BY <2>1 DEF vars, given
        <3>2. Valid' = Valid
            BY <3>1 DEF Valid
        <3>3. QED
            BY <3>1, <3>2 DEF chunking, ChunkInv, CountsInv, StageInv, Increasing
    <2>2. QED
        BY <2>1, ParseKeepsChunks, GenerateKeepsChunks DEF Next
<1>3. QED
    BY <1>1, <1>2, PTL DEF Spec

(* What process_and_vectorize yields is in the order of the sections and    *)
(* without repetition, whatever batches fail and are tried one by one, and  *)
(* a generator that comes to its end has left out MaxFailures at most.      *)
THEOREM ChunksAreAccounted == Spec => []ChunksAccountedFor
<1>1. ChunkInv => ChunksAccountedFor
    <2> SUFFICES ASSUME ChunkInv PROVE ChunksAccountedFor
        OBVIOUS
    <2>1. DOMAIN sent = 1..Len(sent) /\ Len(sent) \in Nat
        BY DEF ChunkInv, CountsInv
    <2>2. \A a, b \in DOMAIN sent : a < b => sent[a] < sent[b]
        BY <2>1 DEF ChunkInv, CountsInv, Increasing
    <2>3. status = "ended" => Len(Valid) - Len(sent) <= MaxFailures
        BY <2>1, ValidLength, Sizes DEF ChunkInv, CountsInv, StageInv
    <2>4. QED
        BY <2>2, <2>3 DEF ChunksAccountedFor, ChunkInv, CountsInv
<1>2. QED
    BY <1>1, ChunkInvariant, PTL

-----------------------------------------------------------------------------
(* What raises *)

(* The loop is in a page of the document, and starts at its first block.    *)
PlaceInv ==
    /\ doc \in Seq(Seq(Shapes))
    /\ page \in 1..Len(doc)
    /\ i \in 1..(Len(doc[page]) + 1)
    /\ status = "loading" => page = 1 /\ i = 1

\* A set of natural numbers that is not empty has a least element.
LEMMA Least ==
    ASSUME NEW S \in SUBSET Nat, S # {}
    PROVE  Smallest(S) \in S /\ \A y \in S : Smallest(S) <= y
<1> DEFINE R == OpToRel(<, Nat)
<1>1. IsWellFoundedOn(R, Nat)
    BY NatLessThanWellFounded
<1>2. \A x, y \in Nat : x < y => <<x, y>> \in R
    BY DEF OpToRel
<1> HIDE DEF R
<1>3. \E x \in S : \A y \in S : ~(<<y, x>> \in R)
    BY <1>1, WFMin
<1>4. \E x \in S : \A y \in S : x <= y
    <2>1. PICK x \in S : \A y \in S : ~(<<y, x>> \in R)
        BY <1>3
    <2>2. ASSUME NEW y \in S PROVE x <= y
        <3>1. x \in Nat /\ y \in Nat /\ ~(y < x)
            BY <1>2, <2>1
        <3>2. QED
            BY <3>1
    <2>3. QED
        BY <2>2
<1>5. QED
    BY <1>4 DEF Smallest

\* A run of blocks to be trimmed ends on the page.
LEMMA RunEndsOnPage ==
    ASSUME PlaceInv, Looking(i), Trims
    PROVE  RunEnd \in i..Len(doc[page])
<1> DEFINE L == Len(doc[page])
           Ends == {e \in i..L : e < L => ~Trimmable(Block(e + 1))}
           m == Smallest(Ends)
<1>1. doc[page] \in Seq(Shapes) /\ L \in Nat /\ i \in 1..L
    BY DEF PlaceInv, Looking
<1>2. L \in Ends /\ Ends \subseteq Nat
    BY <1>1
<1>3. m \in Ends /\ \A e \in Ends : m <= e
    <2>1. PICK S \in SUBSET Nat : S = Ends
        BY <1>2
    <2>2. QED
        BY <1>2, <2>1, Least
<1> HIDE DEF m
<1>4. ASSUME NEW n \in i..m PROVE Trimmable(Block(n))
    <2>1. CASE n = i
        BY <2>1 DEF Trims
    <2>2. CASE n > i
        <3>1. n - 1 \in i..L /\ n - 1 < m /\ (n - 1) + 1 = n /\ n - 1 < L
            BY <1>1, <1>3, <2>2
        <3>2. n - 1 \notin Ends
            BY <1>1, <1>3, <3>1
        <3>3. QED
            BY <3>1, <3>2
    <2>3. QED
        BY <1>1, <1>3, <2>1, <2>2
<1>5. m \in i..L /\ (m < L => ~Trimmable(Block(m + 1)))
    BY <1>3
<1>6. QED
    BY <1>4, <1>5 DEF RunEnd

LEMMA PlaceInvariant == Spec => []PlaceInv
<1>1. Init => PlaceInv
    <2> SUFFICES ASSUME Init PROVE PlaceInv
        OBVIOUS
    <2>1. doc \in Documents
        BY DEF Init
    <2>2. doc \in Seq(Seq(Shapes)) /\ 1 \in 1..Len(doc)
        <3>1. \A n \in Nat : \A p \in Pages(n) : p \in Seq(Shapes)
            BY DEF Pages
        <3>2. CASE doc \in UNION {{<<p>> : p \in Pages(n)} : n \in 1..MaxBlocks}
            <4>1. PICK n \in 1..MaxBlocks : doc \in {<<p>> : p \in Pages(n)}
                BY <3>2
            <4>2. PICK p \in Pages(n) : doc = <<p>>
                BY <4>1
            <4>3. p \in Seq(Shapes)
                BY <3>1, ParserAssumption
            <4>4. QED
                BY <4>2, <4>3
        <3>3. CASE \E m \in (1..MaxBlocks) \X (1..MaxBlocks) : doc \in Pages(m[1]) \X Pages(m[2])
            <4>1. PICK m \in (1..MaxBlocks) \X (1..MaxBlocks) : doc \in Pages(m[1]) \X Pages(m[2])
                BY <3>3
            <4>2. PICK p \in Pages(m[1]), q \in Pages(m[2]) : doc = <<p, q>>
                BY <4>1
            <4>3. p \in Seq(Shapes) /\ q \in Seq(Shapes)
                BY <3>1, ParserAssumption
            <4>4. QED
                BY <4>2, <4>3
        <3>4. CASE doc \in UNION {Pages(n[1]) \X Pages(n[2]) :
                   n \in {m \in (1..MaxBlocks) \X (1..MaxBlocks) : m[1] + m[2] < MaxBlocks}}
            <4>1. PICK m \in (1..MaxBlocks) \X (1..MaxBlocks) :
                      doc \in Pages(m[1]) \X Pages(m[2])
                BY <3>4
            <4>2. QED
                BY <3>3, <4>1
        <3>5. doc \in UNION {{<<p>> : p \in Pages(n)} : n \in 1..MaxBlocks}
              \/ doc \in UNION {Pages(n[1]) \X Pages(n[2]) :
                     n \in {m \in (1..MaxBlocks) \X (1..MaxBlocks) : m[1] + m[2] < MaxBlocks}}
            BY <2>1, Zenon DEF Documents
        <3>6. QED
            BY <3>2, <3>4, <3>5, Zenon
    <2>3. QED
        BY <2>2 DEF Init, PlaceInv
<1>2. PlaceInv /\ [Next]_vars => PlaceInv'
    <2> SUFFICES ASSUME PlaceInv, [Next]_vars PROVE PlaceInv'
        OBVIOUS
    <2>1. CASE UNCHANGED vars
        BY <2>1 DEF vars, given, PlaceInv
    <2>2. CASE Start \/ StartRaises \/ LookPastPage
        BY <2>2 DEF Start, StartRaises, LoadModelFails, OpenFails, NoFont, Refuse,
            LookPastPage, given, PlaceInv
    <2>3. CASE AddText \/ OpenSections \/ PassBlock
        BY <2>3 DEF AddText, OpenSections, PassBlock, Looking, given, PlaceInv
    <2>4. CASE TrimRun
        <3>1. RunEnd \in i..Len(doc[page]) /\ i \in 1..Len(doc[page]) /\ Len(doc[page]) \in Nat
            BY <2>4, RunEndsOnPage DEF TrimRun, PlaceInv, Looking
        <3>2. i' = RunEnd + 1 /\ status = "parsing" /\ UNCHANGED <<doc, page, status>>
            BY <2>4 DEF TrimRun, given, Looking
        <3>3. QED
            BY <3>1, <3>2 DEF PlaceInv
    <2>5. CASE TakeTextAhead
        <3>1. /\ status = "parsing" /\ UNCHANGED <<doc, page, status>>
              /\ i \in DOMAIN doc[page]
              /\ Ahead <= Keys => Ahead \in DOMAIN doc[page]
              /\ i' = IF Found THEN Ahead + 1 ELSE i + 1
              /\ Found => Ahead <= Keys
            BY <2>5 DEF TakeTextAhead, TitleAlone, Looking, Found, given
        <3>2. doc[page] \in Seq(Shapes)
            BY DEF PlaceInv
        <3>3. i' \in 1..(Len(doc[page]) + 1)
            BY <3>1, <3>2
        <3>4. QED
            BY <3>1, <3>3 DEF PlaceInv
    <2>6. CASE NextPage
        BY <2>6 DEF NextPage, given, PlaceInv
    <2>7. CASE Parsed
        BY <2>7 DEF Parsed, given, PlaceInv
    <2>8. CASE Generate
        BY <2>8 DEF Generate, YieldPlain, EncodeBatch, BatchFails, EncodeOne,
            OneFails, Exhausted, given, PlaceInv
    <2>9. QED
        BY <2>1, <2>2, <2>3, <2>4, <2>5, <2>6, <2>7, <2>8 DEF Next, Parse
<1>3. QED
    BY <1>1, <1>2, PTL DEF Spec


(* A search that runs past a page finds that its last block has no text.    *)
LEMMA PastPage ==
    ASSUME PlaceInv, TitleAlone, Ahead <= Keys, Ahead > Len(doc[page])
    PROVE  Len(doc[page]) < Keys /\ ContentAt(Len(doc[page])) = <<>>
<1> DEFINE L == Len(doc[page])
           Stops == {n \in (i + 1)..(i + L + Keys) :
                       \/ n > Keys \/ n > L
                       \/ ContentAt(n) # <<>> \/ TitlesAt(n) # <<>>}
<1>1. doc[page] \in Seq(Shapes) /\ L \in Nat /\ i \in 1..L /\ Keys \in Nat \ {0}
    BY Sizes DEF PlaceInv, TitleAlone, Looking
<1>2. L + 1 \in Stops /\ Stops \subseteq Nat
    BY <1>1
<1>3. Ahead = Smallest(Stops)
    BY DEF Ahead
<1>4. Ahead \in Stops /\ \A n \in Stops : Ahead <= n
    <2>1. PICK S \in SUBSET Nat : S = Stops
        BY <1>2
    <2>2. QED
        BY <1>2, <1>3, <2>1, Least
<1>5. L < Keys
    BY <1>1, <1>2, <1>4
<1>6. ContentAt(L) = <<>>
    <2>1. CASE i = L
        BY <2>1 DEF TitleAlone
    <2>2. CASE i < L
        <3>1. L \in (i + 1)..(i + L + Keys)
            BY <1>1, <2>2
        <3>2. L \notin Stops
            <4>1. ~(Ahead <= L)
                BY <1>1, <1>2, <1>4
            <4>2. QED
                BY <1>4, <4>1
        <3>3. QED
            BY <3>1, <3>2
    <2>3. QED
        BY <1>1, <2>1, <2>2
<1>7. QED
    BY <1>5, <1>6

\* What is found in a block depends on the document and its fonts only.
LEMMA ContentStays ==
    ASSUME UNCHANGED <<doc, few, page>>
    PROVE  ContentAt(Len(doc[page]))' = ContentAt(Len(doc[page]))
<1>1. PICK b : b = Block(Len(doc[page])) /\ b = Block(Len(doc[page]))'
    BY DEF Block
<1>2. PICK f : f = Filtered(b) /\ f = Filtered(b)'
    BY DEF Filtered, OddChars
<1>3. PICK body : body = Body(Block(Len(doc[page]))) /\ body = Body(Block(Len(doc[page])))'
    BY <1>1, <1>2 DEF Body
<1>4. QED
    BY <1>3 DEF ContentAt, At

(* Parsing raises for no other reason than these: the model, a document     *)
(* without text, the search for a title's text beyond a page of fewer       *)
(* blocks than Keys, or more failures than are borne.                       *)
THEOREM RaisesOnlyForReasons == Spec => []RaisesOnlyIf
<1>1. Init => RaisesOnlyIf
    BY DEF Init, RaisesOnlyIf
<1>2. PlaceInv /\ ChunkInv /\ RaisesOnlyIf /\ [Next]_vars => RaisesOnlyIf'
    <2> SUFFICES ASSUME PlaceInv, ChunkInv, RaisesOnlyIf, [Next]_vars, status' = "raised"
                 PROVE  RaisesOnlyIf'
        BY DEF RaisesOnlyIf
    <2>1. CASE UNCHANGED vars
        <3>1. UNCHANGED <<doc, few, rag, readable, status, page, i, failed>>
            BY <2>1 DEF vars, given, chunking
        <3>2. Lines' = Lines
            BY <3>1 DEF Lines
        <3>3. ContentAt(Len(doc[page]))' = ContentAt(Len(doc[page]))
            BY <3>1, ContentStays
        <3>4. QED
            BY <3>1, <3>2, <3>3 DEF RaisesOnlyIf
    <2>2. CASE StartRaises
        <3>1. /\ status = "loading" /\ UNCHANGED <<doc, rag, readable, page, i>>
              /\ rag \/ ~readable \/ Textless
            BY <2>2 DEF StartRaises, LoadModelFails, OpenFails, NoFont, Refuse, given
        <3>2. page' = 1 /\ i' = 1
            BY <3>1 DEF PlaceInv
        <3>3. CASE rag
            BY <3>1, <3>2, <3>3 DEF RaisesOnlyIf
        <3>4. CASE Textless
            <4>1. \A x \in Lines : FALSE
                BY <3>4 DEF Lines, Textless
            <4>2. Lines' = Lines
                BY <3>1 DEF Lines
            <4>3. QED
                BY <4>1, <4>2 DEF RaisesOnlyIf
        <3>5. CASE ~readable
            BY <3>1, <3>5 DEF RaisesOnlyIf
        <3>6. QED
            BY <3>1, <3>3, <3>4, <3>5
    <2>3. CASE LookPastPage
        <3>1. /\ TitleAlone /\ Ahead <= Keys /\ Ahead > Len(doc[page])
              /\ UNCHANGED <<doc, few, page>>
            BY <2>3 DEF LookPastPage, given
        <3>2. Len(doc[page]) < Keys /\ ContentAt(Len(doc[page])) = <<>>
            BY <3>1, PastPage
        <3>3. ContentAt(Len(doc[page]))' = ContentAt(Len(doc[page]))
            BY <3>1, ContentStays
        <3>4. QED
            BY <3>1, <3>2, <3>3 DEF RaisesOnlyIf
    <2>4. CASE OneFails
        <3>1. failed' = failed + 1 /\ next <= batch /\ status = "chunking" /\ rag' = rag
            BY <2>4 DEF OneFails, given
        <3>2. failed + 1 > MaxFailures
            BY <2>4, <3>1 DEF OneFails
        <3>3. rag
            BY <3>1 DEF ChunkInv, CountsInv, StageInv
        <3>4. QED
            BY <3>1, <3>2, <3>3 DEF RaisesOnlyIf
    <2>5. CASE Start \/ TrimRun \/ AddText \/ OpenSections \/ PassBlock
               \/ TakeTextAhead \/ NextPage \/ Parsed
        <3>1. status' # "raised"
            BY <2>5 DEF Start, TrimRun, AddText, OpenSections, PassBlock, TakeTextAhead,
                TitleAlone, NextPage, Parsed, Looking
        <3>2. QED
            BY <3>1
    <2>6. CASE YieldPlain \/ EncodeBatch \/ BatchFails \/ EncodeOne \/ Exhausted
        <3>1. status' # "raised"
            BY <2>6 DEF YieldPlain, EncodeBatch, BatchFails, EncodeOne, Exhausted
        <3>2. QED
            BY <3>1
    <2>7. QED
        BY <2>1, <2>2, <2>3, <2>4, <2>5, <2>6 DEF Next, Parse, Generate
<1>3. QED
    BY <1>1, <1>2, PlaceInvariant, ChunkInvariant, PTL DEF Spec

-----------------------------------------------------------------------------
(* What is found in a block *)

LEMMA KindsOfLines ==
    /\ Kinds = {"blank", "number", "title", "text", "odd", "table"}
    /\ Chars["blank"] = 0 /\ Chars["number"] = 2 /\ Chars["title"] = 12
    /\ Chars["text"] = 60 /\ Chars["odd"] = 30 /\ Chars["table"] = 120
BY DEF Kinds, Chars

\* The titles ts of the lines of block from l on: each is of some of these
\* lines, they are in order, and a line that looks like a title is in one of
\* them unless a blank line stands before it.
TitlesTyped(block, ts) == ts \in Seq(Seq(1..Len(block)))
TitlesFromOn(l, ts) ==
    \A k \in 1..Len(ts) : ts[k] # <<>> /\ \A a \in 1..Len(ts[k]) : ts[k][a] >= l
TitlesSorted(ts) ==
    \A j, k \in 1..Len(ts) : j < k =>
        \A a \in 1..Len(ts[j]), b \in 1..Len(ts[k]) : ts[j][a] < ts[k][b]
InTitle(m, ts) == \E k \in 1..Len(ts) : \E a \in 1..Len(ts[k]) : ts[k][a] = m
TitlesComplete(block, l, ts) ==
    \A m \in l..Len(block) : m <= 4 /\ block[m] \in {"number", "title"} =>
        InTitle(m, ts) \/ \E n \in l..m : block[n] = "blank"
TitlesOk(block, l, ts) ==
    /\ TitlesTyped(block, ts) /\ TitlesFromOn(l, ts)
    /\ TitlesSorted(ts) /\ TitlesComplete(block, l, ts)

\* A title t of the lines from l to e goes before those of the lines after e.
Covers(t, l, e) ==
    /\ t # <<>>
    /\ \A a \in 1..Len(t) : t[a] \in l..e
    /\ \A m \in l..e : \E a \in 1..Len(t) : t[a] = m

LEMMA EntryOfEntry ==
    ASSUME NEW S, NEW ts \in Seq(Seq(S)), NEW k \in 1..Len(ts), NEW a \in 1..Len(ts[k])
    PROVE  ts[k][a] \in S
OBVIOUS

LEMMA Between ==
    ASSUME NEW l \in Nat, NEW e \in Nat, l <= e, NEW x \in l..e, NEW y \in Nat, y > e
    PROVE  x < y /\ l <= y
OBVIOUS

LEMMA TitleBefore ==
    ASSUME NEW block \in Seq(Kinds), NEW l \in Nat \ {0}, NEW e \in Nat, l <= e,
           NEW t \in Seq(1..Len(block)), Covers(t, l, e),
           NEW ts, TitlesOk(block, e + 1, ts)
    PROVE  TitlesOk(block, l, <<t>> \o ts)
<1> DEFINE all == <<t>> \o ts
<1>0. ts \in Seq(Seq(1..Len(block))) /\ all \in Seq(Seq(1..Len(block)))
    BY DEF TitlesOk, TitlesTyped
<1>1. /\ Len(ts) \in Nat /\ Len(all) = Len(ts) + 1
      /\ all[1] = t /\ \A k \in 1..Len(ts) : all[k + 1] = ts[k]
    BY DEF TitlesOk, TitlesTyped
<1>2. \A k \in 1..Len(all) : k = 1 \/ (k - 1 \in 1..Len(ts) /\ all[k] = ts[k - 1])
    BY <1>1
<1> HIDE DEF all
<1>3. ASSUME NEW k \in 1..Len(ts), NEW a \in 1..Len(ts[k])
      PROVE  ts[k][a] \in Nat /\ ts[k][a] > e
    <2>1. ts[k][a] >= e + 1
        BY DEF TitlesOk, TitlesFromOn
    <2>2. ts[k][a] \in 1..Len(block)
        BY <1>0, EntryOfEntry
    <2>3. QED
        BY <2>1, <2>2
<1>4. TitlesFromOn(l, all)
    <2> SUFFICES ASSUME NEW k \in 1..Len(all)
                 PROVE  all[k] # <<>> /\ \A a \in 1..Len(all[k]) : all[k][a] >= l
        BY DEF TitlesFromOn
    <2>1. CASE k = 1
        BY <1>1, <2>1 DEF Covers
    <2>2. CASE k # 1
        <3>1. k - 1 \in 1..Len(ts) /\ all[k] = ts[k - 1]
            BY <1>2, <2>2
        <3>2. all[k] # <<>>
            BY <3>1 DEF TitlesOk, TitlesFromOn
        <3>3. ASSUME NEW a \in 1..Len(all[k]) PROVE all[k][a] >= l
            <4>1. all[k][a] \in Nat /\ all[k][a] > e
                BY <1>3, <3>1
            <4>2. QED
                BY <4>1
        <3>4. QED
            BY <3>2, <3>3
    <2>3. QED
        BY <2>1, <2>2
<1>5. ASSUME NEW j \in 1..Len(all), NEW k \in 1..Len(all), j < k,
             NEW a \in 1..Len(all[j]), NEW b \in 1..Len(all[k])
      PROVE  all[j][a] < all[k][b]
    <2>1. k - 1 \in 1..Len(ts) /\ all[k] = ts[k - 1]
        BY <1>1, <1>2, <1>5
    <2>2. CASE j = 1
        <3>1. all[j][a] \in l..e
            BY <1>1, <2>2 DEF Covers
        <3>2. all[k][b] \in Nat /\ all[k][b] > e
            BY <1>3, <2>1
        <3>3. QED
            BY <3>1, <3>2, Between
    <2>3. CASE j # 1
        <3>1. j - 1 \in 1..Len(ts) /\ all[j] = ts[j - 1]
            BY <1>2, <2>3
        <3>2. j - 1 < k - 1
            BY <1>1, <1>5
        <3>3. QED
            BY <2>1, <3>1, <3>2 DEF TitlesOk, TitlesSorted
    <2>4. QED
        BY <2>2, <2>3
<1>6. ASSUME NEW m \in l..Len(block), m <= 4, block[m] \in {"number", "title"}
      PROVE  InTitle(m, all) \/ \E n \in l..m : block[n] = "blank"
    <2>1. CASE m <= e
        <3>1. \E a \in 1..Len(all[1]) : all[1][a] = m
            BY <1>1, <2>1 DEF Covers
        <3>2. QED
            BY <1>1, <3>1 DEF InTitle
    <2>2. CASE m > e
        <3>1. m \in (e + 1)..Len(block)
            BY <2>2
        <3>2. InTitle(m, ts) \/ \E n \in (e + 1)..m : block[n] = "blank"
            BY <1>6, <3>1 DEF TitlesOk, TitlesComplete
        <3>3. CASE InTitle(m, ts)
            <4>1. PICK k \in 1..Len(ts) : \E a \in 1..Len(ts[k]) : ts[k][a] = m
                BY <3>3 DEF InTitle
            <4>2. k + 1 \in 1..Len(all) /\ all[k + 1] = ts[k]
                BY <1>1
            <4>3. QED
                BY <4>1, <4>2 DEF InTitle
        <3>4. CASE \E n \in (e + 1)..m : block[n] = "blank"
            BY <3>4
        <3>5. QED
            BY <3>2, <3>3, <3>4
    <2>3. QED
        BY <2>1, <2>2
<1>7. QED
    BY <1>0, <1>4, <1>5, <1>6 DEF TitlesOk, TitlesTyped, TitlesSorted, TitlesComplete, all

LEMMA TitlesLookSo == IsTitle("number") /\ IsTitle("title")
BY KindsOfLines DEF IsTitle

LEMMA TitlesStep ==
    ASSUME NEW block \in Seq(Kinds), NEW l \in 1..4, NEW r, NEW s,
           TitlesOk(block, l + 1, r), TitlesOk(block, l + 2, s)
    PROVE  TitlesOk(block, l, TitlesFrom(block, l, r, s))
<1>1. CASE l > Len(block) \/ block[l] = "blank"
    <2>1. TitlesFrom(block, l, r, s) = <<>>
        BY <1>1 DEF TitlesFrom
    <2>2. TitlesComplete(block, l, <<>>)
        <3>1. CASE l > Len(block)
            BY <3>1 DEF TitlesComplete
        <3>2. CASE block[l] = "blank"
            <4>1. \A m \in l..Len(block) : l \in l..m
                OBVIOUS
            <4>2. QED
                BY <3>2, <4>1 DEF TitlesComplete
        <3>3. QED
            BY <1>1, <3>1, <3>2
    <2>3. QED
        BY <2>1, <2>2 DEF TitlesOk, TitlesTyped, TitlesFromOn, TitlesSorted
<1>2. CASE l <= Len(block) /\ block[l] # "blank" /\ ~IsTitle(block[l])
    <2>1. TitlesFrom(block, l, r, s) = r
        BY <1>2 DEF TitlesFrom
    <2>2. block[l] \notin {"number", "title"}
        BY <1>2, TitlesLookSo
    <2>3. TitlesComplete(block, l, r)
        <3> SUFFICES ASSUME NEW m \in l..Len(block), m <= 4, block[m] \in {"number", "title"}
                     PROVE  InTitle(m, r) \/ \E n \in l..m : block[n] = "blank"
            BY DEF TitlesComplete
        <3>1. m \in (l + 1)..Len(block)
            BY <2>2
        <3>2. InTitle(m, r) \/ \E n \in (l + 1)..m : block[n] = "blank"
            BY <3>1 DEF TitlesOk, TitlesComplete
        <3>3. (l + 1)..m \subseteq l..m
            OBVIOUS
        <3>4. QED
            BY <3>2, <3>3
    <2>4. TitlesFromOn(l, r)
        <3>1. \A k \in 1..Len(r) : \A a \in 1..Len(r[k]) : r[k][a] \in 1..Len(block)
            BY DEF TitlesOk, TitlesTyped
        <3>2. QED
            BY <3>1 DEF TitlesOk, TitlesFromOn
    <2>5. QED
        BY <2>1, <2>3, <2>4 DEF TitlesOk
<1>3. CASE l <= Len(block) /\ block[l] # "blank" /\ IsTitle(block[l])
    <2>1. CASE block[l] = "number" /\ l < Len(block) /\ block[l + 1] = "title"
        <3>1. TitlesFrom(block, l, r, s) = <<<<l, l + 1>>>> \o s
            BY <1>3, <2>1 DEF TitlesFrom
        <3>2. TitlesOk(block, (l + 1) + 1, s)
            BY (l + 1) + 1 = l + 2
        <3>3. <<l, l + 1>> \in Seq(1..Len(block)) /\ Covers(<<l, l + 1>>, l, l + 1)
            <4> DEFINE t == <<l, l + 1>>
            <4>1. Len(t) = 2 /\ t[1] = l /\ t[2] = l + 1 /\ t # <<>>
                OBVIOUS
            <4>2. \A a \in 1..2 : a = 1 \/ a = 2
                OBVIOUS
            <4>3. l \in 1..Len(block) /\ l + 1 \in 1..Len(block)
                BY <2>1
            <4>4. t \in Seq(1..Len(block))
                BY <4>3
            <4> HIDE DEF t
            <4>5. Covers(t, l, l + 1)
                BY <4>1, <4>2 DEF Covers
            <4>6. QED
                BY <4>4, <4>5 DEF t
        <3>4. PICK t \in Seq(1..Len(block)) : t = <<l, l + 1>> /\ Covers(t, l, l + 1)
            BY <3>3
        <3>5. TitlesOk(block, l, <<t>> \o s)
            <4>1. PICK e \in Nat : e = l + 1
                OBVIOUS
            <4>2. TitlesOk(block, e + 1, s) /\ Covers(t, l, e) /\ l <= e /\ l \in Nat \ {0}
                BY <3>2, <3>4, <4>1
            <4>3. QED
                BY <4>2, TitleBefore
        <3>6. QED
            BY <3>1, <3>4, <3>5
    <2>2. CASE ~(block[l] = "number" /\ l < Len(block) /\ block[l + 1] = "title")
        <3>1. TitlesFrom(block, l, r, s) = <<<<l>>>> \o r
            BY <1>3, <2>2 DEF TitlesFrom
        <3>2. <<l>> \in Seq(1..Len(block)) /\ Covers(<<l>>, l, l)
            <4> DEFINE t == <<l>>
            <4>1. Len(t) = 1 /\ t[1] = l /\ t # <<>> /\ t \in Seq(1..Len(block))
                BY <1>3
            <4> HIDE DEF t
            <4>2. Covers(t, l, l)
                BY <4>1 DEF Covers
            <4>3. QED
                BY <4>1, <4>2 DEF t
        <3>3. PICK t \in Seq(1..Len(block)) : t = <<l>> /\ Covers(t, l, l)
            BY <3>2
        <3>4. TitlesOk(block, l, <<t>> \o r)
            <4>1. PICK e \in Nat : e = l
                OBVIOUS
            <4>2. TitlesOk(block, e + 1, r) /\ Covers(t, l, e) /\ l <= e /\ l \in Nat \ {0}
                BY <3>3, <4>1
            <4>3. QED
                BY <4>2, TitleBefore
        <3>5. QED
            BY <3>1, <3>3, <3>4
    <2>3. QED
        BY <2>1, <2>2
<1>4. QED
    BY <1>1, <1>2, <1>3

LEMMA TitlesFound ==
    ASSUME NEW block \in Seq(Kinds)
    PROVE  TitlesOk(block, 1, Titles(block))
<1> DEFINE F(l, r, s) == TitlesFrom(block, l, r, s)
           f4 == F(4, <<>>, <<>>)
           f3 == F(3, f4, <<>>)
           f2 == F(2, f3, f4)
           f1 == F(1, f2, f3)
           g == [l \in 1..6 |-> IF l = 1 THEN f1 ELSE IF l = 2 THEN f2 ELSE IF l = 3 THEN f3
                                ELSE IF l = 4 THEN f4 ELSE <<>>]
<1>1. \A l \in 5..6 : \A r, s : F(l, r, s) = <<>>
    BY DEF TitlesFrom
<1>2. TitlesOk(block, 5, <<>>) /\ TitlesOk(block, 6, <<>>)
    BY DEF TitlesOk, TitlesTyped, TitlesFromOn, TitlesSorted, TitlesComplete
<1> HIDE DEF F
<1>3. g = [l \in 1..6 |-> F(l, g[l + 1], g[l + 2])]
    <2>1. /\ g[1] = f1 /\ g[2] = f2 /\ g[3] = f3 /\ g[4] = f4 /\ g[5] = <<>> /\ g[6] = <<>>
        OBVIOUS
    <2> HIDE DEF g
    <2>2. \A l \in 1..6 : g[l] = F(l, g[l + 1], g[l + 2])
        BY <1>1, <2>1
    <2>3. g = [l \in 1..6 |-> g[l]]
        BY DEF g
    <2>4. QED
        BY <2>2, <2>3
<1>4. PICK f : /\ Titles(block) = f[1]
               /\ f = [l \in 1..6 |-> TitlesFrom(block, l, f[l + 1], f[l + 2])]
    <2> HIDE DEF g
    <2>1. g = [l \in 1..6 |-> TitlesFrom(block, l, g[l + 1], g[l + 2])]
        BY <1>3 DEF F
    <2>2. QED
        BY <2>1 DEF Titles
<1>5. /\ f[5] = <<>> /\ f[6] = <<>>
      /\ \A l \in 1..4 : f[l] = TitlesFrom(block, l, f[l + 1], f[l + 2])
    BY <1>1, <1>4 DEF F
<1>6. TitlesOk(block, 4, f[4])
    BY <1>2, <1>5, TitlesStep
<1>7. TitlesOk(block, 3, f[3])
    BY <1>2, <1>5, <1>6, TitlesStep
<1>8. TitlesOk(block, 2, f[2])
    BY <1>5, <1>6, <1>7, TitlesStep
<1>9. TitlesOk(block, 1, f[1])
    BY <1>5, <1>7, <1>8, TitlesStep
<1>10. QED
    BY <1>4, <1>9

LEMMA SetInduction ==
    ASSUME NEW S, 0 \in S, \A n \in Nat : n \in S => n + 1 \in S
    PROVE  Nat \subseteq S
<1>1. SUFFICES ASSUME Nat \ S # {} PROVE FALSE
    OBVIOUS
<1>2. PICK x \in Nat \ S : \A y \in Nat \ S : x <= y
    <2>1. PICK T \in SUBSET Nat : T = Nat \ S
        OBVIOUS
    <2>2. QED
        BY <1>1, <2>1, Least
<1>3. x # 0 /\ x - 1 \in Nat /\ x - 1 < x /\ (x - 1) + 1 = x
    BY <1>2
<1>4. x - 1 \in S
    BY <1>2, <1>3
<1>5. QED
    BY <1>2, <1>3, <1>4

\* The lines c of those up to n that are kept, in order.
KeptOk(block, first, filtered, n, c) ==
    /\ c \in Seq(1..n)
    /\ \A a, b \in 1..Len(c) : a < b => c[a] < c[b]
    /\ \A l \in first..n : Chars[block[l]] > 0 /\ (filtered => Chars[block[l]] < 50) =>
          \E a \in 1..Len(c) : c[a] = l

LEMMA KeepNone ==
    ASSUME NEW block, NEW first \in Nat \ {0}, NEW filtered, NEW n \in Nat, n < first
    PROVE  KeptOk(block, first, filtered, n, <<>>)
BY DEF KeptOk

LEMMA KeepNext ==
    ASSUME NEW block, NEW first \in Nat \ {0}, NEW filtered, NEW n \in Nat, NEW c,
           KeptOk(block, first, filtered, n, c)
    PROVE  KeptOk(block, first, filtered, n + 1, Append(c, n + 1))
<1> DEFINE d == Append(c, n + 1)
<1>1. /\ c \in Seq(1..n) /\ Len(c) \in Nat /\ Len(d) = Len(c) + 1 /\ d[Len(c) + 1] = n + 1
      /\ \A a \in 1..Len(c) : d[a] = c[a] /\ c[a] \in 1..n
    BY DEF KeptOk
<1>2. d \in Seq(1..(n + 1))
    <2>1. 1..n \subseteq 1..(n + 1) /\ n + 1 \in 1..(n + 1)
        OBVIOUS
    <2>2. c \in Seq(1..(n + 1))
        BY <1>1, <2>1
    <2>3. QED
        BY <2>1, <2>2
<1>3. \A a \in 1..Len(d) : a \in 1..Len(c) \/ a = Len(c) + 1
    BY <1>1
<1> HIDE DEF d
<1>4. ASSUME NEW a \in 1..Len(d), NEW b \in 1..Len(d), a < b PROVE d[a] < d[b]
    <2>1. a \in 1..Len(c)
        BY <1>1, <1>4
    <2>2. CASE b \in 1..Len(c)
        BY <1>1, <1>4, <2>1, <2>2 DEF KeptOk
    <2>3. CASE b = Len(c) + 1
        BY <1>1, <2>1, <2>3
    <2>4. QED
        BY <1>3, <2>2, <2>3
<1>5. ASSUME NEW l \in first..(n + 1), Chars[block[l]] > 0 /\ (filtered => Chars[block[l]] < 50)
      PROVE  \E a \in 1..Len(d) : d[a] = l
    <2>1. CASE l = n + 1
        BY <1>1, <2>1
    <2>2. CASE l # n + 1
        <3>1. l \in first..n
            BY <2>2
        <3>2. PICK a \in 1..Len(c) : c[a] = l
            BY <1>5, <3>1 DEF KeptOk
        <3>3. a \in 1..Len(d) /\ d[a] = l
            BY <1>1, <3>2
        <3>4. QED
            BY <3>3
    <2>3. QED
        BY <2>1, <2>2
<1>6. QED
    BY <1>2, <1>4, <1>5 DEF KeptOk, d

LEMMA KeepNot ==
    ASSUME NEW block, NEW first \in Nat \ {0}, NEW filtered, NEW n \in Nat, NEW c,
           KeptOk(block, first, filtered, n, c),
           ~(Chars[block[n + 1]] > 0 /\ (filtered => Chars[block[n + 1]] < 50))
    PROVE  KeptOk(block, first, filtered, n + 1, c)
<1>1. c \in Seq(1..(n + 1))
    <2>1. 1..n \subseteq 1..(n + 1) /\ c \in Seq(1..n)
        BY DEF KeptOk
    <2>2. QED
        BY <2>1
<1>2. ASSUME NEW l \in first..(n + 1), Chars[block[l]] > 0 /\ (filtered => Chars[block[l]] < 50)
      PROVE  \E a \in 1..Len(c) : c[a] = l
    <2>1. l # n + 1
        BY <1>2
    <2>2. l \in first..n
        BY <2>1
    <2>3. QED
        BY <1>2, <2>2 DEF KeptOk
<1>3. QED
    BY <1>1, <1>2 DEF KeptOk

LEMMA KeptLines ==
    ASSUME NEW block, Len(block) \in Nat, NEW first \in Nat \ {0}, NEW filtered
    PROVE  KeptOk(block, first, filtered, Len(block), Kept(block, first, filtered))
<1> DEFINE U(l, c) == IF l < first THEN <<>>
                      ELSE IF Chars[block[l]] > 0 /\ (filtered => Chars[block[l]] < 50)
                           THEN Append(c, l)
                           ELSE c
           Def(g, k) == g = [l \in 0..k |-> U(l, g[l - 1])]
           S == {k \in Nat : \E g : Def(g, k)}
<1>a. \A c : U(0, c) = <<>>
    OBVIOUS
<1>b. ASSUME NEW n \in Nat, NEW c, KeptOk(block, first, filtered, n, c)
      PROVE  KeptOk(block, first, filtered, n + 1, U(n + 1, c))
    <2>1. CASE n + 1 < first
        BY <2>1, KeepNone
    <2>2. CASE /\ n + 1 >= first
               /\ Chars[block[n + 1]] > 0 /\ (filtered => Chars[block[n + 1]] < 50)
        BY <1>b, <2>2, KeepNext
    <2>3. CASE /\ n + 1 >= first
               /\ ~(Chars[block[n + 1]] > 0 /\ (filtered => Chars[block[n + 1]] < 50))
        BY <1>b, <2>3, KeepNot
    <2>4. QED
        BY <2>1, <2>2, <2>3
<1>c. ASSUME NEW g, g = [l \in 0..Len(block) |-> U(l, g[l - 1])]
      PROVE  \E f : /\ Kept(block, first, filtered) = f[Len(block)]
                    /\ f = [l \in 0..Len(block) |-> U(l, f[l - 1])]
    BY <1>c DEF Kept
<1> HIDE DEF U
<1>1. 0 \in S
    <2>1. PICK g : g = [l \in 0..0 |-> <<>>]
        OBVIOUS
    <2>2. \A l \in 0..0 : g[l] = U(l, g[l - 1])
        BY <1>a, <2>1
    <2>3. Def(g, 0)
        BY <2>1, <2>2
    <2>4. QED
        BY <2>3
<1>2. \A n \in Nat : n \in S => n + 1 \in S
    <2> SUFFICES ASSUME NEW n \in Nat, n \in S PROVE n + 1 \in S
        OBVIOUS
    <2>1. PICK g : Def(g, n)
        OBVIOUS
    <2> DEFINE h == [l \in 0..(n + 1) |-> IF l = n + 1 THEN U(n + 1, g[n]) ELSE g[l]]
    <2>2. \A l \in 0..(n + 1) : h[l] = U(l, h[l - 1])
        <3> SUFFICES ASSUME NEW l \in 0..(n + 1) PROVE h[l] = U(l, h[l - 1])
            OBVIOUS
        <3>1. CASE l = n + 1
            <4>1. h[n] = g[n] /\ h[n + 1] = U(n + 1, g[n]) /\ l - 1 = n
                BY <3>1
            <4>2. QED
                BY <3>1, <4>1
        <3>2. CASE l # n + 1 /\ l # 0
            <4>1. l \in 0..n /\ l - 1 \in 0..n
                BY <3>2
            <4>2. g[l] = U(l, g[l - 1])
                BY <2>1, <4>1
            <4>3. h[l] = g[l] /\ h[l - 1] = g[l - 1]
                BY <4>1, <3>2
            <4>4. QED
                BY <4>2, <4>3
        <3>3. CASE l = 0
            <4>1. 0 \in 0..n /\ 0 \in 0..(n + 1) /\ 0 # n + 1
                OBVIOUS
            <4>2. h[0] = g[0]
                BY <4>1
            <4>3. g[0] = <<>> /\ U(0, h[0 - 1]) = <<>>
                BY <1>a, <2>1, <4>1
            <4>4. QED
                BY <3>3, <4>2, <4>3
        <3>4. QED
            BY <3>1, <3>2, <3>3
    <2>3. Def(h, n + 1)
        <3> HIDE DEF h
        <3>1. h = [l \in 0..(n + 1) |-> h[l]]
            BY DEF h
        <3>2. QED
            BY <2>2, <3>1
    <2> HIDE DEF Def
    <2>4. QED
        BY <2>3
<1>3. PICK g : Def(g, Len(block))
    <2> HIDE DEF S, Def
    <2>1. Nat \subseteq S
        BY <1>1, <1>2, SetInduction
    <2>2. QED
        BY <2>1 DEF S
<1>4. PICK f : /\ Kept(block, first, filtered) = f[Len(block)]
               /\ f = [l \in 0..Len(block) |-> U(l, f[l - 1])]
    BY <1>3, <1>c
<1> DEFINE Q == {k \in Nat : k <= Len(block) => KeptOk(block, first, filtered, k, f[k])}
<1>5. 0 \in Q
    <2>1. f[0] = <<>>
        BY <1>a, <1>4
    <2>2. KeptOk(block, first, filtered, 0, <<>>)
        BY KeepNone
    <2>3. QED
        BY <2>1, <2>2
<1>6. \A n \in Nat : n \in Q => n + 1 \in Q
    <2> SUFFICES ASSUME NEW n \in Nat, n \in Q, n + 1 <= Len(block)
                 PROVE  KeptOk(block, first, filtered, n + 1, f[n + 1])
        OBVIOUS
    <2>1. KeptOk(block, first, filtered, n, f[n])
        OBVIOUS
    <2>2. f[n + 1] = U(n + 1, f[n])
        <3>1. n + 1 \in 0..Len(block) /\ (n + 1) - 1 = n
            OBVIOUS
        <3>2. QED
            BY <1>4, <3>1
    <2>3. QED
        BY <1>b, <2>1, <2>2
<1> HIDE DEF Q
<1>7. Nat \subseteq Q
    BY <1>5, <1>6, SetInduction
<1>8. QED
    BY <1>4, <1>7 DEF Q

LEMMA FirstOnBlock ==
    ASSUME NEW block \in Seq(Kinds), block # <<>>
    PROVE  First(block) \in 1..Len(block) /\ \A l \in Text(block) : First(block) <= l
<1>1. CASE Text(block) = {}
    BY <1>1 DEF First
<1>2. CASE Text(block) # {}
    <2>1. Text(block) \in SUBSET Nat /\ Text(block) \subseteq 1..Len(block)
        BY DEF Text
    <2>2. Smallest(Text(block)) \in Text(block)
          /\ \A l \in Text(block) : Smallest(Text(block)) <= l
        BY <1>2, <2>1, Least
    <2>3. QED
        BY <1>2, <2>1, <2>2 DEF First
<1>3. QED
    BY <1>1, <1>2

(* The text of a block: some of its lines in order, those in the font of    *)
(* the text among them unless the block is filtered.                        *)
LEMMA BodyFound ==
    ASSUME NEW block \in Seq(Kinds)
    PROVE  /\ Body(block) \in Seq(1..Len(block))
           /\ \A a, b \in 1..Len(Body(block)) : a < b => Body(block)[a] < Body(block)[b]
           /\ \A l \in 1..Len(block) : block[l] = "text" =>
                 Filtered(block) \/ \E a \in 1..Len(Body(block)) : Body(block)[a] = l
<1>1. CASE block = <<>>
    BY <1>1 DEF Body
<1>2. CASE block # <<>>
    <2>1. First(block) \in 1..Len(block) /\ \A l \in Text(block) : First(block) <= l
        BY <1>2, FirstOnBlock
    <2>2. PICK body : body = Body(block)
        OBVIOUS
    <2>3. KeptOk(block, First(block), Filtered(block), Len(block), body)
        BY <1>2, <2>1, <2>2, KeptLines DEF Body
    <2>4. ASSUME NEW l \in 1..Len(block), block[l] = "text", ~Filtered(block)
          PROVE  \E a \in 1..Len(body) : body[a] = l
        <3>1. l \in First(block)..Len(block)
            BY <2>1, <2>4 DEF Text
        <3>2. Chars[block[l]] > 0
            BY <2>4, KindsOfLines
        <3>3. QED
            BY <2>3, <2>4, <3>1, <3>2 DEF KeptOk
    <2>5. QED
        BY <2>2, <2>3, <2>4 DEF KeptOk
<1>3. QED
    BY <1>1, <1>2

\* The lines of the text c, or of the title, are of block n on page p.
InBlock(c, p, n) == \A a \in 1..Len(c) : c[a][1] = p /\ c[a][2] = n /\ c[a][3] \in Nat

LEMMA BlockOnPage ==
    ASSUME PlaceInv, NEW n \in 1..Len(doc[page])
    PROVE  /\ Block(n) \in Seq(Kinds)
           /\ \A l \in 1..Len(Block(n)) : <<page, n, l>> \in Lines
<1>1. doc[page] \in Seq(Shapes) /\ page \in DOMAIN doc /\ n \in DOMAIN doc[page]
    BY DEF PlaceInv
<1>2. doc[page][n] \in Shapes
    BY <1>1
<1>3. doc[page][n] \in Seq(Kinds)
    BY <1>2, ParserAssumption
<1>4. \A l \in 1..Len(doc[page][n]) : l \in DOMAIN doc[page][n]
    BY <1>3
<1>5. QED
    BY <1>1, <1>3, <1>4 DEF Block, Lines

LEMMA LinesAt ==
    ASSUME PlaceInv, NEW n \in 1..Len(doc[page]), NEW ls \in Seq(1..Len(Block(n)))
    PROVE  /\ At(n, ls) \in Seq(Lines) /\ Len(At(n, ls)) = Len(ls)
           /\ \A a \in 1..Len(ls) : At(n, ls)[a] = <<page, n, ls[a]>>
           /\ InBlock(At(n, ls), page, n)
<1>1. At(n, ls) = [k \in 1..Len(ls) |-> <<page, n, ls[k]>>]
    BY DEF At
<1>2. \A k \in 1..Len(ls) : <<page, n, ls[k]>> \in Lines /\ ls[k] \in Nat
    <2> SUFFICES ASSUME NEW k \in 1..Len(ls)
                 PROVE  <<page, n, ls[k]>> \in Lines /\ ls[k] \in Nat
        OBVIOUS
    <2>1. ls[k] \in 1..Len(Block(n))
        OBVIOUS
    <2>2. QED
        BY <2>1, BlockOnPage
<1>3. At(n, ls) \in Seq(Lines) /\ Len(At(n, ls)) = Len(ls)
    BY <1>1, <1>2
<1>4. \A a \in 1..Len(ls) : At(n, ls)[a] = <<page, n, ls[a]>>
    BY <1>1
<1>5. InBlock(At(n, ls), page, n)
    BY <1>2, <1>3, <1>4 DEF InBlock
<1>6. QED
    BY <1>3, <1>4, <1>5

LEMMA ContentFound ==
    ASSUME PlaceInv, NEW n \in 1..Len(doc[page])
    PROVE  /\ ContentAt(n) \in Seq(Lines) /\ InBlock(ContentAt(n), page, n)
           /\ \A a, b \in 1..Len(ContentAt(n)) :
                 a < b => ContentAt(n)[a][3] < ContentAt(n)[b][3]
           /\ \A l \in 1..Len(Block(n)) : Block(n)[l] = "text" =>
                 \/ Filtered(Block(n))
                 \/ \E a \in 1..Len(ContentAt(n)) : ContentAt(n)[a] = <<page, n, l>>
<1>1. PICK body : body = Body(Block(n))
    OBVIOUS
<1>2. /\ body \in Seq(1..Len(Block(n)))
      /\ \A a, b \in 1..Len(body) : a < b => body[a] < body[b]
      /\ \A l \in 1..Len(Block(n)) : Block(n)[l] = "text" =>
            Filtered(Block(n)) \/ \E a \in 1..Len(body) : body[a] = l
    BY <1>1, BlockOnPage, BodyFound
<1>3. PICK c : c = At(n, body)
    OBVIOUS
<1>4. /\ c \in Seq(Lines) /\ Len(c) = Len(body) /\ InBlock(c, page, n)
      /\ \A a \in 1..Len(body) : c[a] = <<page, n, body[a]>>
    BY <1>2, <1>3, LinesAt
<1>5. \A a, b \in 1..Len(c) : a < b => c[a][3] < c[b][3]
    BY <1>2, <1>4
<1>6. \A l \in 1..Len(Block(n)) : Block(n)[l] = "text" =>
         Filtered(Block(n)) \/ \E a \in 1..Len(c) : c[a] = <<page, n, l>>
    BY <1>2, <1>4
<1>7. c = ContentAt(n)
    BY <1>1, <1>3 DEF ContentAt
<1>8. QED
    BY <1>4, <1>5, <1>6, <1>7

LEMMA TitlesFoundAt ==
    ASSUME PlaceInv, NEW n \in 1..Len(doc[page])
    PROVE  /\ TitlesAt(n) \in Seq(Seq(Lines))
           /\ \A k \in 1..Len(TitlesAt(n)) :
                 TitlesAt(n)[k] # <<>> /\ InBlock(TitlesAt(n)[k], page, n)
           /\ \A j, k \in 1..Len(TitlesAt(n)) : j < k =>
                 \A a \in 1..Len(TitlesAt(n)[j]), b \in 1..Len(TitlesAt(n)[k]) :
                    TitlesAt(n)[j][a][3] < TitlesAt(n)[k][b][3]
           /\ \A l \in 1..Len(Block(n)) : l <= 4 /\ Block(n)[l] \in {"number", "title"} =>
                 \/ InTitle(<<page, n, l>>, TitlesAt(n))
                 \/ \E m \in 1..l : Block(n)[m] = "blank"
<1>1. PICK ts : ts = Titles(Block(n))
    OBVIOUS
<1>2. TitlesOk(Block(n), 1, ts) /\ ts \in Seq(Seq(1..Len(Block(n)))) /\ Len(ts) \in Nat
    BY <1>1, BlockOnPage, TitlesFound DEF TitlesOk, TitlesTyped
<1>3. PICK all : all = TitlesAt(n)
    OBVIOUS
<1>4. all = [k \in 1..Len(ts) |-> At(n, ts[k])]
    BY <1>1, <1>2, <1>3 DEF TitlesAt
<1>5. \A k \in 1..Len(ts) : ts[k] \in Seq(1..Len(Block(n)))
    BY <1>2
<1>6. \A k \in 1..Len(ts) :
         /\ all[k] \in Seq(Lines) /\ Len(all[k]) = Len(ts[k]) /\ InBlock(all[k], page, n)
         /\ \A a \in 1..Len(ts[k]) : all[k][a] = <<page, n, ts[k][a]>>
    BY <1>4, <1>5, LinesAt
<1>7. all \in Seq(Seq(Lines)) /\ Len(all) = Len(ts)
    BY <1>2, <1>4, <1>6
<1>8. \A k \in 1..Len(all) : all[k] # <<>> /\ InBlock(all[k], page, n)
    <2> SUFFICES ASSUME NEW k \in 1..Len(all) PROVE all[k] # <<>>
        BY <1>6, <1>7
    <2>1. k \in 1..Len(ts) /\ ts[k] # <<>>
        BY <1>2, <1>7 DEF TitlesOk, TitlesFromOn
    <2>2. Len(all[k]) = Len(ts[k]) /\ Len(ts[k]) # 0
        BY <1>5, <1>6, <2>1
    <2>3. QED
        BY <2>2
<1>9. ASSUME NEW j \in 1..Len(all), NEW k \in 1..Len(all), j < k,
             NEW a \in 1..Len(all[j]), NEW b \in 1..Len(all[k])
      PROVE  all[j][a][3] < all[k][b][3]
    <2>1. ts[j][a] < ts[k][b]
        BY <1>2, <1>6, <1>7, <1>9 DEF TitlesOk, TitlesSorted
    <2>2. all[j][a] = <<page, n, ts[j][a]>> /\ all[k][b] = <<page, n, ts[k][b]>>
        BY <1>6, <1>7
    <2>3. QED
        BY <2>1, <2>2
<1>10. ASSUME NEW l \in 1..Len(Block(n)), l <= 4, Block(n)[l] \in {"number", "title"}
       PROVE  InTitle(<<page, n, l>>, all) \/ \E m \in 1..l : Block(n)[m] = "blank"
    <2>1. InTitle(l, ts) \/ \E m \in 1..l : Block(n)[m] = "blank"
        BY <1>2, <1>10 DEF TitlesOk, TitlesComplete
    <2>2. ASSUME InTitle(l, ts) PROVE InTitle(<<page, n, l>>, all)
        <3>1. PICK k \in 1..Len(ts) : \E a \in 1..Len(ts[k]) : ts[k][a] = l
            BY <2>2 DEF InTitle
        <3>2. PICK a \in 1..Len(ts[k]) : ts[k][a] = l
            BY <3>1
        <3>3. k \in 1..Len(all) /\ a \in 1..Len(all[k]) /\ all[k][a] = <<page, n, l>>
            BY <1>6, <1>7, <3>2
        <3>4. QED
            BY <3>3 DEF InTitle
    <2>3. QED
        BY <2>1, <2>2
<1>11. QED
    BY <1>3, <1>7, <1>8, <1>9, <1>10

-----------------------------------------------------------------------------
(* Sections *)

LinesTyped(L) == \A x \in L : x[1] \in Nat /\ x[2] \in Nat /\ x[3] \in Nat
SectionsOf(L) == [chapter : Seq(L), content : Seq(L), open : BOOLEAN]

\* The line x is of a block before block n of page p.
Behind(x, p, n) == x[1] < p \/ (x[1] = p /\ x[2] < n)

LEMMA BehindBefore ==
    ASSUME NEW L, LinesTyped(L), NEW x \in L, NEW y \in L, NEW p \in Nat, NEW n \in Nat,
           Behind(x, p, n), y[1] = p, y[2] >= n
    PROVE  Before(x, y) /\ NotAfter(x, y) /\ ~NotAfter(y, x) /\ x # y
<1>1. x[1] \in Nat /\ x[2] \in Nat /\ y[2] \in Nat
    BY DEF LinesTyped
<1>2. NotAfter(x, y) /\ ~NotAfter(y, x)
    BY <1>1 DEF NotAfter, Behind
<1>3. x[1] # y[1] \/ x[2] # y[2]
    BY <1>1 DEF Behind
<1>4. BlockOf(x) # BlockOf(y)
    BY <1>3 DEF BlockOf
<1>5. QED
    BY <1>2, <1>4 DEF Before

LEMMA SameBlockBefore ==
    ASSUME NEW x, NEW y, x[1] = y[1], x[2] = y[2], x[3] \in Nat, y[3] \in Nat, x[3] < y[3]
    PROVE  Before(x, y) /\ x # y
BY DEF Before, BlockOf

\* All lines of the sections S are of blocks before block n of page p.
AllBehind(S, p, n) ==
    \A k \in 1..Len(S) :
        /\ \A a \in 1..Len(S[k].content) : Behind(S[k].content[a], p, n)
        /\ \A a \in 1..Len(S[k].chapter) : Behind(S[k].chapter[a], p, n)

TextsInOrder(S) ==
    \A k, m \in 1..Len(S) : \A a \in 1..Len(S[k].content), b \in 1..Len(S[m].content) :
        k < m \/ (k = m /\ a < b) => Before(S[k].content[a], S[m].content[b])

HeadsOnce(S) ==
    \A k, m \in 1..Len(S) : k # m =>
        \A a \in 1..Len(S[k].chapter), b \in 1..Len(S[m].chapter) :
            S[k].chapter[a] # S[m].chapter[b]

\* The title y is one of section k or before one of it.
UpToTitle(y, S, k) ==
    \E b \in 1..Len(S[k].chapter) : y = S[k].chapter[b] \/ Before(y, S[k].chapter[b])

UnderTitles(S) ==
    \A k \in 1..Len(S) : \A a \in 1..Len(S[k].content) :
        /\ \A b \in 1..Len(S[k].chapter) : NotAfter(S[k].chapter[b], S[k].content[a])
        /\ \A m \in 1..Len(S) : \A c \in 1..Len(S[m].chapter) :
              NotAfter(S[m].chapter[c], S[k].content[a]) => UpToTitle(S[m].chapter[c], S, k)

\* The last section has the last title.
LastTitleLast(S) ==
    \A m \in 1..Len(S) : \A c \in 1..Len(S[m].chapter) : UpToTitle(S[m].chapter[c], S, Len(S))

WellCut(S, p, n) ==
    AllBehind(S, p, n) /\ TextsInOrder(S) /\ HeadsOnce(S) /\ UnderTitles(S)

\* The titles ts of block n on page p open sections, the last of them with the
\* text C of block q; the sections there were stay, in their order, before that.
Opens(S, T, ts, C, old, pos) ==
    /\ \A k \in 1..Len(S) :
          /\ old[k] \in 1..(Len(T) - 1)
          /\ T[old[k]].chapter = S[k].chapter /\ T[old[k]].content = S[k].content
    /\ \A j, k \in 1..Len(S) : j < k => old[j] < old[k]
    /\ \A j \in 1..Len(ts) :
          /\ pos[j] \in 1..Len(T) /\ T[pos[j]].chapter = ts[j]
          /\ j # Len(ts) => T[pos[j]].content = <<>>
    /\ ts # <<>> /\ pos[Len(ts)] = Len(T) /\ T[Len(T)].content = C
    /\ \A k \in 1..Len(T) :
          (\E j \in 1..Len(S) : k = old[j]) \/ (\E j \in 1..Len(ts) : k = pos[j])

Opened(S, T, ts, C) == \E old, pos : Opens(S, T, ts, C, old, pos)

TitlesIn(ts, p, n) ==
    /\ \A j \in 1..Len(ts) : ts[j] # <<>> /\ InBlock(ts[j], p, n)
    /\ \A j, k \in 1..Len(ts) : j < k =>
          \A a \in 1..Len(ts[j]), b \in 1..Len(ts[k]) : ts[j][a][3] < ts[k][b][3]

TextIn(C, p, q) ==
    InBlock(C, p, q) /\ \A a, b \in 1..Len(C) : a < b => C[a][3] < C[b][3]

LEMMA PartsOfSection ==
    ASSUME NEW L, NEW s \in SectionsOf(L)
    PROVE  s.chapter \in Seq(L) /\ s.content \in Seq(L)
BY DEF SectionsOf

LEMMA EntryIn ==
    ASSUME NEW L, NEW s \in Seq(L), NEW a \in 1..Len(s)
    PROVE  s[a] \in L
OBVIOUS

LEMMA SectionsOpened ==
    ASSUME NEW L, LinesTyped(L), NEW p \in Nat, NEW n \in Nat, NEW q \in Nat, n <= q,
           NEW S \in Seq(SectionsOf(L)), NEW T \in Seq(SectionsOf(L)),
           NEW ts \in Seq(Seq(L)), NEW C \in Seq(L), NEW old, NEW pos,
           Opens(S, T, ts, C, old, pos), TitlesIn(ts, p, n), TextIn(C, p, q),
           WellCut(S, p, n)
    PROVE  WellCut(T, p, q + 1) /\ LastTitleLast(T)
<1>a. /\ Len(S) \in Nat /\ Len(T) \in Nat /\ Len(ts) \in Nat /\ Len(ts) \in 1..Len(ts)
      /\ \A k \in 1..Len(S) : S[k].chapter \in Seq(L) /\ S[k].content \in Seq(L)
      /\ \A k \in 1..Len(T) : T[k].chapter \in Seq(L) /\ T[k].content \in Seq(L)
    <2>1. /\ \A k \in 1..Len(S) : S[k] \in SectionsOf(L)
          /\ \A k \in 1..Len(T) : T[k] \in SectionsOf(L)
        OBVIOUS
    <2>2. ts # <<>>
        BY DEF Opens
    <2>3. Len(ts) \in Nat /\ Len(ts) # 0
        BY <2>2
    <2>4. QED
        BY <2>1, <2>3, PartsOfSection
\* What is old in T, and what is new.
<1> DEFINE Old(k) == \E j \in 1..Len(S) : k = old[j]
           New(k) == \E j \in 1..Len(ts) : k = pos[j]
<1>b. \A k \in 1..Len(T) : Old(k) \/ New(k)
    BY DEF Opens
<1>c. ASSUME NEW k \in 1..Len(T), Old(k), NEW a \in 1..Len(T[k].chapter)
      PROVE  T[k].chapter[a] \in L /\ Behind(T[k].chapter[a], p, n)
    <2>1. PICK j \in 1..Len(S) : k = old[j]
        BY <1>c
    <2>2. T[k].chapter = S[j].chapter
        BY <2>1 DEF Opens
    <2>3. Behind(S[j].chapter[a], p, n)
        BY <1>c, <2>2 DEF WellCut, AllBehind
    <2>4. T[k].chapter[a] \in L
        BY <1>a, <1>c
    <2>5. QED
        BY <2>2, <2>3, <2>4
<1>d. ASSUME NEW k \in 1..Len(T), Old(k), NEW a \in 1..Len(T[k].content)
      PROVE  T[k].content[a] \in L /\ Behind(T[k].content[a], p, n)
    <2>1. PICK j \in 1..Len(S) : k = old[j]
        BY <1>d
    <2>2. T[k].content = S[j].content
        BY <2>1 DEF Opens
    <2>3. Behind(S[j].content[a], p, n)
        BY <1>d, <2>2 DEF WellCut, AllBehind
    <2>4. T[k].content[a] \in L
        BY <1>a, <1>d
    <2>5. QED
        BY <2>2, <2>3, <2>4
<1>e. ASSUME NEW k \in 1..Len(T), New(k), NEW a \in 1..Len(T[k].chapter)
      PROVE  /\ T[k].chapter[a] \in L /\ T[k].chapter[a][1] = p /\ T[k].chapter[a][2] = n
             /\ T[k].chapter[a][3] \in Nat
    <2>1. PICK j \in 1..Len(ts) : k = pos[j]
        BY <1>e
    <2>2. T[k].chapter = ts[j]
        BY <2>1 DEF Opens
    <2>3. ts[j][a][1] = p /\ ts[j][a][2] = n /\ ts[j][a][3] \in Nat
        BY <1>e, <2>2 DEF TitlesIn, InBlock
    <2>4. T[k].chapter[a] \in L
        BY <1>a, <1>e, EntryIn
    <2>5. QED
        BY <2>2, <2>3, <2>4
<1>f. ASSUME NEW k \in 1..Len(T), New(k), NEW a \in 1..Len(T[k].content)
      PROVE  /\ k = Len(T) /\ T[k].content = C /\ T[k].content[a] \in L
             /\ T[k].content[a][1] = p /\ T[k].content[a][2] = q
    <2>1. PICK j \in 1..Len(ts) : k = pos[j]
        BY <1>f
    <2>2. j = Len(ts)
        BY <1>f, <2>1 DEF Opens
    <2>3. k = Len(T) /\ T[k].content = C
        BY <2>1, <2>2 DEF Opens
    <2>4. C[a] \in L /\ C[a][1] = p /\ C[a][2] = q
        BY <2>3 DEF TextIn, InBlock
    <2>5. QED
        BY <2>3, <2>4
<1>i. ASSUME NEW x \in L, NEW y \in L, Behind(x, p, n), y[1] = p, y[2] >= n
      PROVE  Before(x, y) /\ NotAfter(x, y) /\ ~NotAfter(y, x) /\ x # y
    BY <1>i, BehindBefore
<1>j. q \in Nat /\ n \in Nat /\ q >= n
    OBVIOUS
<1>g. \A k \in 1..Len(T) : Old(k) => k # Len(T)
    BY <1>a DEF Opens
<1>h. \A k \in 1..Len(T) : k = Len(T) => New(k)
    BY <1>b, <1>g
<1> HIDE DEF Old, New
<1>1. AllBehind(T, p, q + 1)
    <2>1. ASSUME NEW x \in L, Behind(x, p, n) \/ (x[1] = p /\ x[2] = n) \/ (x[1] = p /\ x[2] = q)
          PROVE  Behind(x, p, q + 1)
        <3>1. x[1] \in Nat /\ x[2] \in Nat
            BY DEF LinesTyped
        <3>2. QED
            BY <2>1, <3>1 DEF Behind
    <2>2. QED
        BY <1>b, <1>c, <1>d, <1>e, <1>f, <2>1 DEF AllBehind
<1>2. ASSUME NEW k \in 1..Len(T), NEW m \in 1..Len(T),
             NEW a \in 1..Len(T[k].content), NEW b \in 1..Len(T[m].content),
             k < m \/ (k = m /\ a < b)
      PROVE  Before(T[k].content[a], T[m].content[b])
    <2>1. CASE Old(k) /\ Old(m)
        <3>1. PICK j \in 1..Len(S) : k = old[j]
            BY <2>1 DEF Old
        <3>2. PICK l \in 1..Len(S) : m = old[l]
            BY <2>1 DEF Old
        <3>3. T[k].content = S[j].content /\ T[m].content = S[l].content
            BY <3>1, <3>2 DEF Opens
        <3>4. j < l \/ (j = l /\ a < b)
            <4>1. l < j => m < k
                BY <3>1, <3>2 DEF Opens
            <4>2. l = j => m = k
                BY <3>1, <3>2
            <4>3. QED
                BY <1>2, <4>1, <4>2
        <3>5. QED
            BY <3>3, <3>4 DEF WellCut, TextsInOrder
    <2>2. CASE Old(k) /\ New(m)
        <3>1. PICK x \in L : x = T[k].content[a] /\ Behind(x, p, n)
            BY <1>d, <2>2
        <3>2. PICK y \in L : y = T[m].content[b] /\ y[1] = p /\ y[2] = q
            BY <1>f, <2>2
        <3>3. y[2] >= n
            BY <1>j, <3>2
        <3>4. Before(x, y)
            BY <1>i, <3>1, <3>2, <3>3
        <3>5. QED
            BY <3>1, <3>2, <3>4
    <2>3. CASE New(k)
        <3>1. k = Len(T) /\ T[k].content = C /\ k = m /\ a < b
            BY <1>2, <1>a, <1>f, <2>3
        <3>2. C[a][1] = C[b][1] /\ C[a][2] = C[b][2] /\ C[a][3] < C[b][3]
              /\ C[a][3] \in Nat /\ C[b][3] \in Nat
            BY <3>1 DEF TextIn, InBlock
        <3>3. QED
            BY <3>1, <3>2, SameBlockBefore
    <2>4. QED
        BY <1>b, <2>1, <2>2, <2>3
<1>3. ASSUME NEW k \in 1..Len(T), NEW m \in 1..Len(T), k # m,
             NEW a \in 1..Len(T[k].chapter), NEW b \in 1..Len(T[m].chapter)
      PROVE  T[k].chapter[a] # T[m].chapter[b]
    <2>1. CASE Old(k) /\ Old(m)
        <3>1. PICK j \in 1..Len(S) : k = old[j]
            BY <2>1 DEF Old
        <3>2. PICK l \in 1..Len(S) : m = old[l]
            BY <2>1 DEF Old
        <3>3. T[k].chapter = S[j].chapter /\ T[m].chapter = S[l].chapter /\ j # l
            BY <1>3, <3>1, <3>2 DEF Opens
        <3>4. QED
            BY <3>3 DEF WellCut, HeadsOnce
    <2>2. CASE Old(k) /\ New(m)
        <3>1. PICK x \in L : x = T[k].chapter[a] /\ Behind(x, p, n)
            BY <1>c, <2>2
        <3>2. PICK y \in L : y = T[m].chapter[b] /\ y[1] = p /\ y[2] = n
            BY <1>e, <2>2
        <3>3. x # y
            BY <1>i, <1>j, <3>1, <3>2
        <3>4. QED
            BY <3>1, <3>2, <3>3
    <2>3. CASE New(k) /\ Old(m)
        <3>1. PICK x \in L : x = T[m].chapter[b] /\ Behind(x, p, n)
            BY <1>c, <2>3
        <3>y. PICK y : y = T[k].chapter[a]
            OBVIOUS
        <3>2. y \in L /\ y[1] = p /\ y[2] = n
            BY <1>e, <2>3, <3>y
        <3>3. x # y
            BY <1>i, <1>j, <3>1, <3>2
        <3>4. QED
            BY <3>1, <3>y, <3>3
    <2>4. CASE New(k) /\ New(m)
        <3>1. PICK j \in 1..Len(ts) : k = pos[j]
            BY <2>4 DEF New
        <3>2. PICK l \in 1..Len(ts) : m = pos[l]
            BY <2>4 DEF New
        <3>3. T[k].chapter = ts[j] /\ T[m].chapter = ts[l] /\ j # l
            BY <1>3, <3>1, <3>2 DEF Opens
        <3>4. PICK x, y : x = T[k].chapter[a] /\ y = T[m].chapter[b]
            OBVIOUS
        <3>5. x[3] \in Nat /\ y[3] \in Nat
            BY <1>e, <2>4, <3>4
        <3>6. CASE j < l
            <4>1. x[3] < y[3]
                BY <3>3, <3>4, <3>6 DEF TitlesIn
            <4>2. x # y
                BY <3>5, <4>1
            <4>3. QED
                BY <3>4, <4>2
        <3>7. CASE l < j
            <4>1. y[3] < x[3]
                BY <3>3, <3>4, <3>7 DEF TitlesIn
            <4>2. x # y
                BY <3>5, <4>1
            <4>3. QED
                BY <3>4, <4>2
        <3>8. QED
            BY <3>3, <3>6, <3>7
    <2>5. QED
        BY <1>b, <2>1, <2>2, <2>3, <2>4
<1>4. ASSUME NEW m \in 1..Len(T), NEW c \in 1..Len(T[m].chapter)
      PROVE  UpToTitle(T[m].chapter[c], T, Len(T))
    <2>1. T[Len(T)].chapter = ts[Len(ts)] /\ Len(T) \in 1..Len(T) /\ ts[Len(ts)] # <<>>
        BY <1>a DEF Opens, TitlesIn
    <2>2. 1 \in 1..Len(T[Len(T)].chapter)
        BY <1>a, <2>1
    <2>3. /\ T[Len(T)].chapter[1] \in L
          /\ T[Len(T)].chapter[1][1] = p /\ T[Len(T)].chapter[1][2] = n
          /\ T[Len(T)].chapter[1][3] \in Nat
        BY <1>e, <1>h, <2>1, <2>2
    <2>4. CASE Old(m)
        <3>1. T[m].chapter[c] \in L /\ Behind(T[m].chapter[c], p, n)
            BY <1>c, <2>4
        <3>2. Before(T[m].chapter[c], T[Len(T)].chapter[1])
            BY <2>3, <3>1, BehindBefore
        <3>3. QED
            BY <2>2, <3>2 DEF UpToTitle
    <2>5. CASE New(m) /\ m # Len(T)
        <3>1. PICK j \in 1..Len(ts) : m = pos[j]
            BY <2>5 DEF New
        <3>2. j < Len(ts) /\ T[m].chapter = ts[j]
            BY <1>a, <2>5, <3>1 DEF Opens
        <3>3. ts[j][c][3] < ts[Len(ts)][1][3]
            BY <1>a, <2>1, <2>2, <3>2 DEF TitlesIn
        <3>4. /\ T[m].chapter[c][1] = p /\ T[m].chapter[c][2] = n
              /\ T[m].chapter[c][3] \in Nat
            BY <1>e, <2>5
        <3>5. Before(T[m].chapter[c], T[Len(T)].chapter[1])
            BY <2>1, <2>3, <3>2, <3>3, <3>4, SameBlockBefore
        <3>6. QED
            BY <2>2, <3>5 DEF UpToTitle
    <2>6. CASE m = Len(T)
        BY <2>6 DEF UpToTitle
    <2>7. QED
        BY <1>b, <2>4, <2>5, <2>6
<1>5. ASSUME NEW k \in 1..Len(T), NEW a \in 1..Len(T[k].content)
      PROVE  /\ \A b \in 1..Len(T[k].chapter) : NotAfter(T[k].chapter[b], T[k].content[a])
             /\ \A m \in 1..Len(T) : \A c \in 1..Len(T[m].chapter) :
                   NotAfter(T[m].chapter[c], T[k].content[a]) => UpToTitle(T[m].chapter[c], T, k)
    <2>1. CASE New(k)
        <3>1. k = Len(T) /\ T[k].content[a][1] = p /\ T[k].content[a][2] = q
            BY <1>f, <2>1
        <3>2. ASSUME NEW b \in 1..Len(T[k].chapter)
              PROVE  NotAfter(T[k].chapter[b], T[k].content[a])
            <4>1. T[k].chapter[b][1] = p /\ T[k].chapter[b][2] = n
                BY <1>e, <2>1
            <4>2. QED
                BY <3>1, <4>1 DEF NotAfter
        <3>3. QED
            BY <1>4, <3>1, <3>2
    <2>2. CASE Old(k)
        <3>1. PICK j \in 1..Len(S) : k = old[j]
            BY <2>2 DEF Old
        <3>2. T[k].chapter = S[j].chapter /\ T[k].content = S[j].content
            BY <3>1 DEF Opens
        <3>3. T[k].content[a] \in L /\ Behind(T[k].content[a], p, n)
            BY <1>d, <2>2
        <3>4. \A b \in 1..Len(T[k].chapter) : NotAfter(T[k].chapter[b], T[k].content[a])
            BY <3>2 DEF WellCut, UnderTitles
        <3>5. ASSUME NEW m \in 1..Len(T), NEW c \in 1..Len(T[m].chapter),
                     NotAfter(T[m].chapter[c], T[k].content[a])
              PROVE  UpToTitle(T[m].chapter[c], T, k)
            <4>1. CASE New(m)
                <5>1. PICK y \in L : y = T[m].chapter[c] /\ y[1] = p /\ y[2] = n
                    BY <1>e, <4>1
                <5>2. PICK x \in L : x = T[k].content[a] /\ Behind(x, p, n)
                    BY <3>3
                <5>3. y[2] >= n
                    BY <1>j, <5>1
                <5>4. ~NotAfter(y, x)
                    BY <1>i, <5>1, <5>2, <5>3
                <5>5. QED
                    BY <3>5, <5>1, <5>2, <5>4
            <4>2. CASE Old(m)
                <5>1. PICK l \in 1..Len(S) : m = old[l]
                    BY <4>2 DEF Old
                <5>2. T[m].chapter = S[l].chapter
                    BY <5>1 DEF Opens
                <5>3. UpToTitle(S[l].chapter[c], S, j)
                    BY <3>2, <3>5, <5>2 DEF WellCut, UnderTitles
                <5>4. QED
                    BY <3>2, <5>2, <5>3 DEF UpToTitle
            <4>3. QED
                BY <1>b, <4>1, <4>2
        <3>6. QED
            BY <3>4, <3>5
    <2>3. QED
        BY <1>b, <2>1, <2>2
<1>6. QED
    BY <1>1, <1>2, <1>3, <1>4, <1>5
       DEF WellCut, TextsInOrder, HeadsOnce, UnderTitles, LastTitleLast

\* The text C of block n goes to the last section.
Extends(S, T, C) ==
    /\ Len(T) = Len(S)
    /\ \A k \in 1..Len(S) : T[k].chapter = S[k].chapter
    /\ \A k \in 1..Len(S) : k # Len(S) => T[k].content = S[k].content
    /\ T[Len(T)].content = S[Len(S)].content \o C

LEMMA Joined ==
    ASSUME NEW L, NEW s \in Seq(L), NEW c \in Seq(L), NEW a \in 1..Len(s \o c)
    PROVE  \/ a \in 1..Len(s) /\ (s \o c)[a] = s[a]
           \/ a > Len(s) /\ a - Len(s) \in 1..Len(c) /\ (s \o c)[a] = c[a - Len(s)]
OBVIOUS

LEMMA TextAdded ==
    ASSUME NEW L, LinesTyped(L), NEW p \in Nat, NEW n \in Nat,
           NEW S \in Seq(SectionsOf(L)), NEW T \in Seq(SectionsOf(L)), NEW C \in Seq(L),
           S # <<>>, Extends(S, T, C), TextIn(C, p, n), WellCut(S, p, n), LastTitleLast(S)
    PROVE  WellCut(T, p, n + 1) /\ LastTitleLast(T)
<1>a. /\ Len(S) \in Nat /\ Len(T) = Len(S) /\ Len(S) \in 1..Len(S)
      /\ \A k \in 1..Len(S) : S[k].chapter \in Seq(L) /\ S[k].content \in Seq(L)
    <2>1. \A k \in 1..Len(S) : S[k] \in SectionsOf(L)
        OBVIOUS
    <2>2. Len(S) \in Nat /\ Len(S) # 0
        OBVIOUS
    <2>3. QED
        BY <2>1, <2>2, PartsOfSection DEF Extends
<1>b. \A k \in 1..Len(T) : T[k].chapter = S[k].chapter
    BY <1>a DEF Extends
\* A line of a text is where it was, or it is one of C and in the last section.
<1> DEFINE Was(k, a) == a \in 1..Len(S[k].content) /\ T[k].content[a] = S[k].content[a]
           Came(k, a) == /\ k = Len(T) /\ a > Len(S[k].content)
                         /\ a - Len(S[k].content) \in 1..Len(C)
                         /\ T[k].content[a] = C[a - Len(S[k].content)]
<1>c. ASSUME NEW k \in 1..Len(T), NEW a \in 1..Len(T[k].content)
      PROVE  Was(k, a) \/ Came(k, a)
    <2>1. CASE k # Len(S)
        BY <1>a, <2>1 DEF Extends
    <2>2. CASE k = Len(S)
        <3>1. PICK s \in Seq(L) : s = S[k].content
            BY <1>a
        <3>2. T[k].content = s \o C
            BY <1>a, <2>2, <3>1 DEF Extends
        <3>3. a \in 1..Len(s \o C)
            BY <3>2
        <3>4. \/ a \in 1..Len(s) /\ (s \o C)[a] = s[a]
              \/ a > Len(s) /\ a - Len(s) \in 1..Len(C) /\ (s \o C)[a] = C[a - Len(s)]
            BY <3>3, Joined
        <3>5. QED
            BY <1>a, <2>2, <3>1, <3>2, <3>4
    <2>3. QED
        BY <2>1, <2>2
<1>d. ASSUME NEW k \in 1..Len(T), NEW a \in 1..Len(T[k].content), Was(k, a)
      PROVE  T[k].content[a] \in L /\ Behind(T[k].content[a], p, n)
    <2>1. S[k].content[a] \in L
        BY <1>a, <1>d, EntryIn
    <2>2. Behind(S[k].content[a], p, n)
        BY <1>a, <1>d DEF WellCut, AllBehind
    <2>3. QED
        BY <1>d, <2>1, <2>2
<1>e. ASSUME NEW k \in 1..Len(T), NEW a \in 1..Len(T[k].content), Came(k, a)
      PROVE  T[k].content[a] \in L /\ T[k].content[a][1] = p /\ T[k].content[a][2] = n
    <2>1. PICK c \in 1..Len(C) : T[k].content[a] = C[c]
        BY <1>e
    <2>2. C[c] \in L
        BY EntryIn
    <2>3. C[c][1] = p /\ C[c][2] = n
        BY DEF TextIn, InBlock
    <2>4. QED
        BY <2>1, <2>2, <2>3
<1>f. ASSUME NEW k \in 1..Len(T), NEW b \in 1..Len(T[k].chapter)
      PROVE  T[k].chapter[b] \in L /\ Behind(T[k].chapter[b], p, n)
    <2>1. S[k].chapter[b] \in L /\ T[k].chapter[b] = S[k].chapter[b]
        BY <1>a, <1>b, EntryIn
    <2>2. Behind(S[k].chapter[b], p, n)
        BY <1>a, <1>b DEF WellCut, AllBehind
    <2>3. QED
        BY <2>1, <2>2
<1>i. ASSUME NEW x \in L, NEW y \in L, Behind(x, p, n), y[1] = p, y[2] = n
      PROVE  Before(x, y) /\ NotAfter(x, y)
    <2>1. y[2] >= n
        BY <1>i
    <2>2. QED
        BY <1>i, <2>1, BehindBefore
<1>1. AllBehind(T, p, n + 1)
    <2>1. ASSUME NEW x \in L, Behind(x, p, n) \/ (x[1] = p /\ x[2] = n)
          PROVE  Behind(x, p, n + 1)
        <3>1. x[1] \in Nat /\ x[2] \in Nat
            BY DEF LinesTyped
        <3>2. QED
            BY <2>1, <3>1 DEF Behind
    <2> HIDE DEF Was, Came
    <2>2. QED
        BY <1>c, <1>d, <1>e, <1>f, <2>1 DEF AllBehind
<1>2. ASSUME NEW k \in 1..Len(T), NEW m \in 1..Len(T),
             NEW a \in 1..Len(T[k].content), NEW b \in 1..Len(T[m].content),
             k < m \/ (k = m /\ a < b)
      PROVE  Before(T[k].content[a], T[m].content[b])
    <2>1. CASE Was(k, a) /\ Was(m, b)
        <3>1. Before(S[k].content[a], S[m].content[b])
            BY <1>a, <1>2, <2>1 DEF WellCut, TextsInOrder
        <3>2. QED
            BY <2>1, <3>1
    <2>2. CASE Was(k, a) /\ Came(m, b)
        <3>1. PICK x \in L : x = T[k].content[a] /\ Behind(x, p, n)
            BY <1>d, <2>2
        <3>2. PICK y \in L : y = T[m].content[b] /\ y[1] = p /\ y[2] = n
            BY <1>e, <2>2
        <3>3. QED
            BY <1>i, <3>1, <3>2
    <2>3. CASE Came(k, a)
        <3>1. k = m /\ a < b /\ k = Len(T)
            BY <1>a, <1>2, <2>3
        <3>2. Came(m, b)
            <4>1. PICK w : w = Len(S[k].content)
                OBVIOUS
            <4>2. w \in Nat
                BY <1>a, <4>1
            <4>3. a > w /\ ~(b \in 1..w)
                BY <2>3, <3>1, <4>1, <4>2
            <4>4. ~Was(m, b)
                BY <3>1, <4>1, <4>3
            <4>5. QED
                BY <1>c, <4>4
        <3>3. PICK w \in Nat : w = Len(S[k].content)
            BY <1>a
        <3>4. /\ a - w \in 1..Len(C) /\ b - w \in 1..Len(C) /\ a - w < b - w
              /\ T[k].content[a] = C[a - w] /\ T[m].content[b] = C[b - w]
            BY <2>3, <3>1, <3>2, <3>3
        <3>5. PICK c \in 1..Len(C), d \in 1..Len(C) : c = a - w /\ d = b - w /\ c < d
            BY <3>4
        <3>6. /\ C[c][1] = C[d][1] /\ C[c][2] = C[d][2] /\ C[c][3] < C[d][3]
              /\ C[c][3] \in Nat /\ C[d][3] \in Nat
            BY <3>5 DEF TextIn, InBlock
        <3>7. Before(C[c], C[d])
            BY <3>6, SameBlockBefore
        <3>8. QED
            BY <3>4, <3>5, <3>7
    <2> HIDE DEF Was, Came
    <2>4. Was(k, a) \/ Came(k, a)
        BY <1>c
    <2>5. Was(m, b) \/ Came(m, b)
        BY <1>c
    <2>6. QED
        BY <2>1, <2>2, <2>3, <2>4, <2>5
<1>3. HeadsOnce(T)
    <2> SUFFICES ASSUME NEW k \in 1..Len(T), NEW m \in 1..Len(T), k # m,
                        NEW a \in 1..Len(T[k].chapter), NEW b \in 1..Len(T[m].chapter)
                 PROVE  T[k].chapter[a] # T[m].chapter[b]
        BY DEF HeadsOnce
    <2>1. T[k].chapter = S[k].chapter /\ T[m].chapter = S[m].chapter
        BY <1>b
    <2>2. k \in 1..Len(S) /\ m \in 1..Len(S)
        BY <1>a
    <2>3. QED
        BY <2>1, <2>2 DEF WellCut, HeadsOnce
<1>4. ASSUME NEW y, NEW k \in 1..Len(T), UpToTitle(y, S, k)
      PROVE  UpToTitle(y, T, k)
    BY <1>b, <1>4 DEF UpToTitle
<1>5. LastTitleLast(T)
    BY <1>a, <1>b, <1>4 DEF LastTitleLast
<1>6. ASSUME NEW k \in 1..Len(T), NEW a \in 1..Len(T[k].content)
      PROVE  /\ \A b \in 1..Len(T[k].chapter) : NotAfter(T[k].chapter[b], T[k].content[a])
             /\ \A m \in 1..Len(T) : \A c \in 1..Len(T[m].chapter) :
                   NotAfter(T[m].chapter[c], T[k].content[a]) => UpToTitle(T[m].chapter[c], T, k)
    <2>1. CASE Was(k, a)
        <3>1. \A b \in 1..Len(S[k].chapter) : NotAfter(S[k].chapter[b], S[k].content[a])
            BY <1>a, <2>1 DEF WellCut, UnderTitles
        <3>2. \A m \in 1..Len(S) : \A c \in 1..Len(S[m].chapter) :
                 NotAfter(S[m].chapter[c], S[k].content[a]) => UpToTitle(S[m].chapter[c], S, k)
            BY <1>a, <2>1 DEF WellCut, UnderTitles
        <3>3. QED
            BY <1>a, <1>b, <1>4, <2>1, <3>1, <3>2
    <2>2. CASE Came(k, a)
        <3>1. PICK y \in L : y = T[k].content[a] /\ y[1] = p /\ y[2] = n
            BY <1>e, <2>2
        <3>2. \A b \in 1..Len(T[k].chapter) : NotAfter(T[k].chapter[b], y)
            BY <1>f, <1>i, <3>1
        <3>3. k = Len(T)
            BY <2>2
        <3>4. QED
            BY <1>5, <3>1, <3>2, <3>3 DEF LastTitleLast
    <2> HIDE DEF Was, Came
    <2>3. QED
        BY <1>c, <2>1, <2>2
<1>7. QED
    BY <1>1, <1>2, <1>3, <1>5, <1>6 DEF WellCut, TextsInOrder, UnderTitles

LEMMA Concatenated ==
    ASSUME NEW R, NEW B \in Seq(R), NEW E \in Seq(R)
    PROVE  /\ B \o E \in Seq(R) /\ Len(B \o E) = Len(B) + Len(E)
           /\ \A k \in 1..Len(B) : (B \o E)[k] = B[k]
           /\ \A j \in 1..Len(E) : (B \o E)[Len(B) + j] = E[j]
OBVIOUS

LEMMA Appended ==
    ASSUME NEW R, NEW B \in Seq(R), NEW x \in R
    PROVE  /\ Append(B, x) \in Seq(R) /\ Len(Append(B, x)) = Len(B) + 1
           /\ \A k \in 1..Len(B) : Append(B, x)[k] = B[k]
           /\ Append(B, x)[Len(B) + 1] = x
OBVIOUS

LEMMA EarlierSections ==
    ASSUME NEW L, NEW ts \in Seq(Seq(L)), ts # <<>>
    PROVE  /\ Earlier(ts) \in Seq(SectionsOf(L)) /\ Len(Earlier(ts)) = Len(ts) - 1
           /\ \A j \in 1..(Len(ts) - 1) :
                 Earlier(ts)[j].chapter = ts[j] /\ Earlier(ts)[j].content = <<>>
<1>1. Len(ts) \in Nat \ {0}
    OBVIOUS
<1>2. \A j \in 1..(Len(ts) - 1) : Section(ts[j], <<>>) \in SectionsOf(L)
    <2> SUFFICES ASSUME NEW j \in 1..(Len(ts) - 1)
                 PROVE  Section(ts[j], <<>>) \in SectionsOf(L)
        OBVIOUS
    <2>1. ts[j] \in Seq(L)
        BY <1>1
    <2>2. QED
        BY <2>1 DEF Section, SectionsOf
<1> DEFINE f(j) == Section(ts[j], <<>>)
<1>3. \A j \in 1..(Len(ts) - 1) : f(j) \in SectionsOf(L)
    BY <1>2
<1>4. Earlier(ts) = [j \in 1..(Len(ts) - 1) |-> f(j)]
    BY DEF Earlier
<1> HIDE DEF f
<1>5. /\ Earlier(ts) \in Seq(SectionsOf(L)) /\ Len(Earlier(ts)) = Len(ts) - 1
      /\ \A j \in 1..(Len(ts) - 1) : Earlier(ts)[j] = f(j)
    BY <1>1, <1>3, <1>4
<1>6. \A j \in 1..(Len(ts) - 1) : f(j).chapter = ts[j] /\ f(j).content = <<>>
    BY DEF f, Section
<1>7. QED
    BY <1>5, <1>6

LEMMA NewSection ==
    ASSUME NEW L, NEW ts \in Seq(Seq(L)), ts # <<>>, NEW C \in Seq(L)
    PROVE  /\ Section(Last(ts), C) \in SectionsOf(L)
           /\ Section(Last(ts), C).chapter = ts[Len(ts)]
           /\ Section(Last(ts), C).content = C
<1>1. Last(ts) = ts[Len(ts)] /\ Last(ts) \in Seq(L)
    BY DEF Last
<1>2. QED
    BY <1>1 DEF Section, SectionsOf

\* The titles open sections after those there are.
LEMMA OpenedAfter ==
    ASSUME NEW L, NEW S \in Seq(SectionsOf(L)), NEW ts \in Seq(Seq(L)), ts # <<>>,
           NEW C \in Seq(L), NEW T, T = Append(S \o Earlier(ts), Section(Last(ts), C))
    PROVE  T \in Seq(SectionsOf(L)) /\ Opened(S, T, ts, C)
<1> DEFINE N == Len(S)
           M == Len(ts)
           U == S \o Earlier(ts)
           old == [k \in 1..N |-> k]
           pos == [j \in 1..M |-> N + j]
<1>1. N \in Nat /\ M \in Nat \ {0}
    OBVIOUS
<1>2. PICK E \in Seq(SectionsOf(L)) : E = Earlier(ts)
    BY EarlierSections
<1>3. Len(E) = M - 1 /\ \A j \in 1..(M - 1) : E[j].chapter = ts[j] /\ E[j].content = <<>>
    BY <1>2, EarlierSections
<1>4. PICK e \in SectionsOf(L) : e = Section(Last(ts), C)
    BY NewSection
<1>5. e.chapter = ts[M] /\ e.content = C
    BY <1>4, NewSection
<1>6. PICK V \in Seq(SectionsOf(L)) :
          /\ V = S \o E /\ Len(V) = Len(S) + Len(E)
          /\ \A k \in 1..Len(S) : V[k] = S[k]
          /\ \A j \in 1..Len(E) : V[Len(S) + j] = E[j]
    <2>1. /\ S \o E \in Seq(SectionsOf(L)) /\ Len(S \o E) = Len(S) + Len(E)
          /\ \A k \in 1..Len(S) : (S \o E)[k] = S[k]
          /\ \A j \in 1..Len(E) : (S \o E)[Len(S) + j] = E[j]
        BY Concatenated
    <2> HIDE DEF N, M
    <2>2. QED
        BY <2>1
<1>7. /\ Len(V) = N + (M - 1) /\ \A k \in 1..N : V[k] = S[k]
      /\ \A j \in 1..(M - 1) : V[N + j] = E[j]
    BY <1>3, <1>6
<1>8. T = Append(V, e)
    BY <1>2, <1>4, <1>6
<1>9. T \in Seq(SectionsOf(L)) /\ Len(T) = Len(V) + 1 /\ T[Len(V) + 1] = e
      /\ \A k \in 1..Len(V) : T[k] = V[k]
    BY <1>8, Appended
<1> HIDE DEF N, M
<1>10. /\ Len(T) = N + M /\ T[N + M] = e
       /\ \A k \in 1..N : T[k] = S[k]
       /\ \A j \in 1..(M - 1) : T[N + j] = E[j]
    <2>1. Len(V) + 1 = N + M
        BY <1>1, <1>7
    <2>2. \A k \in 1..N : k \in 1..Len(V)
        BY <1>1, <1>7
    <2>3. \A j \in 1..(M - 1) : N + j \in 1..Len(V)
        BY <1>1, <1>7
    <2>4. QED
        BY <1>7, <1>9, <2>1, <2>2, <2>3
<1>11. Opens(S, T, ts, C, old, pos)
    <2>1. \A k \in 1..N :
             old[k] \in 1..(Len(T) - 1) /\ T[old[k]].chapter = S[k].chapter
             /\ T[old[k]].content = S[k].content
        BY <1>1, <1>10
    <2>2. \A j, k \in 1..N : j < k => old[j] < old[k]
        OBVIOUS
    <2>3. ASSUME NEW j \in 1..M
          PROVE  /\ pos[j] \in 1..Len(T) /\ T[pos[j]].chapter = ts[j]
                 /\ j # M => T[pos[j]].content = <<>>
        <3>1. pos[j] = N + j /\ N + j \in 1..Len(T)
            BY <1>1, <1>10
        <3>2. CASE j = M
            BY <1>5, <1>10, <3>1, <3>2
        <3>3. CASE j # M
            <4>1. j \in 1..(M - 1)
                BY <1>1, <3>3
            <4>2. QED
                BY <1>3, <1>10, <3>1, <4>1
        <3>4. QED
            BY <3>2, <3>3
    <2>4. pos[M] = Len(T) /\ T[Len(T)].content = C
        BY <1>1, <1>5, <1>10
    <2>5. ASSUME NEW k \in 1..Len(T)
          PROVE  (\E j \in 1..N : k = old[j]) \/ (\E j \in 1..M : k = pos[j])
        <3>1. CASE k <= N
            BY <1>1, <3>1
        <3>2. CASE k > N
            <4>1. k - N \in 1..M /\ N + (k - N) = k
                BY <1>1, <1>10, <3>2
            <4>2. QED
                BY <4>1
        <3>3. QED
            BY <1>1, <1>10, <3>1, <3>2
    <2> HIDE DEF old, pos
    <2>6. QED
        BY <2>1, <2>2, <2>3, <2>4, <2>5 DEF Opens, N, M
<1> HIDE DEF old, pos
<1>12. QED
    BY <1>9, <1>11 DEF Opened

\* The titles but the last open sections before the section that is current,
\* the last one opens one after it.
LEMMA OpenedAmid ==
    ASSUME NEW L, NEW B \in Seq(SectionsOf(L)), NEW now \in SectionsOf(L),
           NEW ts \in Seq(Seq(L)), ts # <<>>, NEW C \in Seq(L), NEW S, NEW T,
           S = Append(B, now),
           T = Append(Append(B \o Earlier(ts), now), Section(Last(ts), C))
    PROVE  T \in Seq(SectionsOf(L)) /\ Opened(S, T, ts, C)
<1> DEFINE N == Len(B)
           M == Len(ts)
           old == [k \in 1..(N + 1) |-> IF k = N + 1 THEN N + M ELSE k]
           pos == [j \in 1..M |-> IF j = M THEN N + M + 1 ELSE N + j]
<1>1. N \in Nat /\ M \in Nat \ {0}
    OBVIOUS
<1>2. PICK E \in Seq(SectionsOf(L)) : E = Earlier(ts)
    BY EarlierSections
<1>3. Len(E) = M - 1 /\ \A j \in 1..(M - 1) : E[j].chapter = ts[j] /\ E[j].content = <<>>
    BY <1>2, EarlierSections
<1>4. PICK e \in SectionsOf(L) : e = Section(Last(ts), C)
    BY NewSection
<1>5. e.chapter = ts[M] /\ e.content = C
    BY <1>4, NewSection
<1>6. PICK V \in Seq(SectionsOf(L)) :
          /\ V = B \o E /\ Len(V) = Len(B) + Len(E)
          /\ \A k \in 1..Len(B) : V[k] = B[k]
          /\ \A j \in 1..Len(E) : V[Len(B) + j] = E[j]
    <2>1. /\ B \o E \in Seq(SectionsOf(L)) /\ Len(B \o E) = Len(B) + Len(E)
          /\ \A k \in 1..Len(B) : (B \o E)[k] = B[k]
          /\ \A j \in 1..Len(E) : (B \o E)[Len(B) + j] = E[j]
        BY Concatenated
    <2> HIDE DEF N, M
    <2>2. QED
        BY <2>1
<1>7. /\ Len(V) = N + (M - 1) /\ \A k \in 1..N : V[k] = B[k]
      /\ \A j \in 1..(M - 1) : V[N + j] = E[j]
    BY <1>3, <1>6
<1>8. PICK W \in Seq(SectionsOf(L)) : W = Append(V, now)
    BY Appended
<1>9. Len(W) = Len(V) + 1 /\ W[Len(V) + 1] = now /\ \A k \in 1..Len(V) : W[k] = V[k]
    BY <1>8, Appended
<1>10. T = Append(W, e)
    BY <1>2, <1>4, <1>6, <1>8
<1>11. T \in Seq(SectionsOf(L)) /\ Len(T) = Len(W) + 1 /\ T[Len(W) + 1] = e
       /\ \A k \in 1..Len(W) : T[k] = W[k]
    BY <1>10, Appended
<1>12. Len(S) = N + 1 /\ S[N + 1] = now /\ \A k \in 1..N : S[k] = B[k]
    BY Appended
<1> HIDE DEF N, M
<1>13. Len(V) + 1 = N + M /\ Len(W) = N + M /\ Len(T) = N + M + 1
    BY <1>1, <1>7, <1>9, <1>11
<1>14. /\ T[N + M + 1] = e /\ T[N + M] = now
       /\ \A k \in 1..N : T[k] = S[k]
       /\ \A j \in 1..(M - 1) : T[N + j] = E[j]
    <2>1. \A k \in 1..N : k \in 1..Len(V) /\ k \in 1..Len(W)
        BY <1>1, <1>13
    <2>2. \A j \in 1..(M - 1) : N + j \in 1..Len(V) /\ N + j \in 1..Len(W)
        BY <1>1, <1>13
    <2>3. N + M \in 1..Len(W)
        BY <1>1, <1>13
    <2>4. T[N + M + 1] = e
        BY <1>11, <1>13
    <2>5. T[N + M] = now
        BY <1>9, <1>11, <1>13, <2>3
    <2>6. \A k \in 1..N : T[k] = S[k]
        BY <1>7, <1>9, <1>11, <1>12, <2>1
    <2>7. \A j \in 1..(M - 1) : T[N + j] = E[j]
        BY <1>7, <1>9, <1>11, <2>2
    <2>8. QED
        BY <2>4, <2>5, <2>6, <2>7
<1>15. Opens(S, T, ts, C, old, pos)
    <2>1. ASSUME NEW k \in 1..(N + 1)
          PROVE  /\ old[k] \in 1..(Len(T) - 1) /\ T[old[k]].chapter = S[k].chapter
                 /\ T[old[k]].content = S[k].content
        <3>1. CASE k = N + 1
            <4>1. old[k] = N + M /\ N + M \in 1..(Len(T) - 1)
                BY <1>1, <1>13, <3>1
            <4>2. QED
                BY <1>12, <1>14, <3>1, <4>1
        <3>2. CASE k # N + 1
            <4>1. old[k] = k /\ k \in 1..N /\ k \in 1..(Len(T) - 1)
                BY <1>1, <1>13, <3>2
            <4>2. QED
                BY <1>14, <4>1
        <3>3. QED
            BY <3>1, <3>2
    <2>2. ASSUME NEW j \in 1..(N + 1), NEW k \in 1..(N + 1), j < k PROVE old[j] < old[k]
        BY <1>1, <2>2
    <2>3. ASSUME NEW j \in 1..M
          PROVE  /\ pos[j] \in 1..Len(T) /\ T[pos[j]].chapter = ts[j]
                 /\ j # M => T[pos[j]].content = <<>>
        <3>1. CASE j = M
            <4>1. pos[j] = N + M + 1 /\ N + M + 1 \in 1..Len(T)
                BY <1>1, <1>13, <3>1
            <4>2. QED
                BY <1>5, <1>14, <3>1, <4>1
        <3>2. CASE j # M
            <4>1. pos[j] = N + j /\ N + j \in 1..Len(T) /\ j \in 1..(M - 1)
                BY <1>1, <1>13, <3>2
            <4>2. QED
                BY <1>3, <1>14, <4>1
        <3>3. QED
            BY <3>1, <3>2
    <2>4. pos[M] = Len(T) /\ T[Len(T)].content = C
        BY <1>1, <1>5, <1>13, <1>14
    <2>5. ASSUME NEW k \in 1..Len(T)
          PROVE  (\E j \in 1..(N + 1) : k = old[j]) \/ (\E j \in 1..M : k = pos[j])
        <3>1. CASE k <= N
            <4>1. k \in 1..(N + 1) /\ old[k] = k
                BY <1>1, <3>1
            <4>2. QED
                BY <4>1
        <3>2. CASE k = N + M
            <4>1. N + 1 \in 1..(N + 1) /\ old[N + 1] = k
                BY <1>1, <3>2
            <4>2. QED
                BY <4>1
        <3>3. CASE k = N + M + 1
            <4>1. M \in 1..M /\ pos[M] = k
                BY <1>1, <3>3
            <4>2. QED
                BY <4>1
        <3>4. CASE k > N /\ k < N + M
            <4>1. k - N \in 1..M /\ pos[k - N] = k
                BY <1>1, <3>4
            <4>2. QED
                BY <4>1
        <3>5. QED
            BY <1>1, <1>13, <3>1, <3>2, <3>3, <3>4
    <2> HIDE DEF old, pos
    <2>6. QED
        BY <1>12, <2>1, <2>2, <2>3, <2>4, <2>5 DEF Opens, M
<1> HIDE DEF old, pos
<1>16. QED
    BY <1>11, <1>15 DEF Opened

(* The sections of a state: no section is current only before the first     *)
(* one, and what there is is cut well up to the block that is looked at.    *)
SecTyped == sections \in Seq(SectionsOf(Lines)) /\ current \in SectionsOf(Lines)
OpenInv ==
    status \in {"loading", "parsing"} /\ ~current.open => sections = <<>> /\ current = NoSection
SecInv == SecTyped /\ OpenInv /\ WellCut(All, page, i) /\ LastTitleLast(All)

LEMMA LinesAreTyped == PlaceInv => LinesTyped(Lines)
<1> SUFFICES ASSUME PlaceInv, NEW x \in Lines
             PROVE  x[1] \in Nat /\ x[2] \in Nat /\ x[3] \in Nat
    BY DEF LinesTyped
<1>1. PICK p \in DOMAIN doc :
          x \in UNION {{<<p, n, l>> : l \in DOMAIN doc[p][n]} : n \in DOMAIN doc[p]}
    BY DEF Lines
<1>2. PICK n \in DOMAIN doc[p] : x \in {<<p, n, l>> : l \in DOMAIN doc[p][n]}
    BY <1>1
<1>3. PICK l \in DOMAIN doc[p][n] : x = <<p, n, l>>
    BY <1>2
<1>4. doc[p] \in Seq(Shapes)
    BY DEF PlaceInv
<1>5. doc[p][n] \in Shapes
    BY <1>4
<1>6. doc[p][n] \in Seq(Kinds)
    BY <1>5, ParserAssumption
<1>7. p \in Nat /\ n \in Nat /\ l \in Nat
    BY <1>4, <1>6 DEF PlaceInv
<1>8. QED
    BY <1>3, <1>7

LEMMA AllTyped == SecTyped => All \in Seq(SectionsOf(Lines))
<1> SUFFICES ASSUME SecTyped PROVE All \in Seq(SectionsOf(Lines))
    OBVIOUS
<1>1. PICK R : R = SectionsOf(Lines)
    OBVIOUS
<1>2. sections \in Seq(R) /\ current \in R
    BY <1>1 DEF SecTyped
<1>3. Append(sections, current) \in Seq(R)
    BY <1>2
<1>4. QED
    BY <1>1, <1>2, <1>3 DEF All, Flush

(* Where the search for the text of a title ends; the blocks it passed have *)
(* neither text nor titles.                                                 *)
LEMMA AheadIsFirst ==
    ASSUME PlaceInv, TitleAlone
    PROVE  /\ Ahead \in Nat /\ Ahead >= i + 1
           /\ \A n \in (i + 1)..(Ahead - 1) : ContentAt(n) = <<>> /\ TitlesAt(n) = <<>>
<1> DEFINE L == Len(doc[page])
           Stops == {n \in (i + 1)..(i + L + Keys) :
                       \/ n > Keys \/ n > L
                       \/ ContentAt(n) # <<>> \/ TitlesAt(n) # <<>>}
<1>1. doc[page] \in Seq(Shapes) /\ L \in Nat /\ i \in 1..L /\ Keys \in Nat \ {0}
    BY Sizes DEF PlaceInv, TitleAlone, Looking
<1>2. L + 1 \in Stops /\ Stops \subseteq Nat
    BY <1>1
<1>3. Ahead = Smallest(Stops)
    BY DEF Ahead
<1>4. Ahead \in Stops /\ \A n \in Stops : Ahead <= n
    <2>1. PICK S \in SUBSET Nat : S = Stops
        BY <1>2
    <2>2. QED
        BY <1>2, <1>3, <2>1, Least
<1>5. Ahead \in (i + 1)..(i + L + Keys)
    BY <1>4
<1>6. ASSUME NEW n \in (i + 1)..(Ahead - 1) PROVE ContentAt(n) = <<>> /\ TitlesAt(n) = <<>>
    <2>1. n \in (i + 1)..(i + L + Keys) /\ ~(Ahead <= n)
        BY <1>1, <1>5
    <2>2. n \notin Stops
        BY <1>4, <2>1
    <2>3. QED
        BY <2>1, <2>2
<1>7. QED
    BY <1>1, <1>5, <1>6

\* The titles of the block open sections, the last with the text of block q;
\* between the two is nothing.
LEMMA TitlesOpen ==
    ASSUME PlaceInv, OpenSections \/ TakeTextAhead
    PROVE  \E q \in i..Len(doc[page]) :
              /\ i' = q + 1
              /\ \A n \in i..(q - 1) : ContentAt(n) = <<>>
              /\ \A n \in (i + 1)..(q - 1) : TitlesAt(n) = <<>>
              /\ q # i => ContentAt(q) # <<>>
              /\ TitlesAt(i) # <<>>
              /\ current' = Section(Last(TitlesAt(i)), ContentAt(q))
              /\ \/ sections' = Flush(sections) \o Earlier(TitlesAt(i))
                 \/ sections' = Flush(sections \o Earlier(TitlesAt(i)))
              /\ i \in 1..Len(doc[page]) /\ status = "parsing"
              /\ UNCHANGED <<doc, few, status, page, trimmed>>
<1>1. i \in 1..Len(doc[page]) /\ Len(doc[page]) \in Nat /\ status = "parsing"
    BY DEF PlaceInv, OpenSections, TakeTextAhead, TitleAlone, Looking
<1>2. UNCHANGED <<doc, few, status, page, trimmed>>
    BY DEF OpenSections, TakeTextAhead, given
<1>3. CASE OpenSections
    <2>1. i \in i..Len(doc[page]) /\ i..(i - 1) = {} /\ (i + 1)..(i - 1) = {}
        BY <1>1
    <2>2. QED
        BY <1>1, <1>2, <1>3, <2>1 DEF OpenSections
<1>4. CASE TakeTextAhead /\ Found
    <2>1. /\ TitleAlone /\ Ahead \in DOMAIN doc[page] /\ i' = Ahead + 1
          /\ ContentAt(Ahead) # <<>> /\ ContentAt(i) = <<>> /\ TitlesAt(i) # <<>>
          /\ sections' = Flush(sections \o Earlier(TitlesAt(i)))
          /\ current' = Section(Last(TitlesAt(i)), ContentAt(Ahead))
        BY <1>4 DEF TakeTextAhead, TitleAlone, Found
    <2>2. /\ Ahead \in Nat /\ Ahead >= i + 1
          /\ \A n \in (i + 1)..(Ahead - 1) : ContentAt(n) = <<>> /\ TitlesAt(n) = <<>>
        BY <2>1, AheadIsFirst
    <2>3. Ahead \in i..Len(doc[page])
        BY <1>1, <2>1, <2>2 DEF PlaceInv
    <2>4. \A n \in i..(Ahead - 1) : ContentAt(n) = <<>>
        <3> SUFFICES ASSUME NEW n \in i..(Ahead - 1) PROVE ContentAt(n) = <<>>
            OBVIOUS
        <3>1. CASE n = i
            BY <2>1, <3>1
        <3>2. CASE n # i
            <4>1. n \in (i + 1)..(Ahead - 1)
                BY <1>1, <2>2, <3>2
            <4>2. QED
                BY <2>2, <4>1
        <3>3. QED
            BY <3>1, <3>2
    <2>5. QED
        BY <1>1, <1>2, <2>1, <2>2, <2>3, <2>4
<1>5. CASE TakeTextAhead /\ ~Found
    <2>1. /\ i' = i + 1 /\ ContentAt(i) = <<>> /\ TitlesAt(i) # <<>>
          /\ sections' = Flush(sections \o Earlier(TitlesAt(i)))
          /\ current' = Section(Last(TitlesAt(i)), ContentAt(i))
        BY <1>5 DEF TakeTextAhead, TitleAlone
    <2>2. i \in i..Len(doc[page]) /\ i..(i - 1) = {} /\ (i + 1)..(i - 1) = {}
        BY <1>1
    <2>3. QED
        BY <1>1, <1>2, <2>1, <2>2
<1>6. QED
    BY <1>3, <1>4, <1>5

LEMMA TitlesOpenSections ==
    ASSUME PlaceInv, SecTyped, NEW q \in 1..Len(doc[page]), i \in 1..Len(doc[page]),
           TitlesAt(i) # <<>>, UNCHANGED doc,
           current' = Section(Last(TitlesAt(i)), ContentAt(q)),
           \/ sections' = Flush(sections) \o Earlier(TitlesAt(i))
           \/ sections' = Flush(sections \o Earlier(TitlesAt(i)))
    PROVE  /\ SecTyped' /\ current'.open
           /\ All' \in Seq(SectionsOf(Lines))
           /\ Opened(All, All', TitlesAt(i), ContentAt(q))
<1>1. PICK L : L = Lines /\ L = Lines'
    <2>1. doc' = doc
        OBVIOUS
    <2>2. Lines' = Lines
        BY <2>1 DEF Lines
    <2>3. QED
        BY <2>2
<1>2. PICK ts \in Seq(Seq(L)) : ts = TitlesAt(i) /\ ts # <<>>
    BY <1>1, TitlesFoundAt
<1>3. PICK C \in Seq(L) : C = ContentAt(q)
    BY <1>1, ContentFound
<1>4. PICK R : R = SectionsOf(L)
    OBVIOUS
<1>5. PICK new \in R : new = Section(Last(ts), C) /\ new.open
    <2>1. Section(Last(ts), C) \in R
        BY <1>2, <1>4, NewSection
    <2>2. Section(Last(ts), C).open
        BY DEF Section
    <2>3. QED
        BY <2>1, <2>2
<1>6. current' = new /\ All' = Append(sections', new)
    BY <1>2, <1>3, <1>5 DEF All, Flush
<1>7. PICK E \in Seq(R) : E = Earlier(ts)
    BY <1>2, <1>4, EarlierSections
<1>8. PICK B \in Seq(R), now \in R : B = sections /\ now = current
    BY <1>1, <1>4 DEF SecTyped
<1>9. PICK S \in Seq(R) : S = All
    BY <1>1, <1>4, AllTyped
<1>10. B \o E \in Seq(R) /\ S \o E \in Seq(R)
    OBVIOUS
<1>11. Append(B \o E, now) \in Seq(R)
    BY <1>10
<1>12. PICK T : T = All'
    OBVIOUS
<1>13. CASE sections' = S \o E
    <2>1. T = Append(S \o Earlier(ts), Section(Last(ts), C))
        BY <1>5, <1>6, <1>7, <1>12, <1>13
    <2>2. T \in Seq(SectionsOf(L)) /\ Opened(S, T, ts, C)
        BY <1>2, <1>4, <2>1, OpenedAfter
    <2>3. sections' \in Seq(R)
        BY <1>10, <1>13
    <2>4. QED
        BY <1>1, <1>2, <1>3, <1>4, <1>5, <1>6, <1>9, <1>12, <2>2, <2>3 DEF SecTyped
<1>14. CASE sections' = Append(B \o E, now) /\ S = Append(B, now)
    <2>1. T = Append(Append(B \o Earlier(ts), now), Section(Last(ts), C))
        BY <1>5, <1>6, <1>7, <1>12, <1>14
    <2>a. /\ B \in Seq(SectionsOf(L)) /\ now \in SectionsOf(L)
          /\ ts # <<>> /\ S = Append(B, now)
        BY <1>2, <1>4, <1>14
    <2>2. T \in Seq(SectionsOf(L)) /\ Opened(S, T, ts, C)
        BY <2>a, <2>1, OpenedAmid
    <2>3. sections' \in Seq(R)
        BY <1>11, <1>14
    <2>4. QED
        BY <1>1, <1>2, <1>3, <1>4, <1>5, <1>6, <1>9, <1>12, <2>2, <2>3 DEF SecTyped
<1>15. CASE sections' = Flush(sections) \o Earlier(TitlesAt(i))
    <2>1. sections' = S \o E
        BY <1>2, <1>7, <1>9, <1>15 DEF All
    <2>2. QED
        BY <1>13, <2>1
<1>16. CASE sections' = Flush(sections \o Earlier(TitlesAt(i)))
    <2>1. sections' = IF now.open THEN Append(B \o E, now) ELSE B \o E
        BY <1>2, <1>7, <1>8, <1>16 DEF Flush
    <2>2. S = IF now.open THEN Append(B, now) ELSE B
        BY <1>8, <1>9 DEF All, Flush
    <2>3. CASE now.open
        BY <1>14, <2>1, <2>2, <2>3
    <2>4. CASE ~now.open
        BY <1>13, <2>1, <2>2, <2>4
    <2>5. QED
        BY <2>3, <2>4
<1>17. QED
    BY <1>15, <1>16

LEMMA EmptySection ==
    ASSUME NEW p, NEW n
    PROVE  WellCut(<<NoSection>>, p, n) /\ LastTitleLast(<<NoSection>>)
<1> DEFINE S == <<NoSection>>
<1>1. Len(S) = 1 /\ S[1].chapter = <<>> /\ S[1].content = <<>>
    BY DEF NoSection
<1>2. \A k \in 1..Len(S) : S[k].chapter = <<>> /\ S[k].content = <<>>
    BY <1>1
<1>3. Len(<<>>) = 0
    OBVIOUS
<1> HIDE DEF S
<1>4. \A k \in 1..Len(S) : 1..Len(S[k].chapter) = {} /\ 1..Len(S[k].content) = {}
    BY <1>2, <1>3
<1>5. WellCut(S, p, n) /\ LastTitleLast(S)
    BY <1>4 DEF WellCut, AllBehind, TextsInOrder, HeadsOnce, UnderTitles, LastTitleLast
<1>6. QED
    BY <1>5 DEF S

\* A block without a title gives its text to the section that is current.
LEMMA TextGoesOn ==
    ASSUME PlaceInv, SecInv, AddText
    PROVE  /\ SecTyped' /\ current'.open /\ All' \in Seq(SectionsOf(Lines))
           /\ \E S \in Seq(SectionsOf(Lines)) :
                 /\ S # <<>> /\ Extends(S, All', ContentAt(i))
                 /\ WellCut(S, page, i) /\ LastTitleLast(S)
                 /\ S = All \/ All = <<>>
<1>1. /\ status = "parsing" /\ i \in 1..Len(doc[page]) /\ sections' = sections
      /\ current' = Section(current.chapter, current.content \o ContentAt(i))
      /\ doc' = doc
    BY DEF AddText, Looking, given, PlaceInv
<1>2. PICK L : L = Lines /\ L = Lines'
    <2>1. Lines' = Lines
        BY <1>1 DEF Lines
    <2>2. QED
        BY <2>1
<1>3. PICK C \in Seq(L) : C = ContentAt(i)
    BY <1>1, <1>2, ContentFound
<1>4. PICK R : R = SectionsOf(L)
    OBVIOUS
<1>5. PICK B \in Seq(R), now \in R : B = sections /\ now = current
    BY <1>2, <1>4 DEF SecInv, SecTyped
<1>6. now.chapter \in Seq(L) /\ now.content \in Seq(L)
    BY <1>4, PartsOfSection
<1>7. PICK new : new = Section(now.chapter, now.content \o C)
    OBVIOUS
<1>8. new \in R /\ new.open /\ new.chapter = now.chapter /\ new.content = now.content \o C
    <2>1. now.content \o C \in Seq(L)
        BY <1>6
    <2>2. QED
        BY <1>4, <1>6, <1>7, <2>1 DEF Section, SectionsOf
<1>9. current' = new /\ All' = Append(B, new)
    BY <1>1, <1>3, <1>5, <1>7, <1>8 DEF All, Flush
<1>10. PICK S \in Seq(R), T \in Seq(R) : S = Append(B, now) /\ T = Append(B, new)
    <2>1. Append(B, now) \in Seq(R) /\ Append(B, new) \in Seq(R)
        BY <1>8, Appended
    <2>2. QED
        BY <2>1
<1>11. /\ Len(S) = Len(B) + 1 /\ S[Len(B) + 1] = now /\ \A k \in 1..Len(B) : S[k] = B[k]
       /\ Len(T) = Len(B) + 1 /\ T[Len(B) + 1] = new /\ \A k \in 1..Len(B) : T[k] = B[k]
       /\ Len(B) \in Nat
    BY <1>8, <1>10, Appended
<1>12. Extends(S, T, C)
    <2>1. \A k \in 1..Len(S) : k = Len(S) \/ k \in 1..Len(B)
        BY <1>11
    <2>2. \A k \in 1..Len(S) : T[k].chapter = S[k].chapter
        BY <1>8, <1>11, <2>1
    <2>3. \A k \in 1..Len(S) : k # Len(S) => T[k].content = S[k].content
        BY <1>11, <2>1
    <2>4. QED
        BY <1>8, <1>11, <2>2, <2>3 DEF Extends
<1>13. S # <<>>
    BY <1>11
<1>14. WellCut(S, page, i) /\ LastTitleLast(S) /\ (S = All \/ All = <<>>)
    <2>1. CASE current.open
        <3>1. All = S
            BY <1>5, <1>10, <2>1 DEF All, Flush
        <3>2. QED
            BY <3>1 DEF SecInv
    <2>2. CASE ~current.open
        <3>1. sections = <<>> /\ current = NoSection
            BY <1>1, <2>2 DEF SecInv, OpenInv
        <3>2. S = <<NoSection>>
            BY <1>5, <1>10, <3>1
        <3>3. All = <<>>
            BY <2>2, <3>1 DEF All, Flush
        <3>4. QED
            BY <3>2, <3>3, EmptySection
    <2>3. QED
        BY <2>1, <2>2
<1>15. SecTyped'
    BY <1>1, <1>2, <1>4, <1>5, <1>8, <1>9 DEF SecTyped
<1>16. QED
    BY <1>2, <1>3, <1>4, <1>8, <1>9, <1>10, <1>12, <1>13, <1>14, <1>15

LEMMA LaterCut ==
    ASSUME NEW L, LinesTyped(L), NEW S \in Seq(SectionsOf(L)),
           NEW p \in Nat, NEW n \in Nat, NEW r \in Nat, NEW m \in Nat,
           p < r \/ (p = r /\ n <= m), WellCut(S, p, n)
    PROVE  WellCut(S, r, m)
<1>1. ASSUME NEW x \in L, Behind(x, p, n) PROVE Behind(x, r, m)
    <2>1. x[1] \in Nat /\ x[2] \in Nat
        BY DEF LinesTyped
    <2>2. QED
        BY <1>1, <2>1 DEF Behind
<1>2. \A k \in 1..Len(S) : S[k].chapter \in Seq(L) /\ S[k].content \in Seq(L)
    <2>1. \A k \in 1..Len(S) : S[k] \in SectionsOf(L)
        OBVIOUS
    <2>2. QED
        BY <2>1, PartsOfSection
<1>3. ASSUME NEW k \in 1..Len(S), NEW a \in 1..Len(S[k].content)
      PROVE  Behind(S[k].content[a], r, m)
    <2>1. S[k].content[a] \in L
        BY <1>2, EntryIn
    <2>2. Behind(S[k].content[a], p, n)
        BY DEF WellCut, AllBehind
    <2>3. QED
        BY <1>1, <2>1, <2>2
<1>4. ASSUME NEW k \in 1..Len(S), NEW a \in 1..Len(S[k].chapter)
      PROVE  Behind(S[k].chapter[a], r, m)
    <2>1. S[k].chapter[a] \in L
        BY <1>2, EntryIn
    <2>2. Behind(S[k].chapter[a], p, n)
        BY DEF WellCut, AllBehind
    <2>3. QED
        BY <1>1, <2>1, <2>2
<1>5. QED
    BY <1>3, <1>4 DEF WellCut, AllBehind

\* What is found in a block that may be none.
LEMMA FoundIn ==
    ASSUME PlaceInv, NEW n \in 1..Len(doc[page])
    PROVE  TitlesIn(TitlesAt(n), page, n) /\ TextIn(ContentAt(n), page, n)
BY ContentFound, TitlesFoundAt DEF TitlesIn, TextIn

\* The steps that cut no section.
Goes ==
    /\ doc' = doc /\ All' = All
    /\ page < page' \/ (page = page' /\ i <= i')
    /\ sections' \in {sections, All} /\ current' \in {current, NoSection}
    /\ \/ UNCHANGED <<sections, current>> /\ status \in {"loading", "parsing"}
       \/ status' \notin {"loading", "parsing"}
       \/ UNCHANGED <<sections, current, status>>

LEMMA OtherStepsGo ==
    ASSUME PlaceInv, [Next]_vars
    PROVE  Goes \/ AddText \/ OpenSections \/ TakeTextAhead
<1>0. page \in Nat /\ i \in Nat
    BY DEF PlaceInv
<1>1. CASE UNCHANGED vars
    BY <1>0, <1>1 DEF vars, given, Goes, All, Flush
<1>2. CASE Start \/ StartRaises \/ LookPastPage
    BY <1>0, <1>2 DEF Start, StartRaises, LoadModelFails, OpenFails, NoFont, Refuse,
        LookPastPage, TitleAlone, Looking, given, Goes, All, Flush
<1>3. CASE PassBlock
    BY <1>0, <1>3 DEF PassBlock, Looking, given, Goes, All, Flush
<1>4. CASE TrimRun
    <2>1. RunEnd \in i..Len(doc[page])
        BY <1>4, RunEndsOnPage DEF TrimRun
    <2>2. i <= RunEnd + 1
        BY <1>0, <2>1
    <2>3. QED
        BY <1>4, <2>2 DEF TrimRun, Looking, given, Goes, All, Flush
<1>5. CASE NextPage
    BY <1>0, <1>5 DEF NextPage, given, Goes, All, Flush
<1>6. CASE Parsed
    <2>1. /\ sections' = All /\ current' = NoSection /\ status' = "chunking"
          /\ UNCHANGED <<doc, page, i>>
        BY <1>6 DEF Parsed, given, All
    <2>2. All' = sections'
        BY <2>1 DEF All, Flush, NoSection
    <2>3. QED
        BY <1>0, <2>1, <2>2 DEF Goes
<1>7. CASE Generate
    <2>1. UNCHANGED <<doc, page, i, sections, current>> /\ status = "chunking"
          /\ status' \in {"chunking", "raised", "ended"}
        BY <1>7 DEF Generate, YieldPlain, EncodeBatch, BatchFails, EncodeOne, OneFails,
            Exhausted, given
    <2>2. QED
        BY <1>0, <2>1 DEF Goes, All, Flush
<1>8. QED
    BY <1>1, <1>2, <1>3, <1>4, <1>5, <1>6, <1>7 DEF Next, Parse

LEMMA SecStep ==
    ASSUME PlaceInv, PlaceInv', SecInv, [Next]_vars
    PROVE  SecInv'
<1>1. PICK p \in Nat, n \in Nat : p = page /\ n = i
    BY DEF PlaceInv
<1>2. PICK r \in Nat, m \in Nat : r = page' /\ m = i'
    BY DEF PlaceInv
<1>3. PICK L : L = Lines /\ LinesTyped(L)
    BY LinesAreTyped
<1>4. PICK S \in Seq(SectionsOf(L)) : S = All
    BY <1>3, AllTyped DEF SecInv
<1>5. WellCut(S, p, n) /\ LastTitleLast(S)
    BY <1>1, <1>4 DEF SecInv
<1>6. CASE Goes
    <2>1. WellCut(S, r, m)
        BY <1>1, <1>2, <1>3, <1>5, <1>6, LaterCut DEF Goes
    <2>2. WellCut(All, page, i)' /\ LastTitleLast(All)'
        BY <1>2, <1>4, <1>5, <1>6, <2>1 DEF Goes
    <2>3. Lines' = Lines
        BY <1>6 DEF Goes, Lines
    <2>4. NoSection \in SectionsOf(L)
        BY DEF NoSection, SectionsOf
    <2>5. SecTyped'
        BY <1>3, <1>4, <1>6, <2>3, <2>4 DEF Goes, SecInv, SecTyped
    <2>6. OpenInv'
        BY <1>6 DEF Goes, SecInv, OpenInv
    <2>7. QED
        BY <2>2, <2>5, <2>6 DEF SecInv
<1>7. CASE AddText
    <2>1. /\ SecTyped' /\ current'.open /\ All' \in Seq(SectionsOf(L))
          /\ \E X \in Seq(SectionsOf(L)) :
                /\ X # <<>> /\ Extends(X, All', ContentAt(i))
                /\ WellCut(X, page, i) /\ LastTitleLast(X)
        BY <1>3, <1>7, TextGoesOn
    <2>2. i \in 1..Len(doc[page]) /\ i' = i + 1 /\ page' = page
        BY <1>7 DEF AddText, Looking, PlaceInv
    <2>3. PICK C \in Seq(L) : C = ContentAt(i) /\ TextIn(C, p, n)
        BY <1>1, <1>3, <2>2, ContentFound, FoundIn
    <2>4. PICK T \in Seq(SectionsOf(L)) : T = All'
        BY <2>1
    <2>5. PICK X \in Seq(SectionsOf(L)) :
              X # <<>> /\ Extends(X, T, C) /\ WellCut(X, p, n) /\ LastTitleLast(X)
        BY <1>1, <2>1, <2>3, <2>4
    <2>6. WellCut(T, p, n + 1) /\ LastTitleLast(T)
        BY <1>3, <2>3, <2>5, TextAdded
    <2>7. WellCut(All, page, i)' /\ LastTitleLast(All)'
        BY <1>1, <2>2, <2>4, <2>6
    <2>8. QED
        BY <2>1, <2>7 DEF SecInv, OpenInv
<1>8. CASE OpenSections \/ TakeTextAhead
    <2>1. PICK q \in i..Len(doc[page]) :
              /\ i' = q + 1 /\ TitlesAt(i) # <<>>
              /\ current' = Section(Last(TitlesAt(i)), ContentAt(q))
              /\ \/ sections' = Flush(sections) \o Earlier(TitlesAt(i))
                 \/ sections' = Flush(sections \o Earlier(TitlesAt(i)))
              /\ i \in 1..Len(doc[page])
              /\ doc' = doc /\ page' = page
        BY <1>8, TitlesOpen
    <2>2. q \in 1..Len(doc[page]) /\ q \in Nat /\ n <= q
        BY <1>1, <2>1
    <2>3. /\ SecTyped' /\ current'.open
          /\ All' \in Seq(SectionsOf(L))
          /\ Opened(S, All', TitlesAt(i), ContentAt(q))
        BY <1>3, <1>4, <2>1, <2>2, TitlesOpenSections DEF SecInv
    <2>4. PICK ts \in Seq(Seq(L)) : ts = TitlesAt(i) /\ TitlesIn(ts, p, n)
        BY <1>1, <1>3, <2>1, TitlesFoundAt, FoundIn
    <2>5. PICK C \in Seq(L) : C = ContentAt(q) /\ TextIn(C, p, q)
        BY <1>1, <1>3, <2>2, ContentFound, FoundIn
    <2>6. PICK T \in Seq(SectionsOf(L)) : T = All'
        BY <2>3
    <2>7. PICK old, pos : Opens(S, T, ts, C, old, pos)
        BY <2>3, <2>4, <2>5, <2>6 DEF Opened
    <2>8. WellCut(T, p, q + 1) /\ LastTitleLast(T)
        BY <1>3, <1>5, <2>2, <2>4, <2>5, <2>7, SectionsOpened
    <2>9. WellCut(All, page, i)' /\ LastTitleLast(All)'
        BY <1>1, <2>1, <2>6, <2>8
    <2>10. QED
        BY <2>3, <2>9 DEF SecInv, OpenInv
<1>9. QED
    BY <1>6, <1>7, <1>8, OtherStepsGo

LEMMA SecInvariant == Spec => []SecInv
<1>1. Init => SecInv
    <2> SUFFICES ASSUME Init PROVE SecInv
        OBVIOUS
    <2>1. sections = <<>> /\ current = NoSection
        BY DEF Init
    <2>2. SecTyped
        BY <2>1 DEF SecTyped, SectionsOf, NoSection
    <2>3. All = <<>>
        BY <2>1 DEF All, Flush, NoSection
    <2>4. WellCut(All, page, i) /\ LastTitleLast(All)
        BY <2>3 DEF WellCut, AllBehind, TextsInOrder, HeadsOnce, UnderTitles, LastTitleLast
    <2>5. QED
        BY <2>1, <2>2, <2>4 DEF SecInv, OpenInv
<1>2. PlaceInv /\ PlaceInv' /\ SecInv /\ [Next]_vars => SecInv'
    BY SecStep
<1>3. QED
    BY <1>1, <1>2, PlaceInvariant, PTL DEF Spec

-----------------------------------------------------------------------------
(* What is seen of a block that is passed *)

HasText(S, x)  == \E k \in 1..Len(S) : \E a \in 1..Len(S[k].content) : S[k].content[a] = x
HasTitle(S, x) == \E k \in 1..Len(S) : \E a \in 1..Len(S[k].chapter) : S[k].chapter[a] = x

\* The text of block n on page p, or a part of it, is under a title from elsewhere.
TextElsewhere(S, p, n) ==
    \E k \in 1..Len(S) :
        /\ \E a \in 1..Len(S[k].content) : S[k].content[a][1] = p /\ S[k].content[a][2] = n
        /\ \E b \in 1..Len(S[k].chapter) : ~(S[k].chapter[b][1] = p /\ S[k].chapter[b][2] = n)

TextsSeen(S, block, filtered, p, n) ==
    \A l \in 1..Len(block) : block[l] = "text" => filtered \/ HasText(S, <<p, n, l>>)
TitlesSeen(S, block, p, n) ==
    \A l \in 1..Len(block) : l <= 4 /\ block[l] \in {"number", "title"} =>
        \/ HasTitle(S, <<p, n, l>>)
        \/ TextElsewhere(S, p, n)
        \/ \E m \in 1..l : block[m] = "blank"
Seen(S, block, filtered, p, n) ==
    TextsSeen(S, block, filtered, p, n) /\ TitlesSeen(S, block, p, n)

Past(p, n) == status # "loading" /\ (p < page \/ (p = page /\ n < i))
SeenInv ==
    \A p \in 1..Len(doc) : \A n \in 1..Len(doc[p]) :
        Past(p, n) =>
            <<p, n>> \in trimmed \/ Seen(All, doc[p][n], Filtered(doc[p][n]), p, n)

\* Every section of S is in T with all its text.
Grown(S, T) ==
    \A k \in 1..Len(S) : \E m \in 1..Len(T) :
        /\ T[m].chapter = S[k].chapter
        /\ \A a \in 1..Len(S[k].content) :
              \E b \in 1..Len(T[m].content) : T[m].content[b] = S[k].content[a]

LEMMA SeenStays ==
    ASSUME NEW S, NEW T, Grown(S, T), NEW block, NEW filtered, NEW p, NEW n,
           Seen(S, block, filtered, p, n)
    PROVE  Seen(T, block, filtered, p, n)
<1>1. ASSUME NEW x, HasText(S, x) PROVE HasText(T, x)
    BY <1>1 DEF HasText, Grown
<1>2. ASSUME NEW x, HasTitle(S, x) PROVE HasTitle(T, x)
    BY <1>2 DEF HasTitle, Grown
<1>3. ASSUME TextElsewhere(S, p, n) PROVE TextElsewhere(T, p, n)
    <2>1. PICK k \in 1..Len(S) :
              /\ \E a \in 1..Len(S[k].content) : S[k].content[a][1] = p /\ S[k].content[a][2] = n
              /\ \E b \in 1..Len(S[k].chapter) :
                    ~(S[k].chapter[b][1] = p /\ S[k].chapter[b][2] = n)
        BY <1>3 DEF TextElsewhere
    <2>2. PICK m \in 1..Len(T) :
              /\ T[m].chapter = S[k].chapter
              /\ \A a \in 1..Len(S[k].content) :
                    \E b \in 1..Len(T[m].content) : T[m].content[b] = S[k].content[a]
        BY DEF Grown
    <2>3. PICK a \in 1..Len(S[k].content) : S[k].content[a][1] = p /\ S[k].content[a][2] = n
        BY <2>1
    <2>4. PICK b \in 1..Len(T[m].content) : T[m].content[b] = S[k].content[a]
        BY <2>2
    <2>5. T[m].content[b][1] = p /\ T[m].content[b][2] = n
        BY <2>3, <2>4
    <2>6. QED
        BY <2>1, <2>2, <2>5 DEF TextElsewhere
<1>4. QED
    BY <1>1, <1>2, <1>3 DEF Seen, TextsSeen, TitlesSeen

LEMMA OpensGrows ==
    ASSUME NEW S, NEW T, NEW ts, NEW C, Opened(S, T, ts, C), Len(T) \in Nat
    PROVE  Grown(S, T)
<1>1. PICK old, pos : Opens(S, T, ts, C, old, pos)
    BY DEF Opened
<1>2. ASSUME NEW k \in 1..Len(S)
      PROVE  old[k] \in 1..Len(T) /\ T[old[k]].chapter = S[k].chapter
             /\ T[old[k]].content = S[k].content
    <2>1. old[k] \in 1..(Len(T) - 1)
        BY <1>1 DEF Opens
    <2>2. QED
        BY <1>1, <2>1 DEF Opens
<1>3. QED
    BY <1>2 DEF Grown

LEMMA ExtendsGrows ==
    ASSUME NEW L, NEW S \in Seq(SectionsOf(L)), NEW T, NEW C \in Seq(L), Extends(S, T, C)
    PROVE  Grown(S, T)
<1>1. ASSUME NEW k \in 1..Len(S), NEW a \in 1..Len(S[k].content)
      PROVE  \E b \in 1..Len(T[k].content) : T[k].content[b] = S[k].content[a]
    <2>1. CASE k # Len(S)
        BY <2>1 DEF Extends
    <2>2. CASE k = Len(S)
        <3>1. PICK s \in Seq(L) : s = S[k].content
            BY PartsOfSection
        <3>2. T[k].content = s \o C
            BY <2>2, <3>1 DEF Extends
        <3>3. a \in 1..Len(s \o C) /\ (s \o C)[a] = s[a]
            BY <3>1
        <3>4. QED
            BY <3>1, <3>2, <3>3
    <2>3. QED
        BY <2>1, <2>2
<1>2. \A k \in 1..Len(S) : k \in 1..Len(T) /\ T[k].chapter = S[k].chapter
    BY DEF Extends
<1>3. QED
    BY <1>1, <1>2 DEF Grown

\* What was seen stays so; what is passed now has to be.
LEMMA SeenStep ==
    ASSUME SeenInv, UNCHANGED <<doc, few>>, trimmed \subseteq trimmed', Grown(All, All'),
           \A p \in 1..Len(doc) : \A n \in 1..Len(doc[p]) :
              Past(p, n)' =>
                 \/ Past(p, n) \/ <<p, n>> \in trimmed'
                 \/ Seen(All', doc[p][n], Filtered(doc[p][n]), p, n)
    PROVE  SeenInv'
<1> SUFFICES ASSUME NEW p \in 1..Len(doc), NEW n \in 1..Len(doc[p]), Past(p, n)'
             PROVE  (<<p, n>> \in trimmed \/ Seen(All, doc[p][n], Filtered(doc[p][n]), p, n))'
    BY DEF SeenInv
<1>1. PICK b, f : b = doc[p][n] /\ f = Filtered(b) /\ f = Filtered(b)'
    BY DEF Filtered, OddChars
<1>2. b = doc'[p][n]
    BY <1>1
<1>3. PICK S, T : S = All /\ T = All'
    OBVIOUS
<1>4. CASE <<p, n>> \in trimmed'
    BY <1>4
<1>5. CASE <<p, n>> \notin trimmed'
    <2>1. Seen(S, b, f, p, n) \/ Seen(T, b, f, p, n)
        <3>1. Past(p, n) => Seen(All, doc[p][n], Filtered(doc[p][n]), p, n)
            BY <1>5 DEF SeenInv
        <3>2. Past(p, n) \/ Seen(All', doc[p][n], Filtered(doc[p][n]), p, n)
            BY <1>5
        <3>3. QED
            BY <1>1, <1>3, <3>1, <3>2
    <2>2. Seen(T, b, f, p, n)
        BY <1>3, <2>1, SeenStays
    <2>3. QED
        BY <1>1, <1>2, <1>3, <2>2
<1>6. QED
    BY <1>4, <1>5

\* A block is seen when its text and its titles are in the sections, or the text
\* alone but under a title from elsewhere.
LEMMA TextIsSeen ==
    ASSUME PlaceInv, NEW n \in 1..Len(doc[page]), NEW T, NEW k \in 1..Len(T),
           \A a \in 1..Len(ContentAt(n)) :
              \E b \in 1..Len(T[k].content) : T[k].content[b] = ContentAt(n)[a]
    PROVE  TextsSeen(T, Block(n), Filtered(Block(n)), page, n)
<1> SUFFICES ASSUME NEW l \in 1..Len(Block(n)), Block(n)[l] = "text", ~Filtered(Block(n))
             PROVE  HasText(T, <<page, n, l>>)
    BY DEF TextsSeen
<1>1. PICK a \in 1..Len(ContentAt(n)) : ContentAt(n)[a] = <<page, n, l>>
    BY ContentFound
<1>2. QED
    BY <1>1 DEF HasText

LEMMA NoTextIsSeen ==
    ASSUME PlaceInv, NEW n \in 1..Len(doc[page]), NEW T, ContentAt(n) = <<>>
    PROVE  TextsSeen(T, Block(n), Filtered(Block(n)), page, n)
<1> SUFFICES ASSUME NEW l \in 1..Len(Block(n)), Block(n)[l] = "text", ~Filtered(Block(n))
             PROVE  FALSE
    BY DEF TextsSeen
<1>1. PICK a \in 1..Len(ContentAt(n)) : ContentAt(n)[a] = <<page, n, l>>
    BY ContentFound
<1>2. QED
    BY <1>1

LEMMA NoTitleIsSeen ==
    ASSUME PlaceInv, NEW n \in 1..Len(doc[page]), NEW T, TitlesAt(n) = <<>>
    PROVE  TitlesSeen(T, Block(n), page, n)
<1> SUFFICES ASSUME NEW l \in 1..Len(Block(n)), l <= 4, Block(n)[l] \in {"number", "title"}
             PROVE  \E m \in 1..l : Block(n)[m] = "blank"
    BY DEF TitlesSeen
<1>1. InTitle(<<page, n, l>>, TitlesAt(n)) \/ \E m \in 1..l : Block(n)[m] = "blank"
    BY TitlesFoundAt
<1>2. ~InTitle(<<page, n, l>>, TitlesAt(n))
    BY DEF InTitle
<1>3. QED
    BY <1>1, <1>2

LEMMA TitlesAreSeen ==
    ASSUME PlaceInv, NEW n \in 1..Len(doc[page]), NEW S, NEW T, NEW C, NEW ts,
           ts = TitlesAt(n), Opened(S, T, ts, C)
    PROVE  TitlesSeen(T, Block(n), page, n)
<1> SUFFICES ASSUME NEW l \in 1..Len(Block(n)), l <= 4, Block(n)[l] \in {"number", "title"},
                    ~ \E m \in 1..l : Block(n)[m] = "blank"
             PROVE  HasTitle(T, <<page, n, l>>)
    BY DEF TitlesSeen
<1>1. InTitle(<<page, n, l>>, ts)
    BY TitlesFoundAt
<1>2. PICK j \in 1..Len(ts) : \E a \in 1..Len(ts[j]) : ts[j][a] = <<page, n, l>>
    BY <1>1 DEF InTitle
<1>3. PICK old, pos : Opens(S, T, ts, C, old, pos)
    BY DEF Opened
<1>4. pos[j] \in 1..Len(T) /\ T[pos[j]].chapter = ts[j]
    BY <1>3 DEF Opens
<1>5. QED
    BY <1>2, <1>4 DEF HasTitle

LEMMA ElsewhereIsSeen ==
    ASSUME PlaceInv, NEW n \in 1..Len(doc[page]), NEW q \in 1..Len(doc[page]), n # q,
           ContentAt(q) # <<>>, NEW S, NEW T, NEW ts, NEW C, ts = TitlesAt(n), C = ContentAt(q),
           ts # <<>>, Opened(S, T, ts, C)
    PROVE  TitlesSeen(T, Block(q), page, q)
<1>1. PICK old, pos : Opens(S, T, ts, C, old, pos)
    BY DEF Opened
<1>2. Len(ts) \in 1..Len(ts) /\ 1 \in 1..Len(C)
    <2>1. PICK L : L = Lines
        OBVIOUS
    <2>2. ts \in Seq(Seq(L)) /\ C \in Seq(L)
        BY <2>1, TitlesFoundAt, ContentFound
    <2>3. QED
        BY <2>2
<1>3. Len(T) \in 1..Len(T) /\ T[Len(T)].chapter = ts[Len(ts)] /\ T[Len(T)].content = C
    BY <1>1, <1>2 DEF Opens
<1>4. C[1][1] = page /\ C[1][2] = q
    BY <1>2, ContentFound DEF InBlock
<1>5. 1 \in 1..Len(ts[Len(ts)]) /\ ts[Len(ts)][1][2] = n
    <2>1. PICK L : L = Lines
        OBVIOUS
    <2>2. ts \in Seq(Seq(L))
        BY <2>1, TitlesFoundAt
    <2>3. PICK t \in Seq(L) : t = ts[Len(ts)]
        BY <1>2, <2>2
    <2>4. t # <<>> /\ InBlock(t, page, n)
        BY <1>2, <2>3, TitlesFoundAt
    <2>5. 1 \in 1..Len(t)
        BY <2>4
    <2>6. QED
        BY <2>3, <2>4, <2>5 DEF InBlock
<1>6. TextElsewhere(T, page, q)
    BY <1>2, <1>3, <1>4, <1>5 DEF TextElsewhere
<1>7. QED
    BY <1>6 DEF TitlesSeen

LEMMA GrownSelf == ASSUME NEW S PROVE Grown(S, S)
BY DEF Grown

\* The block that is seen when text goes to the last section.
LEMMA ExtendedIsSeen ==
    ASSUME PlaceInv, NEW n \in 1..Len(doc[page]), NEW L, L = Lines,
           NEW S \in Seq(SectionsOf(L)), S # <<>>, NEW T, Extends(S, T, ContentAt(n))
    PROVE  TextsSeen(T, Block(n), Filtered(Block(n)), page, n)
<1>1. PICK C \in Seq(L) : C = ContentAt(n)
    BY ContentFound
<1>2. Len(S) \in 1..Len(S) /\ Len(T) = Len(S)
    BY DEF Extends
<1>3. PICK s \in Seq(L) : s = S[Len(S)].content
    BY <1>2, PartsOfSection
<1>4. T[Len(T)].content = s \o C
    BY <1>1, <1>3 DEF Extends
<1>5. \A a \in 1..Len(C) : Len(s) + a \in 1..Len(s \o C) /\ (s \o C)[Len(s) + a] = C[a]
    OBVIOUS
<1>6. \A a \in 1..Len(ContentAt(n)) :
         \E b \in 1..Len(T[Len(T)].content) : T[Len(T)].content[b] = ContentAt(n)[a]
    BY <1>1, <1>4, <1>5
<1>7. PICK k \in 1..Len(T) : k = Len(T)
    BY <1>2
<1>8. QED
    BY <1>6, <1>7, TextIsSeen

\* The blocks that are seen when titles open sections.
LEMMA OpenedAreSeen ==
    ASSUME PlaceInv, SecInv, SeenInv, OpenSections \/ TakeTextAhead
    PROVE  SeenInv'
<1>1. PICK q \in i..Len(doc[page]) :
          /\ i' = q + 1 /\ TitlesAt(i) # <<>>
          /\ \A n \in i..(q - 1) : ContentAt(n) = <<>>
          /\ \A n \in (i + 1)..(q - 1) : TitlesAt(n) = <<>>
          /\ q # i => ContentAt(q) # <<>>
          /\ current' = Section(Last(TitlesAt(i)), ContentAt(q))
          /\ \/ sections' = Flush(sections) \o Earlier(TitlesAt(i))
             \/ sections' = Flush(sections \o Earlier(TitlesAt(i)))
          /\ i \in 1..Len(doc[page]) /\ status = "parsing"
          /\ UNCHANGED <<doc, few, status, page, trimmed>>
    BY TitlesOpen
<1>2. q \in 1..Len(doc[page]) /\ Len(doc[page]) \in Nat
    BY <1>1
<1>3. /\ All' \in Seq(SectionsOf(Lines))
      /\ Opened(All, All', TitlesAt(i), ContentAt(q))
    BY <1>1, <1>2, TitlesOpenSections DEF SecInv
<1>4. PICK L, S, T : L = Lines /\ S = All /\ T = All'
    OBVIOUS
<1>5. PICK ts, C : ts = TitlesAt(i) /\ C = ContentAt(q)
    OBVIOUS
<1>6. T \in Seq(SectionsOf(L)) /\ Opened(S, T, ts, C) /\ Len(T) \in Nat
    BY <1>3, <1>4, <1>5
<1>7. Grown(S, T)
    BY <1>6, OpensGrows
<1>8. ASSUME NEW n \in i..q
      PROVE  Seen(T, Block(n), Filtered(Block(n)), page, n)
    <2>1. n \in 1..Len(doc[page])
        BY <1>1
    <2>2. TextsSeen(T, Block(n), Filtered(Block(n)), page, n)
        <3>1. CASE n = q
            <4>1. PICK old, pos : Opens(S, T, ts, C, old, pos)
                BY <1>6 DEF Opened
            <4>2. T[Len(T)].content = C
                BY <4>1 DEF Opens
            <4>3. Len(T) \in 1..Len(T)
                <5>1. Len(ts) \in 1..Len(ts)
                    <6>1. ts \in Seq(Seq(L)) /\ ts # <<>>
                        BY <1>1, <1>4, <1>5, TitlesFoundAt
                    <6>2. QED
                        BY <6>1
                <5>2. QED
                    BY <4>1, <5>1 DEF Opens
            <4>4. PICK k \in 1..Len(T) : k = Len(T)
                BY <4>3
            <4>5. \A a \in 1..Len(ContentAt(n)) :
                     \E b \in 1..Len(T[k].content) : T[k].content[b] = ContentAt(n)[a]
                BY <1>5, <3>1, <4>2, <4>4
            <4>6. QED
                BY <2>1, <4>5, TextIsSeen
        <3>2. CASE n # q
            <4>1. n \in i..(q - 1)
                BY <1>1, <3>2
            <4>2. QED
                BY <1>1, <2>1, <4>1, NoTextIsSeen
        <3>3. QED
            BY <3>1, <3>2
    <2>3. TitlesSeen(T, Block(n), page, n)
        <3>1. CASE n = i
            <4>1. ts = TitlesAt(n)
                BY <1>5, <3>1
            <4>2. QED
                BY <1>6, <2>1, <4>1, TitlesAreSeen
        <3>2. CASE n # i /\ n = q
            <4>1. /\ ContentAt(n) # <<>> /\ C = ContentAt(n) /\ ts = TitlesAt(i) /\ ts # <<>>
                  /\ i \in 1..Len(doc[page]) /\ n \in 1..Len(doc[page])
                BY <1>1, <1>5, <2>1, <3>2
            <4>2. PICK m \in 1..Len(doc[page]) : m = i
                BY <4>1
            <4>3. ts = TitlesAt(m) /\ m # n
                BY <3>2, <4>1, <4>2
            <4>4. QED
                BY <1>6, <4>1, <4>3, ElsewhereIsSeen
        <3>3. CASE n # i /\ n # q
            <4>1. n \in (i + 1)..(q - 1)
                BY <1>1, <3>3
            <4>2. TitlesAt(n) = <<>>
                BY <1>1, <4>1
            <4>3. QED
                BY <2>1, <4>2, NoTitleIsSeen
        <3>4. QED
            BY <3>1, <3>2, <3>3
    <2>4. QED
        BY <2>2, <2>3 DEF Seen
<1>9. ASSUME NEW p \in 1..Len(doc), NEW n \in 1..Len(doc[p]), Past(p, n)', ~Past(p, n)
      PROVE  Seen(T, doc[p][n], Filtered(doc[p][n]), p, n)
    <2>1. p = page /\ n \in i..q
        BY <1>1, <1>2, <1>9 DEF Past, PlaceInv
    <2>2. Seen(T, Block(n), Filtered(Block(n)), page, n)
        BY <1>8, <2>1
    <2>3. QED
        BY <2>1, <2>2 DEF Block
<1>10. QED
    BY <1>1, <1>4, <1>7, <1>9, SeenStep

LEMMA SeenNext ==
    ASSUME PlaceInv, PlaceInv', ChunkInv, SecInv, SeenInv, [Next]_vars
    PROVE  SeenInv'
<1>1. CASE UNCHANGED vars \/ Start \/ StartRaises \/ LookPastPage \/ NextPage
           \/ Parsed \/ Generate
    <2>1. UNCHANGED <<doc, few, trimmed>>
        BY <1>1 DEF vars, given, Start, StartRaises, LoadModelFails, OpenFails, NoFont, Refuse,
            LookPastPage, NextPage, Parsed, Generate, YieldPlain, EncodeBatch, BatchFails,
            EncodeOne, OneFails, Exhausted
    <2>2. All' = All
        <3>1. CASE UNCHANGED <<sections, current>>
            BY <3>1 DEF All, Flush
        <3>2. CASE Parsed
            BY <3>2 DEF Parsed, All, Flush, NoSection
        <3>3. QED
            BY <1>1, <3>1, <3>2 DEF vars, Start, StartRaises, LoadModelFails, OpenFails,
                NoFont, Refuse, LookPastPage, NextPage, Generate, YieldPlain, EncodeBatch,
                BatchFails, EncodeOne, OneFails, Exhausted
    <2>3. PICK S : S = All /\ S = All'
        BY <2>2
    <2>4. ASSUME NEW p \in 1..Len(doc), NEW n \in 1..Len(doc[p]), Past(p, n)'
          PROVE  Past(p, n)
        <3>1. CASE UNCHANGED vars \/ LookPastPage \/ Parsed \/ Generate
            <4>1. UNCHANGED <<page, i>> /\ (status = "loading" => status' = "loading")
                BY <3>1 DEF vars, LookPastPage, TitleAlone, Looking, Parsed, Generate,
                    YieldPlain, EncodeBatch, BatchFails, EncodeOne, OneFails, Exhausted
            <4>2. QED
                BY <2>4, <4>1 DEF Past
        <3>2. CASE Start \/ StartRaises
            <4>1. page' = 1 /\ i' = 1
                BY <3>2 DEF Start, StartRaises, LoadModelFails, OpenFails, NoFont, Refuse,
                    PlaceInv
            <4>2. p \in Nat /\ p >= 1 /\ n >= 1
                <5>1. doc[p] \in Seq(Shapes)
                    BY DEF PlaceInv
                <5>2. QED
                    BY <5>1 DEF PlaceInv
            <4>3. QED
                BY <2>4, <4>1, <4>2 DEF Past
        <3>3. CASE NextPage
            <4>1. /\ page' = page + 1 /\ i' = 1 /\ i > Len(doc[page])
                  /\ status = "parsing"
                BY <3>3 DEF NextPage
            <4>2. p \in Nat /\ page \in Nat /\ i \in Nat /\ n \in Nat /\ n >= 1
                <5>1. doc[p] \in Seq(Shapes)
                    BY DEF PlaceInv
                <5>2. QED
                    BY <5>1 DEF PlaceInv
            <4>3. p < page \/ p = page
                BY <2>4, <4>1, <4>2 DEF Past
            <4>4. p = page => n < i
                <5>1. n <= Len(doc[p]) /\ Len(doc[p]) \in Nat
                    <6>1. doc[p] \in Seq(Shapes)
                        BY DEF PlaceInv
                    <6>2. QED
                        BY <6>1
                <5>2. QED
                    BY <4>1, <4>2, <5>1
            <4>5. QED
                BY <4>1, <4>3, <4>4 DEF Past
        <3>4. QED
            BY <1>1, <3>1, <3>2, <3>3
    <2>5. Grown(All, All')
        BY <2>3, GrownSelf
    <2>6. QED
        BY <2>1, <2>4, <2>5, SeenStep
<1>2. CASE TrimRun \/ PassBlock
    <2>1. /\ UNCHANGED <<doc, few, status, page, sections, current>> /\ status = "parsing"
          /\ i \in 1..Len(doc[page]) /\ trimmed \subseteq trimmed'
        BY <1>2 DEF TrimRun, PassBlock, Looking, given, PlaceInv
    <2>2. PICK S : S = All /\ S = All'
        BY <2>1 DEF All, Flush
    <2>3. ASSUME NEW p \in 1..Len(doc), NEW n \in 1..Len(doc[p]), Past(p, n)', ~Past(p, n)
          PROVE  <<p, n>> \in trimmed' \/ Seen(S, doc[p][n], Filtered(doc[p][n]), p, n)
        <3>1. p = page /\ n >= i /\ n < i' /\ n \in Nat
            <4>1. doc[p] \in Seq(Shapes) /\ n \in Nat
                BY DEF PlaceInv
            <4>2. QED
                BY <2>1, <2>3, <4>1 DEF Past, PlaceInv
        <3>2. CASE TrimRun
            <4>1. RunEnd \in i..Len(doc[page])
                BY <2>1, <3>2, RunEndsOnPage DEF TrimRun
            <4>2. n \in i..RunEnd
                BY <2>1, <3>1, <3>2, <4>1 DEF TrimRun
            <4>3. <<page, n>> \in trimmed'
                BY <3>2, <4>2 DEF TrimRun
            <4>4. QED
                BY <3>1, <4>3
        <3>3. CASE PassBlock
            <4>1. n = i /\ ContentAt(n) = <<>> /\ TitlesAt(n) = <<>> /\ n \in 1..Len(doc[page])
                BY <2>1, <3>1, <3>3 DEF PassBlock
            <4>2. Seen(S, Block(n), Filtered(Block(n)), page, n)
                BY <4>1, NoTextIsSeen, NoTitleIsSeen DEF Seen
            <4>3. QED
                BY <3>1, <4>2 DEF Block
        <3>4. QED
            BY <1>2, <3>2, <3>3
    <2>4. Grown(All, All')
        BY <2>2, GrownSelf
    <2>5. QED
        BY <2>1, <2>2, <2>3, <2>4, SeenStep
<1>3. CASE AddText
    <2>1. /\ UNCHANGED <<doc, few, status, page, trimmed>> /\ status = "parsing"
          /\ i \in 1..Len(doc[page]) /\ i' = i + 1 /\ TitlesAt(i) = <<>>
        BY <1>3 DEF AddText, Looking, given, PlaceInv
    <2>2. PICK S \in Seq(SectionsOf(Lines)) :
              /\ S # <<>> /\ Extends(S, All', ContentAt(i)) /\ (S = All \/ All = <<>>)
        BY <1>3, TextGoesOn
    <2>3. PICK L, T : L = Lines /\ T = All'
        OBVIOUS
    <2>4. PICK C \in Seq(L) : C = ContentAt(i)
        BY <2>1, <2>3, ContentFound
    <2>5. S \in Seq(SectionsOf(L)) /\ Extends(S, T, C)
        BY <2>2, <2>3, <2>4
    <2>6. Grown(All, All')
        <3>1. CASE S = All
            BY <2>3, <2>5, <3>1, ExtendsGrows
        <3>2. CASE All = <<>>
            <4>1. \A k \in 1..Len(<<>>) : FALSE
                OBVIOUS
            <4>2. Grown(<<>>, T)
                BY <4>1 DEF Grown
            <4>3. QED
                BY <2>3, <3>2, <4>2
        <3>3. QED
            BY <2>2, <3>1, <3>2
    <2>7. ASSUME NEW p \in 1..Len(doc), NEW n \in 1..Len(doc[p]), Past(p, n)', ~Past(p, n)
          PROVE  Seen(T, doc[p][n], Filtered(doc[p][n]), p, n)
        <3>1. p = page /\ n = i
            <4>1. doc[p] \in Seq(Shapes) /\ n \in Nat
                BY DEF PlaceInv
            <4>2. QED
                BY <2>1, <2>7, <4>1 DEF Past, PlaceInv
        <3>2. n \in 1..Len(doc[page]) /\ TitlesAt(n) = <<>> /\ Extends(S, T, ContentAt(n))
            BY <2>1, <2>4, <2>5, <3>1
        <3>3. TextsSeen(T, Block(n), Filtered(Block(n)), page, n)
            BY <2>2, <2>3, <2>5, <3>2, ExtendedIsSeen
        <3>4. Seen(T, Block(n), Filtered(Block(n)), page, n)
            BY <3>2, <3>3, NoTitleIsSeen DEF Seen
        <3>5. QED
            BY <3>1, <3>4 DEF Block
    <2>8. QED
        BY <2>1, <2>3, <2>6, <2>7, SeenStep
<1>4. CASE OpenSections \/ TakeTextAhead
    BY <1>4, OpenedAreSeen
<1>5. QED
    BY <1>1, <1>2, <1>3, <1>4 DEF Next, Parse

LEMMA SeenInvariant == Spec => []SeenInv
<1>1. Init => SeenInv
    BY DEF Init, SeenInv, Past
<1>2. PlaceInv /\ PlaceInv' /\ ChunkInv /\ SecInv /\ SeenInv /\ [Next]_vars => SeenInv'
    BY SeenNext
<1>3. QED
    BY <1>1, <1>2, PlaceInvariant, ChunkInvariant, SecInvariant, PTL DEF Spec

-----------------------------------------------------------------------------
(* What the sections are *)

LEMMA LineParts ==
    ASSUME PlaceInv, NEW x \in Lines
    PROVE  \E p \in 1..Len(doc) : \E n \in 1..Len(doc[p]) : \E l \in 1..Len(doc[p][n]) :
              x = <<p, n, l>>
<1>1. PICK p \in DOMAIN doc :
          x \in UNION {{<<p, n, l>> : l \in DOMAIN doc[p][n]} : n \in DOMAIN doc[p]}
    BY DEF Lines
<1>2. PICK n \in DOMAIN doc[p] : x \in {<<p, n, l>> : l \in DOMAIN doc[p][n]}
    BY <1>1
<1>3. PICK l \in DOMAIN doc[p][n] : x = <<p, n, l>>
    BY <1>2
<1>4. p \in 1..Len(doc) /\ doc[p] \in Seq(Shapes)
    BY DEF PlaceInv
<1>5. n \in 1..Len(doc[p]) /\ doc[p][n] \in Shapes
    BY <1>4
<1>6. doc[p][n] \in Seq(Kinds)
    BY <1>5, ParserAssumption
<1>7. l \in 1..Len(doc[p][n])
    BY <1>6
<1>8. QED
    BY <1>3, <1>4, <1>5, <1>7

\* The domains of the sections there are.
LEMMA AllParts ==
    ASSUME SecInv
    PROVE  /\ DOMAIN All = 1..Len(All)
           /\ \A k \in 1..Len(All) :
                 /\ All[k].chapter \in Seq(Lines) /\ All[k].content \in Seq(Lines)
                 /\ DOMAIN All[k].chapter = 1..Len(All[k].chapter)
                 /\ DOMAIN All[k].content = 1..Len(All[k].content)
<1>1. PICK L, S : L = Lines /\ S = All
    OBVIOUS
<1>2. S \in Seq(SectionsOf(L))
    BY <1>1, AllTyped DEF SecInv
<1>3. \A k \in 1..Len(S) : S[k].chapter \in Seq(L) /\ S[k].content \in Seq(L)
    <2>1. \A k \in 1..Len(S) : S[k] \in SectionsOf(L)
        BY <1>2
    <2>2. QED
        BY <2>1, PartsOfSection
<1>4. DOMAIN S = 1..Len(S)
    BY <1>2
<1>5. \A k \in 1..Len(S) : /\ DOMAIN S[k].chapter = 1..Len(S[k].chapter)
                           /\ DOMAIN S[k].content = 1..Len(S[k].content)
    BY <1>3
<1>6. QED
    BY <1>1, <1>3, <1>4, <1>5

(* The counts of the generator stay within the sections with text.          *)
BoundsInv ==
    /\ status \in {"loading", "parsing", "chunking", "ended", "raised"}
    /\ next <= Len(Valid) + 1 /\ batch <= Len(Valid)
    /\ failed <= MaxFailures + 1

LEMMA BoundsInvariant == Spec => []BoundsInv
<1>1. Init => BoundsInv
    BY ValidLength, Sizes DEF Init, BoundsInv
<1>2. ChunkInv /\ BoundsInv /\ [Next]_vars => BoundsInv'
    <2> SUFFICES ASSUME ChunkInv, BoundsInv, [Next]_vars PROVE BoundsInv'
        OBVIOUS
    <2>1. CASE UNCHANGED vars
        <3>1. UNCHANGED <<status, chunking, sections>>
            BY <2>1 DEF vars
        <3>2. Valid' = Valid
            BY <3>1 DEF Valid
        <3>3. QED
            BY <3>1, <3>2 DEF BoundsInv, chunking
    <2>2. CASE Parse
        <3>1. UNCHANGED chunking
            BY <2>2 DEF Parse, Start, StartRaises, LoadModelFails, OpenFails, NoFont, Refuse,
                TrimRun, AddText, OpenSections, PassBlock, TitleAlone, TakeTextAhead,
                LookPastPage, NextPage, Parsed
        <3>2. /\ status \in {"loading", "parsing"}
              /\ status' \in {"parsing", "chunking", "raised"}
            BY <2>2 DEF Parse, Start, StartRaises, LoadModelFails, OpenFails, NoFont, Refuse,
                TrimRun, AddText, OpenSections, PassBlock, TitleAlone, TakeTextAhead,
                LookPastPage, NextPage, Parsed, Looking
        <3>3. next' = 1 /\ batch' = 0 /\ failed' = 0
            BY <3>1, <3>2 DEF ChunkInv, StageInv, chunking
        <3>4. QED
            BY <3>2, <3>3, ValidLength, Sizes DEF BoundsInv
    <2>3. CASE Generate
        <3>1. status = "chunking" /\ sections' = sections
              /\ status' \in {"chunking", "ended", "raised"}
            BY <2>3 DEF Generate, YieldPlain, EncodeBatch, BatchFails, EncodeOne, OneFails,
                Exhausted
        <3>2. Len(Valid)' = Len(Valid) /\ Len(Valid) \in Nat
            BY <3>1, ValidLength DEF Valid
        <3>3. /\ next \in Nat /\ batch \in Nat /\ failed \in Nat /\ failed <= MaxFailures
              /\ MaxFailures \in Nat /\ BatchSize \in Nat \ {0}
              /\ batch <= Len(Valid) /\ next <= Len(Valid) + 1
            BY <3>1, Sizes DEF ChunkInv, CountsInv, StageInv
        <3>4. BatchEnd <= Len(Valid) /\ BatchEnd \in Int
            BY <3>2, <3>3 DEF BatchEnd
        <3>5. CASE YieldPlain \/ EncodeOne
            BY <3>1, <3>2, <3>3, <3>5 DEF YieldPlain, EncodeOne, BoundsInv
        <3>6. CASE EncodeBatch
            BY <3>1, <3>2, <3>3, <3>4, <3>6 DEF EncodeBatch, BoundsInv
        <3>7. CASE BatchFails
            BY <3>1, <3>2, <3>3, <3>4, <3>7 DEF BatchFails, BoundsInv
        <3>8. CASE OneFails
            BY <3>1, <3>2, <3>3, <3>8 DEF OneFails, BoundsInv
        <3>9. CASE Exhausted
            BY <3>1, <3>2, <3>3, <3>9 DEF Exhausted, BoundsInv, chunking
        <3>10. QED
            BY <2>3, <3>5, <3>6, <3>7, <3>8, <3>9 DEF Generate
    <2>4. QED
        BY <2>1, <2>2, <2>3 DEF Next
<1>3. QED
    BY <1>1, <1>2, ChunkInvariant, PTL DEF Spec

(* The state of the parser has its type, in particular all that is in a     *)
(* section is a line of the document.                                       *)
THEOREM TypeCorrect == Spec => []TypeOK
<1>1. PlaceInv /\ SecInv /\ ChunkInv /\ BoundsInv => TypeOK
    <2> SUFFICES ASSUME PlaceInv, SecInv, ChunkInv, BoundsInv PROVE TypeOK
        OBVIOUS
    <2>1. page \in DOMAIN doc /\ i \in 1..(Len(doc[page]) + 1)
        BY DEF PlaceInv
    <2>2. ASSUME NEW k \in DOMAIN All
          PROVE  Range(All[k].chapter) \cup Range(All[k].content) \subseteq Lines
        <3>1. PICK L, ch, co : L = Lines /\ ch = All[k].chapter /\ co = All[k].content
            OBVIOUS
        <3>2. ch \in Seq(L) /\ co \in Seq(L)
            BY <2>2, <3>1, AllParts
        <3>3. QED
            BY <3>1, <3>2 DEF Range
    <2>3. next \in 1..(Len(Valid) + 1) /\ batch \in 0..Len(Valid)
        BY ValidLength DEF BoundsInv, ChunkInv, CountsInv
    <2>4. failed \in 0..(MaxFailures + 1)
        BY Sizes DEF BoundsInv, ChunkInv, CountsInv
    <2>5. QED
        BY <2>1, <2>2, <2>3, <2>4 DEF TypeOK, BoundsInv
<1>2. QED
    BY <1>1, PlaceInvariant, SecInvariant, ChunkInvariant, BoundsInvariant, PTL

(* The texts of the sections follow the document, no line twice, and every  *)
(* line of text that was passed is in one, but for the blocks that are      *)
(* trimmed or filtered as a whole: for documents of any blocks.             *)
THEOREM TextKept == Spec => []TextIsKeptInOrder
<1>1. PlaceInv /\ SecInv /\ SeenInv => TextIsKeptInOrder
    <2> SUFFICES ASSUME PlaceInv, SecInv, SeenInv PROVE TextIsKeptInOrder
        OBVIOUS
    <2>1. ASSUME NEW k \in DOMAIN All, NEW m \in DOMAIN All,
                 NEW a \in DOMAIN All[k].content, NEW b \in DOMAIN All[m].content,
                 k < m \/ (k = m /\ a < b)
          PROVE  Before(All[k].content[a], All[m].content[b])
        BY <2>1, AllParts DEF SecInv, WellCut, TextsInOrder
    <2>2. ASSUME NEW x \in Lines, Kind(x) = "text", Passed(x)
          PROVE  \/ \E k \in DOMAIN All : x \in Range(All[k].content)
                 \/ BlockOf(x) \in trimmed
                 \/ Filtered(doc[x[1]][x[2]])
        <3>a. PICK p \in 1..Len(doc) :
                  \E n \in 1..Len(doc[p]) : \E l \in 1..Len(doc[p][n]) : x = <<p, n, l>>
            BY LineParts
        <3>b. PICK n \in 1..Len(doc[p]) : \E l \in 1..Len(doc[p][n]) : x = <<p, n, l>>
            BY <3>a
        <3>1. PICK l \in 1..Len(doc[p][n]) : x = <<p, n, l>>
            BY <3>b
        <3>2. doc[p][n][l] = "text" /\ BlockOf(x) = <<p, n>> /\ Past(p, n)
            BY <2>2, <3>1 DEF Kind, BlockOf, Passed, Past
        <3>3. <<p, n>> \in trimmed \/ Filtered(doc[p][n]) \/ HasText(All, x)
            BY <3>1, <3>2 DEF SeenInv, Seen, TextsSeen
        <3>4. ASSUME HasText(All, x) PROVE \E k \in DOMAIN All : x \in Range(All[k].content)
            <4>1. PICK k \in 1..Len(All) : \E a \in 1..Len(All[k].content) : All[k].content[a] = x
                BY <3>4 DEF HasText
            <4>2. QED
                BY <4>1, AllParts DEF Range
        <3>5. QED
            BY <3>1, <3>2, <3>3, <3>4
    <2>3. QED
        BY <2>1, <2>2 DEF TextIsKeptInOrder
<1>2. QED
    BY <1>1, PlaceInvariant, SecInvariant, SeenInvariant, PTL

(* Every title among the first lines of a block that was passed heads one   *)
(* section and only one, but for the three ways the code drops it.          *)
THEOREM TitlesKeptOnce == Spec => []TitlesKept
<1>1. PlaceInv /\ SecInv /\ SeenInv => TitlesKept
    <2> SUFFICES ASSUME PlaceInv, SecInv, SeenInv,
                        NEW x \in Lines, Kind(x) \in {"number", "title"}, x[3] <= 4, Passed(x)
                 PROVE  LET Heads == {k \in DOMAIN All : x \in Range(All[k].chapter)}
                        IN  \/ \E k \in Heads : Heads = {k}
                            \/ /\ Heads = {}
                               /\ \/ BlockOf(x) \in trimmed
                                  \/ \E l \in 1..x[3] : doc[x[1]][x[2]][l] = "blank"
                                  \/ \E k \in {k \in DOMAIN All : \E y \in Range(All[k].content) :
                                                  BlockOf(y) = BlockOf(x)} :
                                        \E y \in Range(All[k].chapter) : BlockOf(y) # BlockOf(x)
        BY DEF TitlesKept
    <2> DEFINE Heads == {k \in DOMAIN All : x \in Range(All[k].chapter)}
    <2>1. \A k, m \in Heads : k = m
        <3> SUFFICES ASSUME NEW k \in Heads, NEW m \in Heads, k # m PROVE FALSE
            OBVIOUS
        <3>1. PICK a \in 1..Len(All[k].chapter) : All[k].chapter[a] = x
            BY AllParts DEF Range
        <3>2. PICK b \in 1..Len(All[m].chapter) : All[m].chapter[b] = x
            BY AllParts DEF Range
        <3>3. k \in 1..Len(All) /\ m \in 1..Len(All)
            BY AllParts
        <3>4. QED
            BY <3>1, <3>2, <3>3 DEF SecInv, WellCut, HeadsOnce
    <2>a. PICK p \in 1..Len(doc) :
              \E n \in 1..Len(doc[p]) : \E l \in 1..Len(doc[p][n]) : x = <<p, n, l>>
        BY LineParts
    <2>b. PICK n \in 1..Len(doc[p]) : \E l \in 1..Len(doc[p][n]) : x = <<p, n, l>>
        BY <2>a
    <2>2. PICK l \in 1..Len(doc[p][n]) : x = <<p, n, l>>
        BY <2>b
    <2>3. /\ doc[p][n][l] \in {"number", "title"} /\ l <= 4 /\ BlockOf(x) = <<p, n>>
          /\ Past(p, n)
        BY <2>2 DEF Kind, BlockOf, Passed, Past
    <2>4. \/ <<p, n>> \in trimmed
          \/ HasTitle(All, x)
          \/ TextElsewhere(All, p, n)
          \/ \E m \in 1..l : doc[p][n][m] = "blank"
        BY <2>2, <2>3 DEF SeenInv, Seen, TitlesSeen
    <2>5. ASSUME HasTitle(All, x) PROVE Heads # {}
        <3>1. PICK k \in 1..Len(All) : \E a \in 1..Len(All[k].chapter) : All[k].chapter[a] = x
            BY <2>5 DEF HasTitle
        <3>2. k \in Heads
            BY <3>1, AllParts DEF Range
        <3>3. QED
            BY <3>2
    <2>6. ASSUME TextElsewhere(All, p, n)
          PROVE  \E k \in {k \in DOMAIN All : \E y \in Range(All[k].content) :
                              BlockOf(y) = BlockOf(x)} :
                    \E y \in Range(All[k].chapter) : BlockOf(y) # BlockOf(x)
        <3>1. PICK k \in 1..Len(All) :
                  /\ \E a \in 1..Len(All[k].content) :
                        All[k].content[a][1] = p /\ All[k].content[a][2] = n
                  /\ \E b \in 1..Len(All[k].chapter) :
                        ~(All[k].chapter[b][1] = p /\ All[k].chapter[b][2] = n)
            BY <2>6 DEF TextElsewhere
        <3>2. PICK a \in 1..Len(All[k].content) :
                  All[k].content[a][1] = p /\ All[k].content[a][2] = n
            BY <3>1
        <3>3. PICK b \in 1..Len(All[k].chapter) :
                  ~(All[k].chapter[b][1] = p /\ All[k].chapter[b][2] = n)
            BY <3>1
        <3>4. BlockOf(All[k].content[a]) = BlockOf(x) /\ BlockOf(All[k].chapter[b]) # BlockOf(x)
            BY <2>3, <3>2, <3>3 DEF BlockOf
        <3>5. All[k].content[a] \in Range(All[k].content) /\ All[k].chapter[b] \in Range(All[k].chapter)
            BY AllParts DEF Range
        <3>6. k \in DOMAIN All
            BY AllParts
        <3>7. QED
            BY <3>4, <3>5, <3>6
    <2>7. CASE Heads # {}
        <3>1. PICK k \in Heads : TRUE
            BY <2>7
        <3>2. Heads = {k}
            BY <2>1, <3>1
        <3>3. QED
            BY <3>2
    <2>8. CASE Heads = {}
        <3>1. \/ BlockOf(x) \in trimmed
              \/ \E m \in 1..x[3] : doc[x[1]][x[2]][m] = "blank"
              \/ TextElsewhere(All, p, n)
            BY <2>2, <2>3, <2>4, <2>5, <2>8
        <3>2. QED
            BY <2>6, <2>8, <3>1
    <2>9. QED
        BY <2>7, <2>8
<1>2. QED
    BY <1>1, PlaceInvariant, SecInvariant, SeenInvariant, PTL

(* A text stands under the last title up to its block, so that no chapter   *)
(* gets the text of another.                                                *)
THEOREM TextUnderTitles == Spec => []TextUnderItsTitle
<1>1. SecInv => TextUnderItsTitle
    <2> SUFFICES ASSUME SecInv, NEW k \in DOMAIN All, NEW x \in Range(All[k].content)
                 PROVE  /\ \A y \in Range(All[k].chapter) : NotAfter(y, x)
                        /\ \A y \in UNION {Range(All[m].chapter) : m \in DOMAIN All} :
                              NotAfter(y, x) =>
                                 \E z \in Range(All[k].chapter) : y = z \/ Before(y, z)
        BY DEF TextUnderItsTitle
    <2>1. k \in 1..Len(All)
        BY AllParts
    <2>2. PICK a \in 1..Len(All[k].content) : x = All[k].content[a]
        BY <2>1, AllParts DEF Range
    <2>3. \A b \in 1..Len(All[k].chapter) : NotAfter(All[k].chapter[b], x)
        BY <2>1, <2>2 DEF SecInv, WellCut, UnderTitles
    <2>4. \A y \in Range(All[k].chapter) : NotAfter(y, x)
        BY <2>1, <2>3, AllParts DEF Range
    <2>5. ASSUME NEW y \in UNION {Range(All[m].chapter) : m \in DOMAIN All}, NotAfter(y, x)
          PROVE  \E z \in Range(All[k].chapter) : y = z \/ Before(y, z)
        <3>1. PICK m \in DOMAIN All : y \in Range(All[m].chapter)
            BY <2>5
        <3>2. m \in 1..Len(All)
            BY AllParts
        <3>3. PICK c \in 1..Len(All[m].chapter) : y = All[m].chapter[c]
            BY <3>1, <3>2, AllParts DEF Range
        <3>4. UpToTitle(y, All, k)
            BY <2>1, <2>2, <2>5, <3>2, <3>3 DEF SecInv, WellCut, UnderTitles
        <3>5. PICK b \in 1..Len(All[k].chapter) :
                  y = All[k].chapter[b] \/ Before(y, All[k].chapter[b])
            BY <3>4 DEF UpToTitle
        <3>6. All[k].chapter[b] \in Range(All[k].chapter)
            BY <2>1, AllParts DEF Range
        <3>7. QED
            BY <3>5, <3>6
    <2>6. QED
        BY <2>4, <2>5
<1>2. QED
    BY <1>1, SecInvariant, PTL
=============================================================================
