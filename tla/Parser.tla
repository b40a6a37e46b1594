------------------------------- MODULE Parser -------------------------------
(***************************************************************************)
(* From the blocks of a PDF to the chunks that are streamed:               *)
(* analyze_text_structure cuts the document into sections by its fonts,    *)
(* process_and_vectorize embeds the sections with text in batches and      *)
(* yields them.  A line is what the code can tell of it: the font it is    *)
(* in, its length, and whether it is a number or starts with a capital.    *)
(***************************************************************************)
EXTENDS Integers, Sequences, SequencesExt

CONSTANTS
    Shapes,     \* the blocks of the instance, each a sequence of lines; a
                \* picture is a block without lines
    MaxBlocks,  \* bound on the blocks of a document of one page; there are
                \* fewer on two
    MinRun,     \* min_run of check_consecutive_non_context, 5
    Keys,       \* what len(blocks) is for the dictionary of a page: 3
    BatchSize,  \* batch_size, 8
    MaxFailures \* failures that are borne, 5

Chars == [blank |-> 0, number |-> 2, title |-> 12, text |-> 60, odd |-> 30, table |-> 120]
Kinds == DOMAIN Chars

ASSUME ParserAssumption ==
    /\ Shapes \subseteq Seq(Kinds)
    /\ {MaxBlocks, MinRun, Keys, BatchSize} \subseteq Nat \ {0}
    /\ MaxFailures \in Nat

VARIABLES
    doc,      \* the pages, each a sequence of blocks
    few,      \* has the document at most three fonts, all of them title fonts
    rag,      \* rag_mode
    readable, \* can pymupdf open the file and read its pages: not if it is
              \* corrupt or encrypted
    status,
    page, i,  \* the block that is looked at
    sections, \* structured_content, a line by its page, block and number
    current,  \* current_section
    trimmed,  \* blocks that were skipped as a run of pictures and the like
    next,     \* the next section to be embedded
    batch,    \* the last section of the batch that is embedded one by one
    sent,     \* the sections yielded
    failed    \* failed_chunks

chunking == <<next, batch, sent, failed>>
given    == <<doc, few, rag, readable>>
vars     == <<given, status, page, i, sections, current, trimmed, chunking>>

NoSection == [chapter |-> <<>>, content |-> <<>>, open |-> FALSE]
Section(chapter, content) == [chapter |-> chapter, content |-> content, open |-> TRUE]

Pages(n) == [1..n -> Shapes]
Documents ==
    (UNION {{<<p>> : p \in Pages(n)} : n \in 1..MaxBlocks})
    \cup (UNION {Pages(n[1]) \X Pages(n[2]) :
                    n \in {m \in (1..MaxBlocks) \X (1..MaxBlocks) : m[1] + m[2] < MaxBlocks}})

Init ==
    /\ doc \in Documents /\ few \in BOOLEAN /\ rag \in BOOLEAN /\ readable \in BOOLEAN
    /\ status = "loading" /\ page = 1 /\ i = 1
    /\ sections = <<>> /\ current = NoSection /\ trimmed = {}
    /\ next = 1 /\ batch = 0 /\ sent = <<>> /\ failed = 0

-----------------------------------------------------------------------------
(* A block *)

Length(lines)   == FoldLeft(LAMBDA n, line : n + Chars[line], 0, lines)
IsTitle(line)   == Chars[line] \in 1..99 /\ (few \/ line \in {"number", "title"})
OddLines(lines) == SelectSeq(lines, LAMBDA line : line \in {"odd", "table"})
OddChars(lines) == IF few THEN 0 ELSE Length(OddLines(lines))
Text(block)     == {l \in DOMAIN block : block[l] = "text"}
Smallest(S)     == CHOOSE x \in S : \A y \in S : x <= y

(* The titles among the first four lines, from line l on, from those from    *)
(* the next line and the one after that.  A blank line is looked at until    *)
(* the guard of the loop ends it.                                            *)
TitlesFrom(block, l, rest, afterNext) ==
    LET joined == block[l] = "number" /\ l < Len(block) /\ block[l + 1] = "title"
    IN  IF l > 4 \/ l > Len(block) \/ block[l] = "blank" THEN <<>>
        ELSE IF ~IsTitle(block[l]) THEN rest
        ELSE IF joined THEN <<<<l, l + 1>>>> \o afterNext
        ELSE <<<<l>>>> \o rest
Titles(block) ==
    LET from[l \in 1..6] == TitlesFrom(block, l, from[l + 1], from[l + 2])
    IN  from[1]

(* Lines that are not blank, and where other fonts prevail not long.        *)
Kept(block, first, filtered) ==
    LET upTo[l \in 0..Len(block)] ==
            IF l < first THEN <<>>
            ELSE IF Chars[block[l]] > 0 /\ (filtered => Chars[block[l]] < 50)
                 THEN Append(upTo[l - 1], l)
                 ELSE upTo[l - 1]
    IN  upTo[Len(block)]

(* From the first line in the font of the text, or else the last line.      *)
First(block) == IF Text(block) = {} THEN Len(block) ELSE Smallest(Text(block))
Filtered(block) ==
    LET lines == SubSeq(block, First(block), Len(block))
    IN  10 * OddChars(lines) > 7 * Length(lines) /\ Length(lines) > 100
Body(block) == IF block = <<>> THEN <<>> ELSE Kept(block, First(block), Filtered(block))

NonContext(block) ==
    Length(block) > 0 /\ (5 * OddChars(block) > Length(block) \/ Length(block) < 20)

Trimmable(block) == block = <<>> \/ Length(block) = 0 \/ NonContext(block)

-----------------------------------------------------------------------------
(* analyze_text_structure *)

Block(n) == doc[page][n]
At(n, ls) == [k \in DOMAIN ls |-> <<page, n, ls[k]>>]
TitlesAt(n)  == LET ts == Titles(Block(n)) IN [k \in DOMAIN ts |-> At(n, ts[k])]
ContentAt(n) == At(n, Body(Block(n)))

Looking(n) == status = "parsing" /\ n \in DOMAIN doc[page]
Flush(s) == IF current.open THEN Append(s, current) ELSE s
Earlier(titles) == [k \in 1..(Len(titles) - 1) |-> Section(titles[k], <<>>)]

Textless == \A p \in DOMAIN doc : \A n \in DOMAIN doc[p] : doc[p][n] = <<>>

(* The model is loaded, the file opened, and the fonts of all pages counted. *)
Start ==
    /\ status = "loading"
    /\ readable /\ ~Textless
    /\ status' = "parsing"
    /\ UNCHANGED <<given, page, i, sections, current, trimmed, chunking>>

Refuse ==
    /\ status = "loading"
    /\ status' = "raised"
    /\ UNCHANGED <<given, page, i, sections, current, trimmed, chunking>>

LoadModelFails == rag /\ Refuse
OpenFails == ~readable /\ Refuse
(* max() of no fonts. *)
NoFont == readable /\ Textless /\ Refuse
StartRaises == LoadModelFails \/ OpenFails \/ NoFont

RunEnd ==
    CHOOSE e \in i..Len(doc[page]) :
        /\ \A n \in i..e : Trimmable(Block(n))
        /\ e < Len(doc[page]) => ~Trimmable(Block(e + 1))

Trims ==
    /\ ~NonContext(Block(i)) /\ Trimmable(Block(i))
    /\ RunEnd - i + 1 >= MinRun

TrimRun ==
    /\ Looking(i) /\ Trims
    /\ i' = RunEnd + 1
    /\ trimmed' = trimmed \cup {<<page, n>> : n \in i..RunEnd}
    /\ UNCHANGED <<given, status, page, sections, current, chunking>>

AddText ==
    /\ Looking(i) /\ ~Trims
    /\ ContentAt(i) # <<>> /\ TitlesAt(i) = <<>>
    /\ current' = Section(current.chapter, current.content \o ContentAt(i))
    /\ i' = i + 1
    /\ UNCHANGED <<given, status, page, sections, trimmed, chunking>>

\* Mutant: the section that was open is dropped.
OpenSectionsAfresh ==
    /\ Looking(i) /\ ~Trims
    /\ ContentAt(i) # <<>> /\ TitlesAt(i) # <<>>
    /\ sections' = sections \o Earlier(TitlesAt(i))
    /\ current' = Section(Last(TitlesAt(i)), ContentAt(i))
    /\ i' = i + 1
    /\ UNCHANGED <<given, status, page, trimmed, chunking>>

\* Mutant: only the last title opens a section.
OpenLastSection ==
    /\ Looking(i) /\ ~Trims
    /\ ContentAt(i) # <<>> /\ TitlesAt(i) # <<>>
    /\ sections' = Flush(sections)
    /\ current' = Section(Last(TitlesAt(i)), ContentAt(i))
    /\ i' = i + 1
    /\ UNCHANGED <<given, status, page, trimmed, chunking>>

\* Mutant: the text goes to the first title of the block.
OpenFirstSection ==
    /\ Looking(i) /\ ~Trims
    /\ ContentAt(i) # <<>> /\ TitlesAt(i) # <<>>
    /\ sections' = Flush(sections) \o [k \in DOMAIN Tail(TitlesAt(i)) |-> Section(TitlesAt(i)[k + 1], <<>>)]
    /\ current' = Section(Head(TitlesAt(i)), ContentAt(i))
    /\ i' = i + 1
    /\ UNCHANGED <<given, status, page, trimmed, chunking>>

OpenSections ==
    /\ Looking(i) /\ ~Trims
    /\ ContentAt(i) # <<>> /\ TitlesAt(i) # <<>>
    /\ sections' = Flush(sections) \o Earlier(TitlesAt(i))
    /\ current' = Section(Last(TitlesAt(i)), ContentAt(i))
    /\ i' = i + 1
    /\ UNCHANGED <<given, status, page, trimmed, chunking>>

PassBlock ==
    /\ Looking(i) /\ ~Trims
    /\ ContentAt(i) = <<>> /\ TitlesAt(i) = <<>>
    /\ i' = i + 1
    /\ UNCHANGED <<given, status, page, sections, current, trimmed, chunking>>

TitleAlone ==
    /\ Looking(i) /\ ~Trims
    /\ ContentAt(i) = <<>> /\ TitlesAt(i) # <<>>

\* Mutant: text that is found does not end the search.
AheadToEnd == Smallest({n \in (i + 1)..(i + Len(doc[page]) + Keys) : n > Keys \/ n > Len(doc[page])})

(* Where the search for the text of a title ends.  Its bound is the number  *)
(* of keys of the dictionary, not of blocks.                                *)
Ahead ==
    Smallest({n \in (i + 1)..(i + Len(doc[page]) + Keys) :
                \/ n > Keys \/ n > Len(doc[page])
                \/ ContentAt(n) # <<>> \/ TitlesAt(n) # <<>>})
Found == Ahead <= Keys /\ ContentAt(Ahead) # <<>>

\* Mutant: the block with the text is looked at once more.
TakeTextAheadTwice ==
    /\ TitleAlone
    /\ Ahead <= Keys => Ahead \in DOMAIN doc[page]
    /\ sections' = Flush(sections \o Earlier(TitlesAt(i)))
    /\ current' = Section(Last(TitlesAt(i)), IF Found THEN ContentAt(Ahead) ELSE <<>>)
    /\ i' = IF Found THEN Ahead ELSE i + 1
    /\ UNCHANGED <<given, status, page, trimmed, chunking>>

TakeTextAhead ==
    /\ TitleAlone
    /\ Ahead <= Keys => Ahead \in DOMAIN doc[page]
    /\ sections' = Flush(sections \o Earlier(TitlesAt(i)))
    /\ current' = Section(Last(TitlesAt(i)), IF Found THEN ContentAt(Ahead) ELSE <<>>)
    /\ i' = IF Found THEN Ahead + 1 ELSE i + 1
    /\ UNCHANGED <<given, status, page, trimmed, chunking>>

(* IndexError on a page with fewer blocks than the bound. *)
LookPastPage ==
    /\ TitleAlone
    /\ Ahead <= Keys /\ Ahead > Len(doc[page])
    /\ status' = "raised"
    /\ UNCHANGED <<given, page, i, sections, current, trimmed, chunking>>

NextPage ==
    /\ status = "parsing" /\ i > Len(doc[page]) /\ page < Len(doc)
    /\ page' = page + 1
    /\ i' = 1
    /\ UNCHANGED <<given, status, sections, current, trimmed, chunking>>

Parsed ==
    /\ status = "parsing" /\ i > Len(doc[page]) /\ page = Len(doc)
    /\ sections' = Flush(sections)
    /\ current' = NoSection
    /\ status' = "chunking"
    /\ UNCHANGED <<given, page, i, trimmed, chunking>>

-----------------------------------------------------------------------------
(* chunk_generator *)

WithText(secs) == SelectSeq(secs, LAMBDA s : s.content # <<>>)
Valid == WithText(sections)
BatchEnd == IF next + BatchSize - 1 < Len(Valid) THEN next + BatchSize - 1 ELSE Len(Valid)
Batch == [k \in 1..(BatchEnd - next + 1) |-> next + k - 1]

YieldPlain ==
    /\ status = "chunking" /\ ~rag /\ next <= Len(Valid)
    /\ sent' = Append(sent, next)
    /\ next' = next + 1
    /\ UNCHANGED <<given, status, page, i, sections, current, trimmed, batch, failed>>

EncodeBatch ==
    /\ status = "chunking" /\ rag /\ batch < next /\ next <= Len(Valid)
    /\ sent' = sent \o Batch
    /\ next' = BatchEnd + 1
    /\ UNCHANGED <<given, status, page, i, sections, current, trimmed, batch, failed>>

\* Mutant: the batch fails after its first section was yielded.
BatchFailsLate ==
    /\ status = "chunking" /\ rag /\ batch < next /\ next <= Len(Valid)
    /\ batch' = BatchEnd
    /\ sent' = Append(sent, next)
    /\ UNCHANGED <<given, status, page, i, sections, current, trimmed, next, failed>>

BatchFails ==
    /\ status = "chunking" /\ rag /\ batch < next /\ next <= Len(Valid)
    /\ batch' = BatchEnd
    /\ UNCHANGED <<given, status, page, i, sections, current, trimmed, next, sent, failed>>

EncodeOne ==
    /\ status = "chunking" /\ next <= batch
    /\ sent' = Append(sent, next)
    /\ next' = next + 1
    /\ UNCHANGED <<given, status, page, i, sections, current, trimmed, batch, failed>>

\* Mutant: the generator never gives up.
OneFailsOn ==
    /\ status = "chunking" /\ next <= batch
    /\ failed' = failed + 1
    /\ next' = next + 1
    /\ UNCHANGED <<given, status, page, i, sections, current, trimmed, batch, sent>>

OneFails ==
    /\ status = "chunking" /\ next <= batch
    /\ failed' = failed + 1
    /\ status' = IF failed + 1 > MaxFailures THEN "raised" ELSE status
    /\ next' = next + 1
    /\ UNCHANGED <<given, page, i, sections, current, trimmed, batch, sent>>

Exhausted ==
    /\ status = "chunking" /\ next > Len(Valid)
    /\ status' = "ended"
    /\ UNCHANGED <<given, page, i, sections, current, trimmed, chunking>>

Parse ==
    Start \/ StartRaises \/ TrimRun \/ AddText \/ OpenSections \/ PassBlock
    \/ TakeTextAhead \/ LookPastPage \/ NextPage \/ Parsed
Generate ==
    YieldPlain \/ EncodeBatch \/ BatchFails \/ EncodeOne \/ OneFails \/ Exhausted
Next == Parse \/ Generate

Spec == Init /\ [][Next]_vars

-----------------------------------------------------------------------------
(* Properties *)

All == Flush(sections)
Lines == UNION {UNION {{<<p, n, l>> : l \in DOMAIN doc[p][n]} : n \in DOMAIN doc[p]} : p \in DOMAIN doc}
Kind(x) == doc[x[1]][x[2]][x[3]]
BlockOf(x) == <<x[1], x[2]>>
Passed(x) == status # "loading" /\ (x[1] < page \/ (x[1] = page /\ x[2] < i))
NotAfter(a, b) == a[1] < b[1] \/ (a[1] = b[1] /\ a[2] <= b[2])
Before(a, b)   == IF BlockOf(a) = BlockOf(b) THEN a[3] < b[3] ELSE NotAfter(a, b)

TypeOK ==
    /\ status \in {"loading", "parsing", "chunking", "ended", "raised"}
    /\ page \in DOMAIN doc
    /\ i \in 1..(Len(doc[page]) + 1)
    /\ \A k \in DOMAIN All :
          Range(All[k].chapter) \cup Range(All[k].content) \subseteq Lines
    /\ next \in 1..(Len(Valid) + 1) /\ batch \in 0..Len(Valid)
    /\ failed \in 0..(MaxFailures + 1)

(* The texts of the sections, one after the other, are lines of the document *)
(* in its order and none twice, though the search for the text of a title    *)
(* runs ahead of the loop; and every line in the font of the text is there,  *)
(* unless its block went with a run of pictures or is, from its first line   *)
(* in that font on, mostly in fonts of neither text nor titles.              *)
TextIsKeptInOrder ==
    LET all == All IN
    /\ \A k, m \in DOMAIN all :
          \A a \in DOMAIN all[k].content, b \in DOMAIN all[m].content :
             k < m \/ (k = m /\ a < b) => Before(all[k].content[a], all[m].content[b])
    /\ \A x \in Lines : Kind(x) = "text" /\ Passed(x) =>
          \/ \E k \in DOMAIN all : x \in Range(all[k].content)
          \/ BlockOf(x) \in trimmed
          \/ Filtered(doc[x[1]][x[2]])

(* Every title in the first lines of a block heads exactly one section,     *)
(* unless its block went with a run of pictures, a blank line stands before *)
(* it, or the text of its block was given to the title of a block before.   *)
TitlesKept ==
    LET all == All
        Heads(x) == {k \in DOMAIN all : x \in Range(all[k].chapter)}
        TextOf(b) == {k \in DOMAIN all : \E y \in Range(all[k].content) : BlockOf(y) = b}
        Foreign(k, b) == \E y \in Range(all[k].chapter) : BlockOf(y) # b
    IN \A x \in Lines : Kind(x) \in {"number", "title"} /\ x[3] <= 4 /\ Passed(x) =>
        \/ \E k \in Heads(x) : Heads(x) = {k}
        \/ /\ Heads(x) = {}
           /\ \/ BlockOf(x) \in trimmed
              \/ \E l \in 1..x[3] : doc[x[1]][x[2]][l] = "blank"
              \/ \E k \in TextOf(BlockOf(x)) : Foreign(k, BlockOf(x))

(* A text stands under the last title up to its block: the title of its     *)
(* section is of that block or of one before it, and no section is headed   *)
(* by a title in between or later in that block.                            *)
TextUnderItsTitle ==
    LET all == All
        titles == UNION {Range(all[m].chapter) : m \in DOMAIN all}
    IN \A k \in DOMAIN all : \A x \in Range(all[k].content) :
        /\ \A y \in Range(all[k].chapter) : NotAfter(y, x)
        /\ \A y \in titles :
              NotAfter(y, x) => \E z \in Range(all[k].chapter) : y = z \/ Before(y, z)

(* Sections are yielded in order and none twice, batches that fail and are  *)
(* tried one by one included; a generator that ends has left out at most    *)
(* MaxFailures of them.                                                     *)
ChunksAccountedFor ==
    /\ \A a, b \in DOMAIN sent : a < b => sent[a] < sent[b]
    /\ Len(sent) + failed = next - 1
    /\ status = "ended" => Len(Valid) - Len(sent) <= MaxFailures

(* Parsing raises only if the model cannot be loaded, the file cannot be    *)
(* read or has no text, or a title without text is in one of the last       *)
(* blocks of a page with fewer than Keys blocks; too many failures end the  *)
(* generator.                                                               *)
RaisesOnlyIf ==
    status = "raised" =>
        \/ ~readable
        \/ rag /\ ((page = 1 /\ i = 1) \/ failed > MaxFailures)
        \/ \A x \in Lines : FALSE
        \/ Len(doc[page]) < Keys /\ ContentAt(Len(doc[page])) = <<>>
=============================================================================
