----------------------------- MODULE ChatService -----------------------------
(***************************************************************************)
(* AskQuestion and the conversation tree of each document: the path that   *)
(* becomes the history of a question, the prompt built from it, the node   *)
(* stored with the answer, the tree in the reply, and the two goroutines   *)
(* that cache histories.  The configuration and the RAG mode a question    *)
(* finds are module Settings.  A document stands for the root of its tree, *)
(* which its ingestion (module Ingest) stores.                             *)
(***************************************************************************)
EXTENDS Sequences

CONSTANTS
    Docs,
    Asks,   \* questions, each with the node that is stored for it
    Blank   \* the empty parent_id

Nodes == Docs \cup Asks

ASSUME ChatAssumption ==
    /\ Docs \cap Asks = {}
    /\ Blank \notin Nodes

VARIABLES
    \* chat_node: the path from a root to each stored node, <<>> if not stored
    line,
    \* AskQuestion
    at, doc, parent, history, mode, prompt,
    err,         \* the variable err once the node is stored
    tree,
    pruned,      \* questions whose tree could not be read to its leaves
    reply,
    \* The goroutines of each question
    saver,       \* of GetHistoryByID, caches the history read
    writer,      \* of AskQuestion, caches it with the answer
    remembered   \* the histories in L1, under document and parent

question == <<at, doc, parent, history, mode, prompt, err, tree, pruned, reply>>
chatVars == <<line, question, saver, writer, remembered>>

Stored(n) == line[n] # <<>>

TypeOK ==
    /\ line \in [Nodes -> Seq(Nodes)]
    /\ at \in [Asks -> {"idle", "config", "prompt", "create", "tree", "reply", "done"}]
    /\ doc \in [Asks -> Docs]
    /\ parent \in [Asks -> Nodes \cup {Blank}]
    /\ history \in [Asks -> Seq(Nodes)]
    /\ mode \in [Asks -> {"rag", "plain"}]
    /\ prompt \in [Asks -> SUBSET {"context", "history", "question"}]
    /\ err \in [Asks -> {"nil", "tree", "cache"}]
    /\ tree \in [Asks -> SUBSET Nodes]
    /\ pruned \subseteq Asks
    /\ reply \in [Asks -> {"none", "answer", "error", "broken"}]
    /\ saver \subseteq Asks
    /\ writer \subseteq {a \in Asks : Stored(a)}
    /\ remembered \in [Docs \X Nodes -> Seq(Nodes)]

Init ==
    /\ line = [n \in Nodes |-> <<>>]
    /\ at = [a \in Asks |-> "idle"]
    /\ doc \in [Asks -> Docs]
    /\ parent = [a \in Asks |-> Blank]
    /\ history = [a \in Asks |-> <<>>]
    /\ mode = [a \in Asks |-> "plain"]
    /\ prompt = [a \in Asks |-> {}]
    /\ err = [a \in Asks |-> "nil"]
    /\ tree = [a \in Asks |-> {}]
    /\ pruned = {}
    /\ reply = [a \in Asks |-> "none"]
    /\ saver = {}
    /\ writer = {}
    /\ remembered = [k \in Docs \X Nodes |-> <<>>]

-----------------------------------------------------------------------------
(* The table *)

DocOf(n) == IF n \in Docs THEN n ELSE doc[n]

(* The ingestion of d stores the root of its tree and then points the row   *)
(* of d at it; before the second step no tree is found.                     *)
SetRoot(d) ==
    /\ ~Stored(d)
    /\ line' = [line EXCEPT ![d] = <<d>>]
    /\ UNCHANGED <<question, saver, writer, remembered>>

(* GetChatHistory walks from a node to its root and asks for each node with *)
(* the document's id.                                                       *)
Walks(d, p) ==
    /\ Stored(p)
    /\ \A i \in DOMAIN line[p] : DocOf(line[p][i]) = d

Children(d, n) == {m \in Asks : Stored(m) /\ doc[m] = d /\ parent[m] = n}

(* The nodes below the root of d, without the children of those whose       *)
(* children could not be read.                                              *)
Tree(d, unread) ==
    LET closed == {S \in SUBSET Nodes :
                     d \in S /\ \A n \in S \ unread : Children(d, n) \subseteq S}
    IN  {n \in Nodes : \A S \in closed : n \in S}

\* Mutant: children are not queued.
TopOfTree(d, unread) == Tree(d, Asks \cup unread)
ChatTree(d, unread) == Tree(d, unread)

-----------------------------------------------------------------------------
(* AskQuestion *)

Goto(a, pc) == at' = [at EXCEPT ![a] = pc]
Reply(a, r) == Goto(a, "done") /\ reply' = [reply EXCEPT ![a] = r]

\* Mutant: the key of a history leaves the document out.
HistoryKeyBare(d, p) == <<CHOOSE e \in Docs : TRUE, p>>
HistoryKey(d, p) == <<d, p>>

(* GetHistoryByID.  L2 has a history as text, which the type assertion      *)
(* rejects, so only an entry of L1 is a hit.                                *)
Recall(a, p) ==
    /\ \/ p = Blank /\ history' = [history EXCEPT ![a] = <<>>]
       \/ /\ p # Blank /\ remembered[HistoryKey(doc[a], p)] # <<>>
          /\ history' = [history EXCEPT ![a] = remembered[HistoryKey(doc[a], p)]]
    /\ Goto(a, "config")
    /\ UNCHANGED <<reply, saver>>

(* What the table returns is cached by a goroutine. *)
ReadHistory(a, p) ==
    /\ p # Blank /\ remembered[HistoryKey(doc[a], p)] = <<>>
    /\ Walks(doc[a], p)
    /\ history' = [history EXCEPT ![a] = line[p]]
    /\ saver' = saver \cup {a}
    /\ Goto(a, "config")
    /\ UNCHANGED reply

HistoryFails(a, p) ==
    /\ p # Blank /\ remembered[HistoryKey(doc[a], p)] = <<>>
    /\ Reply(a, "error")
    /\ UNCHANGED <<history, saver>>

AskQuestion(a, p) ==
    /\ at[a] = "idle"
    /\ parent' = [parent EXCEPT ![a] = p]
    /\ Recall(a, p) \/ ReadHistory(a, p) \/ HistoryFails(a, p)
    /\ UNCHANGED <<line, doc, mode, prompt, err, tree, pruned, writer, remembered>>

(* GetOrUseDefault and GetRagMode, as module Settings has them. *)
Configure(a, m) ==
    /\ at[a] = "config"
    /\ mode' = [mode EXCEPT ![a] = m]
    /\ Goto(a, "prompt")
    /\ UNCHANGED <<line, doc, parent, history, prompt, err, tree, pruned, reply, saver, writer,
                   remembered>>

NoConfig(a) ==
    /\ at[a] = "config"
    /\ Reply(a, "error")
    /\ UNCHANGED <<line, doc, parent, history, mode, prompt, err, tree, pruned, saver, writer,
                   remembered>>

(* BuildPrompt ends before it comes to the question when there is no        *)
(* history.                                                                 *)
BuildPrompt(a) ==
    (IF mode[a] = "rag" THEN {"context"} ELSE {})
    \cup (IF history[a] = <<>> THEN {} ELSE {"history", "question"})

(* CallLLM answers or fails. *)
CallLLM(a) ==
    /\ at[a] = "prompt"
    /\ prompt' = [prompt EXCEPT ![a] = BuildPrompt(a)]
    /\ \/ Goto(a, "create") /\ UNCHANGED reply
       \/ Reply(a, "error")
    /\ UNCHANGED <<line, doc, parent, history, mode, err, tree, pruned, saver, writer,
                   remembered>>

(* Without an embedding, or without a similar chunk, BuildPrompt panics and *)
(* nothing recovers: the process dies with L1, its goroutines and all calls *)
(* in it.                                                                   *)
BuildPromptPanics(a) ==
    LET open == {b \in Asks : at[b] \notin {"idle", "done"}}
    IN  /\ at[a] = "prompt" /\ mode[a] = "rag"
        /\ at' = [b \in Asks |-> IF b \in open THEN "done" ELSE at[b]]
        /\ reply' = [b \in Asks |-> IF b \in open THEN "broken" ELSE reply[b]]
        /\ saver' = {}
        /\ writer' = {}
        /\ remembered' = [k \in Docs \X Nodes |-> <<>>]
        /\ UNCHANGED <<line, doc, parent, history, mode, prompt, err, tree, pruned>>

(* The node is stored, and a goroutine caches the history with it. *)
Create(a) ==
    /\ at[a] = "create"
    /\ line' = [line EXCEPT ![a] =
          IF parent[a] = Blank THEN <<a>> ELSE Append(line[parent[a]], a)]
    /\ writer' = writer \cup {a}
    /\ Goto(a, "tree")
    /\ UNCHANGED <<doc, parent, history, mode, prompt, err, tree, pruned, reply, saver,
                   remembered>>

CreateFails(a) ==
    /\ at[a] = "create"
    /\ Reply(a, "error")
    /\ UNCHANGED <<line, doc, parent, history, mode, prompt, err, tree, pruned, saver, writer,
                   remembered>>

(* GetChatTree and its assignment to err.  An error while the children of a *)
(* node are read is ignored.                                                *)
GetChatTree(a) ==
    /\ at[a] = "tree" /\ Stored(doc[a])
    /\ \E unread \in SUBSET Nodes :
          /\ tree' = [tree EXCEPT ![a] = ChatTree(doc[a], unread)]
          /\ pruned' = IF unread = {} THEN pruned ELSE pruned \cup {a}
    /\ err' = [err EXCEPT ![a] = "nil"]
    /\ Goto(a, "reply")
    /\ UNCHANGED <<line, doc, parent, history, mode, prompt, reply, saver, writer, remembered>>

\* Mutant: err is another variable inside.
GetChatTreeFailsInside(a) ==
    /\ at[a] = "tree"
    /\ Goto(a, "reply")
    /\ UNCHANGED <<line, doc, parent, history, mode, prompt, err, tree, pruned, reply, saver,
                   writer, remembered>>

(* The document has no root yet, or the database fails. *)
GetChatTreeFails(a) ==
    /\ at[a] = "tree"
    /\ err' = [err EXCEPT ![a] = "tree"]
    /\ Goto(a, "reply")
    /\ UNCHANGED <<line, doc, parent, history, mode, prompt, tree, pruned, reply, saver, writer,
                   remembered>>

(* What err holds by now decides on the reply. *)
Return(a) ==
    /\ at[a] = "reply"
    /\ Reply(a, IF err[a] = "nil" THEN "answer" ELSE "error")
    /\ UNCHANGED <<line, doc, parent, history, mode, prompt, err, tree, pruned, saver, writer,
                   remembered>>

-----------------------------------------------------------------------------
(* The goroutines, and the lifetime of an entry *)

SaveHistory(a) ==
    /\ a \in saver
    /\ saver' = saver \ {a}
    /\ \/ remembered' = [remembered EXCEPT ![HistoryKey(doc[a], parent[a])] = history[a]]
       \/ UNCHANGED remembered
    /\ UNCHANGED <<line, question, writer>>

\* Mutant: its entry is under the key that GetHistoryByID reads.
CacheAnswerRead(a) ==
    /\ a \in writer
    /\ writer' = writer \ {a}
    /\ remembered' = IF parent[a] = Blank THEN remembered
                     ELSE [remembered EXCEPT ![HistoryKey(doc[a], parent[a])] =
                              <<a>> \o history[a]]
    /\ err' = [err EXCEPT ![a] = "nil"]
    /\ UNCHANGED <<line, at, doc, parent, history, mode, prompt, tree, pruned, reply, saver>>

(* SetCache under the bare parent_id, a key that nothing reads; its result  *)
(* goes to the err of AskQuestion.                                          *)
CacheAnswer(a) ==
    /\ a \in writer
    /\ writer' = writer \ {a}
    /\ err' = [err EXCEPT ![a] = "nil"] \/ err' = [err EXCEPT ![a] = "cache"]
    /\ UNCHANGED <<line, at, doc, parent, history, mode, prompt, tree, pruned, reply, saver,
                   remembered>>

Expire(k) ==
    /\ remembered[k] # <<>>
    /\ remembered' = [remembered EXCEPT ![k] = <<>>]
    /\ UNCHANGED <<line, question, saver, writer>>

-----------------------------------------------------------------------------
Next ==
    \/ \E d \in Docs : SetRoot(d)
    \/ \E a \in Asks :
          \/ \E p \in Nodes \cup {Blank} : AskQuestion(a, p)
          \/ \E m \in {"rag", "plain"} : Configure(a, m)
          \/ NoConfig(a) \/ CallLLM(a) \/ BuildPromptPanics(a) \/ Create(a) \/ CreateFails(a)
          \/ GetChatTree(a) \/ GetChatTreeFails(a) \/ Return(a)
          \/ SaveHistory(a) \/ CacheAnswer(a)
    \/ \E k \in Docs \X Nodes : Expire(k)

Spec == Init /\ [][Next]_chatVars

-----------------------------------------------------------------------------
(* Properties *)

(* A history that a question uses, or that is cached, is the path to its    *)
(* parent in the table: histories are cached from tables read earlier,      *)
(* while other questions store nodes and write the cache.                   *)
HistoryIsPath ==
    /\ \A a \in Asks : history[a] # <<>> =>
          parent[a] \in Nodes /\ history[a] = line[parent[a]]
    /\ \A k \in DOMAIN remembered : remembered[k] \in {<<>>, line[k[2]]}

(* The conversations of two documents stay apart, though the table does not *)
(* tie a node to its parent's document: whatever parents clients name, all  *)
(* nodes on a path belong to one document.                                  *)
PathsStayInDocument ==
    \A n \in Nodes : \A i \in DOMAIN line[n] : DocOf(line[n][i]) = DocOf(n)

(* An answer below the root shows its own question in its tree, unless      *)
(* children, or, hidden by the goroutine, the whole tree could not be read. *)
(* A question with a blank parent, and all that follow it, are never shown. *)
AnswerInTree ==
    \A a \in Asks :
        /\ reply[a] = "answer" /\ a \notin pruned /\ tree[a] # {}
        => (a \in tree[a] <=> line[a][1] = doc[a])

(* An answered question is stored, and before the goroutine has touched err *)
(* the reply says whether there is a tree to show: one that is refused with *)
(* its node stored, or answered without a tree, owes it to the goroutine.   *)
ReplyFollowsTree ==
    \A a \in Asks :
        /\ reply[a] = "answer" => Stored(a)
        /\ reply[a] \in {"answer", "error"} /\ a \in writer
           => (reply[a] = "answer" <=> tree[a] # {})

(* README.md:242, "Combine: history+retrieval+question": the prompt whose   *)
(* answer is stored has the question in it.                                 *)
QuestionAsked ==
    \A a \in Asks : Stored(a) => "question" \in prompt[a]
=============================================================================
