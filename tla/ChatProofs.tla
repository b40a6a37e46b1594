------------------------------ MODULE ChatProofs ------------------------------
(***************************************************************************)
(* Proofs about ChatService, for any documents and any number of           *)
(* questions: types, the histories that are used and cached, what the      *)
(* reply owes to the tree, and which answers are in it.                    *)
(***************************************************************************)
EXTENDS ChatService, Integers, SequenceTheorems, WellFoundedInduction, TLAPS

(* A question that is not stored yet has left no trace, and one that has    *)
(* not begun is in no goroutine.                                            *)
Fresh ==
    \A a \in Asks :
        /\ at[a] \in {"idle", "config", "prompt", "create"} =>
              line[a] = <<>> /\ tree[a] = {} /\ reply[a] = "none"
        /\ at[a] = "idle" => history[a] = <<>> /\ a \notin saver

LEMMA AppendIsNotEmpty ==
    ASSUME NEW S, NEW s \in Seq(S), NEW e \in S
    PROVE  Append(s, e) # <<>>
  BY AppendProperties

-----------------------------------------------------------------------------
(* Paths are added and never changed.                                       *)
LEMMA PathsArePermanent ==
    ASSUME TypeOK, Fresh, [Next]_chatVars
    PROVE  /\ doc' = doc
           /\ \A n \in Nodes : Stored(n) => line'[n] = line[n]
  <1> USE DEF Stored
  <1>1. CASE UNCHANGED chatVars
    BY <1>1 DEF chatVars, question
  <1>2. ASSUME NEW d \in Docs, SetRoot(d)
        PROVE  /\ doc' = doc
               /\ \A n \in Nodes : Stored(n) => line'[n] = line[n]
    BY <1>2 DEF SetRoot, question, TypeOK
  <1>3. ASSUME NEW a \in Asks, Create(a)
        PROVE  /\ doc' = doc
               /\ \A n \in Nodes : Stored(n) => line'[n] = line[n]
    <2>1. line[a] = <<>>
      BY <1>3 DEF Create, Fresh
    <2>2. line \in [Nodes -> Seq(Nodes)]
      BY DEF TypeOK
    <2> QED
      BY <1>3, <2>1, <2>2 DEF Create
  <1>4. ASSUME NEW a \in Asks,
               \/ \E p \in Nodes \cup {Blank} : AskQuestion(a, p)
               \/ \E m \in {"rag", "plain"} : Configure(a, m)
               \/ NoConfig(a) \/ CallLLM(a) \/ BuildPromptPanics(a) \/ CreateFails(a)
               \/ GetChatTree(a) \/ GetChatTreeFails(a) \/ Return(a)
               \/ SaveHistory(a) \/ CacheAnswer(a)
        PROVE  UNCHANGED <<doc, line>>
    BY <1>4 DEF AskQuestion, Configure, NoConfig, CallLLM, BuildPromptPanics, CreateFails,
                GetChatTree, GetChatTreeFails, Return, SaveHistory, CacheAnswer, question
  <1>5. ASSUME NEW k \in Docs \X Nodes, Expire(k)
        PROVE  UNCHANGED <<doc, line>>
    BY <1>5 DEF Expire, question
  <1> QED
    BY <1>1, <1>2, <1>3, <1>4, <1>5 DEF Next

-----------------------------------------------------------------------------
LEMMA TreeIsTyped ==
    ASSUME NEW d \in Docs, NEW unread
    PROVE  /\ ChatTree(d, unread) \subseteq Nodes
           /\ d \in ChatTree(d, unread)
  BY DEF ChatTree, Tree, Nodes

LEMMA InitTyped == Init => TypeOK /\ Fresh
  BY DEF Init, TypeOK, Fresh, Stored, Nodes

LEMMA StepTyped ==
    ASSUME TypeOK, Fresh, [Next]_chatVars
    PROVE  TypeOK' /\ Fresh'
  <1> USE DEF TypeOK, Fresh, Goto, Reply
  <1>1. CASE UNCHANGED chatVars
    BY <1>1 DEF chatVars, question, Stored
  <1>2. ASSUME NEW d \in Docs, SetRoot(d) PROVE TypeOK' /\ Fresh'
    <2>1. line' \in [Nodes -> Seq(Nodes)] /\ \A n \in Nodes : n # d => line'[n] = line[n]
      BY <1>2 DEF SetRoot, Nodes
    <2>2. \A a \in Asks : line'[a] = line[a]
      BY <2>1, ChatAssumption DEF Nodes
    <2> QED
      BY <1>2, <2>1, <2>2 DEF SetRoot, question, Stored
  <1>3. ASSUME NEW a \in Asks, NEW p \in Nodes \cup {Blank}, AskQuestion(a, p)
        PROVE  TypeOK' /\ Fresh'
    <2>1. history' \in [Asks -> Seq(Nodes)]
      <3>1. <<>> \in Seq(Nodes)
        OBVIOUS
      <3>2. p # Blank => line[p] \in Seq(Nodes) /\ remembered[<<doc[a], p>>] \in Seq(Nodes)
        OBVIOUS
      <3>3. CASE Recall(a, p)
        <4>1. CASE history' = [history EXCEPT ![a] = <<>>]
          BY <3>1, <4>1
        <4>2. CASE p # Blank /\ history' = [history EXCEPT ![a] = remembered[<<doc[a], p>>]]
          BY <3>2, <4>2
        <4> QED
          BY <3>3, <4>1, <4>2 DEF Recall, HistoryKey
      <3>4. CASE ReadHistory(a, p)
        BY <3>2, <3>4 DEF ReadHistory
      <3>5. CASE HistoryFails(a, p)
        BY <3>5 DEF HistoryFails
      <3> QED
        BY <1>3, <3>3, <3>4, <3>5 DEF AskQuestion
    <2>2. /\ at' \in [Asks -> {"idle", "config", "prompt", "create", "tree", "reply", "done"}]
          /\ reply' \in [Asks -> {"none", "answer", "error", "broken"}]
          /\ saver' \subseteq Asks
          /\ at'[a] \in {"config", "done"}
          /\ at'[a] = "config" => reply'[a] = reply[a]
          /\ \A b \in Asks \ {a} : /\ at'[b] = at[b] /\ reply'[b] = reply[b]
                                  /\ history'[b] = history[b] /\ (b \in saver <=> b \in saver')
      BY <1>3 DEF AskQuestion, Recall, ReadHistory, HistoryFails
    <2>3. TypeOK'
      BY <1>3, <2>1, <2>2 DEF AskQuestion, Stored
    <2>4. Fresh'
      BY <1>3, <2>2 DEF AskQuestion
    <2> QED
      BY <2>3, <2>4
  <1>4. ASSUME NEW a \in Asks,
               \/ \E m \in {"rag", "plain"} : Configure(a, m)
               \/ NoConfig(a) \/ CallLLM(a) \/ CreateFails(a)
        PROVE  TypeOK' /\ Fresh'
    <2>1. CASE \E m \in {"rag", "plain"} : Configure(a, m)
      BY <2>1 DEF Configure, Stored
    <2>2. CASE NoConfig(a)
      BY <2>2 DEF NoConfig, Stored
    <2>3. CASE CallLLM(a)
      <3>1. BuildPrompt(a) \in SUBSET {"context", "history", "question"}
        BY DEF BuildPrompt
      <3>2. prompt' \in [Asks -> SUBSET {"context", "history", "question"}]
        BY <2>3, <3>1 DEF CallLLM
      <3>3. /\ at' \in [Asks -> {"idle", "config", "prompt", "create", "tree", "reply", "done"}]
            /\ reply' \in [Asks -> {"none", "answer", "error", "broken"}]
            /\ at'[a] \in {"create", "done"}
            /\ at'[a] = "create" => reply'[a] = reply[a]
            /\ \A b \in Asks \ {a} : at'[b] = at[b] /\ reply'[b] = reply[b]
        BY <2>3 DEF CallLLM
      <3> QED
        BY <2>3, <3>2, <3>3 DEF CallLLM, Stored
    <2>4. CASE CreateFails(a)
      BY <2>4 DEF CreateFails, Stored
    <2> QED
      BY <1>4, <2>1, <2>2, <2>3, <2>4
  <1>5. ASSUME NEW a \in Asks, BuildPromptPanics(a) PROVE TypeOK' /\ Fresh'
    BY <1>5 DEF BuildPromptPanics, Stored
  <1>6. ASSUME NEW a \in Asks, Create(a) PROVE TypeOK' /\ Fresh'
    <2>1. a \in Nodes /\ (parent[a] # Blank => parent[a] \in Nodes)
      BY DEF Nodes
    <2>2. /\ line' \in [Nodes -> Seq(Nodes)]
          /\ line'[a] # <<>>
          /\ \A n \in Nodes : n # a => line'[n] = line[n]
      <3>1. CASE parent[a] = Blank
        BY <1>6, <2>1, <3>1 DEF Create
      <3>2. CASE parent[a] # Blank
        <4>1. line[parent[a]] \in Seq(Nodes)
          BY <2>1, <3>2
        <4>2. Append(line[parent[a]], a) \in Seq(Nodes)
          BY <2>1, <4>1
        <4>3. Append(line[parent[a]], a) # <<>>
          BY <2>1, <4>1, AppendIsNotEmpty
        <4> QED
          BY <1>6, <2>1, <3>2, <4>2, <4>3 DEF Create
      <3> QED
        BY <3>1, <3>2
    <2>3. \A b \in Asks : b # a => line'[b] = line[b]
      BY <2>2 DEF Nodes
    <2> QED
      BY <1>6, <2>2, <2>3 DEF Create, Stored
  <1>7. ASSUME NEW a \in Asks, GetChatTree(a) PROVE TypeOK' /\ Fresh'
    <2>1. PICK unread \in SUBSET Nodes : tree' = [tree EXCEPT ![a] = ChatTree(doc[a], unread)]
      BY <1>7 DEF GetChatTree
    <2>2. ChatTree(doc[a], unread) \in SUBSET Nodes
      BY TreeIsTyped
    <2>3. pruned' \subseteq Asks
      BY <1>7 DEF GetChatTree
    <2> QED
      BY <1>7, <2>1, <2>2, <2>3 DEF GetChatTree, Stored
  <1>8. ASSUME NEW a \in Asks, GetChatTreeFails(a) \/ Return(a) PROVE TypeOK' /\ Fresh'
    <2>1. CASE GetChatTreeFails(a)
      BY <2>1 DEF GetChatTreeFails, Stored
    <2>2. CASE Return(a)
      BY <2>2 DEF Return, Stored
    <2> QED
      BY <1>8, <2>1, <2>2
  <1>9. ASSUME NEW a \in Asks, SaveHistory(a) \/ CacheAnswer(a) PROVE TypeOK' /\ Fresh'
    <2>1. CASE SaveHistory(a)
      <3>1. remembered' \in [Docs \X Nodes -> Seq(Nodes)]
        <4>1. history[a] \in Seq(Nodes)
          OBVIOUS
        <4>2. DEFINE key == HistoryKey(doc[a], parent[a])
        <4>3. [remembered EXCEPT ![key] = history[a]] \in [Docs \X Nodes -> Seq(Nodes)]
          BY <4>1
        <4> QED
          BY <2>1, <4>3 DEF SaveHistory
      <3> QED
        BY <2>1, <3>1 DEF SaveHistory, question, Stored
    <2>2. CASE CacheAnswer(a)
      BY <2>2 DEF CacheAnswer, Stored
    <2> QED
      BY <1>9, <2>1, <2>2
  <1>10. ASSUME NEW k \in Docs \X Nodes, Expire(k) PROVE TypeOK' /\ Fresh'
    BY <1>10 DEF Expire, question, Stored
  <1> QED
    BY <1>1, <1>2, <1>3, <1>4, <1>5, <1>6, <1>7, <1>8, <1>9, <1>10 DEF Next

(* Every variable keeps its type: only stored questions have a goroutine    *)
(* that caches their answer, and a tree is a set of nodes.                  *)
THEOREM TypeCorrect == Spec => []TypeOK
  <1>1. Spec => [](TypeOK /\ Fresh)
    BY InitTyped, StepTyped, PTL DEF Spec
  <1> QED
    BY <1>1, PTL

-----------------------------------------------------------------------------
(* A question in progress, a history about to be cached and a cached one    *)
(* belong to a parent that was found in their document.                     *)
Walked ==
    /\ \A a \in Asks :
          /\ at[a] \notin {"idle", "done"} \/ a \in saver
          /\ parent[a] # Blank
          => Walks(doc[a], parent[a])
    /\ \A k \in Docs \X Nodes : remembered[k] # <<>> => Walks(k[1], k[2])

HistoryInv == HistoryIsPath /\ Walked /\ PathsStayInDocument

LEMMA InitHistory == Init => HistoryInv
  BY DEF Init, HistoryInv, HistoryIsPath, Walked, PathsStayInDocument

LEMMA WalksStay ==
    ASSUME TypeOK, doc' = doc, \A n \in Nodes : Stored(n) => line'[n] = line[n],
           NEW d \in Docs, NEW p \in Nodes, Walks(d, p)
    PROVE  Walks(d, p)' /\ line'[p] = line[p]
  BY DEF Walks, Stored, DocOf

(* What a question finds is the path to its parent, found in its document.  *)
LEMMA HistoryFound ==
    ASSUME TypeOK, Fresh, HistoryInv, NEW a \in Asks, NEW p \in Nodes \cup {Blank}, AskQuestion(a, p)
    PROVE  /\ history'[a] # <<>> => p \in Nodes /\ history'[a] = line[p]
           /\ (at'[a] # "done" \/ a \in saver' \ saver) /\ p # Blank => Walks(doc[a], p)
  <1> USE DEF TypeOK, HistoryInv
  <1>1. CASE Recall(a, p)
    <2>1. CASE p = Blank
      BY <1>1, <2>1 DEF Recall
    <2>2. CASE p # Blank
      <3>1. <<doc[a], p>> \in Docs \X Nodes
        BY <2>2
      <3> DEFINE k == <<doc[a], p>>
      <3>2. remembered[k] # <<>> /\ history'[a] = remembered[k]
        BY <1>1, <2>2 DEF Recall, HistoryKey
      <3>3. remembered[k] \in {<<>>, line[k[2]]}
        BY <3>1 DEF HistoryIsPath
      <3>4. Walks(k[1], k[2])
        BY <3>1, <3>2 DEF Walked
      <3> QED
        BY <2>2, <3>2, <3>3, <3>4
    <2> QED
      BY <2>1, <2>2
  <1>2. CASE ReadHistory(a, p)
    BY <1>2 DEF ReadHistory, Walks
  <1>3. CASE HistoryFails(a, p)
    <2>1. history' = history /\ saver' = saver /\ at'[a] = "done"
      BY <1>3 DEF HistoryFails, Reply, Goto
    <2> QED
      BY <2>1 DEF AskQuestion, Fresh
  <1> QED
    BY <1>1, <1>2, <1>3 DEF AskQuestion

LEMMA StepHistoryIsPath ==
    ASSUME TypeOK, Fresh, HistoryInv, [Next]_chatVars
    PROVE  HistoryIsPath'
  <1> USE DEF TypeOK
  <1>1. doc' = doc /\ \A n \in Nodes : Stored(n) => line'[n] = line[n]
    BY PathsArePermanent
  <1>2. ASSUME NEW b \in Asks, history'[b] = history[b], parent'[b] = parent[b]
        PROVE  history'[b] # <<>> => parent'[b] \in Nodes /\ history'[b] = line'[parent'[b]]
    BY <1>1, <1>2 DEF HistoryInv, HistoryIsPath, Stored
  <1>3. ASSUME NEW k \in Docs \X Nodes, remembered'[k] \in {<<>>, line[k[2]]}
        PROVE  remembered'[k] \in {<<>>, line'[k[2]]}
    BY <1>1, <1>3 DEF Stored
  <1>4. \A k \in Docs \X Nodes : remembered[k] \in {<<>>, line[k[2]]}
    BY DEF HistoryInv, HistoryIsPath
  <1>5. CASE UNCHANGED <<history, parent, remembered>>
    BY <1>2, <1>3, <1>4, <1>5 DEF HistoryIsPath
  <1>6. ASSUME NEW a \in Asks, NEW p \in Nodes \cup {Blank}, AskQuestion(a, p)
        PROVE  HistoryIsPath'
    <2>1. history'[a] # <<>> => p \in Nodes /\ history'[a] = line[p]
      BY <1>6, HistoryFound
    <2>2. parent' = [parent EXCEPT ![a] = p] /\ UNCHANGED <<line, remembered>>
      BY <1>6 DEF AskQuestion
    <2>3. \A b \in Asks \ {a} : history'[b] = history[b]
      BY <1>6 DEF AskQuestion, Recall, ReadHistory, HistoryFails
    <2>4. ASSUME NEW b \in Asks
          PROVE  history'[b] # <<>> => parent'[b] \in Nodes /\ history'[b] = line'[parent'[b]]
      BY <1>2, <2>1, <2>2, <2>3
    <2> QED
      BY <1>4, <2>2, <2>4 DEF HistoryIsPath
  <1>7. ASSUME NEW a \in Asks, BuildPromptPanics(a) PROVE HistoryIsPath'
    BY <1>2, <1>7 DEF BuildPromptPanics, HistoryIsPath
  <1>8. ASSUME NEW a \in Asks, SaveHistory(a) PROVE HistoryIsPath'
    <2>1. UNCHANGED <<line, history, parent>>
      BY <1>8 DEF SaveHistory, question
    <2>2. ASSUME NEW k \in Docs \X Nodes PROVE remembered'[k] \in {<<>>, line[k[2]]}
      <3>1. CASE remembered'[k] = remembered[k]
        BY <1>4, <3>1
      <3>2. CASE k = <<doc[a], parent[a]>> /\ remembered'[k] = history[a]
        BY <3>2 DEF HistoryInv, HistoryIsPath
      <3> QED
        BY <1>8, <3>1, <3>2 DEF SaveHistory, HistoryKey
    <2>3. DOMAIN remembered' = Docs \X Nodes
      BY <1>8 DEF SaveHistory
    <2> QED
      BY <1>2, <1>3, <2>1, <2>2, <2>3 DEF HistoryIsPath
  <1>9. ASSUME NEW k \in Docs \X Nodes, Expire(k) PROVE HistoryIsPath'
    BY <1>2, <1>4, <1>9 DEF Expire, question, HistoryIsPath
  <1>10. ASSUME NEW a \in Asks,
                \/ \E m \in {"rag", "plain"} : Configure(a, m)
                \/ NoConfig(a) \/ CallLLM(a) \/ Create(a) \/ CreateFails(a)
                \/ GetChatTree(a) \/ GetChatTreeFails(a) \/ Return(a) \/ CacheAnswer(a)
         PROVE  UNCHANGED <<history, parent, remembered>>
    BY <1>10 DEF Configure, NoConfig, CallLLM, Create, CreateFails, GetChatTree,
                 GetChatTreeFails, Return, CacheAnswer
  <1>11. ASSUME UNCHANGED chatVars \/ \E d \in Docs : SetRoot(d)
         PROVE  UNCHANGED <<history, parent, remembered>>
    BY <1>11 DEF chatVars, question, SetRoot
  <1> QED
    BY <1>5, <1>6, <1>7, <1>8, <1>9, <1>10, <1>11 DEF Next

LEMMA StepWalked ==
    ASSUME TypeOK, Fresh, HistoryInv, [Next]_chatVars
    PROVE  Walked'
  <1> USE DEF TypeOK
  <1>1. doc' = doc /\ \A n \in Nodes : Stored(n) => line'[n] = line[n]
    BY PathsArePermanent
  <1>2. ASSUME NEW d \in Docs, NEW p \in Nodes, Walks(d, p)
        PROVE  Walks(d, p)'
    BY <1>1, <1>2, WalksStay
  <1> DEFINE Going(b) == at[b] \notin {"idle", "done"} \/ b \in saver
  <1>3. ASSUME NEW b \in Asks, Going(b)' => Going(b), parent'[b] = parent[b],
               Going(b)', parent'[b] # Blank
        PROVE  Walks(doc[b], parent[b])'
    <2>1. Walks(doc[b], parent[b])
      BY <1>3 DEF HistoryInv, Walked
    <2>2. doc[b] \in Docs /\ parent[b] \in Nodes
      BY <1>3
    <2>3. Walks(doc[b], parent[b])'
      BY <1>1, <1>2, <1>3, <2>1, <2>2 DEF Walks, DocOf
    <2> QED
      BY <2>3
  <1>4. ASSUME NEW k \in Docs \X Nodes, remembered'[k] = remembered[k], remembered'[k] # <<>>
        PROVE  Walks(k[1], k[2])'
    BY <1>2, <1>4 DEF HistoryInv, Walked
  <1>5. ASSUME \A b \in Asks : (Going(b)' => Going(b)) /\ parent'[b] = parent[b],
               \A k \in Docs \X Nodes : remembered'[k] # <<>> => remembered'[k] = remembered[k]
        PROVE  Walked'
    BY <1>3, <1>4, <1>5 DEF Walked
  <1>6. ASSUME NEW a \in Asks, NEW p \in Nodes \cup {Blank}, AskQuestion(a, p)
        PROVE  Walked'
    <2>1. (at'[a] # "done" \/ a \in saver') /\ p # Blank => Walks(doc[a], p)
      BY <1>6, HistoryFound DEF Fresh, AskQuestion
    <2>2. /\ parent' = [parent EXCEPT ![a] = p]
          /\ remembered' = remembered
          /\ \A b \in Asks \ {a} : Going(b)' => Going(b)
      BY <1>6 DEF AskQuestion, Recall, ReadHistory, HistoryFails, Goto, Reply
    <2>3. ASSUME NEW b \in Asks, Going(b)', parent'[b] # Blank
          PROVE  Walks(doc[b], parent[b])'
      <3>1. CASE b = a
        <4>1. Walks(doc[a], p) /\ p \in Nodes /\ parent'[a] = p
          BY <2>1, <2>2, <2>3, <3>1
        <4>2. \A d \in Docs : Walks(d, p) => Walks(d, p)'
          BY <1>2, <4>1
        <4>3. doc[a] \in Docs
          OBVIOUS
        <4> QED
          BY <1>1, <3>1, <4>1, <4>2, <4>3 DEF Walks, DocOf
      <3>2. CASE b # a
        BY <1>3, <2>2, <2>3, <3>2
      <3> QED
        BY <3>1, <3>2
    <2> QED
      BY <1>4, <2>2, <2>3 DEF Walked
  <1>7. ASSUME NEW a \in Asks, SaveHistory(a) PROVE Walked'
    <2>1. /\ parent' = parent
          /\ \A b \in Asks : Going(b)' => Going(b)
      BY <1>7 DEF SaveHistory, question
    <2>2. ASSUME NEW k \in Docs \X Nodes, remembered'[k] # <<>>
          PROVE  Walks(k[1], k[2])'
      <3>1. CASE remembered'[k] = remembered[k]
        BY <1>4, <2>2, <3>1
      <3>2. CASE k = <<doc[a], parent[a]>>
        <4>1. parent[a] \in Nodes
          BY <3>2
        <4>2. parent[a] # Blank
          BY <4>1, ChatAssumption
        <4>3. Walks(k[1], k[2])
          BY <1>7, <3>2, <4>2 DEF HistoryInv, Walked, SaveHistory
        <4> QED
          BY <1>2, <4>3
      <3> QED
        BY <1>7, <3>1, <3>2 DEF SaveHistory, HistoryKey
    <2> QED
      BY <1>3, <2>1, <2>2 DEF Walked
  <1>8. ASSUME NEW a \in Asks, BuildPromptPanics(a) PROVE Walked'
    BY <1>5, <1>8 DEF BuildPromptPanics
  <1>9. ASSUME NEW a \in Asks,
               \/ \E m \in {"rag", "plain"} : Configure(a, m)
               \/ NoConfig(a) \/ CallLLM(a) \/ Create(a) \/ CreateFails(a)
               \/ GetChatTree(a) \/ GetChatTreeFails(a) \/ Return(a) \/ CacheAnswer(a)
        PROVE  Walked'
    <2>1. UNCHANGED <<parent, remembered, saver>>
      BY <1>9 DEF Configure, NoConfig, CallLLM, Create, CreateFails, GetChatTree,
                  GetChatTreeFails, Return, CacheAnswer
    <2>2. \A b \in Asks : at'[b] = at[b] \/ at[b] \notin {"idle", "done"}
      BY <1>9 DEF Configure, NoConfig, CallLLM, Create, CreateFails, GetChatTree,
                  GetChatTreeFails, Return, CacheAnswer, Goto, Reply
    <2> QED
      BY <1>5, <2>1, <2>2
  <1>10. ASSUME \/ UNCHANGED chatVars
                \/ \E d \in Docs : SetRoot(d)
                \/ \E k \in Docs \X Nodes : Expire(k)
         PROVE  Walked'
    BY <1>5, <1>10 DEF chatVars, question, SetRoot, Expire
  <1> QED
    BY <1>6, <1>7, <1>8, <1>9, <1>10 DEF Next

LEMMA StepPaths ==
    ASSUME TypeOK, Fresh, HistoryInv, [Next]_chatVars
    PROVE  PathsStayInDocument'
  <1> USE DEF TypeOK
  <1>1. doc' = doc /\ \A n \in Nodes : Stored(n) => line'[n] = line[n]
    BY PathsArePermanent
  <1> DEFINE InOne(n) == \A i \in DOMAIN line'[n] : DocOf(line'[n][i]) = DocOf(n)
  <1>2. ASSUME NEW n \in Nodes, line'[n] = line[n] PROVE InOne(n)
    BY <1>2 DEF HistoryInv, PathsStayInDocument
  <1>3. ASSUME \A n \in Nodes : InOne(n) PROVE PathsStayInDocument'
    BY <1>1, <1>3 DEF PathsStayInDocument, DocOf
  <1>4. ASSUME NEW d \in Docs, SetRoot(d) PROVE PathsStayInDocument'
    <2>1. d \in Nodes /\ line' = [line EXCEPT ![d] = <<d>>]
      BY <1>4 DEF SetRoot, Nodes
    <2>2. InOne(d)
      BY <2>1
    <2>3. \A n \in Nodes \ {d} : line'[n] = line[n]
      BY <2>1
    <2> QED
      BY <1>2, <1>3, <2>2, <2>3
  <1>5. ASSUME NEW a \in Asks, Create(a) PROVE PathsStayInDocument'
    <2>1. a \in Nodes /\ DocOf(a) = doc[a]
      BY ChatAssumption DEF Nodes, DocOf
    <2>2. InOne(a)
      <3>1. CASE parent[a] = Blank
        <4>1. line'[a] = <<a>>
          BY <1>5, <2>1, <3>1 DEF Create
        <4> QED
          BY <4>1
      <3>2. CASE parent[a] # Blank
        <4>1. parent[a] \in Nodes /\ line[parent[a]] \in Seq(Nodes)
          BY <3>2
        <4>2. Walks(doc[a], parent[a])
          BY <1>5, <3>2 DEF Create, HistoryInv, Walked
        <4>3. line'[a] = Append(line[parent[a]], a)
          BY <1>5, <2>1, <3>2 DEF Create
        <4>4. \A i \in DOMAIN line'[a] : line'[a][i] = a \/
                 (i \in DOMAIN line[parent[a]] /\ line'[a][i] = line[parent[a]][i])
          BY <2>1, <4>1, <4>3
        <4> QED
          BY <2>1, <4>2, <4>4 DEF Walks
      <3> QED
        BY <3>1, <3>2
    <2>3. \A n \in Nodes \ {a} : line'[n] = line[n]
      BY <1>5 DEF Create
    <2> QED
      BY <1>2, <1>3, <2>2, <2>3
  <1>6. ASSUME NEW a \in Asks,
               \/ \E p \in Nodes \cup {Blank} : AskQuestion(a, p)
               \/ \E m \in {"rag", "plain"} : Configure(a, m)
               \/ NoConfig(a) \/ CallLLM(a) \/ BuildPromptPanics(a) \/ CreateFails(a)
               \/ GetChatTree(a) \/ GetChatTreeFails(a) \/ Return(a)
               \/ SaveHistory(a) \/ CacheAnswer(a)
        PROVE  line' = line
    BY <1>6 DEF AskQuestion, Configure, NoConfig, CallLLM, BuildPromptPanics, CreateFails,
                GetChatTree, GetChatTreeFails, Return, SaveHistory, CacheAnswer, question
  <1>7. ASSUME UNCHANGED chatVars \/ \E k \in Docs \X Nodes : Expire(k)
        PROVE  line' = line
    BY <1>7 DEF chatVars, Expire, question
  <1>8. line' = line => PathsStayInDocument'
    BY <1>2, <1>3
  <1> QED
    BY <1>4, <1>5, <1>6, <1>7, <1>8 DEF Next

THEOREM HistoryInvariant == Spec => [](TypeOK /\ Fresh /\ HistoryInv)
  <1>1. TypeOK /\ Fresh /\ HistoryInv /\ [Next]_chatVars => TypeOK' /\ Fresh' /\ HistoryInv'
    BY StepTyped, StepHistoryIsPath, StepWalked, StepPaths DEF HistoryInv
  <1> QED
    BY <1>1, InitTyped, InitHistory, PTL DEF Spec

(* A history that is used or cached is the path to its parent in the table, *)
(* however questions, goroutines, expiries and crashes interleave.          *)
THEOREM HistoriesArePaths == Spec => []HistoryIsPath
  BY HistoryInvariant, PTL DEF HistoryInv

(* All nodes on a path belong to one document, whatever parents clients     *)
(* name: GetChatHistory and the keys of the cache keep documents apart.     *)
THEOREM DocumentsStayApart == Spec => []PathsStayInDocument
  BY HistoryInvariant, PTL DEF HistoryInv

-----------------------------------------------------------------------------
(* Until a question's reply is made its tree and err agree, unless its      *)
(* goroutine has run.                                                       *)
Agreed ==
    \A a \in Asks :
        /\ at[a] \in {"tree", "reply"} => Stored(a) /\ reply[a] = "none"
        /\ at[a] = "tree" => tree[a] = {}
        /\ at[a] = "reply" /\ a \in writer => (err[a] = "nil" <=> tree[a] # {})
        /\ reply[a] \in {"answer", "error"} => at[a] = "done"

ReplyInv == Agreed /\ ReplyFollowsTree

LEMMA InitReply == Init => ReplyInv
  BY DEF Init, ReplyInv, Agreed, ReplyFollowsTree

LEMMA StepReply ==
    ASSUME TypeOK, Fresh, ReplyInv, [Next]_chatVars
    PROVE  ReplyInv'
  <1> USE DEF TypeOK, ReplyInv, Agreed, ReplyFollowsTree, Goto, Reply
  <1>1. \A n \in Nodes : Stored(n) => Stored(n)'
    BY PathsArePermanent DEF Stored
  <1>2. \A n \in Asks : Stored(n) => Stored(n)'
    BY <1>1 DEF Nodes
  <1>3. CASE \/ UNCHANGED chatVars
             \/ \E d \in Docs : SetRoot(d)
             \/ \E k \in Docs \X Nodes : Expire(k)
             \/ \E a \in Asks : SaveHistory(a)
    BY <1>2, <1>3 DEF chatVars, question, SetRoot, Expire, SaveHistory
  <1>4. ASSUME NEW a \in Asks, NEW p \in Nodes \cup {Blank}, AskQuestion(a, p)
        PROVE  ReplyInv'
    <2>1. a \notin writer
      BY <1>4 DEF AskQuestion, Fresh, Stored
    <2>2. /\ at'[a] \in {"config", "done"} /\ reply'[a] \in {"none", "error"}
          /\ at'[a] = "config" => reply'[a] = "none"
          /\ \A b \in Asks \ {a} : at'[b] = at[b] /\ reply'[b] = reply[b]
      BY <1>4 DEF AskQuestion, Recall, ReadHistory, HistoryFails, Fresh
    <2> QED
      BY <1>2, <1>4, <2>1, <2>2 DEF AskQuestion
  <1>5. ASSUME NEW a \in Asks, (\E m \in {"rag", "plain"} : Configure(a, m)) \/ NoConfig(a)
        PROVE  ReplyInv'
    <2>1. a \notin writer /\ reply[a] = "none"
      BY <1>5 DEF Configure, NoConfig, Fresh, Stored
    <2>2. /\ at'[a] \in {"prompt", "done"}
          /\ at'[a] = "prompt" => reply'[a] = "none"
          /\ reply'[a] \in {"none", "error"}
          /\ \A b \in Asks \ {a} : at'[b] = at[b] /\ reply'[b] = reply[b]
          /\ UNCHANGED <<line, tree, err, writer>>
      BY <1>5, <2>1 DEF Configure, NoConfig
    <2> QED
      BY <1>2, <2>1, <2>2
  <1>6. ASSUME NEW a \in Asks, CallLLM(a) \/ CreateFails(a) PROVE ReplyInv'
    <2>1. a \notin writer /\ reply[a] = "none"
      BY <1>6 DEF CallLLM, CreateFails, Fresh, Stored
    <2>2. /\ at'[a] \in {"create", "done"}
          /\ at'[a] = "create" => reply'[a] = "none"
          /\ reply'[a] \in {"none", "error"}
          /\ \A b \in Asks \ {a} : at'[b] = at[b] /\ reply'[b] = reply[b]
          /\ UNCHANGED <<line, tree, err, writer>>
      BY <1>6, <2>1 DEF CallLLM, CreateFails
    <2> QED
      BY <1>2, <2>1, <2>2
  <1>7. ASSUME NEW a \in Asks, BuildPromptPanics(a) PROVE ReplyInv'
    BY <1>2, <1>7 DEF BuildPromptPanics
  <1>8. ASSUME NEW a \in Asks, Create(a) PROVE ReplyInv'
    <2>1. Stored(a)'
      BY <1>8, StepTyped DEF Create
    <2>2. tree[a] = {} /\ reply[a] = "none"
      BY <1>8 DEF Create, Fresh
    <2> QED
      BY <1>2, <1>8, <2>1, <2>2 DEF Create
  <1>9. ASSUME NEW a \in Asks, GetChatTree(a) PROVE ReplyInv'
    <2>1. tree'[a] # {}
      BY <1>9, TreeIsTyped DEF GetChatTree
    <2> QED
      BY <1>2, <1>9, <2>1 DEF GetChatTree
  <1>10. ASSUME NEW a \in Asks, GetChatTreeFails(a) PROVE ReplyInv'
    BY <1>2, <1>10 DEF GetChatTreeFails
  <1>11. ASSUME NEW a \in Asks, Return(a) PROVE ReplyInv'
    BY <1>2, <1>11 DEF Return
  <1>12. ASSUME NEW a \in Asks, CacheAnswer(a) PROVE ReplyInv'
    BY <1>2, <1>12 DEF CacheAnswer
  <1> QED
    BY <1>3, <1>4, <1>5, <1>6, <1>7, <1>8, <1>9, <1>10, <1>11, <1>12 DEF Next

(* An answered question is stored, and a reply that does not fit the tree   *)
(* owes it to the goroutine that shares the variable err.                   *)
THEOREM RepliesFollowTrees == Spec => []ReplyFollowsTree
  <1>1. TypeOK /\ Fresh /\ ReplyInv /\ [Next]_chatVars => TypeOK' /\ Fresh' /\ ReplyInv'
    BY StepTyped, StepReply
  <1> QED
    BY <1>1, InitTyped, InitReply, PTL DEF Spec, ReplyInv

-----------------------------------------------------------------------------
(* What the model was asked for the answers that are stored.                *)
AskedBelowRoot ==
    \A a \in Asks : Stored(a) => ("question" \in prompt[a] <=> parent[a] # Blank)

\* On its way to the node a question has a history exactly if it has a parent.
Prompted ==
    \A a \in Asks :
        /\ at[a] \in {"config", "prompt"} => (history[a] = <<>> <=> parent[a] = Blank)
        /\ at[a] = "create" => ("question" \in prompt[a] <=> parent[a] # Blank)

PromptInv == Prompted /\ AskedBelowRoot

LEMMA InitPrompt == Init => PromptInv
  BY DEF Init, PromptInv, Prompted, AskedBelowRoot, Stored, Nodes

LEMMA StepPrompt ==
    ASSUME TypeOK, Fresh, PromptInv, [Next]_chatVars
    PROVE  PromptInv'
  <1> USE ChatAssumption DEF TypeOK, PromptInv, Prompted, AskedBelowRoot, Goto, Reply, Nodes
  <1>1. ASSUME UNCHANGED <<at, parent, history, prompt>>,
               \A n \in Asks : line'[n] = line[n]
        PROVE  PromptInv'
    BY <1>1 DEF Stored
  <1>2. CASE \/ UNCHANGED chatVars
             \/ \E d \in Docs : SetRoot(d)
             \/ \E k \in Docs \X Nodes : Expire(k)
             \/ \E a \in Asks : SaveHistory(a) \/ CacheAnswer(a)
    BY <1>1, <1>2 DEF chatVars, question, SetRoot, Expire, SaveHistory, CacheAnswer
  <1>3. ASSUME NEW a \in Asks, NEW p \in Nodes \cup {Blank}, AskQuestion(a, p)
        PROVE  PromptInv'
    <2>1. /\ line' = line /\ prompt' = prompt /\ ~Stored(a)
          /\ at'[a] \in {"config", "done"} /\ parent'[a] = p
          /\ at'[a] = "config" => (history'[a] = <<>> <=> p = Blank)
      BY <1>3 DEF AskQuestion, Recall, ReadHistory, HistoryFails, Fresh, Walks, Stored
    <2>2. ASSUME NEW b \in Asks \ {a}
          PROVE  at'[b] = at[b] /\ history'[b] = history[b] /\ parent'[b] = parent[b]
      BY <1>3 DEF AskQuestion, Recall, ReadHistory, HistoryFails
    <2> QED
      BY <2>1, <2>2 DEF Stored
  <1>4. ASSUME NEW a \in Asks,
               \/ \E m \in {"rag", "plain"} : Configure(a, m)
               \/ NoConfig(a) \/ CreateFails(a)
               \/ GetChatTree(a) \/ GetChatTreeFails(a) \/ Return(a)
        PROVE  PromptInv'
    <2>1. /\ UNCHANGED <<line, parent, history, prompt>>
          /\ \/ at'[a] = "prompt" /\ at[a] = "config"
             \/ at'[a] \in {"reply", "done"}
          /\ \A b \in Asks \ {a} : at'[b] = at[b]
      BY <1>4 DEF Configure, NoConfig, CreateFails, GetChatTree, GetChatTreeFails, Return
    <2> QED
      BY <2>1 DEF Stored
  <1>5. ASSUME NEW a \in Asks, CallLLM(a) PROVE PromptInv'
    <2>1. /\ UNCHANGED <<line, parent, history>> /\ ~Stored(a)
          /\ at'[a] \in {"create", "done"}
          /\ "question" \in prompt'[a] <=> history[a] # <<>>
      BY <1>5 DEF CallLLM, BuildPrompt, Fresh, Stored
    <2>2. ASSUME NEW b \in Asks \ {a} PROVE at'[b] = at[b] /\ prompt'[b] = prompt[b]
      BY <1>5 DEF CallLLM
    <2> QED
      BY <1>5, <2>1, <2>2 DEF CallLLM, Stored
  <1>6. ASSUME NEW a \in Asks, BuildPromptPanics(a) PROVE PromptInv'
    BY <1>6 DEF BuildPromptPanics, Stored
  <1>7. ASSUME NEW a \in Asks, Create(a) PROVE PromptInv'
    <2>1. /\ UNCHANGED <<parent, history, prompt>> /\ at'[a] = "tree"
          /\ at[a] = "create"
          /\ \A b \in Asks \ {a} : at'[b] = at[b] /\ line'[b] = line[b]
      BY <1>7 DEF Create
    <2> QED
      BY <2>1 DEF Stored
  <1> QED
    BY <1>2, <1>3, <1>4, <1>5, <1>6, <1>7 DEF Next

(* The model is asked without the question exactly for the questions with a *)
(* blank parent, whatever caches, crashes and other questions do: an answer *)
(* below a root was always made from its question, one beside the tree      *)
(* never was.                                                               *)
THEOREM OnlyRootsAreUnasked == Spec => []AskedBelowRoot
  <1>1. TypeOK /\ Fresh /\ PromptInv /\ [Next]_chatVars => TypeOK' /\ Fresh' /\ PromptInv'
    BY StepTyped, StepPrompt
  <1> QED
    BY <1>1, InitTyped, InitPrompt, PTL DEF Spec, PromptInv

-----------------------------------------------------------------------------
(* The tree of a document.  Paths grow by one node below their parent's.    *)
Grown ==
    /\ \A d \in Docs : Stored(d) => line[d] = <<d>>
    /\ \A a \in Asks : Stored(a) =>
          \/ parent[a] = Blank /\ line[a] = <<a>>
          \/ /\ parent[a] \in Nodes /\ Stored(parent[a])
             /\ line[a] = Append(line[parent[a]], a)

(* A path leads from each node to one of its children, and to its own node. *)
Linked(path, known, up) ==
    \A i, j \in 1..Len(path) : j = i + 1 =>
        path[j] \in known /\ up[path[j]] = path[i]

Questions == {a \in Asks : Stored(a)}

Chained ==
    \A n \in Nodes : Stored(n) =>
        line[n][Len(line[n])] = n /\ Linked(line[n], Questions, parent)

(* A tree that was read as a whole shows its question where it belongs.     *)
Shown ==
    \A a \in Asks : a \notin pruned /\ tree[a] # {} =>
        Stored(a) /\ (a \in tree[a] <=> line[a][1] = doc[a])

TreeInv == Grown /\ Chained /\ Shown

LEMMA InitTree == Init => TreeInv
  BY DEF Init, TreeInv, Grown, Chained, Shown, Stored, Nodes

\* A stored question keeps its parent, and paths are stored in two places.
LEMMA ParentIsPermanent ==
    ASSUME TypeOK, Fresh, [Next]_chatVars, NEW a \in Asks, Stored(a)
    PROVE  parent'[a] = parent[a]
  <1>1. ASSUME NEW b \in Asks, NEW p \in Nodes \cup {Blank}, AskQuestion(b, p)
        PROVE  parent'[a] = parent[a]
    <2>1. b # a
      BY <1>1 DEF AskQuestion, Fresh, Stored
    <2> QED
      BY <1>1, <2>1 DEF AskQuestion, TypeOK
  <1>2. ASSUME NEW b \in Asks,
               \/ \E m \in {"rag", "plain"} : Configure(b, m)
               \/ NoConfig(b) \/ CallLLM(b) \/ BuildPromptPanics(b) \/ Create(b)
               \/ CreateFails(b) \/ GetChatTree(b) \/ GetChatTreeFails(b) \/ Return(b)
               \/ SaveHistory(b) \/ CacheAnswer(b)
        PROVE  UNCHANGED parent
    BY <1>2 DEF Configure, NoConfig, CallLLM, BuildPromptPanics, Create, CreateFails,
                GetChatTree, GetChatTreeFails, Return, SaveHistory, CacheAnswer, question
  <1>3. ASSUME \/ UNCHANGED chatVars
               \/ \E d \in Docs : SetRoot(d)
               \/ \E k \in Docs \X Nodes : Expire(k)
        PROVE  UNCHANGED parent
    BY <1>3 DEF chatVars, question, SetRoot, Expire
  <1> QED
    BY <1>1, <1>2, <1>3 DEF Next

LEMMA LineSteps ==
    ASSUME [Next]_chatVars
    PROVE  UNCHANGED line \/ (\E d \in Docs : SetRoot(d)) \/ (\E a \in Asks : Create(a))
  BY DEF Next, chatVars, question, AskQuestion, Configure, NoConfig, CallLLM,
         BuildPromptPanics, CreateFails, GetChatTree, GetChatTreeFails, Return, SaveHistory,
         CacheAnswer, Expire

\* A node becomes stored with its path as Grown has it.
LEMMA NodeStored ==
    ASSUME TypeOK, Fresh, Walked, [Next]_chatVars, NEW n \in Nodes, Stored(n)', ~Stored(n)
    PROVE  \/ n \in Docs /\ line'[n] = <<n>>
           \/ n \in Asks /\ parent'[n] = Blank /\ line'[n] = <<n>>
           \/ /\ n \in Asks /\ parent'[n] \in Nodes /\ Stored(parent'[n])
              /\ line'[n] = Append(line[parent'[n]], n)
  <1> USE DEF Stored
  <1>0. line \in [Nodes -> Seq(Nodes)] /\ parent \in [Asks -> Nodes \cup {Blank}]
    BY DEF TypeOK
  <1>1. CASE UNCHANGED line
    BY <1>1
  <1>2. ASSUME NEW d \in Docs, SetRoot(d) PROVE n \in Docs /\ line'[n] = <<n>>
    BY <1>0, <1>2 DEF SetRoot, Nodes
  <1>3. ASSUME NEW a \in Asks, Create(a), parent[a] = Blank
        PROVE  n \in Asks /\ parent'[n] = Blank /\ line'[n] = <<n>>
    BY <1>0, <1>3 DEF Create, Nodes
  <1>4. ASSUME NEW a \in Asks, Create(a), parent[a] # Blank
        PROVE  /\ n \in Asks /\ parent'[n] \in Nodes /\ Stored(parent'[n])
               /\ line'[n] = Append(line[parent'[n]], n)
    <2>1. n = a /\ parent' = parent /\ line'[a] = Append(line[parent[a]], a)
      BY <1>0, <1>4 DEF Create, Nodes
    <2>2. Walks(doc[a], parent[a])
      BY <1>4 DEF Create, Walked
    <2> QED
      BY <1>0, <1>4, <2>1, <2>2 DEF Walks
  <1> QED
    BY <1>1, <1>2, <1>3, <1>4, LineSteps

LEMMA StepGrown ==
    ASSUME TypeOK, Fresh, HistoryInv, Grown, [Next]_chatVars
    PROVE  Grown'
  <1>1. \A n \in Nodes : Stored(n) => line'[n] = line[n] /\ Stored(n)'
    BY PathsArePermanent DEF Stored
  <1>2. ASSUME NEW d \in Docs, Stored(d)' PROVE line'[d] = <<d>>
    <2>1. d \in Nodes /\ d \notin Asks
      BY ChatAssumption DEF Nodes
    <2> QED
      BY <1>1, <1>2, <2>1, NodeStored DEF Grown, HistoryInv
  <1>3. ASSUME NEW a \in Asks, Stored(a)'
        PROVE  \/ parent'[a] = Blank /\ line'[a] = <<a>>
               \/ /\ parent'[a] \in Nodes /\ line'[parent'[a]] # <<>>
                  /\ line'[a] = Append(line'[parent'[a]], a)
    <2>1. a \in Nodes /\ a \notin Docs
      BY ChatAssumption DEF Nodes
    <2>2. CASE Stored(a)
      <3>1. parent'[a] = parent[a]
        BY <2>2, ParentIsPermanent
      <3>2. PICK p \in Nodes \cup {Blank} : p = parent[a]
        BY DEF TypeOK
      <3>3. line'[a] = line[a]
        BY <1>1, <2>1, <2>2
      <3>4. CASE p = Blank /\ line[a] = <<a>>
        BY <3>1, <3>2, <3>3, <3>4
      <3>5. CASE p \in Nodes /\ Stored(p) /\ line[a] = Append(line[p], a)
        <4>1. Stored(p)' /\ line'[p] = line[p]
          BY <1>1, <3>5
        <4> QED
          BY <3>1, <3>2, <3>3, <3>5, <4>1 DEF Stored
      <3> QED
        BY <2>2, <3>2, <3>4, <3>5 DEF Grown
    <2>3. CASE ~Stored(a)
      <3>1. CASE parent'[a] = Blank /\ line'[a] = <<a>>
        BY <3>1
      <3>2. CASE /\ parent'[a] \in Nodes /\ Stored(parent'[a])
                 /\ line'[a] = Append(line[parent'[a]], a)
        <4>1. PICK p \in Nodes : p = parent'[a]
          BY <3>2
        <4>2. Stored(p)' /\ line'[p] = line[p]
          BY <1>1, <3>2, <4>1
        <4> QED
          BY <3>2, <4>1, <4>2 DEF Stored
      <3> QED
        BY <1>3, <2>1, <2>3, <3>1, <3>2, NodeStored DEF HistoryInv
    <2> QED
      BY <2>2, <2>3
  <1> QED
    BY <1>2, <1>3 DEF Grown, Stored

\* A path with its new node stays linked.
LEMMA LinkedAppend ==
    ASSUME NEW path \in Seq(Nodes), path # <<>>, NEW n, NEW known, NEW up,
           Linked(path, known, up), n \in known, up[n] = path[Len(path)]
    PROVE  /\ Append(path, n)[Len(Append(path, n))] = n
           /\ Linked(Append(path, n), known, up)
  <1>1. /\ Len(Append(path, n)) = Len(path) + 1 /\ Len(path) \in Nat \ {0}
        /\ Append(path, n)[Len(path) + 1] = n
        /\ \A i \in 1..Len(path) : Append(path, n)[i] = path[i]
    OBVIOUS
  <1>2. ASSUME NEW i \in 1..Len(path) + 1, NEW j \in 1..Len(path) + 1, j = i + 1
        PROVE  Append(path, n)[j] \in known /\ up[Append(path, n)[j]] = Append(path, n)[i]
    <2>1. i \in 1..Len(path) /\ Append(path, n)[i] = path[i]
      BY <1>1, <1>2
    <2>2. CASE j \in 1..Len(path)
      BY <1>1, <1>2, <2>1, <2>2 DEF Linked
    <2>3. CASE j = Len(path) + 1
      <3>1. i = Len(path) /\ Append(path, n)[j] = n
        BY <1>1, <1>2, <2>3
      <3> QED
        BY <2>1, <3>1
    <2> QED
      BY <1>1, <2>2, <2>3
  <1> QED
    BY <1>1, <1>2 DEF Linked

LEMMA StepChained ==
    ASSUME TypeOK, Fresh, HistoryInv, Chained, [Next]_chatVars
    PROVE  Chained'
  <1> SUFFICES ASSUME NEW n \in Nodes, Stored(n)'
               PROVE  line'[n][Len(line'[n])] = n /\ Linked(line'[n], Questions', parent')
    BY DEF Chained
  <1>0. line \in [Nodes -> Seq(Nodes)] /\ \A a \in Asks : a \in Nodes
    BY DEF TypeOK, Nodes
  <1>1. \A m \in Nodes : Stored(m) => line'[m] = line[m]
    BY PathsArePermanent
  <1>2. \A a \in Questions : a \in Questions' /\ parent'[a] = parent[a]
    BY <1>0, <1>1, ParentIsPermanent DEF Questions, Stored
  <1>3. ASSUME NEW m \in Nodes, Stored(m)
        PROVE  line[m][Len(line[m])] = m /\ Linked(line[m], Questions', parent')
    BY <1>2, <1>3 DEF Chained, Linked
  <1>4. CASE Stored(n)
    BY <1>1, <1>3, <1>4
  <1>5. CASE ~Stored(n)
    <2>1. CASE line'[n] = <<n>>
      BY <2>1 DEF Linked
    <2>2. CASE /\ n \in Asks /\ parent'[n] \in Nodes /\ Stored(parent'[n])
               /\ line'[n] = Append(line[parent'[n]], n)
      <3>1. PICK p \in Nodes : p = parent'[n]
        BY <2>2
      <3>2. PICK path \in Seq(Nodes) : path = line[p]
        BY <1>0
      <3>3. /\ path # <<>> /\ path[Len(path)] = p
            /\ Linked(path, Questions', parent')
        BY <1>3, <2>2, <3>1, <3>2 DEF Stored
      <3>4. n \in Questions'
        BY <2>2 DEF Questions
      <3>5. line'[n] = Append(path, n)
        BY <2>2, <3>1, <3>2
      <3> QED
        BY <3>1, <3>3, <3>4, <3>5, LinkedAppend
    <2> QED
      BY <1>5, <2>1, <2>2, NodeStored DEF HistoryInv
  <1> QED
    BY <1>4, <1>5

\* Induction over the natural numbers, for a set given as an expression.
LEMMA SetInduction ==
    ASSUME NEW S, 0 \in S, \A n \in Nat : n \in S => n + 1 \in S
    PROVE  Nat \subseteq S
<1> DEFINE T == Nat \ S
           R == OpToRel(<, Nat)
<1>1. IsWellFoundedOn(R, Nat)
    BY NatLessThanWellFounded
<1>2. \A x, y \in Nat : x < y => <<x, y>> \in R
    BY DEF OpToRel
<1> HIDE DEF R
<1>3. SUFFICES ASSUME T # {} PROVE FALSE
    OBVIOUS
<1>4. \E x \in T : \A y \in T : ~(<<y, x>> \in R)
    BY <1>1, <1>3, WFMin
<1>5. QED
    <2>1. PICK x \in T : \A y \in T : ~(<<y, x>> \in R)
        BY <1>4
    <2>2. x # 0 /\ x \in Nat
        OBVIOUS
    <2>3. x - 1 \in Nat /\ <<x - 1, x>> \in R
        BY <1>2, <2>2
    <2>4. x - 1 \in S
        BY <2>1, <2>3
    <2>5. (x - 1) + 1 \in S
        BY <2>3, <2>4
    <2>6. QED
        BY <2>2, <2>5

(* The breadth-first search of GetChatTree, where no read of children       *)
(* fails, finds the stored questions whose path begins at the root.         *)
LEMMA TreeIsBelowRoot ==
    ASSUME TypeOK, Grown, Chained, PathsStayInDocument,
           NEW d \in Docs, Stored(d), NEW a \in Asks, Stored(a), doc[a] = d
    PROVE  a \in ChatTree(d, {}) <=> line[a][1] = d
  <1>0. /\ line \in [Nodes -> Seq(Nodes)] /\ a \in Nodes /\ d \in Nodes
        /\ \A n \in Asks : DocOf(n) = doc[n] /\ n \notin Docs
    BY ChatAssumption DEF TypeOK, Nodes, DocOf
  <1>1. ASSUME line[a][1] = d, NEW S \in SUBSET Nodes, d \in S,
               \A n \in S : Children(d, n) \subseteq S
        PROVE  a \in S
    <2> DEFINE l == line[a]
               I == {i \in Nat : i + 1 \in 1..Len(l) => l[i + 1] \in S}
    <2>0. l \in Seq(Nodes) /\ Len(l) \in Nat \ {0} /\ l[1] = d
      BY <1>0, <1>1 DEF Stored
    <2>1. 0 \in I
      BY <1>1, <2>0
    <2>2. ASSUME NEW i \in Nat, i \in I PROVE i + 1 \in I
      <3>1. SUFFICES ASSUME (i + 1) + 1 \in 1..Len(l) PROVE l[(i + 1) + 1] \in S
        OBVIOUS
      <3>2. i + 1 \in 1..Len(l) /\ l[i + 1] \in S
        BY <2>0, <2>2, <3>1
      <3>3. PICK m \in Asks : m = l[(i + 1) + 1]
        BY <1>0, <3>1, <3>2 DEF Chained, Linked, Questions
      <3>4. Stored(m) /\ parent[m] = l[i + 1]
        BY <1>0, <3>1, <3>2, <3>3 DEF Chained, Linked, Questions
      <3>5. doc[m] = d
        BY <1>0, <2>0, <3>1, <3>3 DEF PathsStayInDocument
      <3>6. m \in Children(d, l[i + 1])
        BY <3>4, <3>5 DEF Children
      <3> QED
        BY <1>1, <3>2, <3>3, <3>6
    <2> HIDE DEF I
    <2>3. Nat \subseteq I
      BY <2>1, <2>2, SetInduction
    <2>4. Len(l) - 1 \in I
      BY <2>0, <2>3
    <2>5. l[Len(l)] \in S
      BY <2>0, <2>4 DEF I
    <2> QED
      BY <1>0, <2>5 DEF Chained
  <1>2. ASSUME line[a][1] # d PROVE a \notin ChatTree(d, {})
    <2> DEFINE S == {d} \cup {n \in Nodes : Stored(n) /\ line[n][1] = d}
    <2>1. d \in S /\ S \subseteq Nodes /\ a \notin S
      BY <1>0, <1>2
    <2>2. ASSUME NEW n \in S \ {}, NEW m \in Children(d, n) PROVE m \in S
      <3>1. m \in Asks /\ m \in Nodes /\ Stored(m) /\ parent[m] = n /\ n \in Nodes
        BY <2>1, <2>2 DEF Children, Nodes
      <3>2. n # Blank
        BY <3>1, ChatAssumption
      <3>3. Stored(n) /\ line[m] = Append(line[n], m)
        BY <3>1, <3>2 DEF Grown
      <3>4. line[n][1] = d
        BY <2>2, <3>3 DEF Grown
      <3>5. line[n] \in Seq(Nodes) /\ Len(line[n]) \in Nat \ {0}
        BY <1>0, <3>1, <3>3 DEF Stored
      <3>6. line[m][1] = d
        BY <3>1, <3>3, <3>4, <3>5
      <3> QED
        BY <3>1, <3>6
    <2> HIDE DEF S
    <2> QED
      BY <2>1, <2>2 DEF ChatTree, Tree
  <1> QED
    BY <1>0, <1>1, <1>2 DEF ChatTree, Tree

LEMMA TreeSteps ==
    ASSUME [Next]_chatVars
    PROVE  UNCHANGED <<tree, pruned>> \/ \E a \in Asks : GetChatTree(a)
  BY DEF Next, chatVars, question, AskQuestion, Configure, NoConfig, CallLLM,
         BuildPromptPanics, Create, CreateFails, GetChatTreeFails, Return, SaveHistory,
         CacheAnswer, Expire, SetRoot

LEMMA StepShown ==
    ASSUME TypeOK, Fresh, HistoryInv, ReplyInv, TreeInv, [Next]_chatVars
    PROVE  Shown'
  <1> SUFFICES ASSUME NEW a \in Asks, a \notin pruned', tree'[a] # {}
               PROVE  Stored(a)' /\ (a \in tree'[a] <=> line'[a][1] = doc'[a])
    BY DEF Shown
  <1>0. a \in Nodes /\ doc' = doc /\ \A n \in Nodes : Stored(n) => line'[n] = line[n]
    BY PathsArePermanent DEF Nodes
  <1>1. Stored(a) /\ (a \in tree'[a] <=> line[a][1] = doc[a])
    <2>1. CASE UNCHANGED <<tree, pruned>>
      BY <2>1 DEF TreeInv, Shown
    <2>2. ASSUME NEW b \in Asks, GetChatTree(b), b # a
          PROVE  tree'[a] = tree[a] /\ a \notin pruned
      BY <2>2 DEF GetChatTree
    <2>3. CASE GetChatTree(a)
      <3>1. /\ tree'[a] = ChatTree(doc[a], {}) /\ at[a] = "tree"
            /\ Stored(doc[a]) /\ doc[a] \in Docs
        <4>1. PICK unread \in SUBSET Nodes :
                /\ tree' = [tree EXCEPT ![a] = ChatTree(doc[a], unread)]
                /\ pruned' = IF unread = {} THEN pruned ELSE pruned \cup {a}
          BY <2>3 DEF GetChatTree
        <4>2. unread = {}
          BY <4>1
        <4> QED
          BY <2>3, <4>1, <4>2 DEF GetChatTree, TypeOK
      <3>2. Stored(a)
        BY <3>1 DEF ReplyInv, Agreed
      <3>3. PICK d \in Docs : d = doc[a]
        BY <3>1
      <3>4. a \in ChatTree(d, {}) <=> line[a][1] = d
        BY <3>1, <3>2, <3>3, TreeIsBelowRoot DEF TreeInv, HistoryInv
      <3> QED
        BY <3>1, <3>2, <3>3, <3>4
    <2> QED
      BY <2>1, <2>2, <2>3, TreeSteps DEF TreeInv, Shown
  <1> QED
    BY <1>0, <1>1 DEF Stored

(* The tree that is sent with an answer shows the answer exactly where its  *)
(* path begins at the root of the document, whatever parents the clients    *)
(* name: GetChatTree reaches all of them and no other.                      *)
THEOREM AnswersAreInTrees == Spec => []AnswerInTree
  <1>1. Init => TypeOK /\ Fresh /\ HistoryInv /\ ReplyInv /\ TreeInv
    BY InitTyped, InitHistory, InitReply, InitTree
  <1>2. TypeOK /\ Fresh /\ HistoryInv /\ ReplyInv /\ TreeInv /\ [Next]_chatVars
          => (TypeOK /\ Fresh /\ HistoryInv /\ ReplyInv /\ TreeInv)'
    BY StepTyped, StepHistoryIsPath, StepWalked, StepPaths, StepReply, StepGrown,
       StepChained, StepShown DEF HistoryInv, TreeInv
  <1>3. TreeInv => AnswerInTree
    BY DEF TreeInv, Shown, AnswerInTree
  <1> QED
    BY <1>1, <1>2, <1>3, PTL DEF Spec
=============================================================================
