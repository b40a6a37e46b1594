---------------------------- MODULE BackendProofs ----------------------------
(***************************************************************************)
(* What holds of Backend and Notifications for any number of clients,      *)
(* documents, streams and requests, and channels of any size.              *)
(***************************************************************************)
EXTENDS Backend, SequenceTheorems, TLAPS

(* The end of the process, for the websockets. *)
AllGone ==
    /\ session' = [c \in Clients |-> IF session[c] = "off" THEN "off" ELSE "closed"]
    /\ linked' = {}
    /\ inbox' = [c \in Clients |-> <<>>]
    /\ ch' = [c \in Clients |-> <<>>]
    /\ UNCHANGED <<published, since, sent, lossy, present>>

NotifyStep ==
    \/ \E d \in Docs : Publish(d)
    \/ \E c \in Clients :
          \/ Subscribe(c) \/ Close(c) \/ Connect(c) \/ Listen(c) \/ Drop(c)
          \/ Unlink(c) \/ Relink(c) \/ Serve(c) \/ Leave(c)
    \/ AllGone
    \/ UNCHANGED notifyVars

(* All that the process does to the websockets is a step of Notifications,  *)
(* their common end, or nothing.                                            *)
LEMMA StepOfNotifications ==
    ASSUME [Next]_backendVars
    PROVE  NotifyStep
<1>1. CASE UNCHANGED backendVars
  BY <1>1 DEF backendVars, NotifyStep
<1>2. CASE Main
  BY <1>2 DEF Main, OpenNext, ShutdownHttp, StopGrpc, StopUnservedGrpc, CloseInfrastructure,
     Gone, AllGone, NotifyStep
<1>3. CASE SkipEmbedding \/ OpenFails \/ StartServing \/ Signal \/ Crash
  BY <1>3 DEF SkipEmbedding, OpenFails, StartServing, Signal, Crash, Gone, AllGone, NotifyStep
<1>4. CASE \E r \in Requests : OpenRequest(r) \/ EndRequest(r)
  BY <1>4 DEF OpenRequest, EndRequest, NotifyStep
<1>5. CASE \E s \in Streams : OpenStream(s) \/ StreamPublishes(s) \/ EndStream(s)
  BY <1>5, BackendAssumption DEF OpenStream, StreamPublishes, EndStream, NotifyStep
<1>6. ASSUME NEW c \in Clients, HandleWebsocket(c) \/ WebsocketRuns(c) \/ WebsocketTrouble(c)
      PROVE  NotifyStep
  BY <1>6 DEF HandleWebsocket, WebsocketRuns, WebsocketTrouble, Handle, SubscribeFails,
     ConnectFails, ServeFails, NotifyStep
<1> QED
  BY <1>1, <1>2, <1>3, <1>4, <1>5, <1>6 DEF Next

-----------------------------------------------------------------------------
(* Sequences of numbers *)

LEMMA TailOf ==
    ASSUME NEW S, NEW s \in Seq(S), s # <<>>
    PROVE  /\ Head(s) = s[1] /\ Head(s) \in S /\ Len(s) \in Nat \ {0}
           /\ Tail(s) \in Seq(S) /\ Len(Tail(s)) = Len(s) - 1
           /\ \A i \in 1..(Len(s) - 1) : Tail(s)[i] = s[i + 1]
  OBVIOUS

LEMMA AppendOf ==
    ASSUME NEW S, NEW s \in Seq(S), NEW e \in S
    PROVE  /\ Append(s, e) \in Seq(S) /\ Len(Append(s, e)) = Len(s) + 1
           /\ \A i \in 1..Len(s) : Append(s, e)[i] = s[i]
           /\ Append(s, e)[Len(s) + 1] = e
  OBVIOUS

LEMMA PrefixOf ==
    ASSUME NEW S, NEW s \in Seq(S), NEW n \in 0..Len(s)
    PROVE  /\ SubSeq(s, 1, n) \in Seq(S) /\ Len(SubSeq(s, 1, n)) = n
           /\ \A i \in 1..n : SubSeq(s, 1, n)[i] = s[i]
  OBVIOUS

Without(s, n) == SubSeq(s, 1, n) \o SubSeq(s, n + 2, Len(s))

LEMMA WithoutOne ==
    ASSUME NEW S, NEW s \in Seq(S), NEW n \in Nat, n < Len(s)
    PROVE  /\ Without(s, n) \in Seq(S) /\ Len(Without(s, n)) = Len(s) - 1
           /\ \A i \in 1..n : Without(s, n)[i] = s[i]
           /\ \A i \in (n + 1)..(Len(s) - 1) : Without(s, n)[i] = s[i + 1]
<1> DEFINE a == SubSeq(s, 1, n)
           b == SubSeq(s, n + 2, Len(s))
<1>1. a \in Seq(S) /\ Len(a) = n /\ \A i \in 1..n : a[i] = s[i]
  OBVIOUS
<1>2. b \in Seq(S) /\ Len(b) = Len(s) - n - 1 /\ \A i \in 1..(Len(s) - n - 1) : b[i] = s[n + 1 + i]
  OBVIOUS
<1> DEFINE t == a \o b
<1> HIDE DEF a, b
<1>3. /\ t \in Seq(S) /\ Len(t) = Len(s) - 1
      /\ \A i \in 1..(Len(s) - 1) : t[i] = IF i <= n THEN a[i] ELSE b[i - n]
  <2>1. Len(a) \in Nat /\ Len(b) \in Nat /\ Len(s) \in Nat /\ Len(a) + Len(b) = Len(s) - 1
    BY <1>1, <1>2
  <2>2. /\ a \o b \in Seq(S) /\ Len(a \o b) = Len(a) + Len(b)
        /\ \A i \in 1..(Len(a) + Len(b)) : (a \o b)[i] = IF i <= Len(a) THEN a[i] ELSE b[i - Len(a)]
    BY <1>1, <1>2, ConcatProperties
  <2> QED BY <1>1, <2>1, <2>2
<1>4. Without(s, n) = t
  BY DEF Without, a, b
<1> HIDE DEF t
<1>5. \A i \in 1..n : t[i] = s[i]
  BY <1>1, <1>3
<1>6. \A i \in (n + 1)..(Len(s) - 1) : t[i] = s[i + 1]
  BY <1>2, <1>3
<1> QED BY <1>3, <1>4, <1>5, <1>6

LEMMA SeqOfMore ==
    ASSUME NEW S, NEW T, S \subseteq T, NEW s \in Seq(S)
    PROVE  s \in Seq(T)
  OBVIOUS

-----------------------------------------------------------------------------
(* Types of the websockets' part *)

LEMMA InitNotifyTyped == Init => NotifyTypeOK
  BY NotificationsAssumption DEF Init, NotifyInit, NotifyTypeOK

LEMMA PublishTyped ==
    ASSUME NotifyTypeOK, NEW d \in Docs, Publish(d)
    PROVE  NotifyTypeOK'
<1>1. /\ published' \in Seq(Docs) /\ Len(published') = Len(published) + 1
      /\ Len(published) \in Nat
  BY AppendOf DEF NotifyTypeOK, Publish
<1>2. ASSUME NEW s \in Seq(1..Len(published)) PROVE s \in Seq(1..Len(published'))
  <2>1. 1..Len(published) \subseteq 1..Len(published')
    BY <1>1
  <2> QED BY <2>1, SeqOfMore
<1>3. ASSUME NEW c \in Clients
      PROVE  /\ inbox'[c] \in Seq(1..Len(published'))
             /\ ch'[c] \in Seq(1..Len(published')) /\ Len(ch'[c]) <= Buffer
             /\ sent'[c] \in Seq(1..Len(published'))
  <2>1. inbox[c] \in Seq(1..Len(published')) /\ Len(published) + 1 \in 1..Len(published')
    BY <1>1, <1>2 DEF NotifyTypeOK
  <2>2. inbox'[c] \in Seq(1..Len(published'))
    BY <2>1, AppendOf DEF Publish
  <2> QED BY <1>2, <2>2 DEF NotifyTypeOK, Publish
<1>4. since' \in [Clients -> 0..Len(published')]
  BY <1>1 DEF NotifyTypeOK, Publish
<1> QED BY <1>1, <1>3, <1>4 DEF NotifyTypeOK, Publish

LEMMA FlowTyped ==
    ASSUME NotifyTypeOK, NEW c \in Clients, Listen(c) \/ Drop(c) \/ Unlink(c) \/ Serve(c)
    PROVE  NotifyTypeOK'
<1> DEFINE S == 1..Len(published)
<1>1. inbox[c] \in Seq(S) /\ ch[c] \in Seq(S) /\ sent[c] \in Seq(S)
  BY DEF NotifyTypeOK
<1>2. CASE Listen(c)
  <2>1. inbox'[c] \in Seq(S)
    BY <1>1, <1>2, TailOf DEF Listen, NotifyTypeOK
  <2>2. ch'[c] \in Seq(S) /\ Len(ch'[c]) <= Buffer
    <3>1. Head(inbox[c]) \in S
      BY <1>1, <1>2, TailOf DEF Listen
    <3>2. ch'[c] = Append(ch[c], Head(inbox[c])) /\ Len(ch[c]) < Buffer
      BY <1>2 DEF Listen, NotifyTypeOK
    <3> HIDE DEF S
    <3>3. Len(ch[c]) \in Nat
      BY <1>1
    <3> QED BY <1>1, <3>1, <3>2, <3>3, AppendOf, NotificationsAssumption
  <2> QED BY <1>2, <2>1, <2>2 DEF Listen, NotifyTypeOK
<1>3. CASE Drop(c)
  <2>1. inbox'[c] = Without(inbox[c], Held)
    BY <1>3 DEF Drop, Without, NotifyTypeOK
  <2>2. inbox'[c] \in Seq(S)
    BY <1>1, <1>3, <2>1, WithoutOne, NotificationsAssumption DEF Drop
  <2> QED BY <1>3, <2>2 DEF Drop, NotifyTypeOK
<1>4. CASE Unlink(c)
  <2>1. inbox'[c] \in Seq(S)
    BY <1>1, <1>4, PrefixOf DEF Unlink, NotifyTypeOK
  <2> QED BY <1>4, <2>1 DEF Unlink, NotifyTypeOK
<1>5. CASE Serve(c)
  <2>1. Head(ch[c]) \in S /\ Tail(ch[c]) \in Seq(S) /\ Len(Tail(ch[c])) = Len(ch[c]) - 1
    BY <1>1, <1>5, TailOf DEF Serve
  <2>2. ch'[c] = Tail(ch[c]) /\ sent'[c] \in {sent[c], Append(sent[c], Head(ch[c]))}
    BY <1>5 DEF Serve, NotifyTypeOK
  <2>3. sent'[c] \in Seq(S)
    <3> HIDE DEF S
    <3>1. Append(sent[c], Head(ch[c])) \in Seq(S)
      BY <1>1, <2>1, AppendOf
    <3> QED BY <1>1, <2>2, <3>1
  <2>4. Len(ch'[c]) <= Buffer
    BY <1>1, <2>1, <2>2, NotificationsAssumption DEF NotifyTypeOK
  <2> QED BY <1>5, <2>1, <2>2, <2>3, <2>4 DEF Serve, NotifyTypeOK
<1> QED BY <1>2, <1>3, <1>4, <1>5

LEMMA NotifyTyped ==
    ASSUME NotifyTypeOK, NotifyStep
    PROVE  NotifyTypeOK'
<1>1. ASSUME NEW c \in Clients, Subscribe(c) \/ Close(c) \/ Connect(c) \/ Relink(c) \/ Leave(c)
      PROVE  NotifyTypeOK'
  <2>1. Len(published) \in 0..Len(published)
    BY DEF NotifyTypeOK
  <2>2. CASE Subscribe(c)
    BY <2>1, <2>2 DEF Subscribe, NotifyTypeOK
  <2>3. CASE Close(c)
    <3>1. \A e \in Clients : ch'[e] \in {ch[e], <<>>} /\ inbox'[e] \in {inbox[e], <<>>}
      BY <2>3 DEF Close, NotifyTypeOK
    <3>2. ASSUME NEW e \in Clients
          PROVE  /\ inbox'[e] \in Seq(1..Len(published))
                 /\ ch'[e] \in Seq(1..Len(published)) /\ Len(ch'[e]) <= Buffer
      <4> DEFINE S == 1..Len(published)
      <4>1. /\ inbox[e] \in Seq(S) /\ ch[e] \in Seq(S) /\ Len(ch[e]) <= Buffer
            /\ <<>> \in Seq(S) /\ Len(<<>>) <= Buffer
        BY NotificationsAssumption DEF NotifyTypeOK
      <4> HIDE DEF S
      <4>2. inbox'[e] \in Seq(S) /\ ch'[e] \in Seq(S) /\ Len(ch'[e]) <= Buffer
        BY <3>1, <4>1
      <4> QED BY <4>2 DEF S
    <3> QED BY <2>3, <3>2 DEF Close, NotifyTypeOK
  <2>4. CASE Connect(c)
    BY <2>4 DEF Connect, flow, NotifyTypeOK
  <2>5. CASE Relink(c)
    BY <2>5 DEF Relink, NotifyTypeOK
  <2>6. CASE Leave(c)
    BY <2>6 DEF Leave, flow, NotifyTypeOK
  <2> QED BY <1>1, <2>2, <2>3, <2>4, <2>5, <2>6
<1>2. CASE AllGone
  BY <1>2, NotificationsAssumption DEF AllGone, NotifyTypeOK
<1>3. CASE UNCHANGED notifyVars
  BY <1>3 DEF notifyVars, NotifyTypeOK
<1> QED BY <1>1, <1>2, <1>3, PublishTyped, FlowTyped DEF NotifyStep

-----------------------------------------------------------------------------
(* Order *)

Sorted(s) == \A i, j \in DOMAIN s : i < j => s[i] < s[j]
Below(s, t) == \A i \in DOMAIN s, j \in DOMAIN t : s[i] < t[j]

(* What was written to a client was published before what waits in its      *)
(* channel, and that before what is on the way to it.                       *)
OrderInv ==
    \A c \in Clients :
        /\ Sorted(sent[c]) /\ Sorted(ch[c]) /\ Sorted(inbox[c])
        /\ Below(sent[c], ch[c]) /\ Below(sent[c], inbox[c]) /\ Below(ch[c], inbox[c])
        /\ \A i \in DOMAIN sent[c] : Concerns(c, sent[c][i])

LEMMA SortedConcat ==
    ASSUME NEW s \in Seq(Int), NEW t \in Seq(Int), Sorted(s), Sorted(t), Below(s, t)
    PROVE  s \o t \in Seq(Int) /\ Sorted(s \o t)
<1> DEFINE r == s \o t
<1>1. Len(s) \in Nat /\ Len(t) \in Nat /\ DOMAIN s = 1..Len(s) /\ DOMAIN t = 1..Len(t)
  OBVIOUS
<1>2. /\ r \in Seq(Int) /\ DOMAIN r = 1..(Len(s) + Len(t))
      /\ \A i \in 1..(Len(s) + Len(t)) : r[i] = IF i <= Len(s) THEN s[i] ELSE t[i - Len(s)]
  BY ConcatProperties
<1> HIDE DEF r
<1>3. ASSUME NEW i \in DOMAIN r, NEW j \in DOMAIN r, i < j
      PROVE  r[i] < r[j]
  <2>1. CASE j <= Len(s)
    <3>1. i \in DOMAIN s /\ j \in DOMAIN s /\ r[i] = s[i] /\ r[j] = s[j]
      BY <1>1, <1>2, <1>3, <2>1
    <3> QED BY <1>3, <3>1 DEF Sorted
  <2>2. CASE i <= Len(s) /\ j > Len(s)
    <3>1. i \in DOMAIN s /\ j - Len(s) \in DOMAIN t /\ r[i] = s[i] /\ r[j] = t[j - Len(s)]
      BY <1>1, <1>2, <1>3, <2>2
    <3> QED BY <3>1 DEF Below
  <2>3. CASE i > Len(s)
    <3>1. /\ i - Len(s) \in DOMAIN t /\ j - Len(s) \in DOMAIN t
          /\ r[i] = t[i - Len(s)] /\ r[j] = t[j - Len(s)] /\ i - Len(s) < j - Len(s)
      <4>1. i \in 1..(Len(s) + Len(t)) /\ j \in 1..(Len(s) + Len(t))
        BY <1>2
      <4>2. r[i] = t[i - Len(s)] /\ r[j] = t[j - Len(s)]
        <5>1. ~(i <= Len(s)) /\ ~(j <= Len(s))
          BY <1>1, <1>3, <2>3, <4>1
        <5> QED BY <1>2, <4>1, <5>1
      <4>3. i - Len(s) \in 1..Len(t) /\ j - Len(s) \in 1..Len(t) /\ i - Len(s) < j - Len(s)
        BY <1>1, <1>3, <2>3, <4>1
      <4> QED BY <1>1, <4>2, <4>3
    <3> QED BY <3>1 DEF Sorted
  <2> QED BY <1>1, <1>2, <2>1, <2>2, <2>3
<1> QED BY <1>2, <1>3 DEF Sorted, r

LEMMA BelowConcat ==
    ASSUME NEW s \in Seq(Int), NEW t \in Seq(Int), NEW u \in Seq(Int), Below(s, u), Below(t, u)
    PROVE  Below(s \o t, u)
<1> DEFINE r == s \o t
<1>1. Len(s) \in Nat /\ Len(t) \in Nat /\ DOMAIN s = 1..Len(s) /\ DOMAIN t = 1..Len(t)
  OBVIOUS
<1>2. /\ r \in Seq(Int) /\ DOMAIN r = 1..(Len(s) + Len(t))
      /\ \A i \in 1..(Len(s) + Len(t)) : r[i] = IF i <= Len(s) THEN s[i] ELSE t[i - Len(s)]
  BY ConcatProperties
<1> HIDE DEF r
<1>3. ASSUME NEW i \in DOMAIN r, NEW j \in DOMAIN u
      PROVE  r[i] < u[j]
  <2>1. CASE i <= Len(s)
    <3>1. i \in DOMAIN s /\ r[i] = s[i]
      BY <1>1, <1>2, <2>1
    <3> QED BY <3>1 DEF Below
  <2>2. CASE i > Len(s)
    <3>1. i - Len(s) \in DOMAIN t /\ r[i] = t[i - Len(s)]
      BY <1>1, <1>2, <2>2
    <3> QED BY <3>1 DEF Below
  <2> QED BY <1>1, <1>2, <2>1, <2>2
<1>4. Below(r, u)
  BY <1>3 DEF Below
<1> QED BY <1>4 DEF r

LEMMA OrderOfWay ==
    ASSUME NotifyTypeOK, OrderInv
    PROVE  ToldInOrder
<1> SUFFICES ASSUME NEW c \in Clients PROVE Sorted(Way(c))
  BY DEF OrderInv, ToldInOrder, Sorted
<1>1. sent[c] \in Seq(Int) /\ ch[c] \in Seq(Int) /\ inbox[c] \in Seq(Int)
  BY SeqOfMore DEF NotifyTypeOK
<1>2. sent[c] \o ch[c] \in Seq(Int) /\ Sorted(sent[c] \o ch[c])
  BY <1>1, SortedConcat DEF OrderInv
<1>3. Below(sent[c] \o ch[c], inbox[c])
  BY <1>1, BelowConcat DEF OrderInv
<1> QED BY <1>1, <1>2, <1>3, SortedConcat DEF OrderInv, Way

LEMMA SortedAppend ==
    ASSUME NEW s \in Seq(Int), NEW e \in Int, Sorted(s), \A i \in DOMAIN s : s[i] < e
    PROVE  Sorted(Append(s, e))
<1> DEFINE t == Append(s, e)
<1>1. /\ Len(s) \in Nat /\ DOMAIN s = 1..Len(s) /\ DOMAIN t = 1..(Len(s) + 1)
      /\ t[Len(s) + 1] = e /\ \A i \in DOMAIN s : t[i] = s[i]
  BY AppendOf
<1> HIDE DEF t
<1>2. ASSUME NEW i \in DOMAIN t, NEW j \in DOMAIN t, i < j
      PROVE  t[i] < t[j]
  <2>1. i \in DOMAIN s
    BY <1>1, <1>2
  <2>2. CASE j = Len(s) + 1
    BY <1>1, <2>1, <2>2
  <2>3. CASE j \in DOMAIN s
    BY <1>1, <1>2, <2>1, <2>3 DEF Sorted
  <2> QED BY <1>1, <2>2, <2>3
<1> QED BY <1>2 DEF Sorted, t

LEMMA BelowAppend ==
    ASSUME NEW s \in Seq(Int), NEW e \in Int
    PROVE  /\ \A u : Below(s, u) /\ (\A j \in DOMAIN u : e < u[j]) => Below(Append(s, e), u)
           /\ \A u : Below(u, s) /\ (\A j \in DOMAIN u : u[j] < e) => Below(u, Append(s, e))
<1> DEFINE t == Append(s, e)
<1>1. \A i \in DOMAIN t : (i \in DOMAIN s /\ t[i] = s[i]) \/ t[i] = e
  <2>1. /\ Len(s) \in Nat /\ DOMAIN s = 1..Len(s) /\ DOMAIN t = 1..(Len(s) + 1)
        /\ t[Len(s) + 1] = e /\ \A i \in DOMAIN s : t[i] = s[i]
    BY AppendOf
  <2> QED BY <2>1
<1> HIDE DEF t
<1>2. \A u : Below(s, u) /\ (\A j \in DOMAIN u : e < u[j]) => Below(t, u)
  BY <1>1 DEF Below
<1>3. \A u : Below(u, s) /\ (\A j \in DOMAIN u : u[j] < e) => Below(u, t)
  BY <1>1 DEF Below
<1> QED BY <1>2, <1>3 DEF t

(* A sequence that lost elements keeps its order. *)
LEMMA OrderOfPart ==
    ASSUME NEW s, NEW t, NEW f \in [DOMAIN t -> DOMAIN s],
           \A i, j \in DOMAIN t : i < j => f[i] < f[j],
           \A i \in DOMAIN t : t[i] = s[f[i]]
    PROVE  /\ Sorted(s) => Sorted(t)
           /\ \A u : Below(u, s) => Below(u, t)
           /\ \A u : Below(s, u) => Below(t, u)
  BY DEF Sorted, Below

LEMMA OrderOfTail ==
    ASSUME NEW s \in Seq(Int), s # <<>>
    PROVE  /\ Sorted(s) => Sorted(Tail(s)) /\ \A j \in DOMAIN Tail(s) : Head(s) < Tail(s)[j]
           /\ \A u : Below(u, s) =>
                 Below(u, Tail(s)) /\ \A j \in DOMAIN u : u[j] < Head(s)
           /\ \A u : Below(s, u) =>
                 Below(Tail(s), u) /\ \A j \in DOMAIN u : Head(s) < u[j]
<1> DEFINE t == Tail(s)
           f == [i \in DOMAIN t |-> i + 1]
<1>1. /\ Head(s) = s[1] /\ Len(s) \in Nat \ {0} /\ DOMAIN s = 1..Len(s)
      /\ DOMAIN t = 1..(Len(s) - 1) /\ \A i \in DOMAIN t : t[i] = s[i + 1]
  BY TailOf
<1> HIDE DEF t
<1>2. /\ f \in [DOMAIN t -> DOMAIN s] /\ \A i, j \in DOMAIN t : i < j => f[i] < f[j]
      /\ \A i \in DOMAIN t : t[i] = s[f[i]]
  BY <1>1
<1>3. 1 \in DOMAIN s /\ \A j \in DOMAIN t : 1 < f[j]
  BY <1>1
<1> HIDE DEF f
<1>4. /\ Sorted(s) => Sorted(t)
      /\ \A u : Below(u, s) => Below(u, t)
      /\ \A u : Below(s, u) => Below(t, u)
  BY <1>2, OrderOfPart
<1>5. Sorted(s) => \A j \in DOMAIN t : Head(s) < t[j]
  BY <1>1, <1>2, <1>3 DEF Sorted
<1>6. /\ \A u : Below(u, s) => \A j \in DOMAIN u : u[j] < Head(s)
      /\ \A u : Below(s, u) => \A j \in DOMAIN u : Head(s) < u[j]
  BY <1>1, <1>3 DEF Below
<1> QED BY <1>4, <1>5, <1>6 DEF t

LEMMA OrderAfterPublish ==
    ASSUME NotifyTypeOK, OrderInv, NEW d \in Docs, Publish(d)
    PROVE  OrderInv'
<1> SUFFICES ASSUME NEW c \in Clients
             PROVE  /\ Sorted(sent'[c]) /\ Sorted(ch'[c]) /\ Sorted(inbox'[c])
                    /\ Below(sent'[c], ch'[c]) /\ Below(sent'[c], inbox'[c])
                    /\ Below(ch'[c], inbox'[c])
                    /\ \A i \in DOMAIN sent'[c] : published'[sent'[c][i]] \in Topic[c]
  BY DEF OrderInv, Concerns
<1> DEFINE N == Len(published)
           e == N + 1
           b == inbox[c]
<1>1. /\ N \in Nat /\ e \in Int /\ sent' = sent /\ ch' = ch
      /\ published' = Append(published, d) /\ inbox'[c] \in {b, Append(b, e)}
  BY DEF Publish, NotifyTypeOK
<1>2. /\ sent[c] \in Seq(1..N) /\ ch[c] \in Seq(1..N) /\ b \in Seq(1..N) /\ b \in Seq(Int)
  BY SeqOfMore DEF NotifyTypeOK
<1>3. \A i \in 1..N : published'[i] = published[i]
  BY <1>1, AppendOf DEF NotifyTypeOK
<1>4. /\ Sorted(sent[c]) /\ Sorted(ch[c]) /\ Sorted(b)
      /\ Below(sent[c], ch[c]) /\ Below(sent[c], b) /\ Below(ch[c], b)
      /\ \A i \in DOMAIN sent[c] : published[sent[c][i]] \in Topic[c]
  BY DEF OrderInv, Concerns
<1>5. /\ \A i \in DOMAIN sent[c] : sent[c][i] \in 1..N /\ sent[c][i] < e
      /\ \A i \in DOMAIN ch[c] : ch[c][i] < e
      /\ \A i \in DOMAIN b : b[i] < e
  BY <1>1, <1>2
<1> HIDE DEF N, e, b
<1>6. \A i \in DOMAIN sent[c] : published'[sent[c][i]] \in Topic[c]
  BY <1>3, <1>4, <1>5
<1>7. CASE inbox'[c] = b
  BY <1>1, <1>4, <1>6, <1>7
<1>8. CASE inbox'[c] = Append(b, e)
  <2>1. Sorted(Append(b, e))
    BY <1>1, <1>2, <1>4, <1>5, SortedAppend
  <2>2. Below(sent[c], Append(b, e)) /\ Below(ch[c], Append(b, e))
    BY <1>1, <1>2, <1>4, <1>5, BelowAppend
  <2> QED BY <1>1, <1>4, <1>6, <1>8, <2>1, <2>2
<1> QED BY <1>1, <1>7, <1>8

(* The goroutine, the library and a broken connection take from one end or  *)
(* the middle of a sequence and add to the end of the next.                 *)
LEMMA OrderAfterFlow ==
    ASSUME NotifyTypeOK, OrderInv, NEW e \in Clients,
           Listen(e) \/ Drop(e) \/ Unlink(e) \/ Serve(e)
    PROVE  OrderInv'
<1> DEFINE S == 1..Len(published)
           x == sent[e]
           y == ch[e]
           z == inbox[e]
<1>1. /\ x \in Seq(S) /\ y \in Seq(S) /\ z \in Seq(S)
      /\ x \in Seq(Int) /\ y \in Seq(Int) /\ z \in Seq(Int)
      /\ Len(y) \in Nat /\ Len(z) \in Nat
  BY SeqOfMore DEF NotifyTypeOK
<1>2. /\ Sorted(x) /\ Sorted(y) /\ Sorted(z) /\ Below(x, y) /\ Below(x, z) /\ Below(y, z)
      /\ \A i \in DOMAIN x : published[x[i]] \in Topic[e]
  BY DEF OrderInv, Concerns
<1> DEFINE nx == sent'[e]
           ny == ch'[e]
           nz == inbox'[e]
<1>3. SUFFICES /\ Sorted(nx) /\ Sorted(ny) /\ Sorted(nz)
               /\ Below(nx, ny) /\ Below(nx, nz) /\ Below(ny, nz)
               /\ \A i \in DOMAIN nx : published[nx[i]] \in Topic[e]
  <2>1. /\ published' = published
        /\ \A c \in Clients \ {e} : sent'[c] = sent[c] /\ ch'[c] = ch[c] /\ inbox'[c] = inbox[c]
    BY DEF Listen, Drop, Unlink, Serve, NotifyTypeOK
  <2> QED BY <1>3, <2>1 DEF OrderInv, Concerns
<1>4. CASE Listen(e)
  <2>1. z # <<>> /\ nx = x /\ ny = Append(y, Head(z)) /\ nz = Tail(z)
    BY <1>4 DEF Listen, NotifyTypeOK
  <2>2. Head(z) \in Int
    BY <1>1, <2>1, TailOf
  <2> HIDE DEF x, y, z, nx, ny, nz
  <2>3. /\ Sorted(nz) /\ Below(x, nz) /\ Below(y, nz) /\ \A j \in DOMAIN nz : Head(z) < nz[j]
        /\ \A j \in DOMAIN x : x[j] < Head(z)
        /\ \A j \in DOMAIN y : y[j] < Head(z)
    BY <1>1, <1>2, <2>1, OrderOfTail
  <2>4. Sorted(ny)
    BY <1>1, <1>2, <2>1, <2>2, <2>3, SortedAppend
  <2>5. Below(ny, nz) /\ Below(x, ny)
    BY <1>1, <1>2, <2>1, <2>2, <2>3, BelowAppend
  <2> QED BY <1>2, <2>1, <2>3, <2>4, <2>5
<1>5. CASE Drop(e)
  <2>1. nz = Without(z, Held) /\ Len(z) > Held /\ nx = x /\ ny = y
    BY <1>5 DEF Drop, Without, NotifyTypeOK
  <2>2. /\ nz \in Seq(Int) /\ Len(nz) = Len(z) - 1
        /\ \A i \in 1..Held : nz[i] = z[i]
        /\ \A i \in (Held + 1)..(Len(z) - 1) : nz[i] = z[i + 1]
    <3>1. z \in Seq(Int) /\ Held \in Nat /\ Held < Len(z)
      BY <1>1, <2>1, NotificationsAssumption
    <3> HIDE DEF x, y, z, nx, ny, nz
    <3> QED BY <2>1, <3>1, WithoutOne
  <2> DEFINE f == [i \in DOMAIN nz |-> IF i <= Held THEN i ELSE i + 1]
  <2> HIDE DEF x, y, z, nx, ny, nz
  <2>3. DOMAIN nz = 1..(Len(z) - 1) /\ DOMAIN z = 1..Len(z)
    BY <1>1, <2>2
  <2>4. /\ f \in [DOMAIN nz -> DOMAIN z] /\ \A i, j \in DOMAIN nz : i < j => f[i] < f[j]
        /\ \A i \in DOMAIN nz : nz[i] = z[f[i]]
    <3>1. Held \in Nat /\ Len(z) \in Nat
      BY <1>1, NotificationsAssumption
    <3>2. ASSUME NEW i \in DOMAIN nz
          PROVE  /\ i \in 1..Held \/ (i \in (Held + 1)..(Len(z) - 1) /\ ~(i <= Held))
                 /\ i \in DOMAIN z /\ i + 1 \in DOMAIN z
      BY <2>3, <3>1
    <3>3. \A i \in DOMAIN nz : f[i] \in DOMAIN z /\ nz[i] = z[f[i]]
      BY <2>2, <2>3, <3>1, <3>2
    <3>4. \A i, j \in DOMAIN nz : i < j => f[i] < f[j]
      BY <2>3, <3>1
    <3> QED BY <3>3, <3>4
  <2> HIDE DEF f
  <2>5. Sorted(nz) /\ Below(x, nz) /\ Below(y, nz)
    BY <1>2, <2>4, OrderOfPart
  <2> QED BY <1>2, <2>1, <2>5
<1>6. CASE Unlink(e)
  <2>1. PICK n \in 0..Len(z) : nz = SubSeq(z, 1, n)
    BY <1>6 DEF Unlink, NotifyTypeOK
  <2>2. nx = x /\ ny = y
    BY <1>6 DEF Unlink
  <2>3. nz \in Seq(Int) /\ Len(nz) = n /\ \A i \in 1..n : nz[i] = z[i]
    BY <1>1, <2>1, PrefixOf
  <2> HIDE DEF x, y, z, nx, ny, nz
  <2>4. DOMAIN nz = 1..n /\ DOMAIN z = 1..Len(z)
    BY <1>1, <2>3
  <2>5. DOMAIN nz \subseteq DOMAIN z
    BY <1>1, <2>4
  <2>6. Sorted(nz) /\ Below(x, nz) /\ Below(y, nz)
    BY <1>2, <2>3, <2>4, <2>5 DEF Sorted, Below
  <2> QED BY <1>2, <2>2, <2>6
<1>7. CASE Serve(e)
  <2>1. /\ y # <<>> /\ ny = Tail(y) /\ nz = z
        /\ \/ nx = x
           \/ nx = Append(x, Head(y)) /\ published[Head(y)] \in Topic[e]
    BY <1>7 DEF Serve, NotifyTypeOK, Concerns
  <2>2. Head(y) \in Int
    BY <1>1, <2>1, TailOf
  <2> HIDE DEF x, y, z, nx, ny, nz
  <2>3. /\ Sorted(ny) /\ Below(x, ny) /\ Below(ny, z) /\ \A j \in DOMAIN ny : Head(y) < ny[j]
        /\ \A j \in DOMAIN x : x[j] < Head(y)
        /\ \A j \in DOMAIN z : Head(y) < z[j]
    BY <1>1, <1>2, <2>1, OrderOfTail
  <2>4. CASE nx = x
    BY <1>2, <2>1, <2>3, <2>4
  <2>5. CASE nx = Append(x, Head(y)) /\ published[Head(y)] \in Topic[e]
    <3>1. Sorted(nx)
      BY <1>1, <1>2, <2>2, <2>3, <2>5, SortedAppend
    <3>2. Below(nx, ny) /\ Below(nx, z)
      BY <1>1, <1>2, <2>2, <2>3, <2>5, BelowAppend
    <3>3. \A i \in DOMAIN nx : nx[i] = Head(y) \/ (i \in DOMAIN x /\ nx[i] = x[i])
      <4>1. DOMAIN nx = 1..(Len(x) + 1) /\ DOMAIN x = 1..Len(x) /\ Len(x) \in Nat
        BY <1>1, <2>2, <2>5, AppendOf
      <4>2. nx[Len(x) + 1] = Head(y) /\ \A i \in 1..Len(x) : nx[i] = x[i]
        BY <1>1, <2>2, <2>5, AppendOf
      <4> QED BY <4>1, <4>2
    <3>4. \A i \in DOMAIN nx : published[nx[i]] \in Topic[e]
      BY <1>2, <2>5, <3>3
    <3> QED BY <1>2, <2>1, <2>3, <3>1, <3>2, <3>4
  <2> QED BY <2>1, <2>4, <2>5
<1> QED BY <1>4, <1>5, <1>6, <1>7

LEMMA OrderKept ==
    ASSUME NotifyTypeOK, OrderInv, NotifyStep
    PROVE  OrderInv'
<1>1. ASSUME NEW e \in Clients, Subscribe(e) \/ Connect(e) \/ Relink(e) \/ Leave(e)
      PROVE  OrderInv'
  BY <1>1 DEF Subscribe, Connect, Relink, Leave, flow, OrderInv, Concerns
<1>2. ASSUME published' = published, sent' = sent,
             \A c \in Clients : ch'[c] \in {ch[c], <<>>} /\ inbox'[c] \in {inbox[c], <<>>}
      PROVE  OrderInv'
  BY <1>2 DEF OrderInv, Concerns, Sorted, Below
<1>3. ASSUME NEW e \in Clients, Close(e)
      PROVE  OrderInv'
  <2>1. \A c \in Clients : ch'[c] \in {ch[c], <<>>} /\ inbox'[c] \in {inbox[c], <<>>}
    BY <1>3 DEF Close, NotifyTypeOK
  <2> QED BY <1>2, <1>3, <2>1 DEF Close
<1>4. CASE AllGone
  <2>1. \A c \in Clients : ch'[c] = <<>> /\ inbox'[c] = <<>>
    BY <1>4 DEF AllGone
  <2> QED BY <1>2, <1>4, <2>1 DEF AllGone
<1>5. CASE UNCHANGED notifyVars
  BY <1>5 DEF notifyVars, OrderInv, Concerns
<1> QED BY <1>1, <1>3, <1>4, <1>5, OrderAfterPublish, OrderAfterFlow DEF NotifyStep

-----------------------------------------------------------------------------
(* Completeness *)

OnWay(c) == Elements(sent[c]) \cup Elements(ch[c]) \cup Elements(inbox[c])

(* A subscription that lost nothing is linked to Redis, so the next event   *)
(* will reach it, too.                                                      *)
TellInv ==
    \A c \in Clients : Subscribed(c) /\ c \notin lossy =>
        /\ c \in linked
        /\ \A i \in DOMAIN published : i > since[c] /\ Concerns(c, i) => i \in OnWay(c)

LEMMA ElementsConcat ==
    ASSUME NEW s \in Seq(Int), NEW t \in Seq(Int)
    PROVE  Elements(s) \cup Elements(t) \subseteq Elements(s \o t)
<1> DEFINE r == s \o t
<1>1. /\ Len(s) \in Nat /\ Len(t) \in Nat /\ DOMAIN s = 1..Len(s) /\ DOMAIN t = 1..Len(t)
      /\ DOMAIN r = 1..(Len(s) + Len(t))
      /\ \A i \in 1..(Len(s) + Len(t)) : r[i] = IF i <= Len(s) THEN s[i] ELSE t[i - Len(s)]
  BY ConcatProperties
<1> HIDE DEF r
<1>2. \A i \in DOMAIN s : i \in DOMAIN r /\ r[i] = s[i]
  BY <1>1
<1>3. \A i \in DOMAIN t : i + Len(s) \in DOMAIN r /\ r[i + Len(s)] = t[i]
  BY <1>1
<1> QED BY <1>2, <1>3 DEF Elements, r

LEMMA ElementsAppend ==
    ASSUME NEW s \in Seq(Int), NEW e \in Int
    PROVE  Elements(s) \cup {e} \subseteq Elements(Append(s, e))
<1> DEFINE t == Append(s, e)
<1>1. /\ Len(s) \in Nat /\ DOMAIN s = 1..Len(s) /\ DOMAIN t = 1..(Len(s) + 1)
      /\ t[Len(s) + 1] = e /\ \A i \in DOMAIN s : t[i] = s[i]
  BY AppendOf
<1> HIDE DEF t
<1>2. Len(s) + 1 \in DOMAIN t /\ \A i \in DOMAIN s : i \in DOMAIN t
  BY <1>1
<1> QED BY <1>1, <1>2 DEF Elements, t

LEMMA ElementsTail ==
    ASSUME NEW s \in Seq(Int), s # <<>>
    PROVE  Elements(s) \subseteq Elements(Tail(s)) \cup {Head(s)}
<1> DEFINE t == Tail(s)
<1>1. /\ Head(s) = s[1] /\ Len(s) \in Nat \ {0} /\ DOMAIN s = 1..Len(s)
      /\ DOMAIN t = 1..(Len(s) - 1) /\ \A i \in DOMAIN t : t[i] = s[i + 1]
  BY TailOf
<1> HIDE DEF t
<1>2. \A i \in DOMAIN s : s[i] = Head(s) \/ (i - 1 \in DOMAIN t /\ s[i] = t[i - 1])
  BY <1>1
<1> QED BY <1>2 DEF Elements, t

LEMMA AllOnWay ==
    ASSUME NotifyTypeOK, TellInv
    PROVE  NothingMissed
<1> SUFFICES ASSUME NEW c \in Clients PROVE OnWay(c) \subseteq Elements(Way(c))
  BY DEF TellInv, NothingMissed
<1>1. sent[c] \in Seq(Int) /\ ch[c] \in Seq(Int) /\ inbox[c] \in Seq(Int)
  BY SeqOfMore DEF NotifyTypeOK
<1>2. sent[c] \o ch[c] \in Seq(Int)
  BY <1>1, ConcatProperties
<1>3. /\ Elements(sent[c]) \cup Elements(ch[c]) \subseteq Elements(sent[c] \o ch[c])
      /\ Elements(sent[c] \o ch[c]) \cup Elements(inbox[c]) \subseteq Elements(Way(c))
  BY <1>1, <1>2, ElementsConcat DEF Way
<1> QED BY <1>3 DEF OnWay

LEMMA TellAfterPublish ==
    ASSUME NotifyTypeOK, TellInv, NEW d \in Docs, Publish(d)
    PROVE  TellInv'
<1> SUFFICES ASSUME NEW c \in Clients, Subscribed(c), c \notin lossy,
                    NEW i \in DOMAIN published', i > since[c], Concerns(c, i)'
             PROVE  c \in linked /\ i \in OnWay(c)'
  BY DEF Publish, Subscribed, TellInv
<1> DEFINE e == Len(published) + 1
<1>1. c \in linked
  BY DEF TellInv
<1>2. inbox'[c] = Append(inbox[c], e) /\ inbox[c] \in Seq(Int) /\ e \in Int
  BY <1>1, SeqOfMore DEF Publish, NotifyTypeOK
<1>3. Elements(inbox[c]) \cup {e} \subseteq Elements(inbox'[c])
  BY <1>2, ElementsAppend
<1>4. /\ Len(published) \in Nat /\ DOMAIN published = 1..Len(published)
      /\ published' = Append(published, d)
      /\ DOMAIN published' = 1..e
      /\ \A j \in DOMAIN published : published'[j] = published[j]
  BY AppendOf DEF NotifyTypeOK, Publish
<1> HIDE DEF e
<1>5. CASE i = e
  BY <1>1, <1>3, <1>5 DEF OnWay
<1>6. CASE i \in DOMAIN published
  <2>1. i \in OnWay(c)
    BY <1>4, <1>6 DEF TellInv, Concerns, Publish
  <2> QED BY <1>1, <1>3, <2>1 DEF OnWay, Publish
<1>7. i = e \/ i \in DOMAIN published
  BY <1>4 DEF e
<1> QED BY <1>5, <1>6, <1>7

LEMMA TellKept ==
    ASSUME NotifyTypeOK, TellInv, NotifyStep
    PROVE  TellInv'
<1>1. ASSUME NEW e \in Clients, Subscribe(e)
      PROVE  TellInv'
  <2>1. /\ since' = [since EXCEPT ![e] = Len(published)] /\ e \in linked'
        /\ since'[e] = Len(published)
    BY <1>1 DEF Subscribe, NotifyTypeOK
  <2>2. ~ \E i \in DOMAIN published : i > Len(published)
    BY DEF NotifyTypeOK
  <2>3. \A c \in Clients \ {e} : since'[c] = since[c] /\ session'[c] = session[c]
    BY <1>1 DEF Subscribe, NotifyTypeOK
  <2> QED BY <1>1, <2>1, <2>2, <2>3 DEF Subscribe, TellInv, Subscribed, Concerns, OnWay
<1>2. ASSUME NEW e \in Clients, Connect(e) \/ Leave(e)
      PROVE  TellInv'
  <2>1. \A c \in Clients : Subscribed(c)' => Subscribed(c)
    BY <1>2 DEF Connect, Leave, Subscribed, NotifyTypeOK
  <2> QED BY <1>2, <2>1 DEF Connect, Leave, flow, TellInv, Concerns, OnWay
<1>3. ASSUME NEW e \in Clients, Close(e)
      PROVE  TellInv'
  <2>1. ~Subscribed(e)'
    BY <1>3 DEF Close, Subscribed, NotifyTypeOK
  <2>2. \A c \in Clients \ {e} :
           session'[c] = session[c] /\ ch'[c] = ch[c] /\ inbox'[c] = inbox[c]
    BY <1>3 DEF Close, NotifyTypeOK
  <2> QED BY <1>3, <2>1, <2>2 DEF Close, TellInv, Subscribed, Concerns, OnWay
<1>4. ASSUME NEW e \in Clients, Drop(e) \/ Unlink(e)
      PROVE  TellInv'
  <2>1. e \in lossy' /\ lossy \subseteq lossy'
    BY <1>4 DEF Drop, Unlink
  <2>2. \A c \in Clients \ {e} : inbox'[c] = inbox[c] /\ (c \in linked' <=> c \in linked)
    BY <1>4 DEF Drop, Unlink, NotifyTypeOK
  <2> QED BY <1>4, <2>1, <2>2 DEF Drop, Unlink, TellInv, Subscribed, Concerns, OnWay
<1>5. ASSUME NEW e \in Clients, Relink(e)
      PROVE  TellInv'
  BY <1>5 DEF Relink, TellInv, Subscribed, Concerns, OnWay
<1>6. ASSUME NEW e \in Clients, Listen(e)
      PROVE  TellInv'
  <2>1. /\ inbox[e] # <<>> /\ inbox[e] \in Seq(Int) /\ ch[e] \in Seq(Int)
        /\ ch'[e] = Append(ch[e], Head(inbox[e])) /\ inbox'[e] = Tail(inbox[e])
    BY <1>6, SeqOfMore DEF Listen, NotifyTypeOK
  <2>2. Head(inbox[e]) \in Int
    BY <2>1, TailOf
  <2>3. Elements(inbox[e]) \subseteq Elements(inbox'[e]) \cup {Head(inbox[e])}
    BY <2>1, ElementsTail
  <2>4. Elements(ch[e]) \cup {Head(inbox[e])} \subseteq Elements(ch'[e])
    BY <2>1, <2>2, ElementsAppend
  <2>5. OnWay(e) \subseteq OnWay(e)'
    BY <1>6, <2>3, <2>4 DEF OnWay, Listen
  <2>6. \A c \in Clients \ {e} : ch'[c] = ch[c] /\ inbox'[c] = inbox[c]
    BY <1>6 DEF Listen, NotifyTypeOK
  <2>7. \A c \in Clients \ {e} : OnWay(c)' = OnWay(c)
    BY <1>6, <2>6 DEF OnWay, Listen
  <2> QED BY <1>6, <2>5, <2>7 DEF Listen, TellInv, Subscribed, Concerns
<1>7. ASSUME NEW e \in Clients, Serve(e)
      PROVE  TellInv'
  <2>1. /\ ch[e] # <<>> /\ ch[e] \in Seq(Int) /\ sent[e] \in Seq(Int)
        /\ ch'[e] = Tail(ch[e])
        /\ sent'[e] = IF Concerns(e, Head(ch[e])) THEN Append(sent[e], Head(ch[e])) ELSE sent[e]
    BY <1>7, SeqOfMore DEF Serve, NotifyTypeOK
  <2>2. Head(ch[e]) \in Int
    BY <2>1, TailOf
  <2>3. Elements(ch[e]) \subseteq Elements(ch'[e]) \cup {Head(ch[e])}
    BY <2>1, ElementsTail
  <2>4. /\ Elements(sent[e]) \subseteq Elements(sent'[e])
        /\ Concerns(e, Head(ch[e])) => Head(ch[e]) \in Elements(sent'[e])
    BY <2>1, <2>2, ElementsAppend
  <2>5. \A i \in OnWay(e) : Concerns(e, i) => i \in OnWay(e)'
    BY <1>7, <2>3, <2>4 DEF OnWay, Serve
  <2>6. \A c \in Clients \ {e} : ch'[c] = ch[c] /\ sent'[c] = sent[c]
    BY <1>7 DEF Serve, NotifyTypeOK
  <2>7. \A c \in Clients \ {e} : OnWay(c)' = OnWay(c)
    BY <1>7, <2>6 DEF OnWay, Serve
  <2> QED BY <1>7, <2>5, <2>7 DEF Serve, TellInv, Subscribed, Concerns
<1>8. CASE AllGone
  BY <1>8 DEF AllGone, TellInv, Subscribed
<1>9. CASE UNCHANGED notifyVars
  BY <1>9 DEF notifyVars, TellInv, Subscribed, Concerns, OnWay
<1> QED BY <1>1, <1>2, <1>3, <1>4, <1>5, <1>6, <1>7, <1>8, <1>9, TellAfterPublish DEF NotifyStep

-----------------------------------------------------------------------------
(* The process *)

Connections == {"database", "redis"}

(* What is open at each phase, and which calls can be. *)
ProcessInv ==
    /\ phase = "database" => opened = {}
    /\ phase = "redis" => opened = {"database"}
    /\ phase \in {"storage", "embedding"} => opened = Connections
    /\ phase = "listener" => opened \in {Connections, Connections \cup {"embedding"}}
    /\ phase \in {"up", "http", "grpc"} => Connections \subseteq opened
    /\ phase \in Opening => ~serves
    /\ Open(request) # {} => phase \in {"up", "http"}
    /\ Open(stream) # {} => serves /\ phase \in {"up", "http", "grpc"}
    /\ ending = "signal" => phase \in {"http", "grpc", "infrastructure", "exited"}
    /\ phase # "exited" \/ ending = "signal" =>
          \A call \in {stream, request} : \A x \in DOMAIN call : call[x] # "cut"

LEMMA ProcessInit == Init => TypeOK /\ ProcessInv
<1>1. ASSUME Init PROVE NotifyTypeOK
  BY <1>1, InitNotifyTyped
<1> QED BY <1>1 DEF Init, TypeOK, ProcessInv, Opening, NextStep, Calls, Open

LEMMA InvFinishes ==
    ASSUME TypeOK, ProcessInv
    PROVE  WorkIsFinished
  BY DEF ProcessInv, WorkIsFinished, Connections

ProcessTyped ==
    /\ phase \in Opening \cup {"up", "http", "grpc", "infrastructure", "exited"}
    /\ opened \subseteq Opening \ {"storage"}
    /\ phase \in Opening => opened \cap {phase, "listener"} = {}
    /\ serves \in BOOLEAN
    /\ ending \in {"none", "signal", "crash"}
    /\ stream \in [Streams -> Calls]
    /\ request \in [Requests -> Calls]

LEMMA OpeningIs == Opening = {"database", "redis", "storage", "embedding", "listener"}
  BY DEF Opening, NextStep

(* If nothing is cut off, the end of the process leaves the calls alone. *)
LEMMA ProcessGone ==
    ASSUME ProcessTyped, ProcessInv, Gone, ending' \in {"none", "signal", "crash"},
           ending' = "signal" => Open(request) = {} /\ Open(stream) = {} /\ ending = "signal"
    PROVE  ProcessTyped' /\ ProcessInv'
<1>1. /\ stream' \in [Streams -> Calls] /\ request' \in [Requests -> Calls]
      /\ \A x \in Streams : stream'[x] = IF stream[x] = "open" THEN "cut" ELSE stream[x]
      /\ \A x \in Requests : request'[x] = IF request[x] = "open" THEN "cut" ELSE request[x]
  BY DEF Gone, Cut, ProcessTyped, Calls
<1>2. Open(stream)' = {} /\ Open(request)' = {}
  BY <1>1 DEF Open
<1>3. ASSUME ending' = "signal"
      PROVE  (\A x \in Streams : stream'[x] # "cut") /\ \A x \in Requests : request'[x] # "cut"
  BY <1>1, <1>3 DEF Open, ProcessInv, ProcessTyped
<1>4. ProcessTyped'
  BY <1>1, OpeningIs DEF Gone, ProcessTyped
<1>5. phase' = "exited" /\ phase' \notin Opening
  BY OpeningIs DEF Gone
<1> QED BY <1>1, <1>2, <1>3, <1>4, <1>5 DEF ProcessInv

LEMMA ProcessKept ==
    ASSUME ProcessTyped, ProcessInv, [Next]_backendVars
    PROVE  ProcessTyped' /\ ProcessInv'
<1> USE OpeningIs
<1>1. CASE UNCHANGED backendVars
  <2>1. UNCHANGED <<phase, opened, serves, ending, stream, request>>
    BY <1>1 DEF backendVars, process
  <2> QED BY <2>1 DEF ProcessTyped, ProcessInv, Open
<1>2. CASE OpenNext
  <2>1. /\ phase' = NextStep[phase] /\ phase \in Opening /\ UNCHANGED <<serves, ending, stream, request>>
        /\ opened' = IF phase = "storage" THEN opened ELSE opened \cup {phase}
    BY <1>2 DEF OpenNext
  <2>2. /\ phase = "database" => phase' = "redis"
        /\ phase = "redis" => phase' = "storage"
        /\ phase = "storage" => phase' = "embedding"
        /\ phase = "embedding" => phase' = "listener"
        /\ phase = "listener" => phase' = "up"
    BY <2>1 DEF NextStep
  <2>3. Open(request)' = {} /\ Open(stream)' = {}
    BY <2>1 DEF Open, ProcessInv
  <2>4. ProcessTyped'
    BY <2>1, <2>2 DEF ProcessTyped, ProcessInv, Connections
  <2>5. ProcessInv'
    BY <2>1, <2>2, <2>3 DEF ProcessInv, Connections, ProcessTyped
  <2> QED BY <2>4, <2>5
<1>3. CASE SkipEmbedding
  BY <1>3 DEF SkipEmbedding, ProcessTyped, ProcessInv, Connections, Open
<1>4. CASE OpenFails
  BY <1>4, ProcessGone DEF OpenFails, ProcessTyped, ProcessInv
<1>5. CASE StartServing
  BY <1>5 DEF StartServing, ProcessTyped, ProcessInv, Open
<1>6. CASE Signal
  BY <1>6 DEF Signal, ProcessTyped, ProcessInv, Open
<1>7. CASE ShutdownHttp
  BY <1>7 DEF ShutdownHttp, ProcessTyped, ProcessInv, Open
<1>8. CASE StopGrpc
  BY <1>8, ProcessGone DEF StopGrpc, ProcessTyped, ProcessInv
<1>9. CASE StopUnservedGrpc
  BY <1>9 DEF StopUnservedGrpc, ProcessTyped, ProcessInv, Open
<1>10. CASE CloseInfrastructure
  <2>1. CASE Gone /\ UNCHANGED ending
    BY <1>10, <2>1, ProcessGone DEF CloseInfrastructure, ProcessTyped, ProcessInv
  <2>2. CASE UNCHANGED <<phase, serves, ending, stream, request>> /\ opened' \subseteq opened
    BY <1>10, <2>2 DEF CloseInfrastructure, ProcessTyped, ProcessInv, Open
  <2> QED BY <1>10, <2>1, <2>2 DEF CloseInfrastructure
<1>11. CASE Crash
  BY <1>11, ProcessGone DEF Crash, ProcessTyped
<1>12. ASSUME NEW r \in Requests, OpenRequest(r) \/ EndRequest(r)
       PROVE  ProcessTyped' /\ ProcessInv'
  <2>1. /\ UNCHANGED <<phase, opened, serves, ending, stream>>
        /\ request' \in [Requests -> Calls]
        /\ \A x \in Requests \ {r} : request'[x] = request[x]
        /\ request'[r] \in {"open", "ended"}
        /\ request'[r] = "open" => phase = "up"
    BY <1>12 DEF OpenRequest, EndRequest, process, ProcessTyped, Calls
  <2>2. Open(request)' # {} => phase \in {"up", "http"}
    BY <2>1 DEF Open, ProcessInv, ProcessTyped
  <2>3. (\A x \in Requests : request[x] # "cut") => \A x \in Requests : request'[x] # "cut"
    BY <2>1
  <2>4. ProcessTyped'
    BY <2>1 DEF ProcessTyped
  <2>5. ProcessInv'
    BY <2>1, <2>2, <2>3 DEF ProcessInv, ProcessTyped, Open
  <2> QED BY <2>4, <2>5
<1>13. ASSUME NEW s \in Streams, OpenStream(s) \/ StreamPublishes(s) \/ EndStream(s)
       PROVE  ProcessTyped' /\ ProcessInv'
  <2>1. /\ UNCHANGED <<phase, opened, serves, ending, request>>
        /\ stream' \in [Streams -> Calls]
        /\ \A x \in Streams \ {s} : stream'[x] = stream[x]
        /\ stream'[s] \in {"open", "ended"}
        /\ stream'[s] = "open" => (serves /\ phase \in {"up", "http"}) \/ stream[s] = "open"
    BY <1>13 DEF OpenStream, StreamPublishes, EndStream, process, ProcessTyped, Calls
  <2>2. Open(stream)' # {} => serves /\ phase \in {"up", "http", "grpc"}
    BY <2>1 DEF Open, ProcessInv, ProcessTyped
  <2>3. (\A x \in Streams : stream[x] # "cut") => \A x \in Streams : stream'[x] # "cut"
    BY <2>1
  <2>4. ProcessTyped'
    BY <2>1 DEF ProcessTyped
  <2>5. ProcessInv'
    BY <2>1, <2>2, <2>3 DEF ProcessInv, ProcessTyped, Open
  <2> QED BY <2>4, <2>5
<1>14. ASSUME NEW c \in Clients, HandleWebsocket(c) \/ WebsocketRuns(c) \/ WebsocketTrouble(c)
       PROVE  ProcessTyped' /\ ProcessInv'
  <2>1. UNCHANGED <<phase, opened, serves, ending, stream, request>>
    BY <1>14 DEF HandleWebsocket, WebsocketRuns, WebsocketTrouble, process
  <2> QED BY <2>1 DEF ProcessTyped, ProcessInv, Open
<1> QED
  BY <1>1, <1>2, <1>3, <1>4, <1>5, <1>6, <1>7, <1>8, <1>9, <1>10, <1>11, <1>12, <1>13, <1>14
  DEF Next, Main

-----------------------------------------------------------------------------
BackendInv == TypeOK /\ ProcessInv /\ OrderInv /\ TellInv

LEMMA BackendInvInit == Init => BackendInv
<1> SUFFICES ASSUME Init PROVE BackendInv
  OBVIOUS
<1>1. TypeOK /\ ProcessInv
  BY ProcessInit
<1>2. \A c \in Clients : sent[c] = <<>> /\ ch[c] = <<>> /\ inbox[c] = <<>> /\ session[c] = "off"
  BY DEF Init, NotifyInit
<1>3. OrderInv
  <2>1. \A i : i \notin DOMAIN <<>>
    OBVIOUS
  <2>2. \A c \in Clients :
           \A i : i \notin DOMAIN sent[c] /\ i \notin DOMAIN ch[c] /\ i \notin DOMAIN inbox[c]
    BY <1>2, <2>1
  <2> QED BY <2>2 DEF OrderInv, Sorted, Below
<1>4. TellInv
  BY <1>2 DEF TellInv, Subscribed
<1> QED BY <1>1, <1>3, <1>4 DEF BackendInv

LEMMA BackendInvKept ==
    ASSUME BackendInv, [Next]_backendVars
    PROVE  BackendInv'
<1>1. NotifyTypeOK /\ ProcessTyped
  BY DEF BackendInv, TypeOK, ProcessTyped
<1>2. ProcessTyped' /\ ProcessInv'
  BY <1>1, ProcessKept DEF BackendInv
<1>3. NotifyTypeOK' /\ OrderInv' /\ TellInv'
  BY <1>1, StepOfNotifications, NotifyTyped, OrderKept, TellKept DEF BackendInv
<1> QED BY <1>2, <1>3 DEF BackendInv, TypeOK, ProcessTyped

LEMMA BackendInvariant == Spec => []BackendInv
<1>1. BackendInv /\ UNCHANGED backendVars => BackendInv'
  BY BackendInvKept
<1> QED BY BackendInvInit, BackendInvKept, PTL DEF Spec

(* The process, its calls and its websockets keep their types: no channel   *)
(* holds more than it has room for (events/document_events.go:47).          *)
THEOREM TypeCorrect == Spec => []TypeOK
<1>1. BackendInv => TypeOK
  BY DEF BackendInv
<1> QED BY <1>1, BackendInvariant, PTL

(* Through main's shutdown (main.go:63) and any crash before it, work is    *)
(* finished while the connections are open.                                 *)
THEOREM WorkFinishes == Spec => []WorkIsFinished
<1>1. BackendInv => WorkIsFinished
  BY InvFinishes DEF BackendInv
<1> QED BY <1>1, BackendInvariant, PTL

(* Clients are told of their document's events in the order of their        *)
(* publication (websocket_handler.go:60).                                   *)
THEOREM TellsInOrder == Spec => []ToldInOrder
<1>1. BackendInv => ToldInOrder
  BY OrderOfWay DEF BackendInv, TypeOK
<1> QED BY <1>1, BackendInvariant, PTL

(* No event since the subscription is missing on the way to a client        *)
(* (document_events.go:70), but for a broken or overfull subscription.      *)
THEOREM MissesNothing == Spec => []NothingMissed
<1>1. BackendInv => NothingMissed
  BY AllOnWay DEF BackendInv, TypeOK
<1> QED BY <1>1, BackendInvariant, PTL
=============================================================================
