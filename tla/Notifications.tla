---------------------------- MODULE Notifications ----------------------------
(***************************************************************************)
(* From the Redis channel document:events to the websockets: each handler  *)
(* subscribes, a goroutine moves what the subscription receives into a     *)
(* buffered Go channel, and the handler filters it by document and user    *)
(* and writes it to its client.  Redis keeps nothing for those who are not *)
(* subscribed.                                                             *)
(***************************************************************************)
EXTENDS Integers, Sequences

CONSTANTS
    Clients,
    Docs,
    Topic,    \* the documents whose events pass each client's filter: one,
              \* or none if the client names a user who does not own it
    Buffer,   \* capacity of the Go channel, 100
    Held,     \* capacity of the client library's channel, 100
    MaxEvents \* bound on the events published

ASSUME NotificationsAssumption ==
    /\ Topic \in [Clients -> SUBSET Docs]
    /\ Buffer \in Nat \ {0}
    /\ Held \in Nat
    /\ MaxEvents \in Nat

VARIABLES
    published, \* the events of the channel, each by its document
    session,   \* the handler of each client
    since,     \* the number of events before its subscription
    linked,    \* the subscriptions whose connection to Redis is up
    inbox,     \* numbers of the events on the way from Redis to the goroutine
    ch,        \* numbers of the events in the Go channel
    sent,      \* numbers of the events written to the client
    lossy,     \* clients whose connection to Redis broke, or whose events
               \* were given up
    present    \* clients that are still there

notifyVars == <<published, session, since, linked, inbox, ch, sent, lossy, present>>
flow       == <<since, linked, inbox, ch, sent, lossy>>

Subscribed(c) == session[c] \in {"subscribed", "serving"}
Concerns(c, i) == published[i] \in Topic[c]
Elements(s) == {s[i] : i \in DOMAIN s}

NotifyTypeOK ==
    /\ published \in Seq(Docs)
    /\ session \in [Clients -> {"off", "subscribed", "serving", "closed"}]
    /\ since \in [Clients -> 0..Len(published)]
    /\ linked \subseteq Clients
    /\ \A c \in Clients :
          /\ inbox[c] \in Seq(1..Len(published))
          /\ ch[c] \in Seq(1..Len(published)) /\ Len(ch[c]) <= Buffer
          /\ sent[c] \in Seq(1..Len(published))
    /\ DOMAIN inbox = Clients /\ DOMAIN ch = Clients /\ DOMAIN sent = Clients
    /\ lossy \subseteq Clients
    /\ present \subseteq Clients

NotifyInit ==
    /\ published = <<>>
    /\ session = [c \in Clients |-> "off"]
    /\ since = [c \in Clients |-> 0]
    /\ linked = {}
    /\ inbox = [c \in Clients |-> <<>>]
    /\ ch = [c \in Clients |-> <<>>]
    /\ sent = [c \in Clients |-> <<>>]
    /\ lossy = {}
    /\ present = Clients

-----------------------------------------------------------------------------
(* PublishDocumentEvent: Redis hands the event to whoever is linked. *)
Publish(d) ==
    /\ Len(published) < MaxEvents
    /\ published' = Append(published, d)
    /\ inbox' = [c \in Clients |->
          IF c \in linked THEN Append(inbox[c], Len(published) + 1) ELSE inbox[c]]
    /\ UNCHANGED <<session, since, linked, ch, sent, lossy, present>>

\* Mutant: the answer of Redis is not waited for.
SubscribeEarly(c) ==
    /\ session[c] = "off"
    /\ session' = [session EXCEPT ![c] = "subscribed"]
    /\ since' = [since EXCEPT ![c] = Len(published)]
    /\ UNCHANGED <<published, linked, inbox, ch, sent, lossy, present>>

(* SubscribeDocumentEvents returns when Redis has confirmed. *)
Subscribe(c) ==
    /\ session[c] = "off"
    /\ session' = [session EXCEPT ![c] = "subscribed"]
    /\ since' = [since EXCEPT ![c] = Len(published)]
    /\ linked' = linked \cup {c}
    /\ UNCHANGED <<published, inbox, ch, sent, lossy, present>>

(* The handler returns: the goroutine and the subscription end with it. *)
Close(c) ==
    /\ session' = [session EXCEPT ![c] = "closed"]
    /\ linked' = linked \ {c}
    /\ inbox' = [inbox EXCEPT ![c] = <<>>]
    /\ ch' = [ch EXCEPT ![c] = <<>>]
    /\ UNCHANGED <<published, since, sent, lossy, present>>

SubscribeFails(c) ==
    /\ session[c] = "off"
    /\ Close(c)

(* The message "connected" is written. *)
Connect(c) ==
    /\ session[c] = "subscribed"
    /\ session' = [session EXCEPT ![c] = "serving"]
    /\ UNCHANGED <<published, flow, present>>

ConnectFails(c) ==
    /\ session[c] = "subscribed" /\ c \notin present
    /\ Close(c)

\* Mutant: each event is put into the channel by a goroutine of its own.
ListenAside(c) ==
    /\ Subscribed(c)
    /\ Len(ch[c]) < Buffer
    /\ \E i \in DOMAIN inbox[c] :
          /\ ch' = [ch EXCEPT ![c] = Append(@, inbox[c][i])]
          /\ inbox' = [inbox EXCEPT ![c] =
                SubSeq(@, 1, i - 1) \o SubSeq(@, i + 1, Len(@))]
    /\ UNCHANGED <<published, session, since, linked, sent, lossy, present>>

\* Mutant: the goroutine does not wait for room in the channel.
ListenOrDiscard(c) ==
    /\ Subscribed(c)
    /\ inbox[c] # <<>>
    /\ ch' = IF Len(ch[c]) < Buffer THEN [ch EXCEPT ![c] = Append(@, Head(inbox[c]))] ELSE ch
    /\ inbox' = [inbox EXCEPT ![c] = Tail(@)]
    /\ UNCHANGED <<published, session, since, linked, sent, lossy, present>>

\* Mutant: the channel takes one event more than it has room for.
ListenTooLate(c) ==
    /\ Subscribed(c)
    /\ inbox[c] # <<>>
    /\ Len(ch[c]) <= Buffer
    /\ ch' = [ch EXCEPT ![c] = Append(@, Head(inbox[c]))]
    /\ inbox' = [inbox EXCEPT ![c] = Tail(@)]
    /\ UNCHANGED <<published, session, since, linked, sent, lossy, present>>

(* The goroutine. *)
Listen(c) ==
    /\ Subscribed(c)
    /\ inbox[c] # <<>>
    /\ Len(ch[c]) < Buffer
    /\ ch' = [ch EXCEPT ![c] = Append(@, Head(inbox[c]))]
    /\ inbox' = [inbox EXCEPT ![c] = Tail(@)]
    /\ UNCHANGED <<published, session, since, linked, sent, lossy, present>>

(* The client library gives up an event that found its channel full for a   *)
(* minute.                                                                  *)
Drop(c) ==
    /\ Len(inbox[c]) > Held
    /\ inbox' = [inbox EXCEPT ![c] =
          SubSeq(@, 1, Held) \o SubSeq(@, Held + 2, Len(@))]
    /\ lossy' = lossy \cup {c}
    /\ UNCHANGED <<published, session, since, linked, ch, sent, present>>

(* The connection to Redis breaks, with some events on it, ... *)
Unlink(c) ==
    /\ c \in linked
    /\ linked' = linked \ {c}
    /\ \E n \in 0..Len(inbox[c]) : inbox' = [inbox EXCEPT ![c] = SubSeq(@, 1, n)]
    /\ lossy' = lossy \cup {c}
    /\ UNCHANGED <<published, session, since, ch, sent, present>>

(* ... and the client library subscribes again. *)
Relink(c) ==
    /\ Subscribed(c) /\ c \notin linked
    /\ linked' = linked \cup {c}
    /\ UNCHANGED <<published, session, since, inbox, ch, sent, lossy, present>>

\* Mutant: the handler does not look at the document.
ServeAll(c) ==
    /\ session[c] = "serving"
    /\ ch[c] # <<>>
    /\ sent' = [sent EXCEPT ![c] = Append(@, Head(ch[c]))]
    /\ ch' = [ch EXCEPT ![c] = Tail(@)]
    /\ UNCHANGED <<published, session, since, linked, inbox, lossy, present>>

(* The handler writes what concerns its client. *)
Serve(c) ==
    /\ session[c] = "serving"
    /\ ch[c] # <<>>
    /\ sent' = [sent EXCEPT ![c] =
          IF Concerns(c, Head(ch[c])) THEN Append(@, Head(ch[c])) ELSE @]
    /\ ch' = [ch EXCEPT ![c] = Tail(@)]
    /\ UNCHANGED <<published, session, since, linked, inbox, lossy, present>>

(* A client that has left is noticed at a write that fails, and not before: *)
(* nothing reads from the socket.                                           *)
ServeFails(c) ==
    /\ session[c] = "serving" /\ c \notin present
    /\ ch[c] # <<>> /\ Concerns(c, Head(ch[c]))
    /\ Close(c)

Leave(c) ==
    /\ c \in present
    /\ present' = present \ {c}
    /\ UNCHANGED <<published, session, flow>>

Handle(c) == Listen(c) \/ Connect(c) \/ Serve(c)

Trouble(c) ==
    \/ SubscribeFails(c) \/ ConnectFails(c) \/ Drop(c) \/ Unlink(c) \/ Relink(c)
    \/ ServeFails(c) \/ Leave(c)

NotifyNext ==
    \/ \E d \in Docs : Publish(d)
    \/ \E c \in Clients : Subscribe(c) \/ Handle(c) \/ Trouble(c) \/ Close(c)

NotifySpec == NotifyInit /\ [][NotifyNext]_notifyVars

-----------------------------------------------------------------------------
(* Properties *)

Way(c) == sent[c] \o ch[c] \o inbox[c]

(* A client is told of its document's events only, each once, in the order  *)
(* in which they were published, through a connection to Redis, two         *)
(* channels and two goroutines.                                             *)
ToldInOrder ==
    \A c \in Clients :
        /\ \A i, j \in DOMAIN Way(c) : i < j => Way(c)[i] < Way(c)[j]
        /\ \A i \in DOMAIN sent[c] : Concerns(c, sent[c][i])

(* After "connected" nothing is missed silently: every event of its document *)
(* published since is on its way to the client or was written, unless the    *)
(* connection to Redis broke or the client library gave an event up.         *)
NothingMissed ==
    \A c \in Clients : Subscribed(c) /\ c \notin lossy =>
        \A i \in DOMAIN published :
            i > since[c] /\ Concerns(c, i) => i \in Elements(Way(c))
=============================================================================
