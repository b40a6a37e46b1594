------------------------------- MODULE Backend -------------------------------
(***************************************************************************)
(* The Go process: what main opens one after the other, the HTTP and the   *)
(* gRPC server, and the shutdown, with the streams, requests and           *)
(* websockets that are in the process.  What a stream does is module       *)
(* Ingest; here it publishes events of its document and ends.              *)
(***************************************************************************)
EXTENDS Notifications, FiniteSets

CONSTANTS
    Streams,   \* calls of IngestDocument
    StreamDoc, \* the document of each
    Requests   \* HTTP requests

ASSUME BackendAssumption == StreamDoc \in [Streams -> Docs]

VARIABLES
    phase,   \* where main is
    opened,  \* the connections and the gRPC listener that are open
    serves,  \* does the gRPC server run on its listener
    ending,  \* why the process ends
    stream, request

process     == <<phase, opened, serves, ending>>
backendVars == <<process, stream, request, notifyVars>>

(* NewInfrastructure and NewGrpcServices, in their order. *)
NextStep == [database |-> "redis", redis |-> "storage", storage |-> "embedding",
             embedding |-> "listener", listener |-> "up"]
Opening == DOMAIN NextStep
Calls   == {"none", "open", "ended", "cut"}

TypeOK ==
    /\ NotifyTypeOK
    /\ phase \in Opening \cup {"up", "http", "grpc", "infrastructure", "exited"}
    /\ opened \subseteq Opening \ {"storage"}
    /\ phase \in Opening => opened \cap {phase, "listener"} = {}
    /\ serves \in BOOLEAN
    /\ ending \in {"none", "signal", "crash"}
    /\ stream \in [Streams -> Calls]
    /\ request \in [Requests -> Calls]

Init ==
    /\ NotifyInit
    /\ phase = "database"
    /\ opened = {}
    /\ serves = FALSE
    /\ ending = "none"
    /\ stream = [s \in Streams |-> "none"]
    /\ request = [r \in Requests |-> "none"]

Open(call) == {x \in DOMAIN call : call[x] = "open"}

-----------------------------------------------------------------------------
(* Start *)

(* The storage client keeps nothing open; without a valid address there is  *)
(* no connection to the embedding service, and the process starts all the   *)
(* same.                                                                    *)
OpenNext ==
    /\ phase \in Opening
    /\ phase' = NextStep[phase]
    /\ opened' = IF phase = "storage" THEN opened ELSE opened \cup {phase}
    /\ UNCHANGED <<serves, ending, stream, request, notifyVars>>

SkipEmbedding ==
    /\ phase = "embedding"
    /\ phase' = "listener"
    /\ UNCHANGED <<opened, serves, ending, stream, request, notifyVars>>

Cut(call) == [x \in DOMAIN call |-> IF call[x] = "open" THEN "cut" ELSE call[x]]

(* The process is gone, and the operating system closes what is open. *)
Gone ==
    /\ phase' = "exited"
    /\ opened' = {}
    /\ serves' = FALSE
    /\ stream' = Cut(stream)
    /\ request' = Cut(request)
    /\ session' = [c \in Clients |-> IF session[c] = "off" THEN "off" ELSE "closed"]
    /\ linked' = {}
    /\ inbox' = [c \in Clients |-> <<>>]
    /\ ch' = [c \in Clients |-> <<>>]
    /\ UNCHANGED <<published, since, sent, lossy, present>>

(* The first error ends main. *)
OpenFails ==
    /\ phase \in Opening \ {"embedding"}
    /\ Gone
    /\ UNCHANGED ending

(* The goroutine of IngestService.Start comes to Serve; after GracefulStop  *)
(* it would return at once.                                                 *)
StartServing ==
    /\ phase \in {"up", "http"} /\ ~serves
    /\ serves' = TRUE
    /\ UNCHANGED <<phase, opened, ending, stream, request, notifyVars>>

-----------------------------------------------------------------------------
(* Shutdown *)

(* A signal that comes before main asks for it kills the process. *)
Signal ==
    /\ phase = "up"
    /\ phase' = "http"
    /\ ending' = "signal"
    /\ UNCHANGED <<opened, serves, stream, request, notifyVars>>

\* Mutant: open websockets are waited for, too.
ShutdownHttpAndSockets ==
    /\ phase = "http"
    /\ Open(request) = {} /\ \A c \in Clients : ~Subscribed(c)
    /\ phase' = "grpc"
    /\ UNCHANGED <<opened, serves, ending, stream, request, notifyVars>>

(* httpServer.Shutdown waits for the requests; websockets were taken from   *)
(* the server's hands and are not waited for.                               *)
ShutdownHttp ==
    /\ phase = "http"
    /\ Open(request) = {}
    /\ phase' = "grpc"
    /\ UNCHANGED <<opened, serves, ending, stream, request, notifyVars>>

\* Mutant: Stop instead of GracefulStop.
StopGrpcNow ==
    /\ phase = "grpc" /\ serves
    /\ Gone
    /\ UNCHANGED ending

(* GracefulStop waits for the streams and closes the listener.  To close it *)
(* again is an error, App.Shutdown returns it, main returns, and the second *)
(* App.Shutdown, deferred, ends the same way: the connections are left to   *)
(* the end of the process.                                                  *)
StopGrpc ==
    /\ phase = "grpc" /\ serves
    /\ Open(stream) = {}
    /\ Gone
    /\ UNCHANGED ending

(* A server that never came to Serve does not know the listener. *)
StopUnservedGrpc ==
    /\ phase = "grpc" /\ ~serves
    /\ opened' = opened \ {"listener"}
    /\ phase' = "infrastructure"
    /\ UNCHANGED <<serves, ending, stream, request, notifyVars>>

(* The database, Redis, the embedding connection; the first error, or a     *)
(* missing embedding connection, ends main with the rest open.              *)
CloseInfrastructure ==
    /\ phase = "infrastructure"
    /\ \/ \E r \in opened : opened' = opened \ {r} /\ UNCHANGED phase
          /\ UNCHANGED <<serves, ending, stream, request, notifyVars>>
       \/ Gone /\ UNCHANGED ending

(* A panic in a handler, or SIGKILL. *)
Crash ==
    /\ phase # "exited"
    /\ Gone
    /\ ending' = "crash"

-----------------------------------------------------------------------------
(* The calls in the process *)

OpenRequest(r) ==
    /\ phase = "up" /\ request[r] = "none"
    /\ request' = [request EXCEPT ![r] = "open"]
    /\ UNCHANGED <<process, stream, notifyVars>>

EndRequest(r) ==
    /\ request[r] = "open"
    /\ request' = [request EXCEPT ![r] = "ended"]
    /\ UNCHANGED <<process, stream, notifyVars>>

OpenStream(s) ==
    /\ serves /\ phase \in {"up", "http"} /\ stream[s] = "none"
    /\ stream' = [stream EXCEPT ![s] = "open"]
    /\ UNCHANGED <<process, request, notifyVars>>

StreamPublishes(s) ==
    /\ stream[s] = "open"
    /\ Publish(StreamDoc[s])
    /\ UNCHANGED <<process, stream, request>>

EndStream(s) ==
    /\ stream[s] = "open"
    /\ stream' = [stream EXCEPT ![s] = "ended"]
    /\ UNCHANGED <<process, request, notifyVars>>

HandleWebsocket(c) ==
    /\ phase = "up" /\ c \in present
    /\ Subscribe(c) \/ SubscribeFails(c)
    /\ UNCHANGED <<process, stream, request>>

WebsocketRuns(c) ==
    /\ phase # "exited"
    /\ Handle(c)
    /\ UNCHANGED <<process, stream, request>>

WebsocketTrouble(c) ==
    /\ ConnectFails(c) \/ Drop(c) \/ Unlink(c) \/ Relink(c) \/ ServeFails(c) \/ Leave(c)
    /\ UNCHANGED <<process, stream, request>>

-----------------------------------------------------------------------------
Main == OpenNext \/ ShutdownHttp \/ StopGrpc \/ StopUnservedGrpc \/ CloseInfrastructure

Next ==
    \/ Main \/ SkipEmbedding \/ OpenFails \/ StartServing \/ Signal \/ Crash
    \/ \E r \in Requests : OpenRequest(r) \/ EndRequest(r)
    \/ \E s \in Streams : OpenStream(s) \/ StreamPublishes(s) \/ EndStream(s)
    \/ \E c \in Clients : HandleWebsocket(c) \/ WebsocketRuns(c) \/ WebsocketTrouble(c)

Spec == Init /\ [][Next]_backendVars

(* main goes on, requests and streams end, and the goroutines of a          *)
(* websocket are scheduled.                                                 *)
FairSpec ==
    /\ Spec
    /\ WF_backendVars(Main)
    /\ \A r \in Requests : WF_backendVars(EndRequest(r))
    /\ \A s \in Streams : WF_backendVars(EndStream(s))
    /\ \A c \in Clients :
          /\ WF_backendVars(Listen(c) /\ UNCHANGED <<process, stream, request>>)
          /\ WF_backendVars((Connect(c) \/ Serve(c)) /\ UNCHANGED <<process, stream, request>>)

-----------------------------------------------------------------------------
(* Properties *)

(* What the process has taken it finishes: the database and Redis are open  *)
(* as long as a request or a stream is, and none is cut off by a process    *)
(* that ends on a signal.                                                   *)
WorkIsFinished ==
    /\ Open(stream) \cup Open(request) # {} => {"database", "redis"} \subseteq opened
    /\ phase = "exited" /\ ending = "signal" =>
          \A call \in {stream, request} : \A x \in DOMAIN call : call[x] # "cut"

(* An event of a client's document published after "connected" is written   *)
(* to the client, unless it leaves, the way from Redis loses events, or the *)
(* process ends first: nothing waits for the websockets.                    *)
ClientIsTold ==
    \A c \in Clients, i \in 1..MaxEvents :
        (i \in DOMAIN published /\ session[c] = "serving" /\ i > since[c] /\ Concerns(c, i))
        ~> (i \in Elements(sent[c]) \/ c \notin present \/ c \in lossy \/ phase = "exited")

(* The process ends after a signal. *)
EndsOnSignal == ending = "signal" ~> phase = "exited"
=============================================================================
