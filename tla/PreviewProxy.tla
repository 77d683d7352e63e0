---------------------------- MODULE PreviewProxy ----------------------------
(***************************************************************************)
(* The preview proxy (runtime-playground/src/preview-server.ts) in front   *)
(* of a runtime's server: one listener on 127.0.0.1 and, where there is    *)
(* IPv6, one on ::1, each with a first-in first-out queue that lets one    *)
(* request at a time through to the server.  Clients may leave at any      *)
(* moment; disposing closes the listeners one after the other, each when   *)
(* its connections have ended, and then the server.                        *)
(***************************************************************************)
EXTENDS Naturals, Sequences

CONSTANTS Request

VARIABLES stage,     \* new, routing, queued, woken, active or over
          via,       \* the listener each request came to
          client,    \* here, gone or answered
          upstream,  \* the request to the server: none, sent, unsent or ended
          busy,      \* `active` of each queue
          pending,   \* the waiting requests of each queue
          arrived,   \* history: the order of arrival at each queue
          started,   \* history: the order of the requests let through
          listener,  \* absent, open, closing or closed
          server     \* the runtime's server: up or disposed

proxyVars == <<stage, via, client, upstream, busy, pending, arrived, started, listener, server>>

Listener == {"v4", "v6"}

ProxyInit == /\ stage = [r \in Request |-> "new"]
        /\ via \in [Request -> Listener]
        /\ client = [r \in Request |-> "here"]
        /\ upstream = [r \in Request |-> "none"]
        /\ busy = [l \in Listener |-> FALSE]
        /\ pending = [l \in Listener |-> <<>>]
        /\ arrived = [l \in Listener |-> <<>>]
        /\ started = [l \in Listener |-> <<>>]
        /\ listener \in {[l \in Listener |-> "open"],
                         [l \in Listener |-> IF l = "v4" THEN "open" ELSE "absent"]}
        /\ server = "up"

queues == <<busy, pending>>
order == <<arrived, started>>
servers == <<listener, server>>

-----------------------------------------------------------------------------
(* A listener that is not closing accepts; the routes are asked first.     *)
Arrive(r) ==
  /\ stage[r] = "new" /\ listener[via[r]] = "open"
  /\ stage' = [stage EXCEPT ![r] = "routing"]
  /\ UNCHANGED <<via, client, upstream, queues, order, servers>>

(* A route handles the request, or throws. *)
Handle(r) ==
  /\ stage[r] = "routing"
  /\ stage' = [stage EXCEPT ![r] = "over"]
  /\ client' = [client EXCEPT ![r] = IF @ = "here" THEN "answered" ELSE @]
  /\ UNCHANGED <<via, upstream, queues, order, servers>>

(* acquire(): through at once, or to the end of the queue. *)
Enqueue(r) ==
  /\ stage[r] = "routing"
  /\ arrived' = [arrived EXCEPT ![via[r]] = Append(@, r)]
  /\ IF busy[via[r]]
     THEN /\ stage' = [stage EXCEPT ![r] = "queued"]
          /\ pending' = [pending EXCEPT ![via[r]] = Append(@, r)]
          /\ UNCHANGED busy
     ELSE /\ stage' = [stage EXCEPT ![r] = "woken"]
          /\ busy' = [busy EXCEPT ![via[r]] = TRUE]
          /\ UNCHANGED pending
  /\ UNCHANGED <<via, client, upstream, started, servers>>

(* A mistake: whoever is woken takes the queue when it gets to run. *)
PassOnWithoutHandover(r) ==
  LET l == via[r]
  IN  /\ busy' = [busy EXCEPT ![l] = FALSE]
      /\ pending' = [pending EXCEPT ![l] = IF @ = <<>> THEN @ ELSE Tail(@)]
      /\ stage' = [q \in Request |-> IF q = r THEN "over"
                                     ELSE IF pending[l] # <<>> /\ q = Head(pending[l]) THEN "woken"
                                     ELSE stage[q]]

(* A mistake: the one that waits longest is not called. *)
PassOnCallsNobody(r) ==
  /\ busy' = [busy EXCEPT ![via[r]] = pending[via[r]] # <<>>]
  /\ stage' = [stage EXCEPT ![r] = "over"]
  /\ UNCHANGED pending

(* release(), in the finally block of the task: `active` stays true when   *)
(* it is handed to the next one.                                           *)
PassOn(r) ==
  LET l == via[r]
      waits == pending[l] # <<>>
  IN  /\ busy' = [busy EXCEPT ![l] = waits]
      /\ pending' = [pending EXCEPT ![l] = IF waits THEN Tail(@) ELSE @]
      /\ stage' = [q \in Request |-> IF q = r THEN "over"
                                     ELSE IF waits /\ q = Head(pending[l]) THEN "woken"
                                     ELSE stage[q]]

(* proxyPreviewRequest: the listeners that notice a client leaving are set *)
(* here.  For a client that left before, the request's stream is already   *)
(* destroyed, so nothing is ever sent and nothing ends it from this side.  *)
Start(r) ==
  /\ stage[r] = "woken"
  /\ stage' = [stage EXCEPT ![r] = "active"]
  /\ started' = [started EXCEPT ![via[r]] = Append(@, r)]
  /\ upstream' = [upstream EXCEPT ![r] = IF client[r] = "here" THEN "sent" ELSE "unsent"]
  /\ UNCHANGED <<via, client, queues, arrived, servers>>

(* The response has been piped to its end, or the server's error told.     *)
Answer(r) ==
  /\ stage[r] = "active" /\ upstream[r] = "sent"
  /\ upstream' = [upstream EXCEPT ![r] = "ended"]
  /\ client' = [client EXCEPT ![r] = "answered"]
  /\ PassOn(r)
  /\ UNCHANGED <<via, order, servers>>

(* The server closes a connection on which nothing was sent. *)
CloseUnsent(r) ==
  /\ stage[r] = "active" /\ upstream[r] = "unsent"
  /\ upstream' = [upstream EXCEPT ![r] = "ended"]
  /\ PassOn(r)
  /\ UNCHANGED <<via, client, order, servers>>

(* The client leaves: abortUpstream if its request is under way. *)
Leave(r) ==
  /\ client[r] = "here" /\ stage[r] \notin {"new", "over"}
  /\ client' = [client EXCEPT ![r] = "gone"]
  /\ IF stage[r] = "active"
     THEN upstream' = [upstream EXCEPT ![r] = "ended"] /\ PassOn(r)
     ELSE UNCHANGED <<stage, upstream, queues>>
  /\ UNCHANGED <<via, order, servers>>

-----------------------------------------------------------------------------
(* dispose(): closePreviewProxyServers, then the server. *)
DisposeProxy ==
  /\ server = "up" /\ listener["v4"] = "open"
  /\ listener' = [listener EXCEPT !["v4"] = "closing"]
  /\ UNCHANGED <<stage, via, client, upstream, queues, order, server>>

(* A listener that is closing has closed when its connections have ended.  *)
Connected(l) == {r \in Request : via[r] = l /\ client[r] = "here" /\ stage[r] # "new"}

ListenerClosed ==
  /\ \/ /\ listener["v4"] = "closing" /\ Connected("v4") = {}
        /\ listener' = [l \in Listener |->
                          IF l = "v4" THEN "closed"
                          ELSE IF listener[l] = "open" THEN "closing" ELSE listener[l]]
     \/ /\ listener["v6"] = "closing" /\ Connected("v6") = {}
        /\ listener' = [listener EXCEPT !["v6"] = "closed"]
  /\ UNCHANGED <<stage, via, client, upstream, queues, order, server>>

(* A mistake: only the first listener is waited for. *)
DisposeServerEarly ==
  /\ server = "up" /\ listener["v4"] = "closed"
  /\ server' = "disposed"
  /\ UNCHANGED <<stage, via, client, upstream, queues, order, listener>>

DisposeServer ==
  /\ server = "up"
  /\ listener["v4"] = "closed" /\ listener["v6"] \in {"closed", "absent"}
  /\ server' = "disposed"
  /\ UNCHANGED <<stage, via, client, upstream, queues, order, listener>>

Disposing == ListenerClosed \/ DisposeServer

ProxyNext == \/ \E r \in Request : \/ Arrive(r) \/ Handle(r) \/ Enqueue(r) \/ Start(r)
                                   \/ Answer(r) \/ CloseUnsent(r) \/ Leave(r)
             \/ DisposeProxy \/ Disposing

ProxySpec == ProxyInit /\ [][ProxyNext]_proxyVars

(* Routes answer, microtasks run, and the server ends what it was sent;    *)
(* nothing is assumed of connections on which nothing was sent.            *)
FairToRequest(r) == /\ WF_proxyVars(Handle(r) \/ Enqueue(r))
                    /\ WF_proxyVars(Start(r))
                    /\ WF_proxyVars(Answer(r))
FairDisposal == WF_proxyVars(Disposing)

-----------------------------------------------------------------------------
(* Each listener lets one request through at a time, a queue whose turn    *)
(* was given up has nobody waiting, because no wake-up is lost, and the    *)
(* requests reach the server in the order in which they came.              *)
Through(l) == {r \in Request : via[r] = l /\ stage[r] \in {"woken", "active"}}

OneAtATimeInOrder ==
  \A l \in Listener :
    /\ \A q, r \in Through(l) : q = r
    /\ pending[l] # <<>> => Through(l) # {}
    /\ Len(started[l]) =< Len(arrived[l])
    /\ started[l] = SubSeq(arrived[l], 1, Len(started[l]))

(* The server is disposed only when every client that had come is answered *)
(* or has left, on both listeners.                                         *)
ServerOutlivesClients ==
  server = "disposed" => \A l \in Listener : Connected(l) = {}

(* As long as no request whose client has left holds up its queue for      *)
(* ever, every request ends and disposing does, too.                       *)
QueuesDrain ==
  []<>(\A r \in Request : stage[r] = "active" => upstream[r] = "sent") =>
    /\ \A r \in Request : stage[r] = "routing" ~> stage[r] = "over"
    /\ listener["v4"] = "closing" ~> server = "disposed"
=============================================================================
