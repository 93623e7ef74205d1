----------------------------- MODULE PageEvents -----------------------------
(* The event subscriptions of a page across lost WebSocket connections.        *)
(*                                                                             *)
(* The page keeps its subscribers (wps.ts), sends the whole subscription of an *)
(* event type each time one comes or goes, queues what it cannot send while    *)
(* the socket is closed, and on every new connection announces its route,      *)
(* subscribes again and drains the queue (ws.ts). The server keeps one link    *)
(* per page (ws.go), reads a link's messages in order and handles each in a    *)
(* goroutine of its own (wshrpc.go), so they take effect in any order; losing  *)
(* the link drops the route and the subscriptions (wshrouter.go, wps.go).      *)
(*                                                                             *)
(* One page, one route, one event type. Connections and subscription requests  *)
(* are numbered in the order in which the page makes them.                     *)
EXTENDS Naturals, Sequences

CONSTANTS
    Scopes,         \* scopes an event of the type may carry
    AllScopes,      \* the blank scope: a subscriber to every event of the type
    MaxConns,       \* bound: connections made
    MaxChanges,     \* bound: subscribers that come or go
    MaxTries        \* reconnections in a row before the page gives up (20 in the code)

ASSUME BoundsAreNaturals ==
    MaxConns \in Nat \ {0} /\ MaxChanges \in Nat /\ MaxTries \in Nat

ASSUME BlankIsNoScope == AllScopes \notin Scopes

VARIABLES
    subjects,       \* the page's subscribers to the event type, by scope (waveEventSubjects)
    changes,        \* subscribers that have come or gone
    requests,       \* subscription requests the page has made
    socket,         \* "opening", "open" or "closed" (open, opening)
    conn,           \* the connection wsConn is
    retrying,       \* the timer of reconnect() is running
    reconnectTimes, \* attempts since the last stable connection
    msgQueue,       \* messages pushed while the socket was closed
    pumps,          \* timers of runMsgQueue that are running
    up,             \* connections that carry data
    served,         \* what the server has made of each connection
    wire,           \* the page's messages under way on each connection
    current,        \* the connection registered for the page (RouteToConnMap), 0 for none
    route,          \* the connection the page's route is bound to (routeMap), 0 for none
    subs,           \* the scopes the page's route is subscribed to (SubMap)
    handlers,       \* requests being handled, each with the link it came by
    applied         \* the subscription request handled last

pageVars == <<subjects, changes, requests>>
socketVars == <<socket, conn, retrying, reconnectTimes, msgQueue, pumps>>
netVars == <<up, wire>>
serverVars == <<served, current, route, subs, handlers, applied>>
vars == <<pageVars, socketVars, netVars, serverVars>>

Conns == 1 .. MaxConns
Keys == Scopes \union {AllScopes}
MaxRequests == MaxChanges + MaxConns
Messages == [kind : {"announce", "sub", "unsub"}, scopes : SUBSET Keys, n : 0 .. MaxRequests]
Queueable == {m \in Messages : m.kind # "announce"}

TypeOK ==
    /\ subjects \subseteq Keys
    /\ changes \in 0 .. MaxChanges
    /\ requests \in 0 .. MaxRequests
    /\ socket \in {"opening", "open", "closed"}
    /\ conn \in Conns
    /\ retrying \in BOOLEAN
    /\ reconnectTimes \in 0 .. MaxTries + 1
    /\ msgQueue \in Seq(Queueable)
    /\ pumps \in 0 .. MaxConns
    /\ up \subseteq Conns
    /\ served \in [Conns -> {"none", "accepted", "serving", "closed"}]
    /\ wire \in [Conns -> Seq(Messages)]
    /\ {current, route} \subseteq Conns \union {0}
    /\ subs \subseteq Keys
    /\ handlers \subseteq [link : Conns, msg : Messages]
    /\ applied \in 0 .. MaxRequests

-----------------------------------------------------------------------------
(* Messages *)

Announce == [kind |-> "announce", scopes |-> {}, n |-> 0]

\* Mutation: a blank scope is sent like any other and matches nothing.
Request_BlankIsAScope(subscribers, n) ==
    IF subscribers = {}
    THEN [kind |-> "unsub", scopes |-> {}, n |-> n]
    ELSE [kind |-> "sub", scopes |-> subscribers \ {AllScopes}, n |-> n]

\* updateWaveEventSub: the subscription to the event type as it stands; a
\* subscriber to everything makes the other scopes superfluous.
Request(subscribers, n) ==
    CASE subscribers = {}            -> [kind |-> "unsub", scopes |-> {}, n |-> n]
      [] AllScopes \in subscribers   -> [kind |-> "sub", scopes |-> {AllScopes}, n |-> n]
      [] OTHER                       -> [kind |-> "sub", scopes |-> subscribers, n |-> n]

\* A message given to a socket that is no longer carried is lost.
Carry(messages) ==
    wire' = IF conn \in up THEN [wire EXCEPT ![conn] = @ \o messages] ELSE wire

\* pushMessage
PushMessage(m) ==
    IF socket = "open"
    THEN Carry(<<m>>) /\ UNCHANGED msgQueue
    ELSE msgQueue' = Append(msgQueue, m) /\ UNCHANGED wire

-----------------------------------------------------------------------------
(* The page's subscribers *)

Change(subscribers) ==
    /\ changes < MaxChanges
    /\ changes' = changes + 1
    /\ subjects' = subscribers
    /\ requests' = requests + 1
    /\ PushMessage(Request(subscribers, requests + 1))
    /\ UNCHANGED <<socket, conn, retrying, reconnectTimes, pumps, up, serverVars>>

\* Subscribers of one scope are not told apart: a second one repeats the request.
WaveEventSubscribe(scope) == Change(subjects \union {scope})

WaveEventUnsubscribe(scope) == scope \in subjects /\ Change(subjects \ {scope})

-----------------------------------------------------------------------------
(* The page's socket *)

\* Mutation: the page never gives up.
Reconnect_Forever ==
    /\ reconnectTimes' = reconnectTimes + 1
    /\ retrying' = TRUE

\* reconnect(), from onclose: one more attempt, or none after too many.
Reconnect ==
    /\ reconnectTimes' = reconnectTimes + 1
    /\ retrying' = (reconnectTimes' <= MaxTries)

\* connectNow, from the timer of reconnect(). An attempt the server never saw
\* does not count among the connections.
ConnectNow ==
    /\ retrying
    /\ retrying' = FALSE
    /\ socket' = "opening"
    /\ conn' = IF served[conn] = "none" THEN conn ELSE conn + 1
    /\ conn' \in Conns
    /\ UNCHANGED <<pageVars, reconnectTimes, msgQueue, pumps, netVars, serverVars>>

\* The reconnect handlers in the order in which initWshrpc adds them: the route
\* is announced, then every event type that has subscribers is subscribed to.
Reintroduction(n) ==
    <<Announce>> \o (IF subjects = {} THEN <<>> ELSE <<Request(subjects, n)>>)

\* Mutation: opening the socket does not start the queue.
OnOpen_QueueWaits ==
    /\ socket = "opening"
    /\ conn \in up
    /\ socket' = "open"
    /\ requests' = IF subjects = {} THEN requests ELSE requests + 1
    /\ Carry(Reintroduction(requests'))
    /\ UNCHANGED <<subjects, changes, conn, retrying, reconnectTimes, msgQueue, pumps, up, serverVars>>

\* onopen: the handlers, then the first message of the queue; the rest follows
\* one by one from a timer.
OnOpen ==
    /\ socket = "opening"
    /\ conn \in up
    /\ socket' = "open"
    /\ requests' = IF subjects = {} THEN requests ELSE requests + 1
    /\ IF msgQueue = <<>>
       THEN Carry(Reintroduction(requests')) /\ UNCHANGED <<msgQueue, pumps>>
       ELSE /\ Carry(Append(Reintroduction(requests'), Head(msgQueue)))
            /\ msgQueue' = Tail(msgQueue)
            /\ pumps' = pumps + 1
    /\ UNCHANGED <<subjects, changes, conn, retrying, reconnectTimes, up, serverVars>>

\* runMsgQueue, from its timer: it sends one message and sets the timer again,
\* or stops when the socket is closed or the queue is empty.
RunMsgQueue ==
    /\ pumps > 0
    /\ IF socket = "open" /\ msgQueue # <<>>
       THEN Carry(<<Head(msgQueue)>>) /\ msgQueue' = Tail(msgQueue) /\ UNCHANGED pumps
       ELSE pumps' = pumps - 1 /\ UNCHANGED <<msgQueue, wire>>
    /\ UNCHANGED <<pageVars, socket, conn, retrying, reconnectTimes, up, serverVars>>

\* onclose
Closes ==
    /\ socket' = "closed"
    /\ Reconnect
    /\ UNCHANGED <<pageVars, conn, msgQueue, pumps, netVars, serverVars>>

\* The connection was lost, before or after it was opened.
OnClose == socket # "closed" /\ conn \notin up /\ served[conn] # "none" /\ Closes

\* The connection could not be made.
OnRefused == socket = "opening" /\ served[conn] = "none" /\ Closes

\* The timer onopen sets: a connection that lasts clears the count of attempts.
ConnectionIsStable ==
    /\ socket = "open"
    /\ reconnectTimes # 0
    /\ reconnectTimes' = 0
    /\ UNCHANGED <<pageVars, socket, conn, retrying, msgQueue, pumps, netVars, serverVars>>

-----------------------------------------------------------------------------
(* The connection *)

\* A connection is lost, with any of what was last under way. The last of the
\* numbered connections stays up (bound).
SocketDies(c) ==
    /\ c \in up
    /\ c < MaxConns
    /\ up' = up \ {c}
    /\ \E kept \in 0 .. Len(wire[c]) : wire' = [wire EXCEPT ![c] = SubSeq(@, 1, kept)]
    /\ UNCHANGED <<pageVars, socketVars, serverVars>>

\* Upgrade in HandleWsInternal: the handshake is answered, which the page may
\* notice before the server goes on to register the connection. A page tries
\* again half a second later at the earliest, so that the connection before has
\* been registered by then.
Accept ==
    /\ socket = "opening"
    /\ served[conn] = "none"
    /\ \A c \in Conns : served[c] # "accepted"
    /\ served' = [served EXCEPT ![conn] = "accepted"]
    /\ up' = up \union {conn}
    /\ UNCHANGED <<pageVars, socketVars, wire, current, route, subs, handlers, applied>>

-----------------------------------------------------------------------------
(* The server *)

\* UnregisterLink: the routes bound to the link are unbound and lose their
\* subscriptions.
UnregisterLink(link) ==
    IF link # 0 /\ route = link
    THEN route' = 0 /\ subs' = {}
    ELSE UNCHANGED <<route, subs>>

\* registerConn: the newest connection replaces the one before.
RegisterConn(c) ==
    /\ served[c] = "accepted"
    /\ served' = [served EXCEPT ![c] = "serving"]
    /\ UnregisterLink(current)
    /\ current' = c
    /\ UNCHANGED <<pageVars, socketVars, netVars, handlers, applied>>

\* Mutation: connections are not compared; whichever ends, the current one goes.
IsCurrent_Always(c) == TRUE

\* Whether the connection that ends is the one to unregister.
IsCurrent(c) == current = c

\* unregisterConn, when the read loop of a lost connection ends, at any time
\* after its last message.
UnregisterConn(c) ==
    /\ served[c] = "serving"
    /\ c \notin up
    /\ wire[c] = <<>>
    /\ served' = [served EXCEPT ![c] = "closed"]
    /\ IF IsCurrent(c)
       THEN UnregisterLink(current) /\ current' = 0
       ELSE UNCHANGED <<route, subs, current>>
    /\ UNCHANGED <<pageVars, socketVars, netVars, handlers, applied>>

\* ReadLoop, the link's receive loop and the router pass a message on, unless
\* the link is gone; the server's RPC starts a goroutine for it.
ServerReads(c) ==
    /\ served[c] = "serving"
    /\ wire[c] # <<>>
    /\ wire' = [wire EXCEPT ![c] = Tail(@)]
    /\ handlers' = IF current = c THEN handlers \union {[link |-> c, msg |-> Head(wire[c])]} ELSE handlers
    /\ UNCHANGED <<pageVars, socketVars, up, served, current, route, subs, applied>>

\* RouteAnnounceCommand binds the route to the link, if that still exists.
HandleAnnounce(h) ==
    /\ h.msg.kind = "announce"
    /\ route' = IF current = h.link THEN h.link ELSE route
    /\ UNCHANGED <<subs, applied>>

\* Subscribe replaces what the route was subscribed to before.
HandleSub(h) ==
    /\ h.msg.kind = "sub"
    /\ subs' = h.msg.scopes
    /\ applied' = h.msg.n
    /\ UNCHANGED route

HandleUnsub(h) ==
    /\ h.msg.kind = "unsub"
    /\ subs' = {}
    /\ applied' = h.msg.n
    /\ UNCHANGED route

\* A goroutine handles its request, before or after those that came earlier.
Handle(h) ==
    /\ HandleAnnounce(h) \/ HandleSub(h) \/ HandleUnsub(h)
    /\ handlers' = handlers \ {h}
    /\ UNCHANGED <<pageVars, socketVars, netVars, served, current>>

-----------------------------------------------------------------------------
\* initWshrpc: the first connection is being made; the announcement of the route
\* was dropped because the socket is not open yet.
Init ==
    /\ subjects = {} /\ changes = 0 /\ requests = 0
    /\ socket = "opening" /\ conn = 1 /\ retrying = FALSE
    /\ reconnectTimes = 0 /\ msgQueue = <<>> /\ pumps = 0
    /\ up = {} /\ wire = [c \in Conns |-> <<>>]
    /\ served = [c \in Conns |-> "none"]
    /\ current = 0 /\ route = 0 /\ subs = {} /\ handlers = {} /\ applied = 0

PageSteps == OnOpen \/ OnClose \/ ConnectNow \/ RunMsgQueue

ServerSteps ==
    \/ Accept
    \/ \E c \in Conns : RegisterConn(c) \/ ServerReads(c) \/ UnregisterConn(c)
    \/ \E h \in handlers : Handle(h)

Next ==
    \/ PageSteps
    \/ ServerSteps
    \/ ConnectionIsStable
    \/ OnRefused
    \/ \E c \in Conns : SocketDies(c)
    \/ \E scope \in Keys : WaveEventSubscribe(scope) \/ WaveEventUnsubscribe(scope)

Spec == Init /\ [][Next]_vars

\* The page's timers and callbacks run, the server accepts, reads and handles.
Fairness ==
    /\ WF_vars(OnOpen) /\ WF_vars(OnClose) /\ WF_vars(ConnectNow) /\ WF_vars(RunMsgQueue)
    /\ WF_vars(Accept)
    /\ \A c \in Conns : WF_vars(RegisterConn(c)) /\ WF_vars(ServerReads(c))
    /\ WF_vars(\E h \in handlers : Handle(h))

FairSpec == Spec /\ Fairness

-----------------------------------------------------------------------------
(* Properties *)

\* The page is connected and nothing it has said is still on its way.
Quiet ==
    /\ socket = "open"
    /\ conn \in up
    /\ served[conn] = "serving"
    /\ wire[conn] = <<>>
    /\ msgQueue = <<>>
    /\ handlers = {}

\* getMatchingRouteIds, for an event of one scope.
Delivers(scope) == scope \in subs \/ AllScopes \in subs

\* handleWaveEvent: some subscriber's handler is called.
Handles(scope) == scope \in subjects \/ AllScopes \in subjects

\* Whatever connections were lost before, and however late the server noticed,
\* once the page has been heard out its route leads to the connection it has.
QuietRoute == Quiet => current = conn /\ route = conn

\* Then it also gets the events it has handlers for and no others, provided
\* that of its requests the newest was handled last: neither the end of an
\* earlier connection nor a subscription from before takes events away or adds
\* some. Without the proviso it fails (see the README): the messages that were
\* queued while the socket was closed are sent after newer ones, and goroutines
\* handle requests in any order.
QuietSubs == Quiet /\ applied = requests => \A scope \in Scopes : Delivers(scope) <=> Handles(scope)

GivenUp == socket = "closed" /\ ~retrying

\* Unless it gave up, the page ends up reachable when its connection lasts: the
\* route is bound and the queue has been sent, also by timers that were started
\* on a connection before.
BecomesReachable == <>[](GivenUp \/ (socket = "open" /\ route = conn /\ msgQueue = <<>>))

=============================================================================
