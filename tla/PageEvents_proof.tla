-------------------------- MODULE PageEvents_proof --------------------------
(* The page's route and subscriptions, for every set of scopes and every      *)
(* bound: once the page has been heard out, events reach it.                  *)
(*                                                                            *)
(* Messages are told apart by the number of the request they carry, so the    *)
(* invariant speaks of the newest request: where its message may still be,    *)
(* and what the server makes of it.                                           *)
EXTENDS PageEvents, SequenceLemmas, TLAPS

-----------------------------------------------------------------------------
(* The inductive invariant. *)

(* Connections that have been opened by the page: one run of onopen each. *)
Opened == IF socket = "opening" \/ served[conn] = "none" THEN conn - 1 ELSE conn

SocketInv ==
  /\ retrying => socket = "closed"
  /\ socket # "closed" \/ retrying => reconnectTimes <= MaxTries
  /\ pumps <= Opened
  /\ requests <= changes + Opened

(* The server is a connection or two behind: a connection it has not yet      *)
(* registered is the page's, or the one before while the page's is not made.  *)
LinkInv ==
  /\ \A c \in Conns : c > conn => served[c] = "none"
  /\ \A c \in Conns : served[c] = "none" => wire[c] = <<>>
  /\ \A c \in up : served[c] \in {"accepted", "serving"}
  /\ socket = "open" => served[conn] # "none"
  /\ \A c \in Conns : served[c] = "accepted" /\ c # conn => served[conn] = "none"
  /\ served[conn] = "serving" => current = conn
  /\ current # 0 => served[current] = "serving"
  /\ \A h \in handlers : served[h.link] \in {"serving", "closed"}

(* The announcement of an open connection is under way, being handled, or has *)
(* bound the route.                                                           *)
IsAnnounced ==
  \/ \E m \in Range(wire[conn]) : m.kind = "announce"
  \/ served[conn] = "serving" /\ \E h \in handlers : h.link = conn /\ h.msg.kind = "announce"
  \/ served[conn] = "serving" /\ route = conn

RouteInv == socket = "open" /\ conn \in up => IsAnnounced

(* No message is ahead of the page, and the newest says what the page wants.  *)
Known(m) ==
  m.kind # "announce" => /\ m.n <= requests
                         /\ m.n = requests => m = Request(subjects, requests)

Newest(m) == m.kind # "announce" /\ m.n = requests

RequestInv ==
  /\ applied <= requests
  /\ \A c \in Conns : \A m \in Range(wire[c]) : Known(m)
  /\ \A m \in Range(msgQueue) : Known(m)
  /\ \A h \in handlers : Known(h.msg)

(* Every opening of the socket makes a new request, so the newest is not on   *)
(* any connection but the last.                                               *)
NewestIsCurrent ==
  subjects # {} /\ socket = "open" =>
    /\ \A c \in Conns : \A m \in Range(wire[c]) : Newest(m) => c = conn
    /\ \A h \in handlers : Newest(h.msg) => h.link = conn

(* Once the newest request has been handled, its subscription stands: it came *)
(* by the registered connection, and no other takes it away.                  *)
SubsInv ==
  applied = requests =>
    /\ subjects = {} => subs = {}
    /\ subjects # {} /\ socket = "open" => served[conn] # "accepted"
    /\ subjects # {} /\ socket = "open" /\ served[conn] = "serving" =>
         subs = Request(subjects, requests).scopes

IInv ==
  TypeOK /\ SocketInv /\ LinkInv /\ RouteInv /\ RequestInv /\ NewestIsCurrent /\ SubsInv

-----------------------------------------------------------------------------
(* Messages *)

LEMMA MaxRequestsType == MaxRequests \in Nat
  BY BoundsAreNaturals DEF MaxRequests

LEMMA RequestType ==
  ASSUME NEW S \in SUBSET Keys, NEW n \in 0 .. MaxRequests
  PROVE  /\ Request(S, n) \in Messages
         /\ Request(S, n).kind # "announce"
         /\ Request(S, n).n = n
         /\ S = {} => Request(S, n).kind = "unsub"
         /\ S # {} => Request(S, n).kind = "sub"
  <1>1. CASE S = {}
    BY <1>1 DEF Request, Messages
  <1>2. CASE S # {} /\ AllScopes \in S
    <2>1. Request(S, n) = [kind |-> "sub", scopes |-> {AllScopes}, n |-> n]
      BY <1>2 DEF Request
    <2>2. {AllScopes} \in SUBSET Keys
      BY DEF Keys
    <2> QED BY <1>2, <2>1, <2>2 DEF Messages
  <1>3. CASE S # {} /\ AllScopes \notin S
    <2>1. Request(S, n) = [kind |-> "sub", scopes |-> S, n |-> n]
      BY <1>3 DEF Request
    <2> QED BY <1>3, <2>1 DEF Messages
  <1> QED BY <1>1, <1>2, <1>3

LEMMA AnnounceType == Announce \in Messages /\ Announce.kind = "announce"
  BY MaxRequestsType DEF Announce, Messages

(* What Carry does to the wires. *)
LEMMA CarryEffect ==
  ASSUME TypeOK, NEW ms \in Seq(Messages), Carry(ms)
  PROVE  /\ wire' \in [Conns -> Seq(Messages)]
         /\ \A c \in Conns : c # conn => wire'[c] = wire[c]
         /\ \A c \in Conns : Range(wire[c]) \subseteq Range(wire'[c])
         /\ Range(wire'[conn]) \subseteq Range(wire[conn]) \cup Range(ms)
         /\ conn \in up => Range(ms) \subseteq Range(wire'[conn])
         /\ conn \notin up => wire' = wire
  <1>1. wire \in [Conns -> Seq(Messages)] /\ conn \in Conns
    BY DEF TypeOK
  <1>2. CASE conn \in up
    <2>1. wire' = [wire EXCEPT ![conn] = wire[conn] \o ms]
      BY <1>2 DEF Carry
    <2>2. wire[conn] \o ms \in Seq(Messages)
      BY <1>1, ConcatProperties
    <2>3. Range(wire[conn] \o ms) = Range(wire[conn]) \cup Range(ms)
      BY <1>1, RangeConcatenation
    <2> QED BY <1>1, <1>2, <2>1, <2>2, <2>3
  <1>3. CASE conn \notin up
    BY <1>1, <1>3 DEF Carry
  <1> QED BY <1>2, <1>3

-----------------------------------------------------------------------------
(* Every step keeps the invariant. *)

LEMMA InitIInv == Init => IInv
  <1> SUFFICES ASSUME Init PROVE IInv
    OBVIOUS
  <1> USE DEF Init
  <1>1. /\ MaxRequests \in Nat /\ MaxConns \in Nat \ {0} /\ MaxChanges \in Nat /\ MaxTries \in Nat
        /\ 1 \in Conns
    BY MaxRequestsType, BoundsAreNaturals DEF Conns
  <1>2. \A c \in Conns : wire[c] = <<>> /\ served[c] = "none"
    OBVIOUS
  <1>3. TypeOK
    <2>1. <<>> \in Seq(Queueable) /\ <<>> \in Seq(Messages)
      BY EmptySeq
    <2>2. wire \in [Conns -> Seq(Messages)]
      BY <2>1
    <2>3. served \in [Conns -> {"none", "accepted", "serving", "closed"}]
      OBVIOUS
    <2>4. msgQueue \in Seq(Queueable) /\ up \subseteq Conns /\ subjects \subseteq Keys /\ subs \subseteq Keys
      BY <2>1
    <2>5. {current, route} \subseteq Conns \cup {0}
      OBVIOUS
    <2>6. handlers \subseteq [link : Conns, msg : Messages]
      OBVIOUS
    <2>7. /\ changes \in 0 .. MaxChanges /\ requests \in 0 .. MaxRequests /\ conn \in Conns
          /\ reconnectTimes \in 0 .. MaxTries + 1 /\ pumps \in 0 .. MaxConns
          /\ applied \in 0 .. MaxRequests
      BY <1>1
    <2>8. socket \in {"opening", "open", "closed"} /\ retrying \in BOOLEAN
      OBVIOUS
    <2> HIDE DEF Init
    <2> QED BY <2>2, <2>3, <2>4, <2>5, <2>6, <2>7, <2>8 DEF TypeOK
  <1>4. SocketInv /\ LinkInv /\ RouteInv
    BY <1>1, <1>2 DEF SocketInv, LinkInv, RouteInv, Opened
  <1>5. RequestInv /\ NewestIsCurrent /\ SubsInv
    BY <1>1, <1>2, RangeEmpty DEF RequestInv, NewestIsCurrent, SubsInv
  <1> QED BY <1>3, <1>4, <1>5 DEF IInv

LEMMA TypedMessages ==
  ASSUME TypeOK
  PROVE  /\ \A c \in Conns : Range(wire[c]) \subseteq Messages
         /\ Range(msgQueue) \subseteq Messages
         /\ \A h \in handlers : h.link \in Conns /\ h.msg \in Messages
         /\ requests \in Nat /\ applied \in Nat /\ changes \in Nat /\ pumps \in Nat
         /\ conn \in Nat \ {0} /\ conn \in Conns
         /\ \A x \in Messages : x.n \in Nat
  <1>1. \A c \in Conns : Range(wire[c]) \subseteq Messages
    BY RangeOfSeq DEF TypeOK
  <1>2. Range(msgQueue) \subseteq Queueable
    BY RangeOfSeq DEF TypeOK
  <1>3. \A x \in Messages : x.n \in Nat
    BY MaxRequestsType DEF Messages
  <1> QED
    BY <1>1, <1>2, <1>3, MaxRequestsType, BoundsAreNaturals DEF TypeOK, Queueable, Conns

(* A new request leaves every message known and none of them the newest.      *)
LEMMA KnownBefore ==
  ASSUME TypeOK, RequestInv, requests' \in Nat, requests' > requests,
         NEW x \in Messages, Known(x)
  PROVE  Known(x)' /\ ~Newest(x)'
  BY TypedMessages DEF Known, Newest

LEMMA ChangeInv ==
  ASSUME IInv, NEW S \in SUBSET Keys, Change(S)
  PROVE  IInv'
  <1>1. TypeOK /\ SocketInv /\ LinkInv /\ RouteInv /\ RequestInv /\ NewestIsCurrent /\ SubsInv
    BY DEF IInv
  <1>2. /\ changes' = changes + 1 /\ changes < MaxChanges
        /\ subjects' = S /\ requests' = requests + 1
        /\ UNCHANGED <<socket, conn, retrying, reconnectTimes, pumps, up,
                       served, current, route, subs, handlers, applied>>
    BY DEF Change, serverVars
  <1>3. requests' \in 0 .. MaxRequests /\ Opened \in 0 .. MaxConns
    BY <1>1, <1>2, BoundsAreNaturals DEF TypeOK, SocketInv, Opened, Conns, MaxRequests
  <1>4. PICK m \in Messages : /\ m = Request(S, requests + 1) /\ m = Request(subjects', requests')
                             /\ m.kind # "announce" /\ m.n = requests'
    BY <1>2, <1>3, RequestType
  <1>5. IF socket = "open"
        THEN Carry(<<m>>) /\ msgQueue' = msgQueue
        ELSE msgQueue' = Append(msgQueue, m) /\ wire' = wire
    BY <1>4 DEF Change, PushMessage
  <1>6. /\ wire' \in [Conns -> Seq(Messages)]
        /\ \A c \in Conns : Range(wire[c]) \subseteq Range(wire'[c])
        /\ \A c \in Conns : c # conn => wire'[c] = wire[c]
        /\ Range(wire'[conn]) \subseteq Range(wire[conn]) \cup {m}
        /\ conn \notin up => wire' = wire
    <2>1. CASE socket = "open"
      <3>1. <<m>> \in Seq(Messages) /\ Range(<<m>>) = {m} /\ Carry(<<m>>)
        BY <1>4, <1>5, <2>1, RangeOne
      <3> QED BY <1>1, <3>1, CarryEffect
    <2>2. CASE socket # "open"
      BY <1>1, <1>5, <2>2 DEF TypeOK
    <2> QED BY <2>1, <2>2
  <1>7. /\ msgQueue' \in Seq(Queueable)
        /\ Range(msgQueue') \subseteq Range(msgQueue) \cup {m}
    <2>1. CASE socket = "open"
      BY <1>1, <1>5, <2>1 DEF TypeOK
    <2>2. CASE socket # "open"
      <3>1. m \in Queueable /\ msgQueue \in Seq(Queueable)
        BY <1>1, <1>4 DEF TypeOK, Queueable
      <3>2. Append(msgQueue, m) \in Seq(Queueable) /\ Range(Append(msgQueue, m)) = Range(msgQueue) \cup {m}
        BY <3>1, RangeAppend
      <3> QED BY <1>5, <2>2, <3>2
    <2> QED BY <2>1, <2>2
  <1>8. TypeOK'
    BY <1>1, <1>2, <1>3, <1>6, <1>7, BoundsAreNaturals DEF TypeOK
  <1>9. SocketInv'
    BY <1>1, <1>2, <1>3, BoundsAreNaturals DEF TypeOK, SocketInv, Opened
  <1>10. LinkInv'
    <2>1. \A c \in Conns : served[c] = "none" => wire'[c] = <<>>
      BY <1>1, <1>6 DEF LinkInv, TypeOK
    <2> QED BY <1>1, <1>2, <2>1 DEF LinkInv
  <1>11. RouteInv'
    BY <1>1, <1>2, <1>6 DEF RouteInv, IsAnnounced, TypeOK
  <1>12. /\ \A c \in Conns : \A x \in Range(wire'[c]) : (c = conn /\ x = m) \/ (Known(x)' /\ ~Newest(x)')
         /\ \A x \in Range(msgQueue') : x = m \/ Known(x)'
         /\ \A h \in handlers : Known(h.msg)' /\ ~Newest(h.msg)'
         /\ Known(m)'
    <2>1. requests' \in Nat /\ requests' > requests
      BY <1>1, <1>2, TypedMessages
    <2>2. \A x \in Messages : Known(x) => Known(x)' /\ ~Newest(x)'
      BY <1>1, <2>1, KnownBefore
    <2>3. \A c \in Conns : \A x \in Range(wire'[c]) : (c = conn /\ x = m) \/ x \in Range(wire[c])
      BY <1>6
    <2>4. \A c \in Conns : \A x \in Range(wire[c]) : x \in Messages /\ Known(x)
      BY <1>1, TypedMessages DEF RequestInv
    <2>5. \A x \in Range(msgQueue) : x \in Messages /\ Known(x)
      BY <1>1, TypedMessages DEF RequestInv
    <2>6. \A h \in handlers : h.msg \in Messages /\ Known(h.msg)
      BY <1>1, TypedMessages DEF RequestInv
    <2>7. Known(m)'
      BY <1>4, <2>1 DEF Known
    <2>8. \A c \in Conns : \A x \in Range(wire'[c]) : (c = conn /\ x = m) \/ (Known(x)' /\ ~Newest(x)')
      <3> SUFFICES ASSUME NEW c \in Conns, NEW x \in Range(wire'[c])
                   PROVE  (c = conn /\ x = m) \/ (Known(x)' /\ ~Newest(x)')
        OBVIOUS
      <3>1. (c = conn /\ x = m) \/ (x \in Messages /\ Known(x))
        BY <2>3, <2>4
      <3> QED BY <2>2, <3>1
    <2>9. \A x \in Range(msgQueue') : x = m \/ Known(x)'
      BY <1>7, <2>2, <2>5
    <2>10. \A h \in handlers : Known(h.msg)' /\ ~Newest(h.msg)'
      <3> SUFFICES ASSUME NEW h \in handlers PROVE Known(h.msg)' /\ ~Newest(h.msg)'
        OBVIOUS
      <3> QED BY <2>2, <2>6
    <2> QED BY <2>7, <2>8, <2>9, <2>10
  <1>13. RequestInv'
    <2>1. applied' <= requests'
      BY <1>1, <1>2, TypedMessages DEF RequestInv
    <2> QED BY <1>2, <1>12, <2>1 DEF RequestInv, Known
  <1>14. NewestIsCurrent'
    BY <1>2, <1>12 DEF NewestIsCurrent
  <1>15. SubsInv'
    <2>1. applied' # requests'
      BY <1>1, <1>2, TypedMessages DEF RequestInv
    <2> QED BY <2>1 DEF SubsInv
  <1> QED BY <1>8, <1>9, <1>10, <1>11, <1>13, <1>14, <1>15 DEF IInv

(* While the page makes no request, messages mean what they meant.            *)
LEMMA KnownSame ==
  ASSUME UNCHANGED <<subjects, requests>>, NEW x
  PROVE  (Known(x)' <=> Known(x)) /\ (Newest(x)' <=> Newest(x))
  BY DEF Known, Newest

LEMMA FewerMessages ==
  ASSUME RequestInv, UNCHANGED <<subjects, requests, applied>>,
         \A c \in Conns : \A x \in Range(wire'[c]) : Known(x),
         \A x \in Range(msgQueue') : Known(x),
         \A h \in handlers' : Known(h.msg)
  PROVE  RequestInv'
  <1>1. \A x : Known(x)' <=> Known(x)
    BY KnownSame
  <1> QED BY <1>1 DEF RequestInv

LEMMA SilentInv ==
  ASSUME IInv, UNCHANGED <<subjects, requests, applied, wire, msgQueue, handlers>>
  PROVE  RequestInv'
  BY FewerMessages DEF IInv, RequestInv

LEMMA ConnectNowInv ==
  ASSUME IInv, ConnectNow
  PROVE  IInv'
  <1>1. TypeOK /\ SocketInv /\ LinkInv /\ RequestInv /\ SubsInv
    BY DEF IInv
  <1>2. /\ retrying /\ retrying' = FALSE /\ socket' = "opening"
        /\ conn' = IF served[conn] = "none" THEN conn ELSE conn + 1
        /\ conn' \in Conns
        /\ UNCHANGED <<subjects, changes, requests, reconnectTimes, msgQueue, pumps, up, wire,
                       served, current, route, subs, handlers, applied>>
    BY DEF ConnectNow, pageVars, netVars, serverVars
  <1>3. conn \in Nat \ {0} /\ conn \in Conns
    BY <1>1, TypedMessages
  <1>4. served[conn'] = "none"
    BY <1>1, <1>2, <1>3 DEF LinkInv
  <1>5. TypeOK'
    BY <1>1, <1>2 DEF TypeOK
  <1>6. SocketInv'
    BY <1>1, <1>2, <1>3 DEF SocketInv, Opened
  <1>7. LinkInv'
    BY <1>1, <1>2, <1>3, <1>4 DEF LinkInv, Conns
  <1>8. RouteInv' /\ NewestIsCurrent'
    BY <1>2 DEF RouteInv, NewestIsCurrent
  <1>9. RequestInv'
    BY <1>2, SilentInv
  <1>10. SubsInv'
    BY <1>1, <1>2 DEF SubsInv
  <1> QED BY <1>5, <1>6, <1>7, <1>8, <1>9, <1>10 DEF IInv

LEMMA ClosesInv ==
  ASSUME IInv, socket # "closed", Closes
  PROVE  IInv'
  <1>1. TypeOK /\ SocketInv /\ LinkInv /\ RequestInv /\ SubsInv
    BY DEF IInv
  <1>2. /\ socket' = "closed" /\ reconnectTimes' = reconnectTimes + 1
        /\ retrying' = (reconnectTimes' <= MaxTries)
        /\ UNCHANGED <<subjects, changes, requests, conn, msgQueue, pumps, up, wire,
                       served, current, route, subs, handlers, applied>>
    BY DEF Closes, Reconnect, pageVars, netVars, serverVars
  <1>3. reconnectTimes \in 0 .. MaxTries /\ reconnectTimes' \in 0 .. MaxTries + 1
    BY <1>1, <1>2, BoundsAreNaturals DEF TypeOK, SocketInv
  <1>4. retrying' \in BOOLEAN
    BY <1>2
  <1>5. TypeOK'
    BY <1>1, <1>2, <1>3, <1>4 DEF TypeOK
  <1>6. SocketInv'
    <2>1. conn \in Nat \ {0} /\ pumps \in Nat /\ requests \in Nat /\ changes \in Nat
      BY <1>1, TypedMessages
    <2>2. UNCHANGED <<pumps, requests, changes, conn, served>>
      BY <1>2
    <2>3. pumps' <= Opened' /\ requests' <= changes' + Opened'
      BY <1>1, <1>2, <2>1, <2>2 DEF SocketInv, Opened
    <2>4. retrying' => reconnectTimes' <= MaxTries
      BY <1>2
    <2> QED BY <1>2, <2>3, <2>4 DEF SocketInv
  <1>7. LinkInv'
    BY <1>1, <1>2 DEF LinkInv
  <1>8. RouteInv' /\ NewestIsCurrent'
    BY <1>2 DEF RouteInv, NewestIsCurrent
  <1>9. RequestInv'
    BY <1>2, SilentInv
  <1>10. SubsInv'
    BY <1>1, <1>2 DEF SubsInv
  <1> QED BY <1>5, <1>6, <1>7, <1>8, <1>9, <1>10 DEF IInv

LEMMA StableInv ==
  ASSUME IInv, ConnectionIsStable
  PROVE  IInv'
  <1>1. TypeOK /\ SocketInv /\ LinkInv /\ RouteInv /\ NewestIsCurrent /\ SubsInv
    BY DEF IInv
  <1>2. /\ reconnectTimes' = 0 /\ socket = "open"
        /\ UNCHANGED <<subjects, changes, requests, socket, conn, retrying, msgQueue, pumps,
                       up, wire, served, current, route, subs, handlers, applied>>
    BY DEF ConnectionIsStable, pageVars, netVars, serverVars
  <1>3. TypeOK'
    BY <1>1, <1>2, BoundsAreNaturals DEF TypeOK
  <1>4. SocketInv'
    BY <1>1, <1>2, BoundsAreNaturals DEF SocketInv, Opened
  <1>5. LinkInv' /\ RouteInv' /\ SubsInv'
    BY <1>1, <1>2 DEF LinkInv, RouteInv, IsAnnounced, SubsInv
  <1>6. NewestIsCurrent'
    BY <1>1, <1>2 DEF NewestIsCurrent, Newest
  <1>7. RequestInv'
    BY <1>2, SilentInv
  <1> QED BY <1>3, <1>4, <1>5, <1>6, <1>7 DEF IInv

LEMMA AcceptInv ==
  ASSUME IInv, Accept
  PROVE  IInv'
  <1>1. TypeOK /\ SocketInv /\ LinkInv /\ SubsInv
    BY DEF IInv
  <1>2. /\ socket = "opening" /\ served[conn] = "none"
        /\ \A c \in Conns : served[c] # "accepted"
        /\ served' = [served EXCEPT ![conn] = "accepted"]
        /\ up' = up \union {conn}
        /\ UNCHANGED <<subjects, changes, requests, socket, conn, retrying, reconnectTimes,
                       msgQueue, pumps, wire, current, route, subs, handlers, applied>>
    BY DEF Accept, pageVars, socketVars
  <1>3. conn \in Conns /\ (current # 0 => current \in Conns) /\ \A h \in handlers : h.link \in Conns
    BY <1>1, TypedMessages DEF TypeOK
  <1>4. \A c \in Conns : served'[c] = IF c = conn THEN "accepted" ELSE served[c]
    BY <1>1, <1>2 DEF TypeOK
  <1>5. TypeOK'
    BY <1>1, <1>2 DEF TypeOK
  <1>6. SocketInv'
    BY <1>1, <1>2 DEF SocketInv, Opened
  <1>7. LinkInv'
    <2>1. \A c \in Conns : c > conn => c # conn
      BY <1>1, TypedMessages DEF Conns
    <2> QED BY <1>1, <1>2, <1>3, <1>4, <2>1 DEF LinkInv, TypeOK
  <1>8. RouteInv' /\ NewestIsCurrent'
    BY <1>2 DEF RouteInv, NewestIsCurrent
  <1>9. RequestInv'
    BY <1>2, SilentInv
  <1>10. SubsInv'
    BY <1>1, <1>2 DEF SubsInv
  <1> QED BY <1>5, <1>6, <1>7, <1>8, <1>9, <1>10 DEF IInv

LEMMA SocketDiesInv ==
  ASSUME IInv, NEW c \in Conns, SocketDies(c)
  PROVE  IInv'
  <1>1. TypeOK /\ SocketInv /\ LinkInv /\ RouteInv /\ RequestInv /\ NewestIsCurrent /\ SubsInv
    BY DEF IInv
  <1>2. /\ c \in up /\ up' = up \ {c}
        /\ UNCHANGED <<subjects, changes, requests, socket, conn, retrying, reconnectTimes,
                       msgQueue, pumps, served, current, route, subs, handlers, applied>>
    BY DEF SocketDies, pageVars, socketVars, serverVars
  <1>3. PICK k \in 0 .. Len(wire[c]) : wire' = [wire EXCEPT ![c] = SubSeq(wire[c], 1, k)]
    BY DEF SocketDies
  <1>4. SubSeq(wire[c], 1, k) \in Seq(Messages) /\ Range(SubSeq(wire[c], 1, k)) \subseteq Range(wire[c])
    BY <1>1, RangePrefix DEF TypeOK
  <1>5. /\ wire' \in [Conns -> Seq(Messages)]
        /\ \A d \in Conns : Range(wire'[d]) \subseteq Range(wire[d])
        /\ \A d \in Conns : d # c => wire'[d] = wire[d]
    BY <1>1, <1>3, <1>4 DEF TypeOK
  <1>6. TypeOK'
    BY <1>1, <1>2, <1>5 DEF TypeOK
  <1>7. SocketInv'
    BY <1>1, <1>2 DEF SocketInv, Opened
  <1>8. LinkInv'
    <2>1. served[c] # "none"
      BY <1>1, <1>2 DEF LinkInv
    <2> QED BY <1>1, <1>2, <1>5, <2>1 DEF LinkInv
  <1>9. RouteInv'
    BY <1>1, <1>2, <1>5, TypedMessages DEF RouteInv, IsAnnounced
  <1>10. RequestInv'
    BY <1>1, <1>2, <1>5, FewerMessages DEF RequestInv
  <1>11. NewestIsCurrent'
    BY <1>1, <1>2, <1>5 DEF NewestIsCurrent, Newest
  <1>12. SubsInv'
    BY <1>1, <1>2 DEF SubsInv
  <1> QED BY <1>6, <1>7, <1>8, <1>9, <1>10, <1>11, <1>12 DEF IInv

(* Losing a link takes its route and the subscriptions, and nothing else.     *)
LEMMA UnregisterLinkEffect ==
  ASSUME NEW link, UnregisterLink(link)
  PROVE  /\ route' = route \/ (route' = 0 /\ route = link)
         /\ subs' = subs \/ (subs' = {} /\ route = link)
  BY DEF UnregisterLink

LEMMA RegisterConnInv ==
  ASSUME IInv, NEW c \in Conns, RegisterConn(c)
  PROVE  IInv'
  <1>1. TypeOK /\ SocketInv /\ LinkInv /\ RouteInv /\ RequestInv /\ NewestIsCurrent /\ SubsInv
    BY DEF IInv
  <1>2. /\ served[c] = "accepted" /\ served' = [served EXCEPT ![c] = "serving"]
        /\ current' = c /\ UnregisterLink(current)
        /\ UNCHANGED <<subjects, changes, requests, socket, conn, retrying, reconnectTimes,
                       msgQueue, pumps, up, wire, handlers, applied>>
    BY DEF RegisterConn, pageVars, socketVars, netVars
  <1>3. /\ route' = route \/ route' = 0
        /\ subs' = subs \/ subs' = {}
    BY <1>2, UnregisterLinkEffect
  <1>4. /\ conn \in Conns /\ \A h \in handlers : h.link \in Conns
        /\ current # 0 => current \in Conns
        /\ c # 0 /\ up \subseteq Conns
    BY <1>1, TypedMessages DEF TypeOK, Conns
  <1>5. \A d \in Conns : served'[d] = IF d = c THEN "serving" ELSE served[d]
    BY <1>1, <1>2 DEF TypeOK
  <1>6. c # conn => served[conn] = "none"
    BY <1>1, <1>2 DEF LinkInv
  <1>7. TypeOK'
    <2>1. served' \in [Conns -> {"none", "accepted", "serving", "closed"}]
      BY <1>1, <1>2 DEF TypeOK
    <2>2. {current', route'} \subseteq Conns \cup {0} /\ subs' \subseteq Keys
      BY <1>1, <1>2, <1>3 DEF TypeOK
    <2> QED BY <1>1, <1>2, <2>1, <2>2 DEF TypeOK
  <1>8. SocketInv'
    BY <1>1, <1>2, <1>4, <1>5 DEF SocketInv, Opened
  <1>9. LinkInv'
    <2>1. \A d \in Conns : d > conn => served'[d] = "none"
      BY <1>1, <1>2, <1>5 DEF LinkInv
    <2>2. /\ \A d \in Conns : served'[d] = "none" => wire[d] = <<>>
          /\ \A d \in up : served'[d] \in {"accepted", "serving"}
          /\ socket = "open" => served'[conn] # "none"
          /\ \A h \in handlers : served'[h.link] \in {"serving", "closed"}
      BY <1>1, <1>4, <1>5 DEF LinkInv
    <2>3. /\ \A d \in Conns : served'[d] = "accepted" /\ d # conn => served'[conn] = "none"
          /\ served'[conn] = "serving" => conn = c
          /\ served'[c] = "serving"
      BY <1>1, <1>2, <1>4, <1>5, <1>6 DEF LinkInv
    <2> QED BY <1>2, <2>1, <2>2, <2>3 DEF LinkInv
  <1>10. RouteInv'
    <2> SUFFICES ASSUME socket = "open", conn \in up
                 PROVE  \E m \in Range(wire[conn]) : m.kind = "announce"
      BY <1>2 DEF RouteInv, IsAnnounced
    <2>1. c = conn
      BY <1>1, <1>6 DEF LinkInv
    <2> QED BY <1>1, <1>2, <2>1 DEF RouteInv, IsAnnounced
  <1>11. RequestInv'
    BY <1>2, SilentInv
  <1>12. NewestIsCurrent'
    BY <1>1, <1>2 DEF NewestIsCurrent, Newest
  <1>13. SubsInv'
    <2> SUFFICES ASSUME applied = requests
                 PROVE  /\ subjects = {} => subs' = {}
                        /\ ~(subjects # {} /\ socket = "open")
      BY <1>2 DEF SubsInv
    <2>1. subjects = {} => subs' = {}
      BY <1>1, <1>3 DEF SubsInv
    <2>2. ASSUME subjects # {}, socket = "open"
          PROVE  FALSE
      <3>1. served[conn] # "accepted"
        BY <1>1, <2>2 DEF SubsInv
      <3>2. c # conn /\ served[conn] # "none"
        BY <1>1, <1>2, <2>2, <3>1 DEF LinkInv
      <3> QED BY <1>6, <3>2
    <2> QED BY <2>1, <2>2
  <1> QED BY <1>7, <1>8, <1>9, <1>10, <1>11, <1>12, <1>13 DEF IInv

LEMMA UnregisterConnInv ==
  ASSUME IInv, NEW c \in Conns, UnregisterConn(c)
  PROVE  IInv'
  <1>1. TypeOK /\ SocketInv /\ LinkInv /\ RouteInv /\ RequestInv /\ NewestIsCurrent /\ SubsInv
    BY DEF IInv
  <1>2. /\ served[c] = "serving" /\ c \notin up /\ served' = [served EXCEPT ![c] = "closed"]
        /\ IF current = c
           THEN UnregisterLink(current) /\ current' = 0
           ELSE UNCHANGED <<route, subs, current>>
        /\ UNCHANGED <<subjects, changes, requests, socket, conn, retrying, reconnectTimes,
                       msgQueue, pumps, up, wire, handlers, applied>>
    BY DEF UnregisterConn, IsCurrent, pageVars, socketVars, netVars
  <1>3. /\ route' = route \/ (route' = 0 /\ route = c)
        /\ subs' = subs \/ (subs' = {} /\ current = c)
        /\ current' = IF current = c THEN 0 ELSE current
    BY <1>2, UnregisterLinkEffect
  <1>4. /\ conn \in Conns /\ \A h \in handlers : h.link \in Conns
        /\ current # 0 => current \in Conns
        /\ c # 0 /\ up \subseteq Conns
    BY <1>1, TypedMessages DEF TypeOK, Conns
  <1>5. \A d \in Conns : served'[d] = IF d = c THEN "closed" ELSE served[d]
    BY <1>1, <1>2 DEF TypeOK
  <1>6. served[conn] = "serving" => current = conn
    BY <1>1 DEF LinkInv
  <1>7. TypeOK'
    <2>1. served' \in [Conns -> {"none", "accepted", "serving", "closed"}]
      BY <1>1, <1>2 DEF TypeOK
    <2>2. {current', route'} \subseteq Conns \cup {0} /\ subs' \subseteq Keys
      BY <1>1, <1>3 DEF TypeOK
    <2> QED BY <1>1, <1>2, <2>1, <2>2 DEF TypeOK
  <1>8. SocketInv'
    BY <1>1, <1>2, <1>4, <1>5 DEF SocketInv, Opened
  <1>9. LinkInv'
    <2>1. \A d \in Conns : d > conn => served'[d] = "none"
      BY <1>1, <1>2, <1>5 DEF LinkInv
    <2>2. /\ \A d \in Conns : served'[d] = "none" => wire[d] = <<>>
          /\ \A d \in up : served'[d] \in {"accepted", "serving"}
          /\ socket = "open" => served'[conn] # "none"
          /\ \A h \in handlers : served'[h.link] \in {"serving", "closed"}
      BY <1>1, <1>2, <1>4, <1>5 DEF LinkInv
    <2>3. /\ \A d \in Conns : served'[d] = "accepted" /\ d # conn => served'[conn] = "none"
          /\ served'[conn] = "serving" => current' = conn
          /\ current' # 0 => served'[current'] = "serving"
      BY <1>1, <1>2, <1>3, <1>4, <1>5, <1>6 DEF LinkInv
    <2> QED BY <1>2, <2>1, <2>2, <2>3 DEF LinkInv
  <1>10. RouteInv'
    <2> SUFFICES ASSUME socket = "open", conn \in up
                 PROVE  IsAnnounced'
      BY <1>2 DEF RouteInv
    <2>1. c # conn /\ served'[conn] = served[conn] /\ IsAnnounced
      BY <1>1, <1>2, <1>4, <1>5 DEF RouteInv
    <2> QED BY <1>2, <1>3, <2>1 DEF IsAnnounced
  <1>11. RequestInv'
    BY <1>2, SilentInv
  <1>12. NewestIsCurrent'
    BY <1>1, <1>2 DEF NewestIsCurrent, Newest
  <1>13. SubsInv'
    <2> SUFFICES ASSUME applied = requests
                 PROVE  /\ subjects = {} => subs' = {}
                        /\ subjects # {} /\ socket = "open" => served'[conn] # "accepted"
                        /\ subjects # {} /\ socket = "open" /\ served'[conn] = "serving" =>
                             subs' = Request(subjects, requests).scopes
      BY <1>2 DEF SubsInv
    <2>1. subjects = {} => subs' = {}
      BY <1>1, <1>3 DEF SubsInv
    <2>2. ASSUME subjects # {}, socket = "open"
          PROVE  /\ served'[conn] # "accepted"
                 /\ served'[conn] = "serving" => subs' = Request(subjects, requests).scopes
      <3>1. served[conn] # "accepted"
        BY <1>1, <2>2 DEF SubsInv
      <3>2. CASE c = conn
        BY <1>4, <1>5, <3>2
      <3>3. CASE c # conn
        <4>1. served'[conn] = served[conn]
          BY <1>4, <1>5, <3>3
        <4>2. served[conn] = "serving" => subs' = subs
          BY <1>3, <1>6, <3>3
        <4> QED BY <1>1, <2>2, <3>1, <4>1, <4>2 DEF SubsInv
      <3> QED BY <3>2, <3>3
    <2> QED BY <2>1, <2>2
  <1> QED BY <1>7, <1>8, <1>9, <1>10, <1>11, <1>12, <1>13 DEF IInv

LEMMA ServerReadsInv ==
  ASSUME IInv, NEW c \in Conns, ServerReads(c)
  PROVE  IInv'
  <1>1. TypeOK /\ SocketInv /\ LinkInv /\ RouteInv /\ RequestInv /\ NewestIsCurrent /\ SubsInv
    BY DEF IInv
  <1>2. /\ served[c] = "serving" /\ wire[c] # <<>>
        /\ wire' = [wire EXCEPT ![c] = Tail(wire[c])]
        /\ UNCHANGED <<subjects, changes, requests, socket, conn, retrying, reconnectTimes,
                       msgQueue, pumps, up, served, current, route, subs, applied>>
    BY DEF ServerReads, pageVars, socketVars
  <1>3. PICK m \in Messages : /\ m = Head(wire[c])
                             /\ Tail(wire[c]) \in Seq(Messages)
                             /\ Range(wire[c]) = {m} \cup Range(Tail(wire[c]))
    BY <1>1, <1>2, RangeHeadTail DEF TypeOK
  <1>4. handlers' = IF current = c THEN handlers \cup {[link |-> c, msg |-> m]} ELSE handlers
    BY <1>3 DEF ServerReads
  <1>5. /\ wire' \in [Conns -> Seq(Messages)]
        /\ \A d \in Conns : Range(wire'[d]) \subseteq Range(wire[d])
        /\ \A d \in Conns : d # c => wire'[d] = wire[d]
        /\ Range(wire[c]) = {m} \cup Range(wire'[c])
    BY <1>1, <1>2, <1>3 DEF TypeOK
  <1>6. PICK g \in [link : Conns, msg : Messages] : g.link = c /\ g.msg = m /\ g = [link |-> c, msg |-> m]
    BY <1>3
  <1>7. handlers' = IF current = c THEN handlers \cup {g} ELSE handlers
    BY <1>4, <1>6
  <1>8. TypeOK'
    BY <1>1, <1>2, <1>5, <1>7 DEF TypeOK
  <1>9. SocketInv'
    BY <1>1, <1>2 DEF SocketInv, Opened
  <1>10. LinkInv'
    <2>1. \A d \in Conns : served[d] = "none" => wire'[d] = <<>>
      BY <1>1, <1>2, <1>5 DEF LinkInv
    <2>2. \A h \in handlers' : served[h.link] \in {"serving", "closed"}
      BY <1>1, <1>2, <1>6, <1>7 DEF LinkInv
    <2> QED BY <1>1, <1>2, <2>1, <2>2 DEF LinkInv
  <1>11. RouteInv'
    <2> SUFFICES ASSUME socket = "open", conn \in up
                 PROVE  IsAnnounced'
      BY <1>2 DEF RouteInv
    <2>1. IsAnnounced /\ handlers \subseteq handlers'
      BY <1>1, <1>7 DEF RouteInv
    <2>2. CASE c # conn
      BY <1>1, <1>2, <1>5, <2>1, <2>2, TypedMessages DEF IsAnnounced
    <2>3. CASE c = conn
      <3>1. current = c
        BY <1>1, <1>2, <2>3 DEF LinkInv
      <3>2. g \in handlers'
        BY <1>7, <3>1
      <3>3. CASE m.kind = "announce"
        BY <1>2, <1>6, <2>3, <3>2, <3>3 DEF IsAnnounced
      <3>4. CASE m.kind # "announce"
        BY <1>2, <1>5, <2>1, <2>3, <3>4 DEF IsAnnounced
      <3> QED BY <3>3, <3>4
    <2> QED BY <2>2, <2>3
  <1>12. Known(m) /\ (subjects # {} /\ socket = "open" /\ Newest(m) => c = conn)
    BY <1>1, <1>5 DEF RequestInv, NewestIsCurrent
  <1>13. RequestInv'
    <2>1. \A h \in handlers' : Known(h.msg)
      BY <1>1, <1>6, <1>7, <1>12 DEF RequestInv
    <2> QED BY <1>1, <1>2, <1>5, <2>1, FewerMessages DEF RequestInv
  <1>14. NewestIsCurrent'
    <2> SUFFICES ASSUME subjects # {}, socket = "open"
                 PROVE  /\ \A d \in Conns : \A x \in Range(wire'[d]) : Newest(x)' => d = conn
                        /\ \A h \in handlers' : Newest(h.msg)' => h.link = conn
      BY <1>2 DEF NewestIsCurrent
    <2>1. \A x : Newest(x)' <=> Newest(x)
      BY <1>2, KnownSame
    <2>2. \A h \in handlers' : Newest(h.msg) => h.link = conn
      BY <1>1, <1>6, <1>7, <1>12 DEF NewestIsCurrent
    <2>3. \A d \in Conns : \A x \in Range(wire'[d]) : Newest(x) => d = conn
      BY <1>1, <1>5 DEF NewestIsCurrent
    <2>4. ASSUME NEW h \in handlers', Newest(h.msg)'
          PROVE  h.link = conn
      <3>1. PICK x : x = h.msg
        OBVIOUS
      <3> QED BY <1>2, <2>2, <2>4 DEF Newest
    <2> QED BY <2>1, <2>3, <2>4
  <1>15. SubsInv'
    BY <1>1, <1>2 DEF SubsInv
  <1> QED BY <1>8, <1>9, <1>10, <1>11, <1>13, <1>14, <1>15 DEF IInv

LEMMA HandleInv ==
  ASSUME IInv, NEW h \in handlers, Handle(h)
  PROVE  IInv'
  <1>1. TypeOK /\ SocketInv /\ LinkInv /\ RouteInv /\ RequestInv /\ NewestIsCurrent /\ SubsInv
    BY DEF IInv
  <1>2. /\ handlers' = handlers \ {h}
        /\ UNCHANGED <<subjects, changes, requests, socket, conn, retrying, reconnectTimes,
                       msgQueue, pumps, up, wire, served, current>>
    BY DEF Handle, pageVars, socketVars, netVars
  <1>3. /\ h.link \in Conns /\ h.link # 0 /\ h.msg \in Messages /\ Known(h.msg)
        /\ served[h.link] \in {"serving", "closed"}
    BY <1>1, TypedMessages DEF RequestInv, LinkInv, Conns
  <1>4. \/ /\ h.msg.kind = "announce" /\ subs' = subs /\ applied' = applied
           /\ route' = IF current = h.link THEN h.link ELSE route
        \/ /\ h.msg.kind = "sub" /\ route' = route
           /\ subs' = h.msg.scopes /\ applied' = h.msg.n
        \/ /\ h.msg.kind = "unsub" /\ route' = route
           /\ subs' = {} /\ applied' = h.msg.n
    BY DEF Handle, HandleAnnounce, HandleSub, HandleUnsub
  <1>5. TypeOK'
    <2>1. h.msg.scopes \subseteq Keys /\ h.msg.n \in 0 .. MaxRequests
      BY <1>3 DEF Messages
    <2>2. {current', route'} \subseteq Conns \cup {0} /\ subs' \subseteq Keys
          /\ applied' \in 0 .. MaxRequests
      BY <1>1, <1>2, <1>3, <1>4, <2>1 DEF TypeOK
    <2> QED BY <1>1, <1>2, <2>2 DEF TypeOK
  <1>6. SocketInv'
    BY <1>1, <1>2 DEF SocketInv, Opened
  <1>7. LinkInv'
    BY <1>1, <1>2 DEF LinkInv
  <1>8. RouteInv'
    <2> SUFFICES ASSUME socket = "open", conn \in up
                 PROVE  IsAnnounced'
      BY <1>2 DEF RouteInv
    <2>1. IsAnnounced /\ (served[conn] = "serving" => current = conn)
      BY <1>1 DEF RouteInv, LinkInv
    <2>2. served[conn] = "serving" /\ route = conn => route' = conn
      BY <1>4, <2>1
    <2>3. served[conn] = "serving" /\ h.link = conn /\ h.msg.kind = "announce" => route' = conn
      BY <1>4, <2>1
    <2> QED BY <1>2, <2>1, <2>2, <2>3 DEF IsAnnounced
  <1>9. RequestInv'
    <2>1. applied' <= requests /\ requests' = requests
      BY <1>1, <1>2, <1>3, <1>4 DEF RequestInv, Known
    <2>2. \A x : Known(x)' <=> Known(x)
      BY <1>2, KnownSame
    <2>3. \A g \in handlers' : Known(g.msg)'
      <3> SUFFICES ASSUME NEW g \in handlers' PROVE Known(g.msg)'
        OBVIOUS
      <3>1. Known(g.msg) /\ g \in handlers
        BY <1>1, <1>2 DEF RequestInv
      <3> QED BY <1>2, <3>1 DEF Known
    <2> QED BY <1>1, <1>2, <2>1, <2>2, <2>3 DEF RequestInv
  <1>10. NewestIsCurrent'
    BY <1>1, <1>2 DEF NewestIsCurrent, Newest
  <1>11. SubsInv'
    <2>1. CASE h.msg.kind = "announce"
      BY <1>1, <1>2, <1>4, <2>1 DEF SubsInv
    <2>2. CASE h.msg.kind # "announce"
      <3> SUFFICES ASSUME applied' = requests
                   PROVE  /\ subjects = {} => subs' = {}
                          /\ subjects # {} => subs' = Request(subjects, requests).scopes
                          /\ subjects # {} /\ socket = "open" => served[conn] # "accepted"
        BY <1>2 DEF SubsInv
      <3>1. Newest(h.msg) /\ h.msg = Request(subjects, requests)
        BY <1>3, <1>4, <2>2 DEF Known, Newest
      <3>2. /\ subjects = {} => h.msg.kind = "unsub"
            /\ subjects # {} => h.msg.kind = "sub"
        <4>1. subjects \in SUBSET Keys /\ requests \in 0 .. MaxRequests
          BY <1>1 DEF TypeOK
        <4> QED BY <3>1, <4>1, RequestType
      <3>3. subjects # {} /\ socket = "open" => served[conn] # "accepted"
        BY <1>1, <1>3, <3>1 DEF NewestIsCurrent
      <3> QED BY <1>4, <3>1, <3>2, <3>3
    <2> QED BY <2>1, <2>2
  <1> QED BY <1>5, <1>6, <1>7, <1>8, <1>9, <1>10, <1>11 DEF IInv

(* What the page sends first on a new connection.                             *)
LEMMA ReintroductionRange ==
  ASSUME NEW n, NEW r \in Messages, r = Request(subjects, n)
  PROVE  /\ Reintroduction(n) \in Seq(Messages)
         /\ Range(Reintroduction(n)) = {Announce} \cup (IF subjects = {} THEN {} ELSE {r})
  <1>1. PICK i \in Seq(Messages) : i = <<Announce>> /\ Range(i) = {Announce}
    <2>1. Range(<<Announce>>) = {Announce}
      BY RangeOne
    <2>2. Announce \in Messages
      BY AnnounceType
    <2>3. <<Announce>> \in Seq(Messages)
      BY <2>2
    <2> QED BY <2>1, <2>3
  <1>2. PICK t \in Seq(Messages) :
          /\ t = (IF subjects = {} THEN <<>> ELSE <<Request(subjects, n)>>)
          /\ Range(t) = IF subjects = {} THEN {} ELSE {r}
    <2>1. CASE subjects = {}
      BY <2>1, RangeEmpty, EmptySeq
    <2>2. CASE subjects # {}
      <3>1. <<r>> \in Seq(Messages) /\ Range(<<r>>) = {r}
        BY RangeOne
      <3> QED BY <2>2, <3>1
    <2> QED BY <2>1, <2>2
  <1>3. Reintroduction(n) = i \o t
    BY <1>1, <1>2 DEF Reintroduction
  <1>4. i \o t \in Seq(Messages) /\ Range(i \o t) = Range(i) \cup Range(t)
    BY RangeConcatenation
  <1> QED BY <1>1, <1>2, <1>3, <1>4

LEMMA OnOpenInv ==
  ASSUME IInv, OnOpen
  PROVE  IInv'
  <1>1. TypeOK /\ SocketInv /\ LinkInv /\ RouteInv /\ RequestInv /\ NewestIsCurrent /\ SubsInv
    BY DEF IInv
  <1>2. /\ socket = "opening" /\ socket' = "open" /\ conn \in up
        /\ requests' = IF subjects = {} THEN requests ELSE requests + 1
        /\ UNCHANGED <<subjects, changes, conn, retrying, reconnectTimes, up,
                       served, current, route, subs, handlers, applied>>
    BY DEF OnOpen, serverVars
  <1>3. served[conn] \in {"accepted", "serving"}
    BY <1>1, <1>2 DEF LinkInv
  <1>4. /\ conn \in Nat \ {0} /\ conn <= MaxConns /\ conn \in Conns
        /\ requests \in Nat /\ changes \in 0 .. MaxChanges /\ pumps \in Nat
        /\ pumps <= conn - 1 /\ requests <= changes + (conn - 1)
        /\ MaxConns \in Nat /\ MaxChanges \in Nat
    BY <1>1, <1>2, TypedMessages, BoundsAreNaturals DEF TypeOK, SocketInv, Opened, Conns
  <1>5. requests' \in 0 .. MaxRequests /\ requests' <= changes + conn /\ requests' >= requests
    BY <1>2, <1>4 DEF MaxRequests
  <1>6. PICK r \in Messages : /\ r = Request(subjects, requests')
                             /\ r.kind # "announce" /\ r.n = requests'
    <2>1. subjects \in SUBSET Keys
      BY <1>1 DEF TypeOK
    <2> QED BY <1>5, <2>1, RequestType
  <1>7. /\ Reintroduction(requests') \in Seq(Messages)
        /\ Range(Reintroduction(requests')) = {Announce} \cup (IF subjects = {} THEN {} ELSE {r})
    BY <1>6, ReintroductionRange
  <1>8. PICK ms \in Seq(Messages) :
          /\ Carry(ms) /\ Announce \in Range(ms)
          /\ Range(ms) \subseteq {Announce} \cup (IF subjects = {} THEN {} ELSE {r}) \cup Range(msgQueue)
          /\ msgQueue' \in Seq(Queueable) /\ Range(msgQueue') \subseteq Range(msgQueue)
          /\ pumps' \in {pumps, pumps + 1}
    <2>1. CASE msgQueue = <<>>
      BY <1>1, <1>7, <2>1 DEF OnOpen, TypeOK
    <2>2. CASE msgQueue # <<>>
      <3>1. /\ Carry(Append(Reintroduction(requests'), Head(msgQueue)))
            /\ msgQueue' = Tail(msgQueue) /\ pumps' = pumps + 1
        BY <2>2 DEF OnOpen
      <3>2. /\ Head(msgQueue) \in Messages /\ Tail(msgQueue) \in Seq(Queueable)
            /\ Range(msgQueue) = {Head(msgQueue)} \cup Range(Tail(msgQueue))
        <4>1. msgQueue \in Seq(Queueable)
          BY <1>1 DEF TypeOK
        <4> QED BY <2>2, <4>1, RangeHeadTail DEF Queueable
      <3>3. /\ Append(Reintroduction(requests'), Head(msgQueue)) \in Seq(Messages)
            /\ Range(Append(Reintroduction(requests'), Head(msgQueue)))
                 = Range(Reintroduction(requests')) \cup {Head(msgQueue)}
        BY <1>7, <3>2, RangeAppend
      <3> QED BY <1>7, <3>1, <3>2, <3>3
    <2> QED BY <2>1, <2>2
  <1>9. /\ wire' \in [Conns -> Seq(Messages)]
        /\ \A c \in Conns : c # conn => wire'[c] = wire[c]
        /\ Range(wire'[conn]) \subseteq Range(wire[conn]) \cup Range(ms)
        /\ Range(ms) \subseteq Range(wire'[conn])
    BY <1>1, <1>2, <1>8, CarryEffect
  <1>10. TypeOK'
    <2>1. pumps' \in 0 .. MaxConns
      BY <1>4, <1>8
    <2> QED BY <1>1, <1>2, <1>5, <1>8, <1>9, <2>1 DEF TypeOK
  <1>11. SocketInv'
    <2>1. pumps' <= conn
      BY <1>4, <1>8
    <2> QED BY <1>1, <1>2, <1>3, <1>5, <2>1 DEF SocketInv, Opened
  <1>12. LinkInv'
    <2>1. \A c \in Conns : served[c] = "none" => wire'[c] = <<>>
      BY <1>1, <1>3, <1>9 DEF LinkInv
    <2> QED BY <1>1, <1>2, <1>3, <2>1 DEF LinkInv
  <1>13. RouteInv'
    <2>1. \E m \in Range(wire'[conn']) : m.kind = "announce"
      BY <1>2, <1>8, <1>9, AnnounceType
    <2> QED BY <2>1 DEF RouteInv, IsAnnounced
  <1>14. /\ \A x \in Messages : Known(x) => Known(x)' /\ (subjects # {} => ~Newest(x)')
         /\ Known(r)' /\ Known(Announce)' /\ ~Newest(Announce)'
    <2>1. \A x \in Messages : Known(x) => Known(x)' /\ (subjects # {} => ~Newest(x)')
      <3> SUFFICES ASSUME NEW x \in Messages, Known(x)
                   PROVE  Known(x)' /\ (subjects # {} => ~Newest(x)')
        OBVIOUS
      <3>1. CASE subjects = {}
        BY <1>2, <3>1, KnownSame
      <3>2. CASE subjects # {}
        <4>1. requests' \in Nat /\ requests' > requests
          BY <1>2, <1>4, <3>2
        <4> QED BY <1>1, <4>1, KnownBefore
      <3> QED BY <3>1, <3>2
    <2>2. Known(r)'
      <3>1. requests' \in Nat /\ subjects' = subjects
        BY <1>2, <1>4
      <3> QED BY <1>6, <3>1 DEF Known
    <2> QED BY <2>1, <2>2, AnnounceType DEF Known, Newest
  <1>15. /\ \A c \in Conns : \A x \in Range(wire[c]) : x \in Messages /\ Known(x)
         /\ \A x \in Range(msgQueue) : x \in Messages /\ Known(x)
         /\ \A h \in handlers : h.msg \in Messages /\ Known(h.msg)
    BY <1>1, TypedMessages DEF RequestInv
  <1>16. RequestInv'
    <2>1. applied' <= requests'
      BY <1>1, <1>2, <1>4, <1>5, TypedMessages DEF RequestInv
    <2>2. \A c \in Conns : \A x \in Range(wire'[c]) : Known(x)'
      <3> SUFFICES ASSUME NEW c \in Conns, NEW x \in Range(wire'[c])
                   PROVE  Known(x)'
        OBVIOUS
      <3>1. x \in Range(wire[c]) \/ x = Announce \/ x = r \/ x \in Range(msgQueue)
        BY <1>8, <1>9
      <3> QED BY <1>14, <1>15, <3>1
    <2>3. \A x \in Range(msgQueue') : Known(x)'
      BY <1>8, <1>14, <1>15
    <2>4. \A h \in handlers' : Known(h.msg)'
      <3> SUFFICES ASSUME NEW h \in handlers PROVE Known(h.msg)'
        BY <1>2
      <3> QED BY <1>14, <1>15
    <2> QED BY <2>1, <2>2, <2>3, <2>4 DEF RequestInv
  <1>17. NewestIsCurrent'
    <2> SUFFICES ASSUME subjects # {}
                 PROVE  /\ \A c \in Conns : \A x \in Range(wire'[c]) : Newest(x)' => c = conn
                        /\ \A h \in handlers' : Newest(h.msg)' => h.link = conn
      BY <1>2 DEF NewestIsCurrent
    <2>1. \A c \in Conns : \A x \in Range(wire'[c]) : Newest(x)' => c = conn
      BY <1>9, <1>14, <1>15
    <2>2. ASSUME NEW h \in handlers PROVE ~Newest(h.msg)'
      BY <1>14, <1>15
    <2> QED BY <1>2, <2>1, <2>2
  <1>18. SubsInv'
    <2>1. CASE subjects = {}
      BY <1>1, <1>2, <2>1 DEF SubsInv
    <2>2. CASE subjects # {}
      <3>1. applied' # requests'
        BY <1>1, <1>2, <2>2, TypedMessages DEF RequestInv
      <3> QED BY <3>1 DEF SubsInv
    <2> QED BY <2>1, <2>2
  <1> QED BY <1>10, <1>11, <1>12, <1>13, <1>16, <1>17, <1>18 DEF IInv

LEMMA RunMsgQueueInv ==
  ASSUME IInv, RunMsgQueue
  PROVE  IInv'
  <1>1. TypeOK /\ SocketInv /\ LinkInv /\ RouteInv /\ RequestInv /\ NewestIsCurrent /\ SubsInv
    BY DEF IInv
  <1>2. /\ pumps > 0
        /\ UNCHANGED <<subjects, changes, requests, socket, conn, retrying, reconnectTimes, up,
                       served, current, route, subs, handlers, applied>>
    BY DEF RunMsgQueue, pageVars, serverVars
  <1>3. /\ wire' \in [Conns -> Seq(Messages)] /\ msgQueue' \in Seq(Queueable)
        /\ pumps' \in {pumps, pumps - 1}
        /\ Range(msgQueue') \subseteq Range(msgQueue)
        /\ \A c \in Conns : c # conn => wire'[c] = wire[c]
        /\ \A c \in Conns : Range(wire[c]) \subseteq Range(wire'[c])
        /\ Range(wire'[conn]) \subseteq Range(wire[conn]) \cup Range(msgQueue)
        /\ served[conn] = "none" => wire' = wire
    <2>1. CASE socket = "open" /\ msgQueue # <<>>
      <3>1. Carry(<<Head(msgQueue)>>) /\ msgQueue' = Tail(msgQueue) /\ pumps' = pumps
        BY <2>1 DEF RunMsgQueue
      <3>2. /\ Head(msgQueue) \in Messages /\ Tail(msgQueue) \in Seq(Queueable)
            /\ Range(msgQueue) = {Head(msgQueue)} \cup Range(Tail(msgQueue))
        <4>1. msgQueue \in Seq(Queueable)
          BY <1>1 DEF TypeOK
        <4> QED BY <2>1, <4>1, RangeHeadTail DEF Queueable
      <3>3. <<Head(msgQueue)>> \in Seq(Messages) /\ Range(<<Head(msgQueue)>>) = {Head(msgQueue)}
        BY <3>2, RangeOne
      <3>4. served[conn] # "none"
        BY <1>1, <2>1 DEF LinkInv
      <3>5. /\ wire' \in [Conns -> Seq(Messages)]
            /\ \A c \in Conns : c # conn => wire'[c] = wire[c]
            /\ \A c \in Conns : Range(wire[c]) \subseteq Range(wire'[c])
            /\ Range(wire'[conn]) \subseteq Range(wire[conn]) \cup {Head(msgQueue)}
        BY <1>1, <3>1, <3>3, CarryEffect
      <3> QED BY <3>1, <3>2, <3>4, <3>5
    <2>2. CASE ~(socket = "open" /\ msgQueue # <<>>)
      BY <1>1, <2>2, TypedMessages DEF RunMsgQueue, TypeOK
    <2> QED BY <2>1, <2>2
  <1>4. pumps' \in Nat /\ pumps' <= pumps /\ pumps \in Nat
    BY <1>1, <1>2, <1>3, TypedMessages
  <1>5. TypeOK'
    <2>1. pumps' \in 0 .. MaxConns
      BY <1>1, <1>4, BoundsAreNaturals DEF TypeOK
    <2> QED BY <1>1, <1>2, <1>3, <2>1 DEF TypeOK
  <1>6. SocketInv'
    BY <1>1, <1>2, <1>4, TypedMessages DEF SocketInv, Opened
  <1>7. LinkInv'
    <2>1. \A c \in Conns : served[c] = "none" => wire'[c] = <<>>
      BY <1>1, <1>3 DEF LinkInv
    <2> QED BY <1>1, <1>2, <2>1 DEF LinkInv
  <1>8. RouteInv'
    BY <1>1, <1>2, <1>3, TypedMessages DEF RouteInv, IsAnnounced
  <1>9. RequestInv'
    <2>1. \A c \in Conns : \A x \in Range(wire'[c]) : Known(x)
      BY <1>1, <1>3 DEF RequestInv
    <2> QED BY <1>1, <1>2, <1>3, <2>1, FewerMessages DEF RequestInv
  <1>10. NewestIsCurrent'
    BY <1>1, <1>2, <1>3 DEF NewestIsCurrent, Newest
  <1>11. SubsInv'
    BY <1>1, <1>2 DEF SubsInv
  <1> QED BY <1>5, <1>6, <1>7, <1>8, <1>9, <1>10, <1>11 DEF IInv

LEMMA NextIInv == IInv /\ [Next]_vars => IInv'
  <1> SUFFICES ASSUME IInv, [Next]_vars PROVE IInv'
    OBVIOUS
  <1>1. CASE PageSteps
    <2>1. CASE OnClose
      BY <2>1, ClosesInv DEF OnClose
    <2> QED BY <1>1, <2>1, OnOpenInv, ConnectNowInv, RunMsgQueueInv DEF PageSteps
  <1>2. CASE ServerSteps
    BY <1>2, AcceptInv, RegisterConnInv, ServerReadsInv, UnregisterConnInv, HandleInv DEF ServerSteps
  <1>3. CASE ConnectionIsStable
    BY <1>3, StableInv
  <1>4. CASE OnRefused
    BY <1>4, ClosesInv DEF OnRefused
  <1>5. CASE \E c \in Conns : SocketDies(c)
    BY <1>5, SocketDiesInv
  <1>6. CASE \E scope \in Keys : WaveEventSubscribe(scope) \/ WaveEventUnsubscribe(scope)
    <2>1. subjects \in SUBSET Keys
      BY DEF IInv, TypeOK
    <2>2. PICK scope \in Keys : Change(subjects \cup {scope}) \/ Change(subjects \ {scope})
      BY <1>6 DEF WaveEventSubscribe, WaveEventUnsubscribe
    <2>3. subjects \cup {scope} \in SUBSET Keys /\ subjects \ {scope} \in SUBSET Keys
      BY <2>1
    <2> QED BY <2>2, <2>3, ChangeInv
  <1>7. CASE UNCHANGED vars
    <2>1. UNCHANGED <<subjects, changes, requests, socket, conn, retrying, reconnectTimes, msgQueue,
                      pumps, up, wire, served, current, route, subs, handlers, applied>>
      BY <1>7 DEF vars, pageVars, socketVars, netVars, serverVars
    <2>2. TypeOK' /\ SocketInv' /\ LinkInv'
      BY <2>1 DEF IInv, TypeOK, SocketInv, LinkInv, Opened
    <2>3. RouteInv' /\ NewestIsCurrent' /\ SubsInv'
      BY <2>1 DEF IInv, RouteInv, IsAnnounced, NewestIsCurrent, Newest, SubsInv
    <2> QED BY <2>1, <2>2, <2>3, SilentInv DEF IInv
  <1> QED BY <1>1, <1>2, <1>3, <1>4, <1>5, <1>6, <1>7 DEF Next

(* In every reachable state: what is under way, what the server has made of   *)
(* each connection, and what the page has are consistent.                     *)
THEOREM InvHolds == Spec => []IInv
  <1> QED BY InitIInv, NextIInv, PTL DEF Spec

(* The page's bookkeeping, the wires and the server's tables stay within      *)
(* their types: no more requests and timers than changes and connections.     *)
THEOREM TypeCorrect == Spec => []TypeOK
  <1>1. IInv => TypeOK
    BY DEF IInv
  <1> QED BY <1>1, InvHolds, PTL

(* However many connections were lost, and however late and in whatever order *)
(* the server noticed and handled what it was sent: when the page has been    *)
(* heard out, its route leads to the connection it has.                       *)
THEOREM RouteCorrect == Spec => []QuietRoute
  <1>1. IInv => QuietRoute
    <2> SUFFICES ASSUME IInv, Quiet PROVE current = conn /\ route = conn
      BY DEF QuietRoute
    <2>1. current = conn
      BY DEF IInv, LinkInv, Quiet
    <2>2. IsAnnounced /\ wire[conn] = <<>> /\ handlers = {}
      BY DEF IInv, RouteInv, Quiet
    <2> QED BY <2>1, <2>2, RangeEmpty DEF IsAnnounced
  <1> QED BY <1>1, InvHolds, PTL

(* Then the page gets the events it has handlers for and no others, provided  *)
(* its newest request was handled last.                                       *)
THEOREM SubsCorrect == Spec => []QuietSubs
  <1>1. IInv => QuietSubs
    <2> SUFFICES ASSUME IInv, Quiet, applied = requests, NEW scope \in Scopes
                 PROVE  Delivers(scope) <=> Handles(scope)
      BY DEF QuietSubs
    <2>1. /\ subjects = {} => subs = {}
          /\ subjects # {} => subs = Request(subjects, requests).scopes
      BY DEF IInv, SubsInv, Quiet
    <2>2. CASE subjects = {}
      BY <2>1, <2>2 DEF Delivers, Handles
    <2>3. CASE subjects # {} /\ AllScopes \in subjects
      <3>1. subs = {AllScopes}
        BY <2>1, <2>3 DEF Request
      <3> QED BY <2>3, <3>1 DEF Delivers, Handles
    <2>4. CASE subjects # {} /\ AllScopes \notin subjects
      <3>1. subs = subjects
        BY <2>1, <2>4 DEF Request
      <3> QED BY <2>4, <3>1 DEF Delivers, Handles
    <2> QED BY <2>2, <2>3, <2>4
  <1> QED BY <1>1, InvHolds, PTL
=============================================================================
