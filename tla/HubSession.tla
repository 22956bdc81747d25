----------------------------- MODULE HubSession -----------------------------
(***************************************************************************)
(* The hub and one window of the app, end to end: sources advertise,       *)
(* rename each other and leave; the app keeps its directory and its        *)
(* panels' subscriptions over sockets that break; the hub restarts.  Each  *)
(* socket is a pair of queues, wire[c] to the app and up[c] to the hub,    *)
(* and its two ends learn of its loss separately.                          *)
(*                                                                         *)
(* Only the control plane is composed: data frames touch neither the       *)
(* directory nor the bindings.  Successive sockets of the window are the   *)
(* members of Clients; a source that reconnects is a new member of Sources.*)
(***************************************************************************)
EXTENDS Broker, HubClient

CONSTANTS
    NoConn,            \* the window has no open socket
    MaxUp,             \* bound: unread requests when a panel acts
    MaxRestarts,       \* bound: hub restarts
    OwnNamesDistinct   \* environment: no source advertises a name twice

VARIABLES
    sock,       \* this.ws, once open
    up,         \* up[c]: requests sent on socket c and not yet handled
    restarts

sessionVars == <<brokerVars, clientVars, sock, up, restarts>>

SessionInit ==
    /\ Init
    /\ HubClientInit
    /\ sock = NoConn
    /\ up = [c \in Clients |-> <<>>]
    /\ restarts = 0

\* HubClient.send: dropped unless the socket is open.
Send(msgs) ==
    up' = IF sock = NoConn THEN up ELSE [up EXCEPT ![sock] = @ \o msgs]

-----------------------------------------------------------------------------
(* The socket *)

\* openSocket (first connect or the reconnect timer), accepted by the hub.
Connects(c) ==
    /\ sock = NoConn
    /\ ClientConnects(c)
    /\ sock' = c
    /\ UNCHANGED <<clientVars, up, restarts>>

\* ws.onclose in the app: everything it knows stays, to be replaced later.
LosesSocket ==
    /\ sock # NoConn
    /\ sock' = NoConn
    /\ UNCHANGED <<brokerVars, clientVars, up, restarts>>

\* ws.on('close') at the hub.
HubLosesClient(c) ==
    /\ ClientGone(c)
    /\ up' = [up EXCEPT ![c] = <<>>]
    /\ UNCHANGED <<clientVars, sock, restarts>>

AppReceives ==
    /\ sock # NoConn /\ wire[sock] # <<>>
    /\ Drain(sock)
    /\ ClientReceives(Head(wire[sock]))
    /\ Send(ReplyTo(Head(wire[sock])))
    /\ UNCHANGED <<sock, restarts>>

\* Unsubscribing from an id without a subscription changes nothing.
HubHandles(c, m) ==
    \/ m.op = "subscribe" /\ Subscribe(c, m.id, m.hz)
    \/ m.op = "unsubscribe" /\ m.id \in DOMAIN subs[c] /\ Unsubscribe(c, m.id)
    \/ m.op = "unsubscribe" /\ m.id \notin DOMAIN subs[c] /\ UNCHANGED brokerVars

HubReceives(c) ==
    /\ conn[c] = "open" /\ up[c] # <<>>
    /\ HubHandles(c, Head(up[c]))
    /\ up' = [up EXCEPT ![c] = Tail(@)]
    /\ UNCHANGED <<clientVars, sock, restarts>>

\* The hub process is restarted: a new Broker, every connection lost.
HubRestarts ==
    /\ restarts < MaxRestarts
    /\ restarts' = restarts + 1
    /\ conn' = [c \in DOMAIN conn |-> IF conn[c] = "new" THEN "new" ELSE "gone"]
    /\ up' = [c \in Clients |-> <<>>]
    /\ byGlobalId' = EmptyMap
    /\ byOwner' = [o \in Owners |-> {}]
    /\ nextGlobalId' = 1
    /\ subs' = [c \in Clients |-> EmptyMap]
    /\ latchedCache' = EmptyMap
    /\ localIdCounters' = [s \in Sources |-> 0]
    /\ httpChannels' = EmptyMap
    /\ wire' = [c \in Clients |-> <<>>]
    /\ published' = [g \in GlobalIds |-> 0]
    /\ written' = [c \in Clients |-> [g \in GlobalIds |-> NoFrame]]
    /\ shed' = [c \in Clients |-> FALSE]
    /\ UNCHANGED <<clientVars, sock>>

-----------------------------------------------------------------------------
(* Panels and sources *)

RoomToSend == sock # NoConn => Len(up[sock]) < MaxUp

AppSubscribes(p, n, hz) ==
    /\ RoomToSend
    /\ PanelSubscribes(p, n, hz)
    /\ Send(RebindMsgs(want', dir, {n}, FALSE))
    /\ UNCHANGED <<brokerVars, sock, restarts>>

AppUnsubscribes(p) ==
    /\ RoomToSend
    /\ PanelUnsubscribes(p)
    /\ Send(UnsubscribeMsgs(p))
    /\ UNCHANGED <<brokerVars, sock, restarts>>

Owns(s, n) == \E g \in DOMAIN byGlobalId :
                  byGlobalId[g].owner = s /\ byGlobalId[g].bareName = n

SourceActs ==
    /\ \/ \E s \in Sources : SourceConnects(s) \/ SourceGone(s)
       \/ \E s \in Sources, n \in Names :
             \/ /\ OwnNamesDistinct => ~Owns(s, n)
                /\ AdvertiseWithoutId(s, n, FALSE)
             \/ Unadvertise(s, n)
       \/ \E h \in HttpSources, n \in Names : InjectNew(h, n, FALSE)
    /\ UNCHANGED <<clientVars, sock, up, restarts>>

SessionNext ==
    \/ SourceActs
    \/ \E c \in Clients : Connects(c) \/ HubLosesClient(c) \/ HubReceives(c)
    \/ LosesSocket
    \/ AppReceives
    \/ HubRestarts
    \/ \E p \in Panels :
          \/ \E n \in PanelNames, hz \in Rates : AppSubscribes(p, n, hz)
          \/ AppUnsubscribes(p)

SessionSpec == SessionInit /\ [][SessionNext]_sessionVars

\* What has been sent on a live socket is handled at the other end.
SessionFairSpec ==
    /\ SessionSpec
    /\ WF_sessionVars(AppReceives)
    /\ \A c \in Clients : WF_sessionVars(HubReceives(c))
-----------------------------------------------------------------------------
\* Both ends still consider the window's socket open.
Linked == sock # NoConn /\ conn[sock] = "open"

\* The directory once the first k messages under way to the app, and once all
\* of them, have arrived.
DirAfter[k \in 0..Len(wire[sock])] ==
    IF k = 0 THEN dir ELSE Applied(DirAfter[k - 1], wire[sock][k])

Arriving == DirAfter[Len(wire[sock])]

\* What the hub makes of one request (id -> is there a max_hz?).
Granted(rates, r) ==
    IF r.op = "subscribe" THEN MapSet(rates, r.id, r.hz) ELSE MapDelete(rates, {r.id})

\* The hub's subscriptions of this window once it has handled the first k
\* requests under way, and once it has handled all of them.
GrantedAfter[k \in 0..Len(up[sock])] ==
    IF k = 0 THEN [g \in DOMAIN subs[sock] |-> subs[sock][g].maxHz]
    ELSE Granted(GrantedAfter[k - 1], up[sock][k])

Requested == GrantedAfter[Len(up[sock])]

(***************************************************************************)
(* At every moment, the messages under way to a connected window turn its  *)
(* channel list into exactly the hub's list: a snapshot followed by deltas *)
(* is never incomplete, out of order or about another hub's ids, across    *)
(* renames, departing sources, lost sockets and hub restarts (broker.ts    *)
(* 118-126, 355-394 with HubClient.ts 355-390); and then every public name *)
(* leads to the id that carries it, so that a panel asking for a channel   *)
(* by name gets that channel.                                              *)
(***************************************************************************)
DirectoryConverges ==
    Linked =>
        /\ Arriving.channels = [g \in DOMAIN byGlobalId |-> PublicName(byGlobalId[g])]
        /\ \A g \in DOMAIN byGlobalId :
              LET n == PublicName(byGlobalId[g])
              IN  n \in DOMAIN Arriving.nameToId /\ Arriving.nameToId[n] = g

(***************************************************************************)
(* Once the window has read this socket's server_info, every id it has     *)
(* bound handlers to is one the hub has it subscribed to, or will when it  *)
(* has handled the requests under way, at the rate it last asked for.      *)
(***************************************************************************)
Welcomed == \A i \in 1..Len(wire[sock]) : wire[sock][i].op # "server_info"

BoundIsSubscribed ==
    Linked /\ Welcomed =>
        \A n \in PanelNames : bound[n].boundId # NoId =>
            /\ bound[n].boundId \in DOMAIN Requested
            /\ Requested[bound[n].boundId] = (bound[n].sentMaxHz # 0)

(***************************************************************************)
(* Every panel that goes on wanting a channel that goes on existing, over  *)
(* a socket that goes on working, ends up subscribed at the hub, at the    *)
(* rate the mix of panels needs.                                           *)
(***************************************************************************)
Served(p) ==
    p \in DOMAIN want /\ Linked =>
        \A g \in DOMAIN byGlobalId : PublicName(byGlobalId[g]) = want[p].name =>
            /\ g \in DOMAIN subs[sock]
            /\ subs[sock][g].maxHz = (EffectiveMaxHz(want, want[p].name) # 0)

PanelsServed == \A p \in Panels : []<>Served(p)
=============================================================================
