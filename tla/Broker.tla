------------------------------- MODULE Broker -------------------------------
(***************************************************************************)
(* The hub (packages/hub/src/broker.ts): connections, the channel          *)
(* registry, the clients' subscriptions with their throttle, the cache of  *)
(* latched frames, the HTTP injection path, and the socket to each client. *)
(*                                                                         *)
(* Node runs one callback at a time, so every handler is one step; what    *)
(* interleaves are messages and closes of different connections, HTTP      *)
(* calls, timers and the clients reading their sockets.  JSON and binary   *)
(* data frames take the same path (onJsonData, onBinary) and are one       *)
(* action.  A connection id is a fresh uuid, so a connection that closed   *)
(* never comes back: a reconnect is another member of Sources or Clients.  *)
(***************************************************************************)
EXTENDS ChannelRegistry, Subscription, JsMap, Sequences

CONSTANTS
    Sources,        \* connections with role=source
    Clients,        \* connections with role=client
    HttpSources,    \* owner ids "http:<source_id>" of POST /api/inject
    MaxFrames,      \* bound: data frames published per channel
    HighWater,      \* MAX_BUFFERED_BYTES, counted in queued messages
    LocalIdPolicy   \* environment: how each source numbers its channels

ASSUME BrokerAssumption ==
    /\ Owners = Sources \cup HttpSources
    /\ Clients \cap Owners = {} /\ Sources \cap HttpSources = {}
    /\ 1..MaxChannels \subseteq LocalIds
    /\ MaxFrames \in Nat /\ HighWater \in Nat
    \* "hub": it leaves `id` out; "sdk": it counts itself and repeats no id;
    \* "any": each advertise may or may not carry an id of its choice.
    /\ LocalIdPolicy \in [Sources -> {"hub", "sdk", "any"}]

VARIABLES
    conn,             \* readyState of each connection, as the hub sees it
    subs,             \* subs[c]: global id -> Subscription, per client
    latchedCache,     \* global id -> newest frame, latched channels only
    localIdCounters,  \* ids handed out to channels advertised without one
    httpChannels,     \* <<http source, name>> -> global id
    wire,             \* wire[c]: messages sent to client c and not yet read
    published,        \* history: data frames accepted per channel
    written,          \* history: newest frame written per client and channel
    shed              \* history: did a data frame to this client get dropped?

hubVars == <<conn, subs, latchedCache, localIdCounters, httpChannels, wire>>
histVars == <<published, written, shed>>
brokerVars == <<regVars, hubVars, histVars>>

Frames == 1..MaxFrames

\* Wire messages.  Only what the clients act on is kept.
ChannelList == {[id |-> g, name |-> PublicName(byGlobalId[g])] : g \in DOMAIN byGlobalId}
ServerInfoMsg == [op |-> "server_info", channels |-> ChannelList]
AdvertiseMsg(g, e) == [op |-> "advertise", id |-> g, name |-> PublicName(e)]
UnadvertiseMsg(e) == [op |-> "unadvertise", name |-> PublicName(e)]
DataMsg(g, f) == [op |-> "message", id |-> g, frame |-> f]

Init ==
    /\ RegInit
    /\ conn = [c \in Sources \cup Clients |-> "new"]
    /\ subs = [c \in Clients |-> EmptyMap]
    /\ latchedCache = EmptyMap
    /\ localIdCounters = [s \in Sources |-> 0]
    /\ httpChannels = EmptyMap
    /\ wire = [c \in Clients |-> <<>>]
    /\ published = [g \in GlobalIds |-> 0]
    /\ written = [c \in Clients |-> [g \in GlobalIds |-> NoFrame]]
    /\ shed = [c \in Clients |-> FALSE]

\* broadcastToClients: control messages are never dropped.
Broadcast(msgs) ==
    wire' = [c \in Clients |-> IF conn[c] = "open" THEN wire[c] \o msgs ELSE wire[c]]

-----------------------------------------------------------------------------
(* onConnection and onClose *)

SourceConnects(s) ==
    /\ conn[s] = "new"
    /\ conn' = [conn EXCEPT ![s] = "open"]
    /\ UNCHANGED <<regVars, subs, latchedCache, localIdCounters, httpChannels,
                   wire, histVars>>

ClientConnects(c) ==
    /\ conn[c] = "new"
    /\ conn' = [conn EXCEPT ![c] = "open"]
    /\ wire' = [wire EXCEPT ![c] = Append(@, ServerInfoMsg)]
    /\ UNCHANGED <<regVars, subs, latchedCache, localIdCounters, httpChannels,
                   histVars>>

\* The close handshake has begun (readyState CLOSING); 'close' comes later.
ClientCloses(c) ==
    /\ conn[c] = "open"
    /\ conn' = [conn EXCEPT ![c] = "closing"]
    /\ UNCHANGED <<regVars, subs, latchedCache, localIdCounters, httpChannels,
                   wire, histVars>>

\* onClose.  What the client has not read yet is dropped: the hub writes no
\* more, so reading it late commutes with the close and is a read before it.
ClientGone(c) ==
    /\ conn[c] \in {"open", "closing"}
    /\ conn' = [conn EXCEPT ![c] = "gone"]
    /\ subs' = [subs EXCEPT ![c] = [g \in DOMAIN @ |-> ClearSub(@[g])]]
    /\ wire' = [wire EXCEPT ![c] = <<>>]
    /\ UNCHANGED <<regVars, latchedCache, localIdCounters, httpChannels, histVars>>

\* The ids of a set, in increasing order.
InOrder(ids) ==
    CHOOSE seq \in [1..Cardinality(ids) -> ids] :
        \A i, j \in 1..Cardinality(ids) : i < j => seq[i] < seq[j]

\* An unadvertise for each row of the source's index, in the map's order.
GoodbyeMsgs(s) ==
    LET opened == InOrder({r.opened : r \in byOwner[s]})
        row(k) == CHOOSE r \in byOwner[s] : r.opened = k
    IN  [i \in 1..Len(opened) |-> UnadvertiseMsg(byGlobalId[row(opened[i]).id])]

\* Entries that the registry drops in this step.
Removed == DOMAIN byGlobalId \ DOMAIN byGlobalId'

\* Mutant: the cached frames of a source outlive its connection.
Mut_SourceGoneKeepsCache(s) ==
    /\ conn[s] = "open"
    /\ conn' = [conn EXCEPT ![s] = "gone"]
    /\ localIdCounters' = [localIdCounters EXCEPT ![s] = 0]
    /\ RegRemoveBySource(s)
    /\ UNCHANGED <<subs, latchedCache, httpChannels, wire, histVars>>

SourceGone(s) ==
    /\ conn[s] = "open"
    /\ conn' = [conn EXCEPT ![s] = "gone"]
    /\ localIdCounters' = [localIdCounters EXCEPT ![s] = 0]
    /\ RegRemoveBySource(s)
    /\ latchedCache' = MapDelete(latchedCache, Removed)
    /\ Broadcast(GoodbyeMsgs(s))
    /\ UNCHANGED <<subs, httpChannels, histVars>>

-----------------------------------------------------------------------------
(* Source handlers *)

\* broadcastAdvertise of the renamed entries, then of the new one.
AdvertiseMsgs(renamed) ==
    LET ids == InOrder(renamed) \o <<nextGlobalId>>
    IN  [i \in 1..Len(ids) |-> AdvertiseMsg(ids[i], byGlobalId'[ids[i]])]

\* onAdvertise with an id chosen by the source.
AdvertiseWithId(s, l, n, lat) ==
    /\ conn[s] = "open"
    /\ \/ LocalIdPolicy[s] = "any"
       \/ LocalIdPolicy[s] = "sdk" /\ ResolveLocal(s, l) = {}
    /\ RegAdvertise(s, l, n, lat)
    /\ Broadcast(AdvertiseMsgs(Renamed(s, n)))
    /\ UNCHANGED <<conn, subs, latchedCache, localIdCounters, httpChannels, histVars>>

\* onAdvertise without one: nextLocalId.
AdvertiseWithoutId(s, n, lat) ==
    /\ conn[s] = "open"
    /\ LocalIdPolicy[s] # "sdk"
    /\ localIdCounters' = [localIdCounters EXCEPT ![s] = @ + 1]
    /\ RegAdvertise(s, localIdCounters[s] + 1, n, lat)
    /\ Broadcast(AdvertiseMsgs(Renamed(s, n)))
    /\ UNCHANGED <<conn, subs, latchedCache, httpChannels, histVars>>

Unadvertise(s, n) ==
    /\ conn[s] = "open"
    /\ RegUnadvertise(s, n)
    /\ latchedCache' = MapDelete(latchedCache, Removed)
    /\ \E g \in Removed : Broadcast(<<UnadvertiseMsg(byGlobalId[g])>>)
    /\ UNCHANGED <<conn, subs, localIdCounters, httpChannels, histVars>>

-----------------------------------------------------------------------------
(* fanout, deliver and trySend *)

BackedUp(c) == Len(wire[c]) > HighWater

\* The subscription of a client the frame is fanned out to.
Reaches(c, g) == conn[c] = "open" /\ g \in DOMAIN subs[c]
SendsNow(c, g) == Reaches(c, g) /\ ~MustWait(subs[c][g])

\* What deliver leaves in the subscription record.
Delivered(c, s, f) ==
    IF MustWait(s) THEN Park(s, f) ELSE IF BackedUp(c) THEN s ELSE Stamped(s)

Fanout(g, f) ==
    /\ subs' = [c \in Clients |->
          IF Reaches(c, g) THEN [subs[c] EXCEPT ![g] = Delivered(c, @, f)]
          ELSE subs[c]]
    /\ wire' = [c \in Clients |->
          IF SendsNow(c, g) /\ ~BackedUp(c) THEN Append(wire[c], DataMsg(g, f))
          ELSE wire[c]]
    /\ written' = [c \in Clients |->
          IF SendsNow(c, g) /\ ~BackedUp(c) THEN [written[c] EXCEPT ![g] = f]
          ELSE written[c]]
    /\ shed' = [c \in Clients |-> shed[c] \/ (SendsNow(c, g) /\ BackedUp(c))]

\* The newest frame of g, counted and, on a latched channel, cached.
Accept(g, latched) ==
    /\ published[g] < MaxFrames
    /\ published' = [published EXCEPT ![g] = @ + 1]
    /\ latchedCache' = IF latched THEN MapSet(latchedCache, g, published[g] + 1)
                       ELSE latchedCache

\* onJsonData and onBinary; a frame on an unknown local id is ignored.
Data(s, l) ==
    /\ conn[s] = "open"
    /\ \E r \in ResolveLocal(s, l) :
          /\ Accept(r.id, byGlobalId[r.id].latched)
          /\ Fanout(r.id, published[r.id] + 1)
    /\ UNCHANGED <<regVars, conn, localIdCounters, httpChannels>>

\* injectJson on a channel it has advertised before.
InjectKnown(h, n) ==
    /\ <<h, n>> \in DOMAIN httpChannels
    /\ LET g == httpChannels[<<h, n>>]
       IN  /\ Accept(g, g \in DOMAIN byGlobalId /\ byGlobalId[g].latched)
           /\ Fanout(g, published[g] + 1)
    /\ UNCHANGED <<regVars, conn, localIdCounters, httpChannels>>

\* injectJson on a new channel: advertise it (the renamed entries are not
\* announced), then relay the frame, which nobody can have subscribed to yet.
InjectNew(h, n, lat) ==
    /\ <<h, n>> \notin DOMAIN httpChannels
    /\ RegAdvertise(h, Cardinality(DOMAIN httpChannels) + 1, n, lat)
    /\ httpChannels' = MapSet(httpChannels, <<h, n>>, nextGlobalId)
    /\ Broadcast(AdvertiseMsgs({}))
    /\ Accept(nextGlobalId, lat)
    /\ UNCHANGED <<conn, subs, localIdCounters, written, shed>>

-----------------------------------------------------------------------------
(* Client handlers; every client in the repository names one channel per   *)
(* request.                                                                *)

OldSub(c, g) == IF g \in DOMAIN subs[c] THEN subs[c][g] ELSE NewSub(FALSE)

\* trySend of frame f to client c, on behalf of subscription record s.
TrySend(c, g, s, f) ==
    IF BackedUp(c)
    THEN /\ subs' = [subs EXCEPT ![c] = MapSet(@, g, s)]
         /\ shed' = [shed EXCEPT ![c] = TRUE]
         /\ UNCHANGED <<wire, written>>
    ELSE /\ subs' = [subs EXCEPT ![c] = MapSet(@, g, Stamped(s))]
         /\ wire' = [wire EXCEPT ![c] = Append(@, DataMsg(g, f))]
         /\ written' = [written EXCEPT ![c][g] =
                           IF f > @ THEN f ELSE @]
         /\ UNCHANGED shed

\* Mutant: no replay of a latched channel to a late subscriber.
Mut_SubscribeNoReplay(c, g, hz) ==
    /\ conn[c] = "open"
    /\ subs' = [subs EXCEPT ![c] = MapSet(@, g, Renewed(OldSub(c, g), hz))]
    /\ UNCHANGED <<wire, written, shed>>
    /\ UNCHANGED <<regVars, conn, latchedCache, localIdCounters, httpChannels,
                   published>>

\* The hub does not test whether the channel exists.
Subscribe(c, g, hz) ==
    /\ conn[c] = "open"
    /\ LET s == Renewed(OldSub(c, g), hz)
       IN  IF g \in DOMAIN latchedCache
           THEN TrySend(c, g, s, latchedCache[g])
           ELSE /\ subs' = [subs EXCEPT ![c] = MapSet(@, g, s)]
                /\ UNCHANGED <<wire, written, shed>>
    /\ UNCHANGED <<regVars, conn, latchedCache, localIdCounters, httpChannels,
                   published>>

Unsubscribe(c, g) ==
    /\ conn[c] = "open"
    /\ g \in DOMAIN subs[c]
    /\ subs' = [subs EXCEPT ![c] = MapDelete(@, {g})]
    /\ UNCHANGED <<regVars, conn, latchedCache, localIdCounters, httpChannels,
                   wire, histVars>>

-----------------------------------------------------------------------------
(* Time, timers and sockets *)

IntervalElapses(c, g) ==
    /\ g \in DOMAIN subs[c] /\ subs[c][g].recent
    /\ subs' = [subs EXCEPT ![c][g] = Elapsed(@)]
    /\ UNCHANGED <<regVars, conn, latchedCache, localIdCounters, httpChannels,
                   wire, histVars>>

TimerFires(c, g) ==
    /\ g \in DOMAIN subs[c] /\ subs[c][g].timer = "due"
    /\ LET s == Unparked(subs[c][g])
           f == subs[c][g].pending
       IN  IF f # NoFrame /\ conn[c] = "open"
           THEN TrySend(c, g, s, f)
           ELSE /\ subs' = [subs EXCEPT ![c][g] = s]
                /\ UNCHANGED <<wire, written, shed>>
    /\ UNCHANGED <<regVars, conn, latchedCache, localIdCounters, httpChannels,
                   published>>

\* The client's end takes the next message off its socket.
Drain(c) ==
    /\ wire[c] # <<>>
    /\ wire' = [wire EXCEPT ![c] = Tail(@)]
    /\ UNCHANGED <<regVars, conn, subs, latchedCache, localIdCounters,
                   httpChannels, histVars>>

SourceStep(s) ==
    \/ SourceConnects(s)
    \/ SourceGone(s)
    \/ \E n \in Names, lat \in BOOLEAN :
          \/ \E l \in LocalIds : AdvertiseWithId(s, l, n, lat)
          \/ AdvertiseWithoutId(s, n, lat)
    \/ \E n \in Names : Unadvertise(s, n)
    \/ \E l \in LocalIds : Data(s, l)

HttpStep(h) ==
    \E n \in Names :
        \/ InjectKnown(h, n)
        \/ \E lat \in BOOLEAN : InjectNew(h, n, lat)

ClientStep(c) ==
    \/ ClientConnects(c)
    \/ ClientCloses(c)
    \/ ClientGone(c)
    \* Ids it has been told of, removed ones included.
    \/ \E g \in 1..(nextGlobalId - 1), hz \in BOOLEAN : Subscribe(c, g, hz)
    \/ \E g \in GlobalIds :
          Unsubscribe(c, g) \/ IntervalElapses(c, g) \/ TimerFires(c, g)

HubNext ==
    \/ \E s \in Sources : SourceStep(s)
    \/ \E h \in HttpSources : HttpStep(h)
    \/ \E c \in Clients : ClientStep(c)

Next == HubNext \/ \E c \in Clients : Drain(c)

Spec == Init /\ [][Next]_brokerVars
-----------------------------------------------------------------------------
(***************************************************************************)
(* The latched cache holds exactly the live latched channels that have     *)
(* published, each with its newest frame: nothing of a source that left or *)
(* a channel that was withdrawn is ever replayed (lines 54-56, 194-267,    *)
(* 382-394).                                                               *)
(***************************************************************************)
LatchedCacheFaithful ==
    /\ \A g \in DOMAIN latchedCache :
          /\ g \in DOMAIN byGlobalId /\ byGlobalId[g].latched
          /\ latchedCache[g] = published[g]
    /\ \A g \in DOMAIN byGlobalId :
          byGlobalId[g].latched /\ published[g] > 0 => g \in DOMAIN latchedCache

(***************************************************************************)
(* A trailing timer runs only for a subscription with a parked frame, and  *)
(* only while the client's connection is known to the hub: no close, re-   *)
(* subscribe or unsubscribe leaves one behind (clearSub, 293-299; onClose).*)
(***************************************************************************)
TimersBelongToConns ==
    \A c \in Clients : \A g \in DOMAIN subs[c] :
        /\ subs[c][g].pending # NoFrame <=> subs[c][g].timer # "off"
        /\ subs[c][g].timer # "off" => conn[c] \in {"open", "closing"}

(***************************************************************************)
(* "Latest frame per latched channel ... replayed to every new subscriber" *)
(* (54-55): a connected subscriber of a latched channel has been sent the  *)
(* cached frame, or has it parked for the trailing edge, in every order of *)
(* publishing, subscribing, rate changes and late timers.  The premise is  *)
(* that backpressure never dropped a frame to this client.                 *)
(***************************************************************************)
LatchedReachesSubscriber ==
    \A c \in Clients : \A g \in DOMAIN subs[c] \cap DOMAIN latchedCache :
        conn[c] = "open" /\ ~shed[c] =>
            latchedCache[g] \in {written[c][g], subs[c][g].pending}

(***************************************************************************)
(* "Remove ... all channels owned by a disconnected source"                *)
(* (channel_registry.ts:119): a source that is gone owns no live channel.  *)
(***************************************************************************)
GoneOwnsNothing ==
    \A g \in DOMAIN byGlobalId :
        byGlobalId[g].owner \in Sources => conn[byGlobalId[g].owner] = "open"
=============================================================================
