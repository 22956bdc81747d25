----------------------------- MODULE Publisher -----------------------------
(***************************************************************************)
(* SourcePublisher (packages/app/src/core/sourcePublisher.ts): one window  *)
(* of the app publishing channels to the hub over a socket of its own.     *)
(*                                                                         *)
(* The hub end of a socket is its table of channels by their local ids     *)
(* (`told`, `placed`: ChannelRegistry's byOwner); it takes messages in     *)
(* order and sends a source nothing, so it takes them at once.  It is told *)
(* to drop a channel by its name alone, and two handles may have one name. *)
(***************************************************************************)
EXTENDS AppSocket

CONSTANTS
    PublishNames, \* names of channels
    MaxHandles,   \* bound: calls of advertise
    MaxSends      \* bound: calls of send

ASSUME PublisherAssumption == MaxHandles \in Nat /\ MaxSends \in Nat

Ids == 1..MaxHandles
NotTold == -1
NoName == "none"
NoRows == [i \in Ids |-> NotTold]
NoPlaces == [i \in Ids |-> 0]

VARIABLES
    connected, channels, nextLocalId, reconnectTimer,
    names,         \* name of each channel
    last,          \* last value of each channel, 0 before the first send
    handles,       \* handles their callers have not closed
    told,          \* told[s][i]: what the hub has of channel i from socket s
    placed,        \* placed[s][i]: its place in the hub's Map of s's channels
    crossed,       \* history: names of which a handle was closed while another
                   \* was open, on this socket
    sends          \* counter for the bound

hubTable == <<told, placed>>
publisherVars == <<connected, channels, nextLocalId, reconnectTimer, names, last, handles,
                   hubTable, crossed, sends>>
pubVars == <<socketVars, publisherVars>>

PublisherInit ==
    /\ connected = FALSE
    /\ channels = {} /\ nextLocalId = 1
    /\ reconnectTimer = FALSE
    /\ names = [i \in Ids |-> NoName]
    /\ last = [i \in Ids |-> 0]
    /\ handles = {}
    /\ told = [s \in Sockets |-> NoRows]
    /\ placed = [s \in Sockets |-> NoPlaces]
    /\ crossed = {}
    /\ sends = 0

\* this.ws.send while it is still connecting is an InvalidStateError.
Throws == connected /\ ws # Null /\ phase[ws] = "connecting"

\* A message on this.ws reaches the hub.
Reaches == connected /\ Alive /\ phase[ws] = "open"

\* ensureSocket
EnsureSocket ==
    IF ws # Null
    THEN UNCHANGED <<ws, connected, phase>>
    ELSE NewSocket(phase) /\ connected' = FALSE

-----------------------------------------------------------------------------
(* The hub's table of a socket's channels *)

\* A Map keeps the order in which its keys were first set.  With the sockets in
\* phases p, this is a place behind all rows there are: ids only grow, and a
\* channel that was told before is told again only when one more socket opens.
RowPlace(i, p) ==
    MaxHandles * Cardinality({s \in Sockets : p[s] \notin {"none", "connecting"}}) + i

RowsNamed(s, n) == {i \in Ids : told[s][i] # NotTold /\ names[i] = n}

\* The hub's unadvertise finds the first row of that name.
FirstNamed(s, n) ==
    CHOOSE i \in RowsNamed(s, n) : \A j \in RowsNamed(s, n) : placed[s][i] <= placed[s][j]

ToldWithout(s, n) ==
    IF RowsNamed(s, n) = {} THEN told ELSE [told EXCEPT ![s][FirstNamed(s, n)] = NotTold]

\* removeBySource, when the hub has lost the socket
HubForgets(s) ==
    /\ told' = [told EXCEPT ![s] = NoRows]
    /\ placed' = [placed EXCEPT ![s] = NoPlaces]

-----------------------------------------------------------------------------
(* Calls of the owner of a channel *)

\* advertise; its caller gets no handle if sendAdvertise throws.
Advertise(n) ==
    /\ nextLocalId <= MaxHandles
    /\ promptCloses => Closing = {}
    /\ nextLocalId' = nextLocalId + 1
    /\ names' = [names EXCEPT ![nextLocalId] = n]
    /\ channels' = channels \cup {nextLocalId}
    /\ handles' = IF Throws THEN handles ELSE handles \cup {nextLocalId}
    /\ EnsureSocket
    /\ IF Reaches
       THEN /\ told' = [told EXCEPT ![ws][nextLocalId] = 0]
            /\ placed' = [placed EXCEPT ![ws][nextLocalId] = RowPlace(nextLocalId, phase)]
       ELSE UNCHANGED hubTable
    /\ UNCHANGED <<hubEnd, drops, promptCloses, reconnectTimer, last, crossed, sends>>

\* A value sent on this.ws, where the hub drops what is not advertised.
ToldValue(i, v) ==
    IF Reaches /\ told[ws][i] # NotTold THEN [told EXCEPT ![ws][i] = v] ELSE told

\* handle.send
Send(i) ==
    /\ i \in handles
    /\ sends < MaxSends
    /\ sends' = sends + 1
    /\ last' = [last EXCEPT ![i] = sends + 1]
    /\ told' = ToldValue(i, sends + 1)
    /\ UNCHANGED <<socketVars, connected, channels, nextLocalId, reconnectTimer, names,
                   handles, placed, crossed>>

\* Open handles of a name.
OpenNamed(n) == {i \in handles : names[i] = n}

\* handle.close: the hub drops its first channel of that name.  If the
\* unadvertise throws, the channel stays.  The last one takes the socket with it.
Close(i) ==
    /\ i \in handles
    /\ handles' = handles \ {i}
    /\ told' = IF Reaches THEN ToldWithout(ws, names[i]) ELSE told
    /\ crossed' = IF OpenNamed(names[i]) = {i} THEN crossed \ {names[i]}
                  ELSE IF Reaches THEN crossed \cup {names[i]} ELSE crossed
    /\ IF Throws
       THEN UNCHANGED <<channels, ws, connected, reconnectTimer, phase>>
       ELSE /\ channels' = channels \ {i}
            /\ IF channels' # {}
               THEN UNCHANGED <<ws, connected, reconnectTimer, phase>>
               ELSE /\ reconnectTimer' = FALSE
                    /\ connected' = FALSE
                    /\ ws' = Null
                    /\ phase' = Shut(ws)
    /\ UNCHANGED <<hubEnd, drops, promptCloses, nextLocalId, names, last, placed, sends>>

-----------------------------------------------------------------------------
(* Callbacks *)

\* Mutant: the last values are not sent again.
Mut_ToldOnOpenUnlatched(s) ==
    IF ws = s
    THEN [told EXCEPT ![s] = [i \in Ids |-> IF i \in channels THEN 0 ELSE NotTold]]
    ELSE told

\* What onopen of socket s sends: it advertises on this.ws, but sends the last
\* values on its own socket.
ToldOnOpen(s) ==
    IF ws = s
    THEN [told EXCEPT ![s] = [i \in Ids |-> IF i \in channels THEN last[i] ELSE NotTold]]
    ELSE IF Alive /\ phase[ws] = "open"
    THEN [told EXCEPT ![ws] = [i \in Ids |-> IF i \in channels THEN 0 ELSE @[i]]]
    ELSE told

\* Where it puts them: this.ws keeps the rows it has.
PlacedOnOpen(s) ==
    IF ws = s \/ (Alive /\ phase[ws] = "open")
    THEN [placed EXCEPT ![ws] = [i \in Ids |->
             IF i \in channels /\ told[ws][i] = NotTold THEN RowPlace(i, phase') ELSE @[i]]]
    ELSE placed

OnOpen(s) ==
    /\ HandshakeDone(s)
    /\ connected' = TRUE
    /\ told' = ToldOnOpen(s)
    /\ placed' = PlacedOnOpen(s)
    /\ crossed' = IF ws = s THEN {} ELSE crossed
    /\ UNCHANGED <<ws, channels, nextLocalId, reconnectTimer, names, last, handles, sends>>

\* Mutant: a loss before the socket was open is not followed by a reconnect.
Mut_OnCloseGivesUp(s) ==
    /\ SocketEnds(s)
    /\ connected' = FALSE
    /\ ws' = Null
    /\ reconnectTimer' = (reconnectTimer \/ (connected /\ channels # {}))
    /\ HubForgets(s)
    /\ UNCHANGED <<channels, nextLocalId, names, last, handles, crossed, sends>>

\* onclose, of whichever socket.
OnClose(s) ==
    /\ SocketEnds(s)
    /\ connected' = FALSE
    /\ ws' = Null
    /\ reconnectTimer' = (reconnectTimer \/ channels # {})
    /\ HubForgets(s)
    /\ UNCHANGED <<channels, nextLocalId, names, last, handles, crossed, sends>>

\* The hub stops or the network breaks; the window learns of it later.
Breaks(s) ==
    /\ HubLoses(s)
    /\ HubForgets(s)
    /\ UNCHANGED <<connected, channels, nextLocalId, reconnectTimer, names, last, handles,
                   crossed, sends>>

\* The callback of reconnectTimer.
Reconnect ==
    /\ reconnectTimer
    /\ reconnectTimer' = FALSE
    /\ IF channels # {} THEN EnsureSocket ELSE UNCHANGED <<ws, connected, phase>>
    /\ UNCHANGED <<hubEnd, drops, promptCloses, channels, nextLocalId, names, last, handles,
                   hubTable, crossed, sends>>

PublisherNext ==
    \/ \E n \in PublishNames : Advertise(n)
    \/ \E i \in Ids : Send(i) \/ Close(i)
    \/ \E s \in Sockets : OnOpen(s) \/ OnClose(s) \/ Breaks(s)
    \/ Reconnect

PublisherSpec == SocketInit /\ PublisherInit /\ [][PublisherNext]_pubVars

\* The browser reports what happens to its sockets and runs timers.
PublisherFairness ==
    /\ \A s \in Sockets : WF_pubVars(OnOpen(s)) /\ WF_pubVars(OnClose(s))
    /\ WF_pubVars(Reconnect)
-----------------------------------------------------------------------------
(***************************************************************************)
(* Unless a 'close' event comes after the next advertise, there is one     *)
(* socket, the hub has as many channels of each name from it as there are  *)
(* open handles, and they are exactly the channels of the open handles     *)
(* with their last values, except under a name of which a handle was       *)
(* closed before another: the hub may have dropped the other's channel     *)
(* (sourcePublisher.ts 7-8 "owns one shared role=source&id=ui socket per   *)
(* window", 97-98 "the hub and subscribers are in sync after a             *)
(* (re)connect").                                                          *)
(***************************************************************************)
OneSocket == {s \in Sockets : phase[s] \in {"connecting", "open"}} \subseteq {ws}

AsManyAsOpen ==
    \A n \in PublishNames : Cardinality(RowsNamed(ws, n)) = Cardinality(OpenNamed(n))

LastTold ==
    \A i \in Ids : names[i] \notin crossed =>
        told[ws][i] = IF i \in channels THEN last[i] ELSE NotTold

HubInSync ==
    promptCloses =>
        /\ OneSocket
        /\ channels = handles
        /\ Reaches => AsManyAsOpen /\ LastTold

(***************************************************************************)
(* Closing a handle is to "unadvertise and release the channel"            *)
(* (sourcePublisher.ts 26), and no other: while the socket is up, the hub  *)
(* has the channel of every open handle.                                   *)
(***************************************************************************)
OpenIsAdvertised ==
    promptCloses /\ Reaches => \A i \in handles : told[ws][i] # NotTold

(***************************************************************************)
(* However sockets come and go, the hub gets to know the channel of every  *)
(* handle that stays open, and, if no 'close' event is stale, what the     *)
(* handle was last given (sourcePublisher.ts 14-17); unless a handle of    *)
(* the same name is closed.                                                *)
(***************************************************************************)
Published(i) ==
    \E s \in hubEnd : told[s][i] \in IF promptCloses THEN {last[i]} ELSE 0..MaxSends

EventuallyPublished ==
    \A i \in Ids, v \in 0..MaxSends :
        (i \in handles /\ last[i] = v)
            ~> (Published(i) \/ i \notin handles \/ last[i] # v \/ names[i] \in crossed)
=============================================================================
