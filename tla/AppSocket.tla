---------------------------- MODULE AppSocket ----------------------------
(***************************************************************************)
(* The sockets a component of the app opens to the hub as a source, one    *)
(* after the other (the browser's WebSocket): `phase` is readyState,       *)
(* `hubEnd` the sockets the hub has a live connection of.  The hub's end   *)
(* may go first.  'open' and 'close' are later tasks; when a new socket    *)
(* has been made since, the 'close' of an old one is stale.                *)
(***************************************************************************)
EXTENDS Integers, FiniteSets

CONSTANTS
    MaxSockets,   \* bound: sockets ever created
    MaxDrops      \* bound: connections that fail or break

ASSUME AppSocketAssumption == MaxSockets \in Nat /\ MaxDrops \in Nat

Sockets == 1..MaxSockets
Null == 0

VARIABLES
    ws,            \* the component's current socket
    phase, hubEnd,
    drops,         \* counter for the bound
    promptCloses   \* rigid: no 'close' event is stale

socketVars == <<ws, phase, hubEnd, drops, promptCloses>>

SocketInit ==
    /\ ws = Null
    /\ phase = [s \in Sockets |-> "none"]
    /\ hubEnd = {}
    /\ drops = 0
    /\ promptCloses \in BOOLEAN

Closing == {s \in Sockets : phase[s] = "closing"}
Alive == ws \in hubEnd

\* socket.close()
Shut(s) == [t \in Sockets |->
    IF t = s /\ phase[t] \in {"connecting", "open"} THEN "closing" ELSE phase[t]]

\* new WebSocket(...), after the phases have become p.
NewSocket(p) ==
    LET s == Cardinality({t \in Sockets : p[t] # "none"}) + 1 IN
    /\ s \in Sockets
    /\ ws' = s
    /\ phase' = [p EXCEPT ![s] = "connecting"]

-----------------------------------------------------------------------------
(* What happens to a socket; the component's callbacks add their part. *)

HandshakeDone(s) ==
    /\ phase[s] = "connecting"
    /\ phase' = [phase EXCEPT ![s] = "open"]
    /\ hubEnd' = hubEnd \cup {s}
    /\ UNCHANGED <<drops, promptCloses>>

\* The hub stops or the network breaks.
HubLoses(s) ==
    /\ s \in hubEnd
    /\ drops < MaxDrops
    /\ drops' = drops + 1
    /\ hubEnd' = hubEnd \ {s}
    /\ UNCHANGED <<ws, phase, promptCloses>>

\* The 'close' event: of a socket that was closed here, that the hub lost, or
\* that could not connect.
SocketEnds(s) ==
    /\ \/ phase[s] = "closing" /\ UNCHANGED drops
       \/ phase[s] = "open" /\ s \notin hubEnd /\ UNCHANGED drops
       \/ phase[s] = "connecting" /\ drops < MaxDrops /\ drops' = drops + 1
    /\ phase' = [phase EXCEPT ![s] = "closed"]
    /\ hubEnd' = hubEnd \ {s}
    /\ UNCHANGED promptCloses

=============================================================================
