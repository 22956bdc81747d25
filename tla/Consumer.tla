----------------------------- MODULE Consumer -----------------------------
(***************************************************************************)
(* Consumer of the Python SDK (sdks/python/webviz/client.py 98-199), which *)
(* receives channels by name.  Two threads, the caller's and the reader's, *)
(* share its tables under a lock that each takes and releases several      *)
(* times per call; a step is what happens under the lock once.             *)
(*                                                                         *)
(* The hub gives ids to names, renames channels on collision and ends      *)
(* them; what it sends stays in order.  Its server_info is a run of        *)
(* advertises.  The connection lasts: a Consumer never connects again.     *)
(***************************************************************************)
EXTENDS Integers, Sequences, JsMap

CONSTANTS
    ChannelNames,
    MaxChannels,   \* bound: channels ever advertised
    MaxRenames,    \* bound: renames by the hub
    MaxHubFrames   \* bound: data frames

ASSUME ConsumerAssumption ==
    /\ {MaxChannels, MaxRenames, MaxHubFrames} \subseteq Nat
    /\ ChannelNames \cap {"new", "gone"} = {}

ChannelIds == 1..MaxChannels
Threads == {"caller", "reader"}

VARIABLES
    hubName,     \* hubName[i]: public name, or "new", or "gone"
    hubSubs,     \* hubSubs[i]: subscribe messages the hub got for i
    inbox,       \* messages on their way to the reader
    byId, nameToId, wanted, subscribed,
    at,          \* what each thread does next
    routed,      \* history: frames with the names sent and called back under
    renames, hubFrames  \* counters for the bounds

consumerVars == <<hubName, hubSubs, inbox, byId, nameToId, wanted, subscribed, at,
                  routed, renames, hubFrames>>

Idle == [do |-> "idle", id |-> 0]
AboutTo(what, i) == [do |-> what, id |-> i]

ConsumerInit ==
    /\ hubName = [i \in ChannelIds |-> "new"]
    /\ hubSubs = [i \in ChannelIds |-> 0]
    /\ inbox = <<>>
    /\ byId = EmptyMap /\ nameToId = EmptyMap
    /\ wanted = {} /\ subscribed = {}
    /\ at = [t \in Threads |-> Idle]
    /\ routed = {}
    /\ renames = 0 /\ hubFrames = 0

-----------------------------------------------------------------------------
(* The hub *)

Free(n) == \A i \in ChannelIds : hubName[i] # n
Adv(i, n) == [op |-> "advertise", id |-> i, name |-> n]

HubAdvertises(i, n) ==
    /\ hubName[i] = "new"
    /\ \A j \in 1 .. i - 1 : hubName[j] # "new"
    /\ Free(n)
    /\ hubName' = [hubName EXCEPT ![i] = n]
    /\ inbox' = Append(inbox, Adv(i, n))
    /\ UNCHANGED <<hubSubs, byId, nameToId, wanted, subscribed, at, routed, renames,
                   hubFrames>>

HubRenames(i, n) ==
    /\ renames < MaxRenames
    /\ renames' = renames + 1
    /\ hubName[i] \in ChannelNames /\ Free(n)
    /\ hubName' = [hubName EXCEPT ![i] = n]
    /\ inbox' = Append(inbox, Adv(i, n))
    /\ UNCHANGED <<hubSubs, byId, nameToId, wanted, subscribed, at, routed, hubFrames>>

HubUnadvertises(i) ==
    /\ hubName[i] \in ChannelNames
    /\ hubName' = [hubName EXCEPT ![i] = "gone"]
    /\ inbox' = Append(inbox, [op |-> "unadvertise", id |-> 0, name |-> hubName[i]])
    /\ UNCHANGED <<hubSubs, byId, nameToId, wanted, subscribed, at, routed, renames,
                   hubFrames>>

HubSends(i) ==
    /\ hubFrames < MaxHubFrames
    /\ hubFrames' = hubFrames + 1
    /\ hubName[i] \in ChannelNames /\ hubSubs[i] > 0
    /\ inbox' = Append(inbox, [op |-> "message", id |-> i, name |-> hubName[i]])
    /\ UNCHANGED <<hubName, hubSubs, byId, nameToId, wanted, subscribed, at, routed,
                   renames>>

-----------------------------------------------------------------------------
(* The caller's thread *)

\* subscribe, up to its release of the lock
SubscribeName(n) ==
    /\ at["caller"] = Idle
    /\ n \notin wanted
    /\ wanted' = wanted \cup {n}
    /\ at' = [at EXCEPT !["caller"] =
          IF n \in DOMAIN nameToId THEN AboutTo("ensure", nameToId[n]) ELSE Idle]
    /\ UNCHANGED <<hubName, hubSubs, inbox, byId, nameToId, subscribed, routed, renames,
                   hubFrames>>

(* Both threads *)

\* Mutant: an id is asked for but not noted.
Mut_EnsureForgets(t) ==
    /\ at[t].do = "ensure"
    /\ at' = [at EXCEPT ![t] =
          IF at[t].id \in subscribed THEN Idle ELSE AboutTo("send", at[t].id)]
    /\ UNCHANGED <<hubName, hubSubs, inbox, byId, nameToId, wanted, subscribed, routed,
                   renames, hubFrames>>

\* _ensure_subscribed: check and note under the lock
EnsureSubscribed(t) ==
    /\ at[t].do = "ensure"
    /\ IF at[t].id \in subscribed
       THEN at' = [at EXCEPT ![t] = Idle] /\ UNCHANGED subscribed
       ELSE /\ at' = [at EXCEPT ![t] = AboutTo("send", at[t].id)]
            /\ subscribed' = subscribed \cup {at[t].id}
    /\ UNCHANGED <<hubName, hubSubs, inbox, byId, nameToId, wanted, routed, renames,
                   hubFrames>>

\* _send_json of the subscribe
SendSubscribe(t) ==
    /\ at[t].do = "send"
    /\ hubSubs' = [hubSubs EXCEPT ![at[t].id] = @ + 1]
    /\ at' = [at EXCEPT ![t] = Idle]
    /\ UNCHANGED <<hubName, inbox, byId, nameToId, wanted, subscribed, routed, renames,
                   hubFrames>>

-----------------------------------------------------------------------------
(* The reader's thread: _handle *)

\* The message it takes next.
Reads(op) ==
    /\ at["reader"] = Idle
    /\ inbox # <<>> /\ Head(inbox).op = op
    /\ inbox' = Tail(inbox)

\* Mutant: a channel that appears is not asked for.
Mut_RegisterUnasked ==
    /\ Reads("advertise")
    /\ LET m == Head(inbox) IN
       /\ byId' = MapSet(byId, m.id, m.name)
       /\ nameToId' = MapSet(nameToId, m.name, m.id)
    /\ UNCHANGED <<hubName, hubSubs, wanted, subscribed, at, routed, renames, hubFrames>>

\* _register, up to its release of the lock
Register ==
    /\ Reads("advertise")
    /\ LET m == Head(inbox) IN
       /\ byId' = MapSet(byId, m.id, m.name)
       /\ nameToId' = MapSet(nameToId, m.name, m.id)
       /\ at' = [at EXCEPT !["reader"] =
             IF m.name \in wanted THEN AboutTo("ensure", m.id) ELSE Idle]
    /\ UNCHANGED <<hubName, hubSubs, wanted, subscribed, routed, renames, hubFrames>>

\* _unregister; an older name of the channel stays in _name_to_id.
Unregister ==
    /\ Reads("unadvertise")
    /\ LET n == Head(inbox).name
           ids == IF n \in DOMAIN nameToId THEN {nameToId[n]} ELSE {}
       IN  /\ nameToId' = MapDelete(nameToId, {n})
           /\ byId' = MapDelete(byId, ids)
           /\ subscribed' = subscribed \ ids
    /\ UNCHANGED <<hubName, hubSubs, wanted, at, routed, renames, hubFrames>>

\* A data frame, and the callback it goes to.
RouteMessage ==
    /\ Reads("message")
    /\ LET m == Head(inbox) IN
       routed' = IF m.id \in DOMAIN byId /\ byId[m.id] \in wanted
                 THEN routed \cup {[sent |-> m.name, to |-> byId[m.id]]} ELSE routed
    /\ UNCHANGED <<hubName, hubSubs, byId, nameToId, wanted, subscribed, at, renames,
                   hubFrames>>

ConsumerNext ==
    \/ \E i \in ChannelIds, n \in ChannelNames : HubAdvertises(i, n) \/ HubRenames(i, n)
    \/ \E i \in ChannelIds : HubUnadvertises(i) \/ HubSends(i)
    \/ \E n \in ChannelNames : SubscribeName(n)
    \/ \E t \in Threads : EnsureSubscribed(t) \/ SendSubscribe(t)
    \/ Register \/ Unregister \/ RouteMessage

\* Both threads run, and nobody keeps the lock.
ConsumerFairness ==
    /\ \A t \in Threads : WF_consumerVars(EnsureSubscribed(t) \/ SendSubscribe(t))
    /\ WF_consumerVars(Register \/ Unregister \/ RouteMessage)
-----------------------------------------------------------------------------
(***************************************************************************)
(* However the two threads meet, a callback is given a frame once and only *)
(* its own: a channel that lives is asked for once (its frames would       *)
(* otherwise come at another rate, its latched frame twice, client.py      *)
(* 134-139), and a frame goes to the callback of the name its channel had  *)
(* when the hub sent it, over renames and departures (190-195).            *)
(***************************************************************************)
DeliveredOnce ==
    /\ \A i \in ChannelIds : hubName[i] \in ChannelNames => hubSubs[i] <= 1
    /\ \A r \in routed : r.to = r.sent

(***************************************************************************)
(* "Safe to call before the channel exists; it subscribes once it appears" *)
(* (client.py 126), and while it appears.                                  *)
(***************************************************************************)
ConsumerServed ==
    \A i \in ChannelIds, n \in ChannelNames :
        (n \in wanted /\ hubName[i] = n) ~> (hubSubs[i] > 0 \/ hubName[i] # n)
=============================================================================
