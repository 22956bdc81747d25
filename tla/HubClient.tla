----------------------------- MODULE HubClient -----------------------------
(***************************************************************************)
(* The app's one connection to the hub (packages/app/src/protocol/         *)
(* HubClient.ts): the directory of channels it keeps from server_info,     *)
(* advertise and unadvertise, and the panels' subscriptions by channel     *)
(* name, which it re-binds to ids whenever the directory changes.          *)
(*                                                                         *)
(* The actions here say what happens to the app's own state; each yields   *)
(* the messages it sends, which HubSession.tla puts on the socket.         *)
(* Client-side (demo) channels, the router and the latched mirror are left *)
(* out: they neither read nor write what is modelled.                      *)
(***************************************************************************)
EXTENDS Integers, JsMap, SequencesExt

CONSTANTS
    Panels,      \* subscribers in this window
    PanelNames,  \* channel names that panels may ask for
    Rates        \* requested max_hz, 0 for none

Unsent == -1     \* sentMaxHz = undefined
NoId == 0        \* boundId = null

ASSUME HubClientAssumption == Rates \subseteq Nat /\ IsFiniteSet(PanelNames)

VARIABLES
    dir,         \* [channels: id -> name, nameToId: name -> id]
    want,        \* panel -> [name, maxHz] of its subscription
    bound        \* name -> [boundId, sentMaxHz], the SubState of subs

clientVars == <<dir, want, bound>>

NoSub == [boundId |-> NoId, sentMaxHz |-> Unsent]

HubClientInit ==
    /\ dir = [channels |-> EmptyMap, nameToId |-> EmptyMap]
    /\ want = EmptyMap
    /\ bound = [n \in PanelNames |-> NoSub]

-----------------------------------------------------------------------------
(* The directory.  Later entries of a channel list overwrite earlier ones  *)
(* of the same name; the hub lists channels by increasing id.              *)

ListedNames(list) == {c.name : c \in list}
LastId(list, n) == Max({c.id : c \in {d \in list : d.name = n}})

\* applyServerInfo: clear both maps, then addChannel for each.
ServerInfoApplied(list) ==
    [channels |-> [g \in {c.id : c \in list} |-> (CHOOSE c \in list : c.id = g).name],
     nameToId |-> [n \in ListedNames(list) |-> LastId(list, n)]]

\* addChannel: nothing is deleted, not even an older name of the same id.
AdvertiseApplied(d, g, n) ==
    [channels |-> MapSet(d.channels, g, n), nameToId |-> MapSet(d.nameToId, n, g)]

\* Mutant: the name goes, the channel stays listed.
Mut_UnadvertiseKeepsChannel(d, n) == [d EXCEPT !.nameToId = MapDelete(@, {n})]

\* applyUnadvertise
UnadvertiseApplied(d, n) ==
    IF n \notin DOMAIN d.nameToId THEN d
    ELSE [channels |-> MapDelete(d.channels, {d.nameToId[n]}),
          nameToId |-> MapDelete(d.nameToId, {n})]

\* onMessage, for the three messages that touch the directory.
Applied(d, m) ==
    CASE m.op = "server_info" -> ServerInfoApplied(m.channels)
      [] m.op = "advertise" -> AdvertiseApplied(d, m.id, m.name)
      [] m.op = "unadvertise" -> UnadvertiseApplied(d, m.name)
      [] OTHER -> d

-----------------------------------------------------------------------------
(* Binding *)

\* sub.entries, given the panels' subscriptions w
EntriesOf(w, n) == {p \in DOMAIN w : w[p].name = n}

\* effectiveMaxHz: uncapped if anyone is, else the fastest rate asked for.
EffectiveMaxHz(w, n) ==
    LET rates == {w[p].maxHz : p \in EntriesOf(w, n)}
    IN  IF 0 \in rates THEN 0 ELSE Max(rates)

\* bindSub(n, force) with panels w and directory d: the SubState it leaves.
BindSub(w, d, n) ==
    IF EntriesOf(w, n) = {} THEN bound[n]
    ELSE IF n \notin DOMAIN d.nameToId THEN NoSub
    ELSE [boundId |-> d.nameToId[n], sentMaxHz |-> EffectiveMaxHz(w, n)]

\* Mutant: a new rate alone is not worth a message.
Mut_SendsOnNewIdOnly(w, d, n, force) ==
    /\ EntriesOf(w, n) # {} /\ n \in DOMAIN d.nameToId
    /\ force \/ bound[n].boundId # d.nameToId[n]

\* Mutant: `force` is ignored.
Mut_SendsUnforced(w, d, n, force) ==
    /\ EntriesOf(w, n) # {} /\ n \in DOMAIN d.nameToId
    /\ BindSub(w, d, n) # bound[n]

\* Does it send a `subscribe`?
Sends(w, d, n, force) ==
    /\ EntriesOf(w, n) # {} /\ n \in DOMAIN d.nameToId
    /\ force \/ BindSub(w, d, n) # bound[n]

SubscribeMsg(s) == [op |-> "subscribe", id |-> s.boundId, hz |-> s.sentMaxHz # 0]
UnsubscribeMsg(s) == [op |-> "unsubscribe", id |-> s.boundId]

\* bindSub for each of `names`: the new state, and the messages sent.
Rebound(w, d, names) ==
    [n \in PanelNames |-> IF n \in names THEN BindSub(w, d, n) ELSE bound[n]]

RebindMsgs(w, d, names, force) ==
    LET sent == SetToSeq({n \in names : Sends(w, d, n, force)})
    IN  [i \in 1..Len(sent) |-> SubscribeMsg(BindSub(w, d, sent[i]))]

\* Which subscriptions onMessage reconciles after message m, and how.
Reconciled(m) ==
    IF m.op = "unadvertise" THEN {m.name} \cap PanelNames \cap DOMAIN dir.nameToId
    ELSE PanelNames

\* onMessage(m); what it sends is ReplyTo(m).
ClientReceives(m) ==
    /\ dir' = Applied(dir, m)
    /\ bound' = Rebound(want, Applied(dir, m), Reconciled(m))
    /\ UNCHANGED want

ReplyTo(m) ==
    RebindMsgs(want, Applied(dir, m), Reconciled(m), m.op = "server_info")

-----------------------------------------------------------------------------
(* Panels *)

\* subscribe(n, handler, {maxHz}); sends RebindMsgs for n.
PanelSubscribes(p, n, hz) ==
    /\ p \notin DOMAIN want
    /\ want' = MapSet(want, p, [name |-> n, maxHz |-> hz])
    /\ bound' = Rebound(want', dir, {n})
    /\ UNCHANGED dir

\* The function that subscribe returned.  The last panel to leave a name
\* unsubscribes; otherwise the rate is renegotiated.
IsLast(p) == EntriesOf(want, want[p].name) = {p}

PanelUnsubscribes(p) ==
    /\ p \in DOMAIN want
    /\ want' = MapDelete(want, {p})
    /\ bound' = IF IsLast(p) THEN [bound EXCEPT ![want[p].name] = NoSub]
                ELSE Rebound(want', dir, {want[p].name})
    /\ UNCHANGED dir

UnsubscribeMsgs(p) ==
    LET n == want[p].name
    IN  IF ~IsLast(p) THEN RebindMsgs(MapDelete(want, {p}), dir, {n}, FALSE)
        ELSE IF bound[n].boundId = NoId THEN <<>>
        ELSE <<UnsubscribeMsg(bound[n])>>
=============================================================================
