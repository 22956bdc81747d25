-------------------------- MODULE ChannelRegistry --------------------------
(***************************************************************************)
(* The hub's channel registry (packages/hub/src/channel_registry.ts): it   *)
(* gives every advertised channel a global id, remembers which connection  *)
(* owns it under which local id, and resolves name collisions between      *)
(* sources by prefixing the public name with the source id.                *)
(*                                                                         *)
(* The registry has no state of its own beyond its two maps and the id     *)
(* counter.  Broker.tla conjoins its actions with the rest of the hub.     *)
(***************************************************************************)
EXTENDS Integers, FiniteSets

CONSTANTS
    Owners,       \* connection ids that may own channels (ws uuids, "http:<src>")
    SourceId,     \* SourceId[o]: the ?id= a connection presented, chosen by the peer
    LocalIds,     \* ids by which a source addresses its own channels
    Names,        \* bare channel names
    MaxChannels   \* bound: advertise calls in one behaviour

ASSUME RegistryAssumption ==
    /\ LocalIds \subseteq Int
    /\ MaxChannels \in Nat
    /\ SourceId \in [Owners -> {SourceId[o] : o \in Owners}]

VARIABLES
    byGlobalId,   \* live global id -> entry
    byOwner,      \* owner -> rows of its (local id -> entry) index
    nextGlobalId

regVars == <<byGlobalId, byOwner, nextGlobalId>>

GlobalIds == 1..MaxChannels

(***************************************************************************)
(* A channel entry.  `name` is represented by whether it has been prefixed *)
(* yet: an entry starts with its bare name or with source_id/bareName, and *)
(* the only assignment to it adds the prefix.                              *)
(***************************************************************************)
Entries == [owner : Owners, localId : LocalIds, bareName : Names,
            prefixed : BOOLEAN, latched : BOOLEAN]

(***************************************************************************)
(* One slot of an owner's index.  A JavaScript Map iterates in the order   *)
(* in which keys were first inserted and keeps a key's place when its      *)
(* value is overwritten, so a slot remembers the id that first opened it.  *)
(***************************************************************************)
Slots == [localId : LocalIds, id : GlobalIds, opened : GlobalIds]

NoPrefix == "none"

\* The public name that clients see; two names are equal iff both parts are.
PublicName(e) ==
    [prefix |-> IF e.prefixed THEN SourceId[e.owner] ELSE NoPrefix,
     bareName |-> e.bareName]

\* Mutant: the comparison of the owners is the wrong way round.
Mut_CollisionsOwn(o, n) ==
    {g \in DOMAIN byGlobalId :
        byGlobalId[g].bareName = n /\ byGlobalId[g].owner = o}

\* Entries that carry this bare name and belong to *other* connections.
Collisions(o, n) ==
    {g \in DOMAIN byGlobalId :
        byGlobalId[g].bareName = n /\ byGlobalId[g].owner # o}

\* Those of them that still use the bare name and are renamed by an advertise.
Renamed(o, n) == {g \in Collisions(o, n) : ~byGlobalId[g].prefixed}

\* resolveLocal: at most one row, none for an unknown local id.
ResolveLocal(o, l) == {r \in byOwner[o] : r.localId = l}

\* The rows `unadvertise` may pick: it takes the first one in map order.
FirstOwned(o, n) ==
    LET named == {r \in byOwner[o] : byGlobalId[r.id].bareName = n}
    IN  {r \in named : \A q \in named : r.opened <= q.opened}

-----------------------------------------------------------------------------
RegInit ==
    /\ byGlobalId = [g \in {} |-> {}]
    /\ byOwner = [o \in Owners |-> {}]
    /\ nextGlobalId = 1

NewEntry(o, l, n, lat) ==
    [owner |-> o, localId |-> l, bareName |-> n,
     prefixed |-> Collisions(o, n) # {}, latched |-> lat]

\* index(): the row of a local id already in use is overwritten in place.
Indexed(o, l, id) ==
    LET old == ResolveLocal(o, l)
        opened == IF old = {} THEN id ELSE (CHOOSE r \in old : TRUE).opened
    IN  [byOwner EXCEPT ![o] = (@ \ old) \cup
            {[localId |-> l, id |-> id, opened |-> opened]}]

RegAdvertise(o, l, n, lat) ==
    /\ nextGlobalId <= MaxChannels
    /\ byGlobalId' =
          [g \in DOMAIN byGlobalId \cup {nextGlobalId} |->
              IF g = nextGlobalId THEN NewEntry(o, l, n, lat)
              ELSE IF g \in Renamed(o, n)
                   THEN [byGlobalId[g] EXCEPT !.prefixed = TRUE]
                   ELSE byGlobalId[g]]
    /\ byOwner' = Indexed(o, l, nextGlobalId)
    /\ nextGlobalId' = nextGlobalId + 1

Without(ids) == [g \in DOMAIN byGlobalId \ ids |-> byGlobalId[g]]

RegUnadvertise(o, n) ==
    \E r \in FirstOwned(o, n) :
        /\ byGlobalId' = Without({r.id})
        /\ byOwner' = [byOwner EXCEPT ![o] = @ \ {r}]
        /\ UNCHANGED nextGlobalId

\* What removeBySource removes and returns: the rows of the owner's index.
OwnedIds(o) == {r.id : r \in byOwner[o]}

RegRemoveBySource(o) ==
    /\ byGlobalId' = Without(OwnedIds(o))
    /\ byOwner' = [byOwner EXCEPT ![o] = {}]
    /\ UNCHANGED nextGlobalId

RegNext ==
    \E o \in Owners :
        \/ \E l \in LocalIds, n \in Names, lat \in BOOLEAN :
              RegAdvertise(o, l, n, lat)
        \/ \E n \in Names : RegUnadvertise(o, n)
        \/ RegRemoveBySource(o)

RegSpec == RegInit /\ [][RegNext]_regVars
-----------------------------------------------------------------------------
RegTypeOK ==
    /\ DOMAIN byGlobalId \subseteq GlobalIds
    /\ byGlobalId \in [DOMAIN byGlobalId -> Entries]
    /\ byOwner \in [Owners -> SUBSET Slots]
    /\ nextGlobalId \in 1..(MaxChannels + 1)
    /\ \A g \in DOMAIN byGlobalId : g < nextGlobalId

(***************************************************************************)
(* The index never points at a removed or foreign channel, has one row per *)
(* local id, and its rows sit in distinct places of the map's order.  This *)
(* is the half of "kept in sync with byGlobalId" (lines 30-32) that holds: *)
(* a data frame is never relayed under another source's channel, and       *)
(* unadvertise always has a definite first match.                          *)
(***************************************************************************)
IndexSound ==
    \A o \in Owners :
        /\ \A r \in byOwner[o] :
              /\ r.id \in DOMAIN byGlobalId
              /\ byGlobalId[r.id].owner = o
              /\ byGlobalId[r.id].localId = r.localId
              /\ r.opened <= r.id
        /\ \A r, q \in byOwner[o] :
              r.localId = q.localId \/ r.opened = q.opened => r = q

(***************************************************************************)
(* The other half: every live channel can be reached through its owner's   *)
(* index, so removeBySource and unadvertise can find it.                   *)
(***************************************************************************)
NoOrphans ==
    \A g \in DOMAIN byGlobalId :
        \E r \in byOwner[byGlobalId[g].owner] : r.id = g

(***************************************************************************)
(* Two live channels of different connections that share a bare name are   *)
(* both prefixed, whatever the order in which sources came, advertised,    *)
(* renamed each other and left (advertise, lines 52-94).                   *)
(***************************************************************************)
CollisionsPrefixed ==
    \A g, h \in DOMAIN byGlobalId :
        /\ byGlobalId[g].bareName = byGlobalId[h].bareName
        /\ byGlobalId[g].owner # byGlobalId[h].owner
        => byGlobalId[g].prefixed

(***************************************************************************)
(* Hence a public name shared by two live channels can only come from one  *)
(* connection that advertised it twice or from two connections that        *)
(* present the same source id.  Clients key everything by public name.     *)
(***************************************************************************)
SharedNameSharesSource ==
    \A g, h \in DOMAIN byGlobalId :
        PublicName(byGlobalId[g]) = PublicName(byGlobalId[h])
            => SourceId[byGlobalId[g].owner] = SourceId[byGlobalId[h].owner]

\* "resolves name collisions" (lines 2-3) read at face value: no two live
\* channels of different connections carry the same public name.  True only
\* if no two connections present the same source id.
PublicNamesUnique ==
    \A g, h \in DOMAIN byGlobalId :
        /\ byGlobalId[g].owner # byGlobalId[h].owner
        => PublicName(byGlobalId[g]) # PublicName(byGlobalId[h])

(***************************************************************************)
(* A live channel keeps its id, owner, local id, bare name and latched     *)
(* flag for as long as it lives; its public name changes at most once, by  *)
(* gaining the prefix; and an id, once freed, is never given out again.    *)
(* Clients hold ids across hub steps and rely on all of it.                *)
(***************************************************************************)
IdentityStable ==
    [][ /\ \A g \in DOMAIN byGlobalId \cap DOMAIN byGlobalId' :
              byGlobalId'[g] \in {byGlobalId[g],
                                  [byGlobalId[g] EXCEPT !.prefixed = TRUE]}
        /\ \A g \in DOMAIN byGlobalId' \ DOMAIN byGlobalId : g >= nextGlobalId
      ]_regVars

(***************************************************************************)
(* No call takes channels away from two connections at once: one source    *)
(* leaving or unadvertising never removes another source's channel.        *)
(***************************************************************************)
RemovalIsLocal ==
    [][ \A g, h \in DOMAIN byGlobalId \ DOMAIN byGlobalId' :
            byGlobalId[g].owner = byGlobalId[h].owner ]_regVars
=============================================================================
