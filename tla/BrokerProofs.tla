---------------------------- MODULE BrokerProofs ----------------------------
(***************************************************************************)
(* Proofs about the hub, for any set of connections, names, local ids and  *)
(* any bound on channels and frames.                                       *)
(*                                                                         *)
(* The first half is about the channel registry alone: RegInv is its       *)
(* inductive invariant, and every step lemma is used again for the hub and *)
(* for the session, because each of their steps either performs one        *)
(* registry action or leaves the registry alone.                           *)
(*                                                                         *)
(* The second half is about the hub: HubInv, the inductive invariant of    *)
(* Broker, and what follows from it -- the cache of latched frames mirrors *)
(* what was published, timers belong to connections that are still served, *)
(* a latched frame reaches or waits for every subscriber that is not       *)
(* backed up, and a source that has gone owns nothing.  The hub also       *)
(* implements the registry on its own, so the registry's theorems hold of  *)
(* the hub.                                                                *)
(***************************************************************************)
EXTENDS Broker, FiniteSetTheorems, WellFoundedInduction, TLAPS

\* Every non-empty set of numbers has a least element.
LEMMA LeastThereIs ==
    ASSUME NEW S \in SUBSET Nat, S # {}
    PROVE  \E m \in S : \A k \in S : m <= k
<1>1. PICK m \in S : \A k \in S : ~(<<k, m>> \in OpToRel(<, Nat))
  BY WFMin, NatLessThanWellFounded, Zenon
<1>2. ASSUME NEW k \in S PROVE ~(k < m)
  BY <1>1 DEF OpToRel
<1> QED
  BY <1>2

RegInv == RegTypeOK /\ IndexSound /\ CollisionsPrefixed

\* The registry starts empty and well typed.
LEMMA RegInitInv == RegInit => RegInv
BY RegistryAssumption
   DEF RegInit, RegInv, RegTypeOK, IndexSound, CollisionsPrefixed, GlobalIds

-----------------------------------------------------------------------------
(***************************************************************************)
(* index(): what the index of an owner holds after an advertise.           *)
(***************************************************************************)
LEMMA IndexedRows ==
    ASSUME RegTypeOK, IndexSound,
           NEW o \in Owners, NEW l \in LocalIds, NEW id \in GlobalIds,
           id = nextGlobalId
    PROVE  \E k \in GlobalIds :
              /\ Indexed(o, l, id) =
                    [byOwner EXCEPT ![o] =
                        {r \in byOwner[o] : r.localId # l} \cup
                            {[localId |-> l, id |-> id, opened |-> k]}]
              /\ k <= id
              /\ \A r \in byOwner[o] : r.localId # l => r.opened # k
<1> DEFINE old == ResolveLocal(o, l)
<1>1. \A r \in byOwner[o] : r \in Slots /\ r.id < nextGlobalId
                            /\ r.opened <= r.id
  BY DEF RegTypeOK, IndexSound, Slots, GlobalIds
<1>2. byOwner[o] \ old = {r \in byOwner[o] : r.localId # l}
  BY DEF ResolveLocal
<1>3. CASE old = {}
  <2>1. Indexed(o, l, id) =
          [byOwner EXCEPT ![o] = {r \in byOwner[o] : r.localId # l} \cup
              {[localId |-> l, id |-> id, opened |-> id]}]
    BY <1>2, <1>3 DEF Indexed, RegTypeOK
  <2>2. \A r \in byOwner[o] : r.opened # id
    BY <1>1, RegistryAssumption DEF Slots, GlobalIds, RegTypeOK
  <2>3. id <= id
    BY RegistryAssumption DEF GlobalIds
  <2> WITNESS id \in GlobalIds
  <2> QED BY <2>1, <2>2, <2>3
<1>4. CASE old # {}
  <2> DEFINE q == CHOOSE r \in old : TRUE
  <2>1. q \in old
    BY <1>4
  <2>2. q \in byOwner[o] /\ q.localId = l
    BY <2>1 DEF ResolveLocal
  <2>3. Indexed(o, l, id) =
          [byOwner EXCEPT ![o] = (byOwner[o] \ old) \cup
              {[localId |-> l, id |-> id, opened |-> q.opened]}]
    BY <1>4 DEF Indexed, RegTypeOK
  <2>4. q.opened \in GlobalIds /\ q.opened <= id
    BY <1>1, <2>2, RegistryAssumption DEF Slots, GlobalIds, RegTypeOK
  <2>5. \A r \in byOwner[o] : r.localId # l => r.opened # q.opened
    BY <2>2 DEF IndexSound
  <2> QED BY <1>2, <2>3, <2>4, <2>5
<1> QED BY <1>3, <1>4

(***************************************************************************)
(* advertise preserves the invariant.                                      *)
(***************************************************************************)
LEMMA AdvertiseInv ==
    ASSUME RegInv, NEW o \in Owners, NEW l \in LocalIds, NEW n \in Names,
           NEW lat \in BOOLEAN, RegAdvertise(o, l, n, lat)
    PROVE  RegInv'
<1> DEFINE id == nextGlobalId
<1>1. id \in GlobalIds /\ id \notin DOMAIN byGlobalId
  BY RegistryAssumption DEF RegAdvertise, RegInv, RegTypeOK, GlobalIds
<1>2. DOMAIN byGlobalId' = DOMAIN byGlobalId \cup {id}
  BY DEF RegAdvertise
<1>3. byGlobalId'[id] = NewEntry(o, l, n, lat)
  BY DEF RegAdvertise
<1>4. \A g \in DOMAIN byGlobalId :
        byGlobalId'[g] = IF g \in Renamed(o, n)
                         THEN [byGlobalId[g] EXCEPT !.prefixed = TRUE]
                         ELSE byGlobalId[g]
  BY <1>1 DEF RegAdvertise
<1>5. \A g \in DOMAIN byGlobalId :
        /\ byGlobalId'[g] \in Entries
        /\ byGlobalId'[g].owner = byGlobalId[g].owner
        /\ byGlobalId'[g].localId = byGlobalId[g].localId
        /\ byGlobalId'[g].bareName = byGlobalId[g].bareName
        /\ byGlobalId[g].prefixed => byGlobalId'[g].prefixed
  BY <1>4 DEF RegInv, RegTypeOK, Entries
<1>6. NewEntry(o, l, n, lat) \in Entries
  BY DEF NewEntry, Entries
<1>7. PICK k \in GlobalIds :
        /\ byOwner' = [byOwner EXCEPT ![o] =
                          {r \in byOwner[o] : r.localId # l} \cup
                              {[localId |-> l, id |-> id, opened |-> k]}]
        /\ k <= id
        /\ \A r \in byOwner[o] : r.localId # l => r.opened # k
  BY <1>1, IndexedRows DEF RegAdvertise, RegInv
<1>8. RegTypeOK'
  <2>1. byGlobalId' \in [DOMAIN byGlobalId' -> Entries]
    BY <1>2, <1>3, <1>5, <1>6 DEF RegAdvertise
  <2>2. byOwner' \in [Owners -> SUBSET Slots]
    <3>1. [localId |-> l, id |-> id, opened |-> k] \in Slots
      BY <1>1, <1>7 DEF Slots
    <3> QED BY <3>1, <1>7 DEF RegInv, RegTypeOK
  <2>3. nextGlobalId' \in 1..(MaxChannels + 1)
        /\ \A g \in DOMAIN byGlobalId' : g < nextGlobalId'
    BY <1>1, <1>2, RegistryAssumption
       DEF RegAdvertise, RegInv, RegTypeOK, GlobalIds
  <2> QED BY <1>1, <1>2, <2>1, <2>2, <2>3 DEF RegInv, RegTypeOK
<1>9. IndexSound'
  <2> SUFFICES ASSUME NEW p \in Owners
               PROVE  /\ \A r \in byOwner'[p] :
                           /\ r.id \in DOMAIN byGlobalId'
                           /\ byGlobalId'[r.id].owner = p
                           /\ byGlobalId'[r.id].localId = r.localId
                           /\ r.opened <= r.id
                      /\ \A r, q \in byOwner'[p] :
                           r.localId = q.localId \/ r.opened = q.opened => r = q
    BY DEF IndexSound
  <2>1. CASE p # o
    <3>1. byOwner'[p] = byOwner[p]
      BY <2>1, <1>7 DEF RegInv, RegTypeOK
    <3> QED BY <3>1, <1>2, <1>5 DEF RegInv, IndexSound
  <2>2. CASE p = o
    <3> DEFINE row == [localId |-> l, id |-> id, opened |-> k]
    <3>1. byOwner'[p] = {r \in byOwner[o] : r.localId # l} \cup {row}
      BY <2>2, <1>7 DEF RegInv, RegTypeOK
    <3>2. /\ row.id \in DOMAIN byGlobalId'
          /\ byGlobalId'[row.id].owner = p
          /\ byGlobalId'[row.id].localId = row.localId
          /\ row.opened <= row.id
      BY <2>2, <1>2, <1>3, <1>7 DEF NewEntry
    <3>3. \A r \in byOwner[o] : /\ r.id \in DOMAIN byGlobalId'
                                /\ byGlobalId'[r.id].owner = o
                                /\ byGlobalId'[r.id].localId = r.localId
                                /\ r.opened <= r.id
      BY <1>2, <1>5 DEF RegInv, IndexSound
    <3>4. \A r, q \in byOwner'[p] :
            r.localId = q.localId \/ r.opened = q.opened => r = q
      BY <3>1, <1>7 DEF RegInv, IndexSound
    <3> QED BY <2>2, <3>1, <3>2, <3>3, <3>4
  <2> QED BY <2>1, <2>2
<1>10. CollisionsPrefixed'
  <2> SUFFICES ASSUME NEW g \in DOMAIN byGlobalId', NEW h \in DOMAIN byGlobalId',
                      byGlobalId'[g].bareName = byGlobalId'[h].bareName,
                      byGlobalId'[g].owner # byGlobalId'[h].owner
               PROVE  byGlobalId'[g].prefixed
    BY DEF CollisionsPrefixed
  <2>1. CASE g = id
    <3>1. h \in DOMAIN byGlobalId
      BY <2>1, <1>2
    <3>2. h \in Collisions(o, n)
      BY <2>1, <3>1, <1>3, <1>5 DEF Collisions, NewEntry
    <3>3. NewEntry(o, l, n, lat).prefixed = (Collisions(o, n) # {})
      BY DEF NewEntry
    <3> QED BY <2>1, <3>2, <3>3, <1>3
  <2>2. CASE g # id /\ h = id
    <3>1. g \in DOMAIN byGlobalId
      BY <2>2, <1>2
    <3>2. g \in Collisions(o, n)
      BY <2>2, <3>1, <1>3, <1>5 DEF Collisions, NewEntry
    <3>3. byGlobalId[g] \in Entries
      BY <3>1 DEF RegInv, RegTypeOK
    <3> QED BY <3>1, <3>2, <3>3, <1>4 DEF Renamed, Entries
  <2>3. CASE g # id /\ h # id
    BY <2>3, <1>2, <1>5 DEF RegInv, CollisionsPrefixed
  <2> QED BY <2>1, <2>2, <2>3
<1> QED BY <1>8, <1>9, <1>10 DEF RegInv

(***************************************************************************)
(* Removing live ids and the matching rows of one owner preserves the      *)
(* invariant; unadvertise and removeBySource are its two uses.             *)
(***************************************************************************)
LEMMA RemovalInv ==
    ASSUME RegInv, NEW o \in Owners, NEW rows \in SUBSET byOwner[o],
           byGlobalId' = Without({r.id : r \in rows}),
           byOwner' = [byOwner EXCEPT ![o] = byOwner[o] \ rows],
           nextGlobalId' = nextGlobalId
    PROVE  RegInv'
<1> DEFINE gone == {r.id : r \in rows}
<1>1. /\ DOMAIN byGlobalId' = DOMAIN byGlobalId \ gone
      /\ \A g \in DOMAIN byGlobalId' : byGlobalId'[g] = byGlobalId[g]
  BY DEF Without
<1>2. /\ byOwner'[o] = byOwner[o] \ rows
      /\ \A p \in Owners : p # o => byOwner'[p] = byOwner[p]
  BY DEF RegInv, RegTypeOK
<1>3. \A p \in Owners : byOwner'[p] \subseteq byOwner[p]
  BY <1>2
<1>4. \A p \in Owners : \A r \in byOwner'[p] : r.id \in DOMAIN byGlobalId'
  <2> SUFFICES ASSUME NEW p \in Owners, NEW r \in byOwner'[p]
               PROVE  r.id \notin gone
    BY <1>1, <1>3 DEF RegInv, IndexSound
  <2>1. SUFFICES ASSUME NEW q \in rows, q.id = r.id
                 PROVE  FALSE
    OBVIOUS
  <2>2. p = o
    BY <2>1, <1>3 DEF RegInv, IndexSound
  <2>3. r.localId = q.localId
    BY <2>1, <2>2, <1>3 DEF RegInv, IndexSound
  <2>4. r = q
    BY <2>2, <2>3, <1>3 DEF RegInv, IndexSound
  <2> QED BY <2>2, <2>4, <1>2
<1>5. RegTypeOK'
  <2>1. byGlobalId' \in [DOMAIN byGlobalId' -> Entries]
    BY <1>1 DEF RegInv, RegTypeOK, Without
  <2>2. byOwner' \in [Owners -> SUBSET Slots]
    BY <1>3 DEF RegInv, RegTypeOK
  <2> QED BY <1>1, <2>1, <2>2 DEF RegInv, RegTypeOK
<1>6. IndexSound'
  BY <1>1, <1>3, <1>4 DEF RegInv, IndexSound
<1>7. CollisionsPrefixed'
  BY <1>1 DEF RegInv, CollisionsPrefixed
<1> QED BY <1>5, <1>6, <1>7 DEF RegInv

\* unadvertise and removeBySource preserve the invariant.
LEMMA UnadvertiseInv ==
    ASSUME RegInv, NEW o \in Owners, NEW n \in Names, RegUnadvertise(o, n)
    PROVE  RegInv'
<1>1. PICK r \in FirstOwned(o, n) :
        /\ byGlobalId' = Without({r.id})
        /\ byOwner' = [byOwner EXCEPT ![o] = byOwner[o] \ {r}]
        /\ nextGlobalId' = nextGlobalId
  BY DEF RegUnadvertise, RegInv, RegTypeOK
<1>2. {r} \in SUBSET byOwner[o] /\ {q.id : q \in {r}} = {r.id}
  BY <1>1 DEF FirstOwned
<1> QED BY <1>1, <1>2, RemovalInv

\* removeBySource() preserves the registry's invariant.
LEMMA RemoveBySourceInv ==
    ASSUME RegInv, NEW o \in Owners, RegRemoveBySource(o)
    PROVE  RegInv'
<1>1. byOwner' = [byOwner EXCEPT ![o] = byOwner[o] \ byOwner[o]]
  BY DEF RegRemoveBySource
<1> QED BY <1>1, RemovalInv DEF RegRemoveBySource, OwnedIds

\* Every step of the registry, and every step that leaves it alone.
LEMMA RegStepInv == RegInv /\ [RegNext]_regVars => RegInv'
<1> SUFFICES ASSUME RegInv, [RegNext]_regVars
             PROVE  RegInv'
  OBVIOUS
<1>1. CASE RegNext
  BY <1>1, AdvertiseInv, UnadvertiseInv, RemoveBySourceInv DEF RegNext
<1>2. CASE UNCHANGED regVars
  BY <1>2 DEF regVars, RegInv, RegTypeOK, IndexSound, CollisionsPrefixed
<1> QED BY <1>1, <1>2

-----------------------------------------------------------------------------
(***************************************************************************)
(* The registry's invariant: its maps are well typed, its per-owner index  *)
(* never points at a removed or foreign channel, and channels of different *)
(* connections under one bare name are all prefixed.                       *)
(***************************************************************************)
THEOREM RegistryInvariant == RegSpec => []RegInv
BY RegInitInv, RegStepInv, PTL DEF RegSpec

\* The index half of "kept in sync with byGlobalId" (channel_registry.ts:30-32).
THEOREM RegistryIndexSound == RegSpec => []IndexSound
<1>1. RegInv => IndexSound
  BY DEF RegInv
<1> QED BY <1>1, RegistryInvariant, PTL

\* Channels sharing a public name share a source id (advertise, lines 52-94).
LEMMA SharedNames == RegInv => SharedNameSharesSource
<1> SUFFICES ASSUME RegInv,
                    NEW g \in DOMAIN byGlobalId, NEW h \in DOMAIN byGlobalId,
                    PublicName(byGlobalId[g]) = PublicName(byGlobalId[h]),
                    byGlobalId[g].owner # byGlobalId[h].owner
             PROVE  SourceId[byGlobalId[g].owner] = SourceId[byGlobalId[h].owner]
  BY DEF SharedNameSharesSource
<1>1. byGlobalId[g].bareName = byGlobalId[h].bareName
  BY DEF PublicName
<1>2. byGlobalId[g].prefixed /\ byGlobalId[h].prefixed
  BY <1>1 DEF RegInv, CollisionsPrefixed
<1> QED BY <1>2 DEF PublicName

(***************************************************************************)
(* A public name carried by two live channels always comes from a single   *)
(* source id: the collision rule cannot be defeated by any order of        *)
(* advertises, renames, unadvertises and disconnects.                      *)
(***************************************************************************)
THEOREM RegistrySharedNames == RegSpec => []SharedNameSharesSource
BY SharedNames, RegistryInvariant, PTL

\* No two connections present the same source id.
SourceIdsDistinct ==
    \A o, p \in Owners : SourceId[o] = SourceId[p] => o = p

(***************************************************************************)
(* "Resolves name collisions" (channel_registry.ts:2-3) holds exactly under*)
(* the premise the header leaves unsaid: source ids that are distinct.     *)
(***************************************************************************)
THEOREM RegistryNamesUnique ==
    ASSUME SourceIdsDistinct
    PROVE  RegSpec => []PublicNamesUnique
<1>1. RegInv => PublicNamesUnique
  <2> SUFFICES ASSUME RegInv,
                      NEW g \in DOMAIN byGlobalId, NEW h \in DOMAIN byGlobalId,
                      byGlobalId[g].owner # byGlobalId[h].owner,
                      PublicName(byGlobalId[g]) = PublicName(byGlobalId[h])
               PROVE  FALSE
    BY DEF PublicNamesUnique
  <2>1. byGlobalId[g].owner \in Owners /\ byGlobalId[h].owner \in Owners
    BY DEF RegInv, RegTypeOK, Entries
  <2> QED BY <2>1, SharedNames DEF SharedNameSharesSource, SourceIdsDistinct
<1> QED BY <1>1, RegistryInvariant, PTL

-----------------------------------------------------------------------------
(***************************************************************************)
(* A live channel keeps its identity and at most gains a prefix, and freed *)
(* ids are never given out again.                                          *)
(***************************************************************************)
THEOREM RegistryIdentityStable == RegSpec => IdentityStable
<1> DEFINE Stable ==
      /\ \A g \in DOMAIN byGlobalId \cap DOMAIN byGlobalId' :
            byGlobalId'[g] \in {byGlobalId[g],
                                [byGlobalId[g] EXCEPT !.prefixed = TRUE]}
      /\ \A g \in DOMAIN byGlobalId' \ DOMAIN byGlobalId : g >= nextGlobalId
<1>1. ASSUME RegInv, [RegNext]_regVars
      PROVE  [Stable]_regVars
  <2>1. ASSUME NEW o \in Owners, NEW l \in LocalIds, NEW n \in Names,
               NEW lat \in BOOLEAN, RegAdvertise(o, l, n, lat)
        PROVE  Stable
    <3>1. nextGlobalId >= nextGlobalId /\ nextGlobalId \notin DOMAIN byGlobalId
      BY <1>1 DEF RegInv, RegTypeOK
    <3> QED BY <2>1, <3>1 DEF RegAdvertise
  <2>2. ASSUME NEW o \in Owners, NEW n \in Names, RegUnadvertise(o, n)
        PROVE  Stable
    BY <2>2 DEF RegUnadvertise, Without
  <2>3. ASSUME NEW o \in Owners, RegRemoveBySource(o)
        PROVE  Stable
    BY <2>3 DEF RegRemoveBySource, Without
  <2> QED BY <1>1, <2>1, <2>2, <2>3 DEF RegNext
<1>2. QED BY <1>1, RegistryInvariant, PTL DEF RegSpec, IdentityStable

(***************************************************************************)
(* No call removes channels of two connections: a disconnect or an         *)
(* unadvertise of one source never takes another source's channel with it. *)
(***************************************************************************)
THEOREM RegistryRemovalIsLocal == RegSpec => RemovalIsLocal
<1> DEFINE Local ==
      \A g, h \in DOMAIN byGlobalId \ DOMAIN byGlobalId' :
          byGlobalId[g].owner = byGlobalId[h].owner
<1>1. ASSUME RegInv, [RegNext]_regVars
      PROVE  [Local]_regVars
  <2>1. ASSUME NEW o \in Owners, NEW l \in LocalIds, NEW n \in Names,
               NEW lat \in BOOLEAN, RegAdvertise(o, l, n, lat)
        PROVE  Local
    BY <2>1 DEF RegAdvertise
  <2>2. ASSUME NEW o \in Owners, NEW n \in Names, RegUnadvertise(o, n)
        PROVE  Local
    BY <2>2 DEF RegUnadvertise, Without
  <2>3. ASSUME NEW o \in Owners, RegRemoveBySource(o)
        PROVE  Local
    BY <1>1, <2>3 DEF RegRemoveBySource, Without, OwnedIds, RegInv, IndexSound
  <2> QED BY <1>1, <2>1, <2>2, <2>3 DEF RegNext
<1>2. QED BY <1>1, RegistryInvariant, PTL DEF RegSpec, RemovalIsLocal

-----------------------------------------------------------------------------
(* Maps, and the operations on one subscription record. *)

\* Map.set: the key is added or overwritten, no other key changes.
LEMMA MapSetFacts ==
    ASSUME NEW m, NEW k, NEW v
    PROVE  /\ DOMAIN MapSet(m, k, v) = DOMAIN m \cup {k}
           /\ MapSet(m, k, v)[k] = v
           /\ \A x \in DOMAIN m : x # k => MapSet(m, k, v)[x] = m[x]
BY DEF MapSet

\* Map.delete: the keys go, no other key changes.
LEMMA MapDeleteFacts ==
    ASSUME NEW m, NEW ks
    PROVE  /\ DOMAIN MapDelete(m, ks) = DOMAIN m \ ks
           /\ \A x \in DOMAIN m \ ks : MapDelete(m, ks)[x] = m[x]
BY DEF MapDelete

SubGood(s, last) ==
    /\ s \in SubStates(Frames)
    /\ s.pending # NoFrame <=> s.timer # "off"
    /\ s.pending <= last

\* Frames are numbered from 1; 0 stands for no frame.
LEMMA FramesFacts == /\ Frames \subseteq Nat
                     /\ NoFrame \notin Frames
                     /\ NoFrame = 0
                     /\ \A f \in Frames : f > 0
BY BrokerAssumption DEF Frames, NoFrame

\* clearSub leaves a well-formed subscription, with nothing parked.
LEMMA ClearSubFacts ==
    ASSUME NEW s \in SubStates(Frames)
    PROVE  /\ ClearSub(s).pending = NoFrame
           /\ ClearSub(s).timer = "off"
           /\ ClearSub(s) \in SubStates(Frames)
<1> DEFINE t == [s EXCEPT !.pending = NoFrame]
<1>1. /\ t \in SubStates(Frames)
      /\ t.pending = NoFrame
  BY DEF SubStates
<1>2. ClearSub(s) = [t EXCEPT !.timer = "off"]
  BY DEF ClearSub
<1> HIDE DEF t
<1> QED
  BY <1>1, <1>2 DEF SubStates

\* A fresh subscription record, as onSubscribe makes it, is sound.
LEMMA RenewedGood ==
    ASSUME NEW s \in SubStates(Frames), NEW hz \in BOOLEAN, NEW last \in Nat
    PROVE  /\ SubGood(Renewed(s, hz), last)
           /\ Renewed(s, hz).timer = "off"
BY ClearSubFacts, FramesFacts DEF Renewed, SubGood, SubStates

\* A cleared subscription is sound.
LEMMA ClearedGood ==
    ASSUME NEW s \in SubStates(Frames), NEW last \in Nat
    PROVE  SubGood(ClearSub(s), last)
BY ClearSubFacts, FramesFacts DEF SubGood, SubStates

\* deliver parks a frame together with its timer.
LEMMA ParkedGood ==
    ASSUME NEW s \in SubStates(Frames), NEW f \in Frames
    PROVE  /\ SubGood(Park(s, f), f)
           /\ Park(s, f).pending = f
<1> DEFINE t == [s EXCEPT !.pending = f]
<1>1. t \in SubStates(Frames) /\ t.pending = f /\ t.timer = s.timer
  BY DEF SubStates
<1>2. Park(s, f) = [t EXCEPT !.timer = IF @ = "off" THEN "armed" ELSE @]
  BY DEF Park
<1> HIDE DEF t
<1>3. Park(s, f).timer # "off" /\ Park(s, f).pending = f
  BY <1>1, <1>2 DEF SubStates
<1>4. Park(s, f) \in SubStates(Frames)
  BY <1>1, <1>2 DEF SubStates
<1> QED
  BY <1>3, <1>4, FramesFacts DEF SubGood

\* The end of the interval changes neither what is parked nor whether.
LEMMA ElapsedGood ==
    ASSUME NEW s, NEW last \in Nat, SubGood(s, last)
    PROVE  /\ SubGood(Elapsed(s), last)
           /\ Elapsed(s).timer # "off" => s.timer # "off"
           /\ Elapsed(s).pending = s.pending
<1> DEFINE t == [s EXCEPT !.recent = FALSE]
<1>1. t \in SubStates(Frames) /\ t.pending = s.pending /\ t.timer = s.timer
  BY DEF SubStates, SubGood
<1>2. Elapsed(s) = [t EXCEPT !.timer = IF @ = "armed" THEN "due" ELSE @]
  BY DEF Elapsed
<1> HIDE DEF t
<1>3. Elapsed(s) \in SubStates(Frames) /\ Elapsed(s).pending = s.pending
  BY <1>1, <1>2 DEF SubStates
<1>4. Elapsed(s).timer = IF s.timer = "armed" THEN "due" ELSE s.timer
  BY <1>1, <1>2 DEF SubStates
<1> QED
  BY <1>3, <1>4 DEF SubGood

\* The timer callback resets the timer and what was parked.
LEMMA UnparkedGood ==
    ASSUME NEW s \in SubStates(Frames), NEW last \in Nat
    PROVE  SubGood(Unparked(s), last) /\ Unparked(s).timer = "off"
<1> DEFINE t == [s EXCEPT !.timer = "off"]
<1>1. t \in SubStates(Frames) /\ t.timer = "off"
  BY DEF SubStates
<1>2. Unparked(s) = [t EXCEPT !.pending = NoFrame]
  BY DEF Unparked
<1> HIDE DEF t
<1> QED
  BY <1>1, <1>2, FramesFacts DEF SubStates, SubGood

\* Noting the time of a send leaves the parked frame and the timer alone.
LEMMA StampedGood ==
    ASSUME NEW s, NEW last \in Nat, SubGood(s, last)
    PROVE  /\ SubGood(Stamped(s), last)
           /\ Stamped(s).timer = s.timer
           /\ Stamped(s).pending = s.pending
<1>1. s.maxHz \in BOOLEAN
  BY DEF SubGood, SubStates
<1>2. Stamped(s) = [maxHz |-> s.maxHz, recent |-> s.maxHz, pending |-> s.pending,
                    timer |-> s.timer]
  BY DEF Stamped, SubGood, SubStates
<1> QED
  BY <1>1, <1>2 DEF SubGood, SubStates

\* What is parked is a frame number or 0.
LEMMA PendingIsNat ==
    ASSUME NEW s \in SubStates(Frames)
    PROVE  s.pending \in Nat
<1>1. s.pending \in Frames \cup {NoFrame}
  BY DEF SubStates
<1> QED
  BY <1>1, BrokerAssumption DEF Frames, NoFrame

\* The record that a first subscribe starts from is well formed.
LEMMA NewSubGood == NewSub(FALSE) \in SubStates(Frames)
BY DEF NewSub, SubStates

-----------------------------------------------------------------------------
(* The inductive invariant. *)

\* No counter has run ahead of the global ids, so every local id that the hub
\* makes up is one the registry accepts.
CountersInv ==
    /\ localIdCounters \in [Sources -> Nat]
    /\ \A s \in Sources : localIdCounters[s] < nextGlobalId
    /\ IsFiniteSet(DOMAIN httpChannels)
    /\ Cardinality(DOMAIN httpChannels) < nextGlobalId
    /\ \A k \in DOMAIN httpChannels : httpChannels[k] \in 1..(nextGlobalId - 1)

\* Ids not yet given out have published nothing.
CacheInv ==
    /\ published \in [GlobalIds -> 0..MaxFrames]
    /\ \A g \in GlobalIds : g >= nextGlobalId => published[g] = 0
    /\ \A g \in DOMAIN latchedCache : latchedCache[g] \in Frames
    /\ LatchedCacheFaithful

\* Subscriptions are to known ids, well formed, and, while the connection is
\* new or gone, without timers.
SubsInv ==
    /\ conn \in [Sources \cup Clients -> {"new", "open", "closing", "gone"}]
    /\ DOMAIN subs = Clients
    /\ \A c \in Clients : DOMAIN subs[c] \subseteq 1..(nextGlobalId - 1)
    /\ \A c \in Clients : \A g \in DOMAIN subs[c] :
          /\ SubGood(subs[c][g], published[g])
          /\ conn[c] # "new"
          /\ subs[c][g].timer # "off" => conn[c] \in {"open", "closing"}

\* Nothing has been written that was not published.
SentInv ==
    /\ written \in [Clients -> [GlobalIds -> Nat]]
    /\ shed \in [Clients -> BOOLEAN]
    /\ \A c \in Clients : \A g \in GlobalIds : written[c][g] <= published[g]
    /\ LatchedReachesSubscriber

HubInv == RegInv /\ CountersInv /\ CacheInv /\ SubsInv /\ SentInv

\* What the registry's invariant says of global ids, in the form used below.
LEMMA IdFacts ==
    ASSUME RegInv
    PROVE  /\ MaxChannels \in Nat /\ nextGlobalId \in Nat /\ nextGlobalId >= 1
           /\ nextGlobalId <= MaxChannels + 1
           /\ 1..(nextGlobalId - 1) \subseteq GlobalIds
           /\ DOMAIN byGlobalId \subseteq 1..(nextGlobalId - 1)
           /\ \A g \in GlobalIds : g \in Nat
           /\ \A g \in DOMAIN byGlobalId : byGlobalId[g].latched \in BOOLEAN
<1>1. MaxChannels \in Nat /\ nextGlobalId \in 1..(MaxChannels + 1)
  BY RegistryAssumption DEF RegInv, RegTypeOK
<1>2. \A g \in DOMAIN byGlobalId :
         g \in 1..MaxChannels /\ g < nextGlobalId /\ byGlobalId[g].latched \in BOOLEAN
  BY DEF RegInv, RegTypeOK, GlobalIds, Entries
<1> QED
  BY <1>1, <1>2 DEF GlobalIds

\* A hub that has just started satisfies the invariant.
LEMMA HubInitInv == Init => HubInv
<1> SUFFICES ASSUME Init PROVE HubInv
  OBVIOUS
<1>1. RegInv
  BY RegInitInv DEF Init
<1>2. nextGlobalId = 1 /\ DOMAIN byGlobalId = {}
  BY DEF Init, RegInit
<1>3. CountersInv
  <2>1. DOMAIN httpChannels = {}
    BY DEF Init, EmptyMap
  <2> QED
    BY <1>2, <2>1, FS_EmptySet DEF CountersInv, Init
<1>4. CacheInv
  <2>1. DOMAIN latchedCache = {}
    BY DEF Init, EmptyMap
  <2> QED
    BY <1>2, <2>1, BrokerAssumption DEF CacheInv, Init, LatchedCacheFaithful
<1>5. \A c \in Clients : DOMAIN subs[c] = {}
  BY DEF Init, EmptyMap
<1>6. SubsInv
  BY <1>2, <1>5 DEF SubsInv, Init
<1>7. SentInv
  BY <1>5, FramesFacts DEF SentInv, Init, LatchedReachesSubscriber
<1> QED
  BY <1>1, <1>3, <1>4, <1>6, <1>7 DEF HubInv

-----------------------------------------------------------------------------
(* What the registry's actions do to the channels and their latched flags. *)

\* advertise() adds one channel, under the next id; a rename keeps the flag.
LEMMA AdvertiseShape ==
    ASSUME RegInv, NEW o, NEW l, NEW n, NEW lat, RegAdvertise(o, l, n, lat)
    PROVE  /\ nextGlobalId \in GlobalIds /\ nextGlobalId \notin DOMAIN byGlobalId
           /\ nextGlobalId' = nextGlobalId + 1
           /\ DOMAIN byGlobalId' = DOMAIN byGlobalId \cup {nextGlobalId}
           /\ byGlobalId'[nextGlobalId].latched = lat
           /\ \A g \in DOMAIN byGlobalId : byGlobalId'[g].latched = byGlobalId[g].latched
<1>1. nextGlobalId \in GlobalIds /\ nextGlobalId \notin DOMAIN byGlobalId
  BY RegistryAssumption DEF RegInv, RegTypeOK, GlobalIds, RegAdvertise
<1>2. /\ nextGlobalId' = nextGlobalId + 1
      /\ DOMAIN byGlobalId' = DOMAIN byGlobalId \cup {nextGlobalId}
      /\ byGlobalId'[nextGlobalId] = NewEntry(o, l, n, lat)
  BY DEF RegAdvertise
<1>3. ASSUME NEW g \in DOMAIN byGlobalId
      PROVE  byGlobalId'[g].latched = byGlobalId[g].latched
  <2>1. byGlobalId'[g] = IF g \in Renamed(o, n)
                         THEN [byGlobalId[g] EXCEPT !.prefixed = TRUE]
                         ELSE byGlobalId[g]
    BY <1>1 DEF RegAdvertise
  <2>2. byGlobalId[g] \in Entries
    BY DEF RegInv, RegTypeOK
  <2> QED
    BY <2>1, <2>2 DEF Entries
<1> QED
  BY <1>1, <1>2, <1>3 DEF NewEntry

RemovesOnly ==
    /\ DOMAIN byGlobalId' \subseteq DOMAIN byGlobalId
    /\ \A g \in DOMAIN byGlobalId' : byGlobalId'[g] = byGlobalId[g]
    /\ nextGlobalId' = nextGlobalId

\* unadvertise() and removeBySource() only take channels away.
LEMMA RemovalShape ==
    ASSUME NEW o, NEW n, RegUnadvertise(o, n) \/ RegRemoveBySource(o)
    PROVE  RemovesOnly
BY DEF RegUnadvertise, RegRemoveBySource, Without, RemovesOnly

-----------------------------------------------------------------------------
(* Frame conditions: parts of the invariant that a step cannot disturb. *)

\* Published frames and the cache are only ever looked at by global id.
LEMMA CacheKept ==
    ASSUME HubInv,
           published' = published,
           nextGlobalId' \in Nat, nextGlobalId' >= nextGlobalId,
           latchedCache' = latchedCache,
           DOMAIN byGlobalId \subseteq DOMAIN byGlobalId',
           \A g \in DOMAIN byGlobalId : byGlobalId'[g].latched = byGlobalId[g].latched,
           \A g \in DOMAIN byGlobalId' \ DOMAIN byGlobalId :
               g \in GlobalIds /\ g >= nextGlobalId
    PROVE  CacheInv'
<1>1. \A g \in GlobalIds : g >= nextGlobalId' => published'[g] = 0
  BY IdFacts DEF HubInv, CacheInv
<1>2. \A g \in DOMAIN byGlobalId' \ DOMAIN byGlobalId : ~(published'[g] > 0)
  BY DEF HubInv, CacheInv
<1>3. LatchedCacheFaithful'
  BY <1>2 DEF HubInv, CacheInv, LatchedCacheFaithful
<1> QED
  BY <1>1, <1>3 DEF HubInv, CacheInv

\* The cache follows the registry when channels are withdrawn.
LEMMA CacheShrinks ==
    ASSUME HubInv, RemovesOnly, published' = published,
           latchedCache' = MapDelete(latchedCache, Removed)
    PROVE  CacheInv'
<1>1. /\ DOMAIN latchedCache' = DOMAIN latchedCache \ Removed
      /\ \A g \in DOMAIN latchedCache' : latchedCache'[g] = latchedCache[g]
  BY MapDeleteFacts
<1>2. LatchedCacheFaithful'
  BY <1>1 DEF HubInv, CacheInv, LatchedCacheFaithful, RemovesOnly, Removed
<1> QED
  BY <1>1, <1>2 DEF HubInv, CacheInv, RemovesOnly

\* accept(): the cache takes the newest frame of a latched channel.
LEMMA CacheAccepts ==
    ASSUME HubInv, RegInv', NEW g \in GlobalIds, NEW lat \in BOOLEAN, Accept(g, lat),
           nextGlobalId' \in Nat, nextGlobalId' >= nextGlobalId, g < nextGlobalId',
           lat <=> g \in DOMAIN byGlobalId' /\ byGlobalId'[g].latched,
           DOMAIN byGlobalId \subseteq DOMAIN byGlobalId',
           DOMAIN byGlobalId' \subseteq DOMAIN byGlobalId \cup {g},
           \A h \in DOMAIN byGlobalId : byGlobalId'[h].latched = byGlobalId[h].latched
    PROVE  CacheInv'
<1>1. /\ published' \in [GlobalIds -> 0..MaxFrames]
      /\ published'[g] = published[g] + 1
      /\ \A h \in GlobalIds : h # g => published'[h] = published[h]
  BY BrokerAssumption DEF Accept, HubInv, CacheInv
<1>2. \A h \in GlobalIds : h >= nextGlobalId' => published'[h] = 0
  BY <1>1, IdFacts DEF HubInv, CacheInv
<1>3. DOMAIN byGlobalId' \subseteq GlobalIds
  BY DEF RegInv, RegTypeOK
<1>4. LatchedCacheFaithful'
  <2>1. CASE lat
    <3>1. /\ DOMAIN latchedCache' = DOMAIN latchedCache \cup {g}
          /\ latchedCache'[g] = published[g] + 1
          /\ \A h \in DOMAIN latchedCache : h # g => latchedCache'[h] = latchedCache[h]
      <4>1. latchedCache' = MapSet(latchedCache, g, published[g] + 1)
        BY <2>1 DEF Accept
      <4> QED
        BY <4>1 DEF MapSet
    <3>2. \A h \in DOMAIN latchedCache' :
             /\ h \in DOMAIN byGlobalId' /\ byGlobalId'[h].latched
             /\ latchedCache'[h] = published'[h]
      <4> SUFFICES ASSUME NEW h \in DOMAIN latchedCache'
                   PROVE  /\ h \in DOMAIN byGlobalId' /\ byGlobalId'[h].latched
                          /\ latchedCache'[h] = published'[h]
        OBVIOUS
      <4>1. CASE h = g
        BY <2>1, <3>1, <1>1, <4>1
      <4>2. CASE h # g
        <5>1. /\ h \in DOMAIN byGlobalId /\ byGlobalId[h].latched
              /\ latchedCache[h] = published[h]
          BY <3>1, <4>2 DEF HubInv, CacheInv, LatchedCacheFaithful
        <5> QED
          BY <5>1, <3>1, <1>1, <1>3, <4>2
      <4> QED
        BY <4>1, <4>2
    <3>3. \A h \in DOMAIN byGlobalId' :
             byGlobalId'[h].latched /\ published'[h] > 0 => h \in DOMAIN latchedCache'
      <4> SUFFICES ASSUME NEW h \in DOMAIN byGlobalId', h # g,
                          byGlobalId'[h].latched, published'[h] > 0
                   PROVE  h \in DOMAIN latchedCache'
        BY <3>1
      <4>1. h \in DOMAIN byGlobalId /\ byGlobalId[h].latched
        OBVIOUS
      <4>2. published[h] > 0
        BY <1>1, <1>3
      <4> QED
        BY <4>1, <4>2, <3>1 DEF HubInv, CacheInv, LatchedCacheFaithful
    <3> QED
      BY <3>2, <3>3 DEF LatchedCacheFaithful
  <2>2. CASE ~lat
    <3>1. latchedCache' = latchedCache
      BY <2>2 DEF Accept
    <3>2. g \notin DOMAIN latchedCache
      BY <2>2 DEF HubInv, CacheInv, LatchedCacheFaithful
    <3> QED
      BY <2>2, <3>1, <3>2, <1>1, <1>3 DEF HubInv, CacheInv, LatchedCacheFaithful
  <2> QED
    BY <2>1, <2>2
<1>5. \A h \in DOMAIN latchedCache' : latchedCache'[h] \in Frames
  <2>1. published[g] + 1 \in Frames
    BY BrokerAssumption DEF Accept, HubInv, CacheInv, Frames
  <2> QED
    BY <2>1 DEF Accept, MapSet, HubInv, CacheInv
<1> QED
  BY <1>1, <1>2, <1>4, <1>5 DEF CacheInv

\* The subscriptions do not notice what happens to the registry.
LEMMA SubsKept ==
    ASSUME HubInv, UNCHANGED <<subs, written, shed>>,
           conn' \in [Sources \cup Clients -> {"new", "open", "closing", "gone"}],
           \A c \in Clients :
               \/ conn'[c] = conn[c]
               \/ conn'[c] = "open" /\ conn[c] = "new"
               \/ conn'[c] = "closing" /\ conn[c] = "open",
           nextGlobalId' \in Nat, nextGlobalId' >= nextGlobalId,
           published' = published,
           \A g \in DOMAIN latchedCache' :
               g \in DOMAIN latchedCache /\ latchedCache'[g] = latchedCache[g]
    PROVE  SubsInv' /\ SentInv'
<1>1. \A c \in Clients : conn[c] = "new" => DOMAIN subs[c] = {}
  BY DEF HubInv, SubsInv
<1>2. \A c \in Clients : DOMAIN subs[c] \subseteq 1..(nextGlobalId' - 1)
  BY IdFacts DEF HubInv, SubsInv
<1>3. SubsInv'
  <2>1. \A c \in Clients : \A g \in DOMAIN subs[c] :
           SubGood(subs[c][g], published[g])'
    BY DEF HubInv, SubsInv, SubGood
  <2> QED
    BY <1>1, <1>2, <2>1 DEF HubInv, SubsInv
<1>4. LatchedReachesSubscriber'
  BY <1>1 DEF HubInv, SentInv, LatchedReachesSubscriber
<1> QED
  BY <1>3, <1>4 DEF HubInv, SentInv

-----------------------------------------------------------------------------
(* One subscription changes. *)

OnlySub(c, g, s) ==
    /\ DOMAIN subs' = Clients
    /\ DOMAIN subs'[c] = DOMAIN subs[c] \cup {g}
    /\ subs'[c][g] = s
    /\ \A h \in DOMAIN subs[c] : h # g => subs'[c][h] = subs[c][h]
    /\ \A d \in Clients : d # c => subs'[d] = subs[d]

\* conn.subs.set touches the one subscription it names.
LEMMA OnlySubByMapSet ==
    ASSUME HubInv, NEW c \in Clients, NEW g, NEW s,
           subs' = [subs EXCEPT ![c] = MapSet(@, g, s)]
    PROVE  OnlySub(c, g, s)
<1>1. subs'[c] = MapSet(subs[c], g, s)
  BY DEF HubInv, SubsInv
<1>2. /\ DOMAIN subs' = Clients
      /\ \A d \in Clients : d # c => subs'[d] = subs[d]
  BY DEF HubInv, SubsInv
<1> QED
  BY <1>1, <1>2 DEF OnlySub, MapSet

\* An assignment to a field of a subscription touches only that one.
LEMMA OnlySubByExcept ==
    ASSUME HubInv, NEW c \in Clients, NEW g \in DOMAIN subs[c], NEW s,
           subs' = [subs EXCEPT ![c][g] = s]
    PROVE  OnlySub(c, g, s)
<1>1. subs'[c] = [subs[c] EXCEPT ![g] = s]
  BY DEF HubInv, SubsInv
<1>2. /\ DOMAIN subs' = Clients
      /\ \A d \in Clients : d # c => subs'[d] = subs[d]
  BY DEF HubInv, SubsInv
<1> QED
  BY <1>1, <1>2 DEF OnlySub

\* A sound record in place of one subscription keeps SubsInv.
LEMMA OneSubInv ==
    ASSUME HubInv, NEW c \in Clients, NEW g \in 1..(nextGlobalId - 1), NEW s,
           OnlySub(c, g, s), SubGood(s, published[g]), conn[c] # "new",
           s.timer # "off" => conn[c] \in {"open", "closing"},
           UNCHANGED <<conn, published, nextGlobalId>>
    PROVE  SubsInv'
<1>1. \A d \in Clients : DOMAIN subs'[d] \subseteq 1..(nextGlobalId - 1)
  BY DEF HubInv, SubsInv, OnlySub
<1>2. ASSUME NEW d \in Clients, NEW h \in DOMAIN subs'[d]
      PROVE  /\ SubGood(subs'[d][h], published[h])
             /\ conn[d] # "new"
             /\ subs'[d][h].timer # "off" => conn[d] \in {"open", "closing"}
  <2>1. CASE d = c /\ h = g
    BY <2>1 DEF OnlySub
  <2>2. CASE ~(d = c /\ h = g)
    <3>1. h \in DOMAIN subs[d] /\ subs'[d][h] = subs[d][h]
      BY <2>2 DEF OnlySub
    <3> QED
      BY <3>1 DEF HubInv, SubsInv
  <2> QED
    BY <2>1, <2>2
<1> QED
  BY <1>1, <1>2 DEF HubInv, SubsInv, OnlySub

\* A write to one subscription, accounted for, keeps SentInv.
LEMMA OneSubSent ==
    ASSUME HubInv, NEW c \in Clients, NEW g \in GlobalIds, NEW s, OnlySub(c, g, s),
           UNCHANGED <<conn, published, latchedCache>>,
           written' \in [Clients -> [GlobalIds -> Nat]],
           shed' \in [Clients -> BOOLEAN],
           \A d \in Clients, h \in GlobalIds :
               d # c \/ h # g => written'[d][h] = written[d][h],
           \A d \in Clients : shed[d] => shed'[d],
           written'[c][g] <= published[g],
           conn[c] = "open" /\ ~shed'[c] /\ g \in DOMAIN latchedCache
               => latchedCache[g] \in {written'[c][g], s.pending}
    PROVE  SentInv'
<1>1. ASSUME NEW d \in Clients, NEW h \in DOMAIN subs'[d] \cap DOMAIN latchedCache,
             conn[d] = "open", ~shed'[d]
      PROVE  latchedCache[h] \in {written'[d][h], subs'[d][h].pending}
  <2>1. CASE d = c /\ h = g
    BY <2>1, <1>1 DEF OnlySub
  <2>2. CASE ~(d = c /\ h = g)
    <3>1. h \in DOMAIN subs[d] /\ subs'[d][h] = subs[d][h]
      BY <2>2 DEF OnlySub
    <3>2. h \in GlobalIds
      BY IdFacts DEF HubInv, CacheInv, LatchedCacheFaithful
    <3>3. ~shed[d]
      BY <1>1
    <3> QED
      BY <1>1, <2>2, <3>1, <3>2, <3>3 DEF HubInv, SentInv, LatchedReachesSubscriber
  <2> QED
    BY <2>1, <2>2
<1>2. LatchedReachesSubscriber'
  BY <1>1 DEF LatchedReachesSubscriber
<1>3. \A d \in Clients : \A h \in GlobalIds : written'[d][h] <= published'[h]
  BY DEF HubInv, SentInv
<1> QED
  BY <1>2, <1>3 DEF SentInv

-----------------------------------------------------------------------------
\* trySend: the frame is written, or the client counts as backed up.
LEMMA TrySendInv ==
    ASSUME HubInv, NEW c \in Clients, NEW g \in 1..(nextGlobalId - 1), NEW s,
           NEW f \in Frames, f <= published[g], SubGood(s, published[g]),
           s.timer = "off", conn[c] = "open",
           TrySend(c, g, s, f),
           UNCHANGED <<conn, published, latchedCache, nextGlobalId>>,
           ~shed[c] /\ g \in DOMAIN latchedCache
               => latchedCache[g] \in {f, written[c][g]}
    PROVE  SubsInv' /\ SentInv'
<1>1. g \in GlobalIds
  BY IdFacts DEF HubInv
<1>2. /\ written \in [Clients -> [GlobalIds -> Nat]]
      /\ shed \in [Clients -> BOOLEAN]
      /\ published[g] \in Nat
      /\ written[c][g] \in Nat /\ written[c][g] <= published[g]
  BY <1>1, BrokerAssumption DEF HubInv, SentInv, CacheInv
<1>3. f \in Nat
  BY FramesFacts
<1>4. g \in DOMAIN latchedCache => latchedCache[g] = published[g]
  BY DEF HubInv, CacheInv, LatchedCacheFaithful
<1>5. CASE BackedUp(c)
  <2>1. subs' = [subs EXCEPT ![c] = MapSet(@, g, s)]
    BY <1>5 DEF TrySend
  <2>2. OnlySub(c, g, s)
    BY <2>1, OnlySubByMapSet
  <2>3. shed' = [shed EXCEPT ![c] = TRUE] /\ written' = written
    BY <1>5 DEF TrySend
  <2>4. shed' \in [Clients -> BOOLEAN] /\ shed'[c]
        /\ \A d \in Clients : shed[d] => shed'[d]
    BY <1>2, <2>3
  <2>5. SubsInv'
    BY <2>2, OneSubInv
  <2>6. SentInv'
    BY <1>1, <1>2, <2>2, <2>3, <2>4, OneSubSent
  <2> QED
    BY <2>5, <2>6
<1>6. CASE ~BackedUp(c)
  <2> DEFINE w == IF f > written[c][g] THEN f ELSE written[c][g]
  <2>1. subs' = [subs EXCEPT ![c] = MapSet(@, g, Stamped(s))]
    BY <1>6 DEF TrySend
  <2>2. OnlySub(c, g, Stamped(s))
    BY <2>1, OnlySubByMapSet
  <2>3. shed' = shed /\ written' = [written EXCEPT ![c][g] = w]
    BY <1>6 DEF TrySend
  <2>4. w \in Nat /\ w <= published[g]
    BY <1>2, <1>3
  <2>5. ~shed[c] /\ g \in DOMAIN latchedCache => latchedCache[g] = w
    <3> SUFFICES ASSUME ~shed[c], g \in DOMAIN latchedCache
                 PROVE  latchedCache[g] = w
      OBVIOUS
    <3>1. latchedCache[g] = published[g]
      BY <1>4
    <3>2. /\ written[c][g] \in Nat /\ f \in Nat /\ published[g] \in Nat
          /\ written[c][g] <= published[g] /\ f <= published[g]
          /\ published[g] \in {f, written[c][g]}
      BY <1>2, <1>3, <3>1
    <3> QED
      BY <3>1, <3>2
  <2> HIDE DEF w
  <2>6. /\ written' \in [Clients -> [GlobalIds -> Nat]]
        /\ written'[c][g] = w
        /\ \A d \in Clients, h \in GlobalIds :
              d # c \/ h # g => written'[d][h] = written[d][h]
    BY <1>1, <1>2, <2>3, <2>4
  <2>7. SubGood(Stamped(s), published[g]) /\ Stamped(s).timer = "off"
    BY <1>2, StampedGood
  <2>8. SubsInv'
    BY <2>2, <2>7, OneSubInv
  <2>9. SentInv'
    BY <1>1, <1>2, <2>2, <2>3, <2>4, <2>5, <2>6, OneSubSent
  <2> QED
    BY <2>8, <2>9
<1> QED
  BY <1>5, <1>6

-----------------------------------------------------------------------------
(* fanout: every subscriber is served, told to wait, or counts as backed up.*)

\* A subscription that fanout has served is sound for the new frame.
LEMMA DeliveredGood ==
    ASSUME NEW c, NEW s, NEW last \in Nat, NEW f \in Frames, SubGood(s, last), last <= f
    PROVE  /\ SubGood(Delivered(c, s, f), f)
           /\ MustWait(s) => Delivered(c, s, f).pending = f
<1>1. f \in Nat /\ s \in SubStates(Frames)
  BY FramesFacts DEF SubGood
<1>2. s.pending \in Nat
  BY <1>1, PendingIsNat
<1>3. SubGood(s, f)
  BY <1>1, <1>2 DEF SubGood
<1>4. SubGood(Stamped(s), f) /\ SubGood(Park(s, f), f) /\ Park(s, f).pending = f
  BY <1>1, <1>3, StampedGood, ParkedGood
<1> QED
  BY <1>3, <1>4 DEF Delivered

\* Caching a frame and fanning it out keeps subscriptions and replay sound.
LEMMA FanoutInv ==
    ASSUME HubInv, CacheInv', NEW g \in 1..(nextGlobalId - 1), NEW lat \in BOOLEAN,
           Accept(g, lat), Fanout(g, published[g] + 1),
           UNCHANGED <<conn, nextGlobalId>>
    PROVE  SubsInv' /\ SentInv'
<1> DEFINE f == published[g] + 1
<1>1. g \in GlobalIds
  BY IdFacts DEF HubInv
<1>2. /\ \A h \in GlobalIds : published[h] \in Nat
      /\ f \in Frames /\ f \in Nat /\ f > published[g] /\ published'[g] = f
      /\ \A h \in GlobalIds : h # g => published'[h] = published[h]
  BY <1>1, BrokerAssumption DEF Accept, Frames, HubInv, CacheInv
<1> HIDE DEF f
<1>3. \A h \in DOMAIN latchedCache' :
          h # g => h \in DOMAIN latchedCache /\ latchedCache'[h] = latchedCache[h]
  BY DEF Accept, MapSet
<1>4. g \in DOMAIN latchedCache' => latchedCache'[g] = f
  BY <1>2 DEF CacheInv, LatchedCacheFaithful
<1>5. /\ DOMAIN subs' = Clients
      /\ \A c \in Clients : subs'[c] =
            IF Reaches(c, g) THEN [subs[c] EXCEPT ![g] = Delivered(c, @, f)]
            ELSE subs[c]
  BY DEF Fanout, f
<1>6. \A c \in Clients :
        /\ DOMAIN subs'[c] = DOMAIN subs[c]
        /\ \A h \in DOMAIN subs[c] : h # g \/ ~Reaches(c, g) => subs'[c][h] = subs[c][h]
        /\ Reaches(c, g) => subs'[c][g] = Delivered(c, subs[c][g], f)
  BY <1>5 DEF Reaches
<1>7. ASSUME NEW c \in Clients, NEW h \in DOMAIN subs'[c]
      PROVE  /\ SubGood(subs'[c][h], published'[h])
             /\ conn[c] # "new"
             /\ subs'[c][h].timer # "off" => conn[c] \in {"open", "closing"}
  <2>1. /\ h \in DOMAIN subs[c] /\ h \in GlobalIds
        /\ SubGood(subs[c][h], published[h]) /\ conn[c] # "new"
        /\ subs[c][h].timer # "off" => conn[c] \in {"open", "closing"}
    BY <1>6, IdFacts DEF HubInv, SubsInv
  <2>2. CASE h = g /\ Reaches(c, g)
    <3>1. SubGood(Delivered(c, subs[c][g], f), f)
      BY <1>1, <1>2, <2>1, <2>2, DeliveredGood
    <3>2. conn[c] = "open"
      BY <2>2 DEF Reaches
    <3> QED
      BY <1>2, <1>6, <2>2, <3>1, <3>2
  <2>3. CASE ~(h = g /\ Reaches(c, g))
    <3>1. subs'[c][h] = subs[c][h]
      BY <1>6, <2>1, <2>3
    <3>2. published'[h] \in Nat /\ published[h] \in Nat /\ published[h] <= published'[h]
      BY <1>2, <2>1
    <3>3. subs[c][h].pending \in Nat
      BY <2>1, PendingIsNat DEF SubGood
    <3> QED
      BY <2>1, <3>1, <3>2, <3>3 DEF SubGood
  <2> QED
    BY <2>2, <2>3
<1>8. SubsInv'
  BY <1>5, <1>6, <1>7 DEF HubInv, SubsInv
<1>9. /\ written' \in [Clients -> [GlobalIds -> Nat]]
      /\ shed' \in [Clients -> BOOLEAN]
      /\ \A c \in Clients, h \in GlobalIds : h # g => written'[c][h] = written[c][h]
      /\ \A c \in Clients : /\ written'[c][g] \in {written[c][g], f}
                            /\ SendsNow(c, g) /\ ~BackedUp(c) => written'[c][g] = f
                            /\ SendsNow(c, g) /\ BackedUp(c) => shed'[c]
                            /\ shed[c] => shed'[c]
  <2>1. written \in [Clients -> [GlobalIds -> Nat]] /\ shed \in [Clients -> BOOLEAN]
    BY DEF HubInv, SentInv
  <2>2. written' = [c \in Clients |->
            IF SendsNow(c, g) /\ ~BackedUp(c) THEN [written[c] EXCEPT ![g] = f]
            ELSE written[c]]
    BY DEF Fanout, f
  <2>3. shed' = [c \in Clients |-> shed[c] \/ (SendsNow(c, g) /\ BackedUp(c))]
    BY DEF Fanout
  <2> QED
    BY <1>1, <1>2, <2>1, <2>2, <2>3
<1>10. \A c \in Clients : \A h \in GlobalIds : written'[c][h] <= published'[h]
  BY <1>1, <1>2, <1>9 DEF HubInv, SentInv
<1>11. ASSUME NEW c \in Clients, NEW h \in DOMAIN subs'[c] \cap DOMAIN latchedCache',
              conn[c] = "open", ~shed'[c]
       PROVE  latchedCache'[h] \in {written'[c][h], subs'[c][h].pending}
  <2>1. h \in DOMAIN subs[c] /\ ~shed[c] /\ h \in GlobalIds
    BY <1>6, <1>9, <1>11, IdFacts DEF HubInv, SubsInv
  <2>2. CASE h = g
    <3>1. Reaches(c, g)
      BY <1>11, <2>1, <2>2 DEF Reaches
    <3>2. CASE MustWait(subs[c][g])
      <4>1. SubGood(subs[c][g], published[g])
        BY <2>1, <2>2 DEF HubInv, SubsInv
      <4>2. Delivered(c, subs[c][g], f).pending = f
        <5>1. published[g] \in Nat /\ f \in Frames /\ published[g] <= f
          BY <1>1, <1>2
        <5> QED
          BY <3>2, <4>1, <5>1, DeliveredGood
      <4> QED
        BY <1>4, <1>6, <2>2, <3>1, <4>2
    <3>3. CASE ~MustWait(subs[c][g])
      BY <1>4, <1>9, <1>11, <2>2, <3>1, <3>3 DEF SendsNow
    <3> QED
      BY <3>2, <3>3
  <2>3. CASE h # g
    BY <1>3, <1>6, <1>9, <1>11, <2>1, <2>3
       DEF HubInv, SentInv, LatchedReachesSubscriber
  <2> QED
    BY <2>2, <2>3
<1>12. LatchedReachesSubscriber'
  BY <1>11 DEF LatchedReachesSubscriber
<1> QED
  BY <1>8, <1>9, <1>10, <1>12 DEF SentInv

-----------------------------------------------------------------------------
(* The actions, one lemma for each group that disturbs the same parts. *)

\* Steps that do not advertise keep the registry and the id counters.
LEMMA QuietInv ==
    ASSUME HubInv, UNCHANGED <<regVars, localIdCounters, httpChannels>>
    PROVE  RegInv' /\ CountersInv'
BY RegStepInv DEF HubInv, CountersInv, regVars

\* The registry, the cache and the histories of data stay as they are.
LEMMA ConnectionsInv ==
    ASSUME HubInv, UNCHANGED <<regVars, subs, latchedCache, localIdCounters,
                               httpChannels, histVars>>,
           conn' \in [Sources \cup Clients -> {"new", "open", "closing", "gone"}],
           \A c \in Clients :
               \/ conn'[c] = conn[c]
               \/ conn'[c] = "open" /\ conn[c] = "new"
               \/ conn'[c] = "closing" /\ conn[c] = "open"
    PROVE  HubInv'
<1>1. RegInv' /\ CountersInv'
  BY QuietInv
<1>2. nextGlobalId' \in Nat /\ nextGlobalId' >= nextGlobalId
  BY IdFacts DEF regVars, HubInv
<1>3. CacheInv'
  BY <1>2, CacheKept DEF regVars, histVars
<1>4. SubsInv' /\ SentInv'
  BY <1>2, SubsKept DEF regVars, histVars
<1> QED
  BY <1>1, <1>3, <1>4 DEF HubInv

\* A socket opens, or a client starts to close it.
LEMMA ConnectInv ==
    ASSUME HubInv, NEW c \in Sources \cup Clients,
           \/ c \in Sources /\ SourceConnects(c)
           \/ c \in Clients /\ (ClientConnects(c) \/ ClientCloses(c))
    PROVE  HubInv'
<1>1. conn \in [Sources \cup Clients -> {"new", "open", "closing", "gone"}]
  BY DEF HubInv, SubsInv
<1>2. /\ UNCHANGED <<regVars, subs, latchedCache, localIdCounters, httpChannels,
                     histVars>>
      /\ \/ conn[c] = "new" /\ conn' = [conn EXCEPT ![c] = "open"]
         \/ conn[c] = "open" /\ conn' = [conn EXCEPT ![c] = "closing"]
  BY DEF SourceConnects, ClientConnects, ClientCloses
<1> QED
  BY <1>1, <1>2, ConnectionsInv

\* onClose of a client: its subscriptions are cleared with their timers.
LEMMA ClientGoneInv ==
    ASSUME HubInv, NEW c \in Clients, ClientGone(c)
    PROVE  HubInv'
<1>1. RegInv' /\ CountersInv'
  BY QuietInv DEF ClientGone
<1>2. nextGlobalId' \in Nat /\ nextGlobalId' >= nextGlobalId
  BY IdFacts DEF regVars, HubInv, ClientGone
<1>3. CacheInv'
  BY <1>2, CacheKept DEF ClientGone, regVars, histVars
<1>4. /\ conn' \in [Sources \cup Clients -> {"new", "open", "closing", "gone"}]
      /\ conn'[c] = "gone"
      /\ \A d \in Clients : d # c => conn'[d] = conn[d]
  BY DEF HubInv, SubsInv, ClientGone
<1>5. /\ DOMAIN subs' = Clients
      /\ subs'[c] = [g \in DOMAIN subs[c] |-> ClearSub(subs[c][g])]
      /\ \A d \in Clients : d # c => subs'[d] = subs[d]
  BY DEF HubInv, SubsInv, ClientGone
<1>6. ASSUME NEW g \in DOMAIN subs[c]
      PROVE  SubGood(subs'[c][g], published[g]) /\ subs'[c][g].timer = "off"
  <2>1. subs[c][g] \in SubStates(Frames) /\ g \in GlobalIds
    BY IdFacts DEF HubInv, SubsInv, SubGood
  <2>2. published[g] \in Nat
    BY <2>1, BrokerAssumption DEF HubInv, CacheInv
  <2> QED
    BY <1>5, <2>1, <2>2, ClearedGood, ClearSubFacts
<1>7. UNCHANGED <<published, written, shed, latchedCache, nextGlobalId>>
  BY DEF ClientGone, histVars, regVars
<1>8. SubsInv'
  <2>1. \A d \in Clients : DOMAIN subs'[d] \subseteq 1..(nextGlobalId' - 1)
    BY <1>5, <1>7 DEF HubInv, SubsInv
  <2>2. ASSUME NEW d \in Clients, NEW g \in DOMAIN subs'[d]
        PROVE  /\ SubGood(subs'[d][g], published'[g])
               /\ conn'[d] # "new"
               /\ subs'[d][g].timer # "off" => conn'[d] \in {"open", "closing"}
    <3>1. CASE d = c
      BY <1>4, <1>5, <1>6, <1>7, <3>1
    <3>2. CASE d # c
      BY <1>4, <1>5, <1>7, <3>2 DEF HubInv, SubsInv
    <3> QED
      BY <3>1, <3>2
  <2> QED
    BY <1>4, <1>5, <2>1, <2>2 DEF SubsInv
<1>9. SentInv'
  <2>1. LatchedReachesSubscriber'
    BY <1>4, <1>5, <1>7 DEF HubInv, SentInv, LatchedReachesSubscriber
  <2> QED
    BY <1>7, <2>1 DEF HubInv, SentInv
<1> QED
  BY <1>1, <1>3, <1>8, <1>9 DEF HubInv

\* Channels are withdrawn, by name or because their source has gone.
LEMMA WithdrawInv ==
    ASSUME HubInv, NEW s \in Sources,
           (\E n \in Names : Unadvertise(s, n)) \/ SourceGone(s)
    PROVE  HubInv'
<1>1. s \in Owners /\ s \notin Clients
  BY BrokerAssumption
<1>2. (\E n \in Names : RegUnadvertise(s, n)) \/ RegRemoveBySource(s)
  BY DEF Unadvertise, SourceGone
<1>3. RegInv' /\ RemovesOnly
  BY <1>1, <1>2, UnadvertiseInv, RemoveBySourceInv, RemovalShape DEF HubInv
<1>4. /\ UNCHANGED <<subs, httpChannels, published, written, shed>>
      /\ latchedCache' = MapDelete(latchedCache, Removed)
      /\ conn' = conn \/ conn' = [conn EXCEPT ![s] = "gone"]
      /\ localIdCounters' = localIdCounters
            \/ localIdCounters' = [localIdCounters EXCEPT ![s] = 0]
  BY DEF Unadvertise, SourceGone, histVars
<1>5. nextGlobalId' = nextGlobalId /\ nextGlobalId \in Nat /\ nextGlobalId >= 1
  BY <1>3, IdFacts DEF HubInv, RemovesOnly
<1>6. CountersInv'
  BY <1>4, <1>5 DEF HubInv, CountersInv
<1>7. CacheInv'
  BY <1>3, <1>4, CacheShrinks
<1>8. /\ conn' \in [Sources \cup Clients -> {"new", "open", "closing", "gone"}]
      /\ \A c \in Clients : conn'[c] = conn[c]
  BY <1>1, <1>4 DEF HubInv, SubsInv
<1>9. \A g \in DOMAIN latchedCache' :
          g \in DOMAIN latchedCache /\ latchedCache'[g] = latchedCache[g]
  BY <1>4 DEF MapDelete
<1>10. SubsInv' /\ SentInv'
  BY <1>4, <1>5, <1>8, <1>9, SubsKept
<1> QED
  BY <1>3, <1>6, <1>7, <1>10 DEF HubInv

\* The local ids that the hub makes up are ones the registry accepts.
LEMMA SourceLocalIds ==
    ASSUME HubInv, NEW s \in Sources, NEW n \in Names, NEW lat \in BOOLEAN,
           \/ \E l \in LocalIds : AdvertiseWithId(s, l, n, lat)
           \/ AdvertiseWithoutId(s, n, lat)
    PROVE  \E l \in LocalIds : RegAdvertise(s, l, n, lat)
<1>1. CASE \E l \in LocalIds : AdvertiseWithId(s, l, n, lat)
  BY <1>1 DEF AdvertiseWithId
<1>2. CASE AdvertiseWithoutId(s, n, lat)
  <2>1. RegAdvertise(s, localIdCounters[s] + 1, n, lat)
    BY <1>2 DEF AdvertiseWithoutId
  <2>2. nextGlobalId <= MaxChannels
    BY <2>1 DEF RegAdvertise
  <2>3. localIdCounters[s] + 1 \in 1..MaxChannels
    BY <2>2, IdFacts DEF HubInv, CountersInv
  <2> QED
    BY <2>1, <2>3, BrokerAssumption
<1> QED
  BY <1>1, <1>2

\* The local id of an HTTP source's new channel is a fresh number.
LEMMA HttpLocalIds ==
    ASSUME HubInv, NEW h \in HttpSources, NEW n \in Names, NEW lat \in BOOLEAN,
           InjectNew(h, n, lat)
    PROVE  /\ Cardinality(DOMAIN httpChannels) \in Nat
           /\ Cardinality(DOMAIN httpChannels) + 1 \in LocalIds
           /\ RegAdvertise(h, Cardinality(DOMAIN httpChannels) + 1, n, lat)
<1>1. RegAdvertise(h, Cardinality(DOMAIN httpChannels) + 1, n, lat)
  BY DEF InjectNew
<1>2. nextGlobalId <= MaxChannels
  BY <1>1 DEF RegAdvertise
<1>3. Cardinality(DOMAIN httpChannels) \in Nat
  BY FS_CardinalityType DEF HubInv, CountersInv
<1>4. Cardinality(DOMAIN httpChannels) + 1 \in 1..MaxChannels
  BY <1>2, <1>3, IdFacts DEF HubInv, CountersInv
<1> QED
  BY <1>1, <1>3, <1>4, BrokerAssumption

\* onAdvertise, with the source's own local id or one made up by the hub.
LEMMA AdvertisedInv ==
    ASSUME HubInv, NEW s \in Sources, NEW n \in Names, NEW lat \in BOOLEAN,
           \/ \E l \in LocalIds : AdvertiseWithId(s, l, n, lat)
           \/ AdvertiseWithoutId(s, n, lat)
    PROVE  HubInv'
<1>1. s \in Owners /\ s \notin Clients
  BY BrokerAssumption
<1>2. PICK l \in LocalIds : RegAdvertise(s, l, n, lat)
  BY SourceLocalIds
<1>3. RegInv'
  BY <1>1, <1>2, AdvertiseInv DEF HubInv
<1>4. /\ UNCHANGED <<conn, subs, latchedCache, httpChannels, published, written, shed>>
      /\ localIdCounters' \in {localIdCounters,
                               [localIdCounters EXCEPT ![s] = @ + 1]}
  BY DEF AdvertiseWithId, AdvertiseWithoutId, histVars
<1>5. /\ nextGlobalId \in GlobalIds /\ nextGlobalId \in Nat
      /\ nextGlobalId' = nextGlobalId + 1
      /\ DOMAIN byGlobalId' = DOMAIN byGlobalId \cup {nextGlobalId}
      /\ \A g \in DOMAIN byGlobalId : byGlobalId'[g].latched = byGlobalId[g].latched
  BY <1>2, AdvertiseShape, IdFacts DEF HubInv
<1>6. nextGlobalId' \in Nat /\ nextGlobalId' >= nextGlobalId
  BY <1>5
<1>7. CountersInv'
  <2>1. /\ localIdCounters' \in [Sources -> Nat]
        /\ \A t \in Sources : localIdCounters'[t] < nextGlobalId'
    BY <1>4, <1>5 DEF HubInv, CountersInv
  <2>2. Cardinality(DOMAIN httpChannels) \in Nat
    BY FS_CardinalityType DEF HubInv, CountersInv
  <2> QED
    BY <1>4, <1>5, <2>1, <2>2 DEF HubInv, CountersInv
<1>8. CacheInv'
  BY <1>4, <1>5, <1>6, CacheKept
<1>9. SubsInv' /\ SentInv'
  <2>1. conn \in [Sources \cup Clients -> {"new", "open", "closing", "gone"}]
    BY DEF HubInv, SubsInv
  <2> QED
    BY <1>4, <1>6, <2>1, SubsKept
<1> QED
  BY <1>3, <1>7, <1>8, <1>9 DEF HubInv

\* A frame of a known channel: cached if latched, then fanned out.
LEMMA RelayInv ==
    ASSUME HubInv, NEW g \in 1..(nextGlobalId - 1), NEW lat \in BOOLEAN,
           lat <=> g \in DOMAIN byGlobalId /\ byGlobalId[g].latched,
           Accept(g, lat), Fanout(g, published[g] + 1),
           UNCHANGED <<regVars, conn, localIdCounters, httpChannels>>
    PROVE  HubInv'
<1>1. RegInv' /\ CountersInv'
  BY QuietInv
<1>2. /\ UNCHANGED <<byGlobalId, nextGlobalId, conn>>
      /\ nextGlobalId \in Nat /\ g \in GlobalIds /\ g < nextGlobalId
  BY IdFacts DEF regVars, HubInv
<1>3. CacheInv'
  BY <1>1, <1>2, CacheAccepts
<1>4. SubsInv' /\ SentInv'
  BY <1>2, <1>3, FanoutInv
<1> QED
  BY <1>1, <1>3, <1>4 DEF HubInv

\* onJsonData and onBinary: a frame from a source.
LEMMA DataInv ==
    ASSUME HubInv, NEW s \in Sources, NEW l \in LocalIds, Data(s, l)
    PROVE  HubInv'
<1>1. s \in Owners
  BY BrokerAssumption
<1>2. PICK r \in ResolveLocal(s, l) :
         /\ Accept(r.id, byGlobalId[r.id].latched)
         /\ Fanout(r.id, published[r.id] + 1)
  BY DEF Data
<1>3. r.id \in DOMAIN byGlobalId
  BY <1>1 DEF ResolveLocal, HubInv, RegInv, IndexSound
<1>4. r.id \in 1..(nextGlobalId - 1) /\ byGlobalId[r.id].latched \in BOOLEAN
  BY <1>3, IdFacts DEF HubInv
<1>5. UNCHANGED <<regVars, conn, localIdCounters, httpChannels>>
  BY DEF Data
<1> QED
  BY <1>2, <1>3, <1>4, <1>5, RelayInv

\* injectJson on a channel that an earlier injection advertised.
LEMMA InjectKnownInv ==
    ASSUME HubInv, NEW h \in HttpSources, NEW n \in Names, InjectKnown(h, n)
    PROVE  HubInv'
<1> DEFINE g == httpChannels[<<h, n>>]
           lat == g \in DOMAIN byGlobalId /\ byGlobalId[g].latched
<1>1. /\ <<h, n>> \in DOMAIN httpChannels
      /\ Accept(g, lat) /\ Fanout(g, published[g] + 1)
      /\ UNCHANGED <<regVars, conn, localIdCounters, httpChannels>>
  BY DEF InjectKnown
<1>2. g \in 1..(nextGlobalId - 1)
  BY <1>1 DEF HubInv, CountersInv
<1>3. lat \in BOOLEAN
  BY IdFacts DEF HubInv
<1>4. lat <=> g \in DOMAIN byGlobalId /\ byGlobalId[g].latched
  OBVIOUS
<1> HIDE DEF g, lat
<1> QED
  BY <1>1, <1>2, <1>3, <1>4, RelayInv

\* injectJson that advertises its channel first.
LEMMA InjectNewInv ==
    ASSUME HubInv, NEW h \in HttpSources, NEW n \in Names, NEW lat \in BOOLEAN,
           InjectNew(h, n, lat)
    PROVE  HubInv'
<1> DEFINE l == Cardinality(DOMAIN httpChannels) + 1
           g == nextGlobalId
<1>1. /\ <<h, n>> \notin DOMAIN httpChannels
      /\ RegAdvertise(h, l, n, lat)
      /\ httpChannels' = MapSet(httpChannels, <<h, n>>, g)
      /\ Accept(g, lat)
      /\ UNCHANGED <<conn, subs, localIdCounters, written, shed>>
  BY DEF InjectNew
<1>2. Cardinality(DOMAIN httpChannels) \in Nat
  BY HttpLocalIds
<1>3. /\ g \in GlobalIds /\ g \in Nat /\ g >= 1 /\ nextGlobalId' = g + 1
      /\ g \notin DOMAIN byGlobalId
      /\ DOMAIN byGlobalId' = DOMAIN byGlobalId \cup {g}
      /\ byGlobalId'[g].latched = lat
      /\ \A k \in DOMAIN byGlobalId : byGlobalId'[k].latched = byGlobalId[k].latched
  BY <1>1, AdvertiseShape, IdFacts DEF HubInv
<1>4. h \in Owners /\ l \in LocalIds
  BY BrokerAssumption, HttpLocalIds
<1>5. RegInv'
  BY <1>1, <1>4, AdvertiseInv DEF HubInv
<1>6. CountersInv'
  <2>1. /\ DOMAIN httpChannels' = DOMAIN httpChannels \cup {<<h, n>>}
        /\ \A k \in DOMAIN httpChannels' :
              \/ httpChannels'[k] = g
              \/ k \in DOMAIN httpChannels /\ httpChannels'[k] = httpChannels[k]
    BY <1>1 DEF MapSet
  <2>2. IsFiniteSet(DOMAIN httpChannels)
    BY DEF HubInv, CountersInv
  <2>3. IsFiniteSet(DOMAIN httpChannels')
    BY <2>1, <2>2, FS_AddElement
  <2>4. Cardinality(DOMAIN httpChannels') = l
    BY <1>1, <2>1, <2>2, FS_AddElement
  <2>5. l < nextGlobalId'
    BY <1>2, <1>3 DEF HubInv, CountersInv
  <2>6. \A k \in DOMAIN httpChannels' : httpChannels'[k] \in 1..(nextGlobalId' - 1)
    BY <1>3, <2>1 DEF HubInv, CountersInv
  <2>7. /\ localIdCounters' \in [Sources -> Nat]
        /\ \A t \in Sources : localIdCounters'[t] < nextGlobalId'
    BY <1>1, <1>3 DEF HubInv, CountersInv
  <2> QED
    BY <2>3, <2>4, <2>5, <2>6, <2>7 DEF CountersInv
<1> HIDE DEF l, g
<1>7. CacheInv'
  <2>1. nextGlobalId' \in Nat /\ nextGlobalId' >= nextGlobalId /\ g < nextGlobalId'
    BY <1>3 DEF g
  <2>2. lat <=> g \in DOMAIN byGlobalId' /\ byGlobalId'[g].latched
    BY <1>3
  <2> QED
    BY <1>1, <1>3, <1>5, <2>1, <2>2, CacheAccepts
\* Nobody has subscribed to the new id yet.
<1>8. \A c \in Clients : g \notin DOMAIN subs[c]
  BY <1>3 DEF HubInv, SubsInv, g
<1>9. /\ \A k \in GlobalIds : published[k] \in Nat /\ published'[k] \in Nat
                               /\ published[k] <= published'[k]
      /\ \A k \in GlobalIds : k # g => published'[k] = published[k]
      /\ \A k \in DOMAIN latchedCache' :
            k # g => k \in DOMAIN latchedCache /\ latchedCache'[k] = latchedCache[k]
  BY <1>1, <1>3, BrokerAssumption DEF HubInv, CacheInv, Accept, MapSet
<1>10. SubsInv'
  <2>1. ASSUME NEW c \in Clients, NEW k \in DOMAIN subs[c]
        PROVE  SubGood(subs[c][k], published'[k]) /\ k \in 1..(nextGlobalId' - 1)
    <3>1. k # g /\ k \in GlobalIds /\ k \in 1..(nextGlobalId - 1)
      BY <1>8, IdFacts DEF HubInv, SubsInv
    <3>2. published'[k] = published[k]
      BY <1>9, <3>1
    <3> QED
      BY <1>3, <3>1, <3>2 DEF HubInv, SubsInv, g
  <2> QED
    BY <1>1, <2>1 DEF HubInv, SubsInv
<1>11. SentInv'
  <2>1. \A c \in Clients : \A k \in GlobalIds : written'[c][k] <= published'[k]
    BY <1>1, <1>9 DEF HubInv, SentInv
  <2>2. LatchedReachesSubscriber'
    BY <1>1, <1>8, <1>9 DEF HubInv, SentInv, LatchedReachesSubscriber
  <2> QED
    BY <1>1, <2>1, <2>2 DEF HubInv, SentInv
<1> QED
  BY <1>5, <1>6, <1>7, <1>10, <1>11 DEF HubInv

\* What a step that touches one subscription leaves alone.
LEMMA OneSubQuiet ==
    ASSUME HubInv,
           UNCHANGED <<regVars, conn, latchedCache, localIdCounters, httpChannels,
                       published>>
    PROVE  /\ RegInv' /\ CountersInv' /\ CacheInv'
           /\ UNCHANGED <<conn, published, latchedCache, nextGlobalId>>
<1>1. UNCHANGED <<byGlobalId, nextGlobalId>>
  BY DEF regVars
<1>2. nextGlobalId' \in Nat /\ nextGlobalId' >= nextGlobalId
  BY <1>1, IdFacts DEF HubInv
<1> QED
  BY <1>1, <1>2, QuietInv, CacheKept

\* The number of frames published on a given-out id is a natural number.
LEMMA PublishedIsNat ==
    ASSUME HubInv, NEW g \in 1..(nextGlobalId - 1)
    PROVE  g \in GlobalIds /\ published[g] \in Nat
<1>1. g \in GlobalIds
  BY IdFacts DEF HubInv
<1> QED
  BY <1>1, BrokerAssumption DEF HubInv, CacheInv

\* A subscription record changes and nothing is sent.
LEMMA SilentSubInv ==
    ASSUME HubInv, NEW c \in Clients, NEW g \in 1..(nextGlobalId - 1), NEW s,
           OnlySub(c, g, s), SubGood(s, published[g]), conn[c] # "new",
           s.timer # "off" => conn[c] \in {"open", "closing"},
           UNCHANGED <<conn, published, latchedCache, nextGlobalId, written, shed>>,
           conn[c] = "open" /\ ~shed[c] /\ g \in DOMAIN latchedCache
               => latchedCache[g] \in {written[c][g], s.pending}
    PROVE  SubsInv' /\ SentInv'
<1>1. SubsInv'
  BY OneSubInv
<1>2. g \in GlobalIds /\ written[c][g] <= published[g]
  BY PublishedIsNat DEF HubInv, SentInv
<1>3. written' \in [Clients -> [GlobalIds -> Nat]] /\ shed' \in [Clients -> BOOLEAN]
  BY DEF HubInv, SentInv
<1>4. SentInv'
  BY <1>2, <1>3, OneSubSent
<1> QED
  BY <1>1, <1>4

\* onSubscribe, with the replay of the latched frame.
LEMMA SubscribeInv ==
    ASSUME HubInv, NEW c \in Clients, NEW g \in 1..(nextGlobalId - 1),
           NEW hz \in BOOLEAN, Subscribe(c, g, hz)
    PROVE  HubInv'
<1> DEFINE s == Renewed(OldSub(c, g), hz)
<1>1. /\ conn[c] = "open"
      /\ IF g \in DOMAIN latchedCache
         THEN TrySend(c, g, s, latchedCache[g])
         ELSE /\ subs' = [subs EXCEPT ![c] = MapSet(@, g, s)]
              /\ UNCHANGED <<wire, written, shed>>
      /\ UNCHANGED <<regVars, conn, latchedCache, localIdCounters, httpChannels,
                     published>>
  BY DEF Subscribe
<1>2. OldSub(c, g) \in SubStates(Frames)
  BY NewSubGood DEF OldSub, HubInv, SubsInv, SubGood
<1>3. SubGood(s, published[g]) /\ s.timer = "off"
  BY <1>2, PublishedIsNat, RenewedGood
<1> HIDE DEF s
<1>4. /\ RegInv' /\ CountersInv' /\ CacheInv'
      /\ UNCHANGED <<conn, published, latchedCache, nextGlobalId>>
  BY <1>1, OneSubQuiet
<1>5. SubsInv' /\ SentInv'
  <2>1. CASE g \in DOMAIN latchedCache
    <3>1. latchedCache[g] \in Frames /\ latchedCache[g] = published[g]
      BY <2>1 DEF HubInv, CacheInv, LatchedCacheFaithful
    <3>2. latchedCache[g] <= published[g]
      BY <3>1, PublishedIsNat
    <3> QED
      BY <1>1, <1>3, <1>4, <2>1, <3>1, <3>2, TrySendInv
  <2>2. CASE g \notin DOMAIN latchedCache
    <3>1. OnlySub(c, g, s)
      BY <1>1, <2>2, OnlySubByMapSet
    <3> QED
      BY <1>1, <1>3, <1>4, <2>2, <3>1, SilentSubInv
  <2> QED
    BY <2>1, <2>2
<1> QED
  BY <1>4, <1>5 DEF HubInv

\* onUnsubscribe.
LEMMA UnsubscribeInv ==
    ASSUME HubInv, NEW c \in Clients, NEW g, Unsubscribe(c, g)
    PROVE  HubInv'
<1>1. /\ UNCHANGED <<regVars, conn, latchedCache, localIdCounters, httpChannels,
                     published>>
      /\ UNCHANGED <<written, shed>>
      /\ subs' = [subs EXCEPT ![c] = MapDelete(@, {g})]
  BY DEF Unsubscribe, histVars
<1>2. /\ RegInv' /\ CountersInv' /\ CacheInv'
      /\ UNCHANGED <<conn, published, latchedCache, nextGlobalId>>
  BY <1>1, OneSubQuiet
<1>3. subs'[c] = MapDelete(subs[c], {g})
  BY <1>1 DEF HubInv, SubsInv
<1>4. /\ DOMAIN subs' = Clients
      /\ \A d \in Clients :
            /\ DOMAIN subs'[d] \subseteq DOMAIN subs[d]
            /\ \A h \in DOMAIN subs'[d] : subs'[d][h] = subs[d][h]
  BY <1>1, <1>3 DEF HubInv, SubsInv, MapDelete
<1>5. SubsInv'
  BY <1>2, <1>4 DEF HubInv, SubsInv
<1>6. SentInv'
  <2>1. ASSUME NEW d \in Clients, NEW h \in DOMAIN subs'[d] \cap DOMAIN latchedCache,
               conn[d] = "open", ~shed[d]
        PROVE  latchedCache[h] \in {written[d][h], subs'[d][h].pending}
    <3>1. h \in DOMAIN subs[d] /\ subs'[d][h] = subs[d][h]
      BY <1>4
    <3> QED
      BY <2>1, <3>1 DEF HubInv, SentInv, LatchedReachesSubscriber
  <2>2. LatchedReachesSubscriber'
    BY <1>1, <1>2, <2>1 DEF LatchedReachesSubscriber
  <2> QED
    BY <1>1, <1>2, <2>2 DEF HubInv, SentInv
<1> QED
  BY <1>2, <1>5, <1>6 DEF HubInv

\* The throttle interval of a subscription ends.
LEMMA IntervalInv ==
    ASSUME HubInv, NEW c \in Clients, NEW g, IntervalElapses(c, g)
    PROVE  HubInv'
<1> DEFINE s == Elapsed(subs[c][g])
<1>1. /\ UNCHANGED <<regVars, conn, latchedCache, localIdCounters, httpChannels,
                     published>>
      /\ UNCHANGED <<written, shed>>
      /\ g \in DOMAIN subs[c]
      /\ subs' = [subs EXCEPT ![c][g] = s]
  BY DEF IntervalElapses, histVars
<1>2. /\ RegInv' /\ CountersInv' /\ CacheInv'
      /\ UNCHANGED <<conn, published, latchedCache, nextGlobalId>>
  BY <1>1, OneSubQuiet
<1>3. /\ g \in 1..(nextGlobalId - 1)
      /\ SubGood(subs[c][g], published[g])
      /\ conn[c] # "new"
      /\ subs[c][g].timer # "off" => conn[c] \in {"open", "closing"}
  BY <1>1 DEF HubInv, SubsInv
<1>4. /\ SubGood(s, published[g])
      /\ s.timer # "off" => subs[c][g].timer # "off"
      /\ s.pending = subs[c][g].pending
  <2>1. published[g] \in Nat
    BY <1>3, PublishedIsNat
  <2> QED
    BY <1>3, <2>1, ElapsedGood
<1>5. OnlySub(c, g, s)
  BY <1>1, OnlySubByExcept
<1> HIDE DEF s
<1>6. conn[c] = "open" /\ ~shed[c] /\ g \in DOMAIN latchedCache
          => latchedCache[g] \in {written[c][g], subs[c][g].pending}
  BY <1>1 DEF HubInv, SentInv, LatchedReachesSubscriber
<1>7. SubsInv' /\ SentInv'
  BY <1>1, <1>2, <1>3, <1>4, <1>5, <1>6, SilentSubInv
<1> QED
  BY <1>2, <1>7 DEF HubInv

\* The throttle timer fires and sends what is parked.
LEMMA TimerInv ==
    ASSUME HubInv, NEW c \in Clients, NEW g, TimerFires(c, g)
    PROVE  HubInv'
<1> DEFINE s == Unparked(subs[c][g])
           f == subs[c][g].pending
<1>1. /\ UNCHANGED <<regVars, conn, latchedCache, localIdCounters, httpChannels,
                     published>>
      /\ g \in DOMAIN subs[c] /\ subs[c][g].timer = "due"
      /\ IF f # NoFrame /\ conn[c] = "open"
         THEN TrySend(c, g, s, f)
         ELSE subs' = [subs EXCEPT ![c][g] = s] /\ UNCHANGED <<wire, written, shed>>
  BY DEF TimerFires
<1>2. /\ RegInv' /\ CountersInv' /\ CacheInv'
      /\ UNCHANGED <<conn, published, latchedCache, nextGlobalId>>
  BY <1>1, OneSubQuiet
<1>3. g \in 1..(nextGlobalId - 1) /\ SubGood(subs[c][g], published[g])
      /\ conn[c] # "new"
  BY <1>1 DEF HubInv, SubsInv
<1>4. SubGood(s, published[g]) /\ s.timer = "off"
  BY <1>3, PublishedIsNat, UnparkedGood DEF SubGood
\* A timer that runs has a frame to send.
<1>5. f \in Frames /\ f <= published[g]
  BY <1>1, <1>3 DEF SubGood, SubStates
<1>6. conn[c] = "open" /\ ~shed[c] /\ g \in DOMAIN latchedCache
          => latchedCache[g] \in {f, written[c][g]}
  BY <1>1 DEF HubInv, SentInv, LatchedReachesSubscriber
<1>7. OnlySub(c, g, s) \/ conn[c] = "open"
  BY <1>1, <1>5, OnlySubByExcept
<1> HIDE DEF s, f
<1>8. f # NoFrame
  BY <1>5, FramesFacts
<1>9. SubsInv' /\ SentInv'
  <2>1. CASE conn[c] = "open"
    BY <1>1, <1>2, <1>3, <1>4, <1>5, <1>6, <1>8, <2>1, TrySendInv
  <2>2. CASE conn[c] # "open"
    BY <1>1, <1>2, <1>3, <1>4, <1>7, <2>2, SilentSubInv
  <2> QED
    BY <2>1, <2>2
<1> QED
  BY <1>2, <1>9 DEF HubInv

\* Reading a socket, or doing nothing, leaves the hub's own state alone.
LEMMA WireOnlyInv ==
    ASSUME HubInv, UNCHANGED <<regVars, conn, subs, latchedCache, localIdCounters,
                               httpChannels, histVars>>
    PROVE  HubInv'
<1>1. conn \in [Sources \cup Clients -> {"new", "open", "closing", "gone"}]
  BY DEF HubInv, SubsInv
<1> QED
  BY <1>1, ConnectionsInv

\* Every step of the hub preserves the invariant.
LEMMA HubStepInv == HubInv /\ [Next]_brokerVars => HubInv'
<1> SUFFICES ASSUME HubInv, [Next]_brokerVars PROVE HubInv'
  OBVIOUS
<1>1. ASSUME NEW s \in Sources, SourceStep(s) PROVE HubInv'
  <2>1. CASE SourceConnects(s)
    BY <2>1, ConnectInv
  <2>2. CASE SourceGone(s) \/ \E n \in Names : Unadvertise(s, n)
    BY <2>2, WithdrawInv
  <2>3. ASSUME NEW n \in Names, NEW lat \in BOOLEAN,
               \/ \E l \in LocalIds : AdvertiseWithId(s, l, n, lat)
               \/ AdvertiseWithoutId(s, n, lat)
        PROVE  HubInv'
    BY <2>3, AdvertisedInv
  <2>4. ASSUME NEW l \in LocalIds, Data(s, l) PROVE HubInv'
    BY <2>4, DataInv
  <2> QED
    BY <1>1, <2>1, <2>2, <2>3, <2>4 DEF SourceStep
<1>2. ASSUME NEW h \in HttpSources, HttpStep(h) PROVE HubInv'
  BY <1>2, InjectKnownInv, InjectNewInv DEF HttpStep
<1>3. ASSUME NEW c \in Clients, ClientStep(c) PROVE HubInv'
  BY <1>3, ConnectInv, ClientGoneInv, SubscribeInv, UnsubscribeInv, IntervalInv,
     TimerInv DEF ClientStep
<1>4. ASSUME NEW c \in Clients, Drain(c) PROVE HubInv'
  BY <1>4, WireOnlyInv DEF Drain
<1>5. CASE UNCHANGED brokerVars
  BY <1>5, WireOnlyInv DEF brokerVars, hubVars
<1> QED
  BY <1>1, <1>2, <1>3, <1>4, <1>5 DEF Next, HubNext

\* Every step of the hub is a step of the registry, or leaves it alone.
LEMMA HubRegStep == HubInv /\ [Next]_brokerVars => [RegNext]_regVars
<1> SUFFICES ASSUME HubInv, [Next]_brokerVars PROVE RegNext \/ UNCHANGED regVars
  OBVIOUS
<1>1. ASSUME NEW s \in Sources, SourceStep(s) PROVE RegNext \/ UNCHANGED regVars
  <2> s \in Owners
    BY BrokerAssumption
  <2>1. CASE SourceConnects(s) \/ \E l \in LocalIds : Data(s, l)
    BY <2>1 DEF SourceConnects, Data
  <2>2. CASE SourceGone(s) \/ \E n \in Names : Unadvertise(s, n)
    BY <2>2 DEF SourceGone, Unadvertise, RegNext
  <2>3. ASSUME NEW n \in Names, NEW lat \in BOOLEAN,
               \/ \E l \in LocalIds : AdvertiseWithId(s, l, n, lat)
               \/ AdvertiseWithoutId(s, n, lat)
        PROVE  RegNext
    BY <2>3, SourceLocalIds DEF RegNext
  <2> QED
    BY <1>1, <2>1, <2>2, <2>3 DEF SourceStep
<1>2. ASSUME NEW h \in HttpSources, HttpStep(h) PROVE RegNext \/ UNCHANGED regVars
  <2> h \in Owners
    BY BrokerAssumption
  <2>1. CASE \E n \in Names : InjectKnown(h, n)
    BY <2>1 DEF InjectKnown
  <2>2. ASSUME NEW n \in Names, NEW lat \in BOOLEAN, InjectNew(h, n, lat)
        PROVE  RegNext
    BY <2>2, HttpLocalIds DEF RegNext
  <2> QED
    BY <1>2, <2>1, <2>2 DEF HttpStep
<1>3. ASSUME NEW c \in Clients, ClientStep(c) PROVE UNCHANGED regVars
  BY <1>3 DEF ClientStep, ClientConnects, ClientCloses, ClientGone, Subscribe,
              Unsubscribe, IntervalElapses, TimerFires
<1>4. ASSUME NEW c \in Clients, Drain(c) PROVE UNCHANGED regVars
  BY <1>4 DEF Drain
<1>5. CASE UNCHANGED brokerVars
  BY <1>5 DEF brokerVars
<1> QED
  BY <1>1, <1>2, <1>3, <1>4, <1>5 DEF Next, HubNext

-----------------------------------------------------------------------------
(***************************************************************************)
(* The hub's invariant: the registry's, plus the cache of latched frames,  *)
(* the subscriptions with their timers, and what each client was sent.     *)
(***************************************************************************)
THEOREM HubInvariant == Spec => []HubInv
BY HubInitInv, HubStepInv, PTL DEF Spec

(***************************************************************************)
(* The hub drives its registry only through the registry's own calls, in   *)
(* states where they are defined; every theorem about RegSpec is one about *)
(* the hub (broker.ts 168-267, 382-394 with channel_registry.ts).          *)
(***************************************************************************)
THEOREM BrokerImplementsRegistry == Spec => RegSpec
<1>1. Init => RegInit
  BY DEF Init
<1> QED
  BY <1>1, HubRegStep, HubInvariant, PTL DEF Spec, RegSpec

(***************************************************************************)
(* A latched channel is in the cache with its newest frame exactly while   *)
(* it lives: nothing is replayed for a source that left or a channel that  *)
(* was withdrawn (broker.ts 54-56, 194-267, 382-394).                      *)
(***************************************************************************)
THEOREM BrokerLatchedCacheFaithful == Spec => []LatchedCacheFaithful
<1>1. HubInv => LatchedCacheFaithful
  BY DEF HubInv, CacheInv
<1> QED
  BY <1>1, HubInvariant, PTL

(***************************************************************************)
(* A trailing timer runs exactly while a frame is parked for it, and never *)
(* for a connection that has closed (clearSub and onClose, 293-299, 386).  *)
(***************************************************************************)
THEOREM BrokerTimersBelongToConns == Spec => []TimersBelongToConns
<1>1. HubInv => TimersBelongToConns
  BY DEF HubInv, SubsInv, SubGood, TimersBelongToConns
<1> QED
  BY <1>1, HubInvariant, PTL

(***************************************************************************)
(* A connected subscriber of a latched channel has been sent its newest    *)
(* frame or has it parked, unless backpressure dropped a frame to it       *)
(* (onSubscribe, fanout, deliver and trySend, 271-351).                    *)
(***************************************************************************)
THEOREM BrokerLatchedReachesSubscriber == Spec => []LatchedReachesSubscriber
<1>1. HubInv => LatchedReachesSubscriber
  BY DEF HubInv, SentInv
<1> QED
  BY <1>1, HubInvariant, PTL

-----------------------------------------------------------------------------
(* A source that is gone owns nothing, if no local id is ever used twice. *)

OwnersInv ==
    /\ NoOrphans
    /\ \A s \in Sources : conn[s] # "open" => byOwner[s] = {}
    /\ \A s \in Sources : LocalIdPolicy[s] = "hub" =>
          \A r \in byOwner[s] : r.localId <= localIdCounters[s]
    /\ \A h \in HttpSources : \A r \in byOwner[h] :
          r.localId <= Cardinality(DOMAIN httpChannels)

\* A row of an owner names a channel the registry knows.
LEMMA RowFacts ==
    ASSUME RegInv, NEW o \in Owners, NEW r \in byOwner[o]
    PROVE  r.localId \in Int /\ r.id \in DOMAIN byGlobalId
<1>1. r \in Slots
  BY DEF RegInv, RegTypeOK
<1> QED
  BY <1>1, RegistryAssumption DEF Slots, RegInv, IndexSound

\* Advertising under a local id not in use adds a row and displaces none.
LEMMA FreshAdvertise ==
    ASSUME RegInv, NoOrphans, NEW o \in Owners, NEW l \in LocalIds, NEW n, NEW lat,
           RegAdvertise(o, l, n, lat), ResolveLocal(o, l) = {}
    PROVE  /\ NoOrphans'
           /\ \A r \in byOwner'[o] : r \in byOwner[o] \/ r.localId = l
           /\ \A p \in Owners : p # o => byOwner'[p] = byOwner[p]
<1> DEFINE id == nextGlobalId
<1>1. id \in GlobalIds /\ id \notin DOMAIN byGlobalId
  BY AdvertiseShape
<1>2. PICK k \in GlobalIds :
         Indexed(o, l, id) =
            [byOwner EXCEPT ![o] = {r \in byOwner[o] : r.localId # l} \cup
                                      {[localId |-> l, id |-> id, opened |-> k]}]
  BY <1>1, IndexedRows DEF RegInv
<1>3. {r \in byOwner[o] : r.localId # l} = byOwner[o]
  BY DEF ResolveLocal
<1> DEFINE row == [localId |-> l, id |-> id, opened |-> k]
<1>4. row.id = id /\ row.localId = l
  OBVIOUS
<1> HIDE DEF row
<1>5. byOwner' = [byOwner EXCEPT ![o] = byOwner[o] \cup {row}]
  BY <1>2, <1>3 DEF RegAdvertise, row
<1>6. /\ byOwner'[o] = byOwner[o] \cup {row}
      /\ \A p \in Owners : p # o => byOwner'[p] = byOwner[p]
  BY <1>5 DEF RegInv, RegTypeOK
<1>7. ASSUME NEW g \in DOMAIN byGlobalId'
      PROVE  \E r \in byOwner'[byGlobalId'[g].owner] : r.id = g
  <2>1. CASE g = id
    <3>1. byGlobalId'[g].owner = o
      BY <1>1, <2>1 DEF RegAdvertise, NewEntry
    <3> QED
      BY <1>4, <1>6, <2>1, <3>1
  <2>2. CASE g # id
    <3>1. g \in DOMAIN byGlobalId
      BY <2>2 DEF RegAdvertise
    <3>2. byGlobalId'[g] = IF g \in Renamed(o, n)
                           THEN [byGlobalId[g] EXCEPT !.prefixed = TRUE]
                           ELSE byGlobalId[g]
      BY <2>2, <3>1 DEF RegAdvertise
    <3>3. byGlobalId[g] \in Entries
      BY <3>1 DEF RegInv, RegTypeOK
    <3>4. byGlobalId'[g].owner = byGlobalId[g].owner /\ byGlobalId[g].owner \in Owners
      BY <3>2, <3>3 DEF Entries
    <3>5. PICK r \in byOwner[byGlobalId[g].owner] : r.id = g
      BY <3>1 DEF NoOrphans
    <3> QED
      BY <1>6, <3>4, <3>5
  <2> QED
    BY <2>1, <2>2
<1> QED
  BY <1>4, <1>6, <1>7 DEF NoOrphans

\* A withdrawal by one owner leaves no orphan and no other owner is touched.
LEMMA RemovalLeavesNoOrphans ==
    ASSUME RegInv, NoOrphans, NEW o \in Owners,
           (\E n \in Names : RegUnadvertise(o, n)) \/ RegRemoveBySource(o)
    PROVE  /\ NoOrphans'
           /\ byOwner'[o] \subseteq byOwner[o]
           /\ RegRemoveBySource(o) => byOwner'[o] = {}
           /\ \A p \in Owners : p # o => byOwner'[p] = byOwner[p]
<1>1. CASE RegRemoveBySource(o)
  <2>1. /\ byOwner'[o] = {}
        /\ \A p \in Owners : p # o => byOwner'[p] = byOwner[p]
    BY <1>1 DEF RegRemoveBySource, RegInv, RegTypeOK
  <2>2. ASSUME NEW g \in DOMAIN byGlobalId'
        PROVE  \E r \in byOwner'[byGlobalId'[g].owner] : r.id = g
    <3>1. /\ g \in DOMAIN byGlobalId /\ g \notin OwnedIds(o)
          /\ byGlobalId'[g] = byGlobalId[g]
      BY <1>1 DEF RegRemoveBySource, Without
    <3>2. byGlobalId[g].owner \in Owners
      BY <3>1 DEF RegInv, RegTypeOK, Entries
    <3>3. PICK r \in byOwner[byGlobalId[g].owner] : r.id = g
      BY <3>1 DEF NoOrphans
    <3>4. byGlobalId[g].owner # o
      BY <3>1, <3>3 DEF OwnedIds
    <3> QED
      BY <2>1, <3>1, <3>2, <3>3, <3>4
  <2> QED
    BY <2>1, <2>2 DEF NoOrphans
<1>2. CASE \E n \in Names : RegUnadvertise(o, n)
  <2>1. PICK r \in byOwner[o] : /\ byGlobalId' = Without({r.id})
                                /\ byOwner' = [byOwner EXCEPT ![o] = @ \ {r}]
    BY <1>2 DEF RegUnadvertise, FirstOwned
  <2>2. /\ byOwner'[o] = byOwner[o] \ {r}
        /\ \A p \in Owners : p # o => byOwner'[p] = byOwner[p]
    BY <2>1 DEF RegInv, RegTypeOK
  <2>3. ASSUME NEW g \in DOMAIN byGlobalId'
        PROVE  \E q \in byOwner'[byGlobalId'[g].owner] : q.id = g
    <3>1. g \in DOMAIN byGlobalId /\ g # r.id /\ byGlobalId'[g] = byGlobalId[g]
      BY <2>1 DEF Without
    <3>2. byGlobalId[g].owner \in Owners
      BY <3>1 DEF RegInv, RegTypeOK, Entries
    <3>3. PICK q \in byOwner[byGlobalId[g].owner] : q.id = g
      BY <3>1 DEF NoOrphans
    <3> QED
      BY <2>2, <3>1, <3>2, <3>3
  <2>4. RegRemoveBySource(o) => byOwner'[o] = {}
    BY DEF RegRemoveBySource, RegInv, RegTypeOK
  <2> QED
    BY <2>2, <2>3, <2>4 DEF NoOrphans
<1> QED
  BY <1>1, <1>2

\* onAdvertise under a fresh local id.
LEMMA OwnersAdvertise ==
    ASSUME HubInv, OwnersInv, NEW s \in Sources, LocalIdPolicy[s] # "any",
           NEW n \in Names, NEW lat \in BOOLEAN,
           \/ \E l \in LocalIds : AdvertiseWithId(s, l, n, lat)
           \/ AdvertiseWithoutId(s, n, lat)
    PROVE  OwnersInv'
<1>1. s \in Owners /\ s \notin HttpSources /\ RegInv
  BY BrokerAssumption DEF HubInv
<1>2. conn[s] = "open" /\ conn' = conn /\ httpChannels' = httpChannels
  BY DEF AdvertiseWithId, AdvertiseWithoutId
<1>3. \A r \in byOwner[s] : r.localId \in Int
  BY <1>1, RowFacts
<1>4. localIdCounters \in [Sources -> Nat]
  BY DEF HubInv, CountersInv
<1>5. PICK l \in LocalIds :
         /\ RegAdvertise(s, l, n, lat)
         /\ ResolveLocal(s, l) = {}
         /\ \/ LocalIdPolicy[s] = "sdk" /\ localIdCounters' = localIdCounters
            \/ /\ l = localIdCounters[s] + 1
               /\ localIdCounters' = [localIdCounters EXCEPT ![s] = @ + 1]
  <2>1. CASE \E l \in LocalIds : AdvertiseWithId(s, l, n, lat)
    BY <2>1 DEF AdvertiseWithId
  <2>2. CASE AdvertiseWithoutId(s, n, lat)
    <3> DEFINE l == localIdCounters[s] + 1
    <3>1. LocalIdPolicy[s] = "hub"
      BY <2>2, BrokerAssumption DEF AdvertiseWithoutId
    <3>2. \A r \in byOwner[s] : r.localId # l
      BY <1>3, <1>4, <3>1 DEF OwnersInv
    <3>3. RegAdvertise(s, l, n, lat)
      BY <2>2 DEF AdvertiseWithoutId
    <3>4. nextGlobalId <= MaxChannels
      BY <3>3 DEF RegAdvertise
    <3>5. l \in 1..MaxChannels
      BY <1>4, <3>4, IdFacts DEF HubInv, CountersInv
    <3>6. ResolveLocal(s, l) = {}
      BY <3>2 DEF ResolveLocal
    <3>7. l \in LocalIds
      BY <3>5, BrokerAssumption
    <3> QED
      BY <2>2, <3>3, <3>6, <3>7 DEF AdvertiseWithoutId
  <2> QED
    BY <2>1, <2>2
<1>6. /\ NoOrphans'
      /\ \A r \in byOwner'[s] : r \in byOwner[s] \/ r.localId = l
      /\ \A p \in Owners : p # s => byOwner'[p] = byOwner[p]
  BY <1>1, <1>5, FreshAdvertise DEF OwnersInv
<1>7. \A t \in Sources : conn'[t] # "open" => byOwner'[t] = {}
  BY <1>2, <1>6, BrokerAssumption DEF OwnersInv
<1>8. ASSUME NEW t \in Sources, LocalIdPolicy[t] = "hub", NEW r \in byOwner'[t]
      PROVE  r.localId <= localIdCounters'[t]
  <2>1. CASE t = s
    <3>1. localIdCounters'[s] = localIdCounters[s] + 1 /\ l = localIdCounters[s] + 1
      BY <1>4, <1>5, <1>8, <2>1
    <3> QED
      BY <1>3, <1>4, <1>6, <1>8, <2>1, <3>1 DEF OwnersInv
  <2>2. CASE t # s
    <3>1. t \in Owners /\ r \in byOwner[t] /\ localIdCounters'[t] = localIdCounters[t]
      BY <1>4, <1>5, <1>6, <2>2, BrokerAssumption
    <3> QED
      BY <1>8, <3>1 DEF OwnersInv
  <2> QED
    BY <2>1, <2>2
<1>9. \A h \in HttpSources : \A r \in byOwner'[h] :
          r.localId <= Cardinality(DOMAIN httpChannels')
  BY <1>1, <1>2, <1>6, BrokerAssumption DEF OwnersInv
<1> QED
  BY <1>6, <1>7, <1>8, <1>9 DEF OwnersInv

\* onUnadvertise and onClose of a source.
LEMMA OwnersWithdraw ==
    ASSUME HubInv, OwnersInv, NEW s \in Sources,
           (\E n \in Names : Unadvertise(s, n)) \/ SourceGone(s)
    PROVE  OwnersInv'
<1>1. s \in Owners /\ s \notin HttpSources /\ RegInv
  BY BrokerAssumption DEF HubInv
<1>2. (\E n \in Names : RegUnadvertise(s, n)) \/ RegRemoveBySource(s)
  BY DEF Unadvertise, SourceGone
<1>3. /\ NoOrphans'
      /\ byOwner'[s] \subseteq byOwner[s]
      /\ RegRemoveBySource(s) => byOwner'[s] = {}
      /\ \A p \in Owners : p # s => byOwner'[p] = byOwner[p]
  BY <1>1, <1>2, RemovalLeavesNoOrphans DEF OwnersInv
<1>4. /\ httpChannels' = httpChannels
      /\ \/ RegRemoveBySource(s)
         \/ conn' = conn /\ localIdCounters' = localIdCounters
      /\ \A t \in Sources : t # s => /\ conn'[t] = conn[t]
                                     /\ localIdCounters'[t] = localIdCounters[t]
  BY DEF Unadvertise, SourceGone, HubInv, SubsInv, CountersInv
<1>5. \A t \in Sources : conn'[t] # "open" => byOwner'[t] = {}
  BY <1>3, <1>4, BrokerAssumption DEF OwnersInv
<1>6. \A t \in Sources : LocalIdPolicy[t] = "hub" =>
          \A r \in byOwner'[t] : r.localId <= localIdCounters'[t]
  BY <1>3, <1>4, BrokerAssumption DEF OwnersInv
<1>7. \A h \in HttpSources : \A r \in byOwner'[h] :
          r.localId <= Cardinality(DOMAIN httpChannels')
  BY <1>1, <1>3, <1>4, BrokerAssumption DEF OwnersInv
<1> QED
  BY <1>3, <1>5, <1>6, <1>7 DEF OwnersInv

\* injectJson that advertises, under the next HTTP local id.
LEMMA OwnersInject ==
    ASSUME HubInv, OwnersInv, NEW h \in HttpSources, NEW n \in Names,
           NEW lat \in BOOLEAN, InjectNew(h, n, lat)
    PROVE  OwnersInv'
<1> DEFINE size == Cardinality(DOMAIN httpChannels)
<1>1. h \in Owners /\ h \notin Sources /\ RegInv
  BY BrokerAssumption DEF HubInv
<1>2. size \in Nat /\ size + 1 \in LocalIds /\ RegAdvertise(h, size + 1, n, lat)
  BY HttpLocalIds
<1>3. \A r \in byOwner[h] : r.localId \in Int /\ r.localId <= size
  BY <1>1, RowFacts DEF OwnersInv
<1>4. ResolveLocal(h, size + 1) = {}
  BY <1>2, <1>3 DEF ResolveLocal
<1>5. Cardinality(DOMAIN httpChannels') = size + 1
  <2>1. DOMAIN httpChannels' = DOMAIN httpChannels \cup {<<h, n>>}
    BY DEF InjectNew, MapSet
  <2>2. <<h, n>> \notin DOMAIN httpChannels /\ IsFiniteSet(DOMAIN httpChannels)
    BY DEF InjectNew, HubInv, CountersInv
  <2> QED
    BY <2>1, <2>2, FS_AddElement
<1> HIDE DEF size
<1>6. /\ NoOrphans'
      /\ \A r \in byOwner'[h] : r \in byOwner[h] \/ r.localId = size + 1
      /\ \A p \in Owners : p # h => byOwner'[p] = byOwner[p]
  BY <1>1, <1>2, <1>4, FreshAdvertise DEF OwnersInv
<1>7. UNCHANGED <<conn, localIdCounters>>
  BY DEF InjectNew
<1>8. /\ \A t \in Sources : conn'[t] # "open" => byOwner'[t] = {}
      /\ \A t \in Sources : LocalIdPolicy[t] = "hub" =>
            \A r \in byOwner'[t] : r.localId <= localIdCounters'[t]
  BY <1>1, <1>6, <1>7, BrokerAssumption DEF OwnersInv
<1>9. ASSUME NEW k \in HttpSources, NEW r \in byOwner'[k]
      PROVE  r.localId <= Cardinality(DOMAIN httpChannels')
  <2>1. CASE k = h
    BY <1>2, <1>3, <1>5, <1>6, <2>1
  <2>2. CASE k # h
    <3>1. k \in Owners /\ r \in byOwner[k]
      BY <1>6, <2>2, BrokerAssumption
    <3>2. r.localId \in Int /\ r.localId <= size
      BY <1>1, <3>1, RowFacts DEF OwnersInv, size
    <3> QED
      BY <1>2, <1>5, <3>2
  <2> QED
    BY <2>1, <2>2
<1> QED
  BY <1>6, <1>8, <1>9 DEF OwnersInv

\* Steps that touch neither the registry nor a source's liveness.
LEMMA OwnersUndisturbed ==
    ASSUME OwnersInv, UNCHANGED <<regVars, localIdCounters, httpChannels>>,
           \A s \in Sources : conn[s] = "open" => conn'[s] = "open"
    PROVE  OwnersInv'
BY DEF OwnersInv, NoOrphans, regVars

\* Every step of the hub keeps rows and sources in line.
LEMMA OwnersStepInv ==
    ASSUME \A s \in Sources : LocalIdPolicy[s] # "any"
    PROVE  HubInv /\ OwnersInv /\ [Next]_brokerVars => OwnersInv'
<1> SUFFICES ASSUME HubInv, OwnersInv, [Next]_brokerVars PROVE OwnersInv'
  OBVIOUS
<1> DEFINE Kept == /\ UNCHANGED <<regVars, localIdCounters, httpChannels>>
                   /\ \A s \in Sources : conn[s] = "open" => conn'[s] = "open"
<1>1. ASSUME NEW s \in Sources, SourceStep(s) PROVE OwnersInv'
  <2>1. CASE SourceConnects(s)
    <3>1. Kept
      BY <2>1 DEF SourceConnects, HubInv, SubsInv
    <3> QED
      BY <3>1, OwnersUndisturbed
  <2>2. CASE SourceGone(s) \/ \E n \in Names : Unadvertise(s, n)
    BY <2>2, OwnersWithdraw
  <2>3. ASSUME NEW n \in Names, NEW lat \in BOOLEAN,
               \/ \E l \in LocalIds : AdvertiseWithId(s, l, n, lat)
               \/ AdvertiseWithoutId(s, n, lat)
        PROVE  OwnersInv'
    BY <2>3, OwnersAdvertise
  <2>4. ASSUME NEW l \in LocalIds, Data(s, l) PROVE OwnersInv'
    <3>1. Kept
      BY <2>4 DEF Data
    <3> QED
      BY <3>1, OwnersUndisturbed
  <2> QED
    BY <1>1, <2>1, <2>2, <2>3, <2>4 DEF SourceStep
<1>2. ASSUME NEW h \in HttpSources, NEW n \in Names, InjectKnown(h, n) PROVE OwnersInv'
  <2>1. Kept
    BY <1>2 DEF InjectKnown
  <2> QED
    BY <2>1, OwnersUndisturbed
<1>3. ASSUME NEW c \in Clients, ClientStep(c) PROVE OwnersInv'
  <2>1. \A s \in Sources : s # c
    BY BrokerAssumption
  <2>2. UNCHANGED <<regVars, localIdCounters, httpChannels>>
        /\ \E v \in {"open", "closing", "gone", conn[c]} : conn' = [conn EXCEPT ![c] = v]
    BY <1>3 DEF ClientStep, ClientConnects, ClientCloses, ClientGone, Subscribe,
                Unsubscribe, IntervalElapses, TimerFires, HubInv, SubsInv
  <2>3. Kept
    BY <2>1, <2>2 DEF HubInv, SubsInv
  <2> QED
    BY <2>3, OwnersUndisturbed
<1>4. ASSUME NEW c \in Clients, Drain(c) PROVE OwnersInv'
  BY <1>4, OwnersUndisturbed DEF Drain
<1>5. CASE UNCHANGED brokerVars
  BY <1>5, OwnersUndisturbed DEF brokerVars, hubVars
<1> QED
  BY <1>1, <1>2, <1>3, <1>4, <1>5, OwnersInject DEF Next, HubNext, HttpStep

(***************************************************************************)
(* "Remove ... all channels owned by a disconnected source"                *)
(* (channel_registry.ts:119) and every live channel can be reached through *)
(* its owner's index, if each source either numbers its channels with ids  *)
(* it never repeats or leaves the numbering to the hub.  A source that     *)
(* does both can repeat an id of the hub's and orphan a channel.           *)
(***************************************************************************)
THEOREM BrokerGoneOwnsNothing ==
    ASSUME \A s \in Sources : LocalIdPolicy[s] # "any"
    PROVE  Spec => [](NoOrphans /\ GoneOwnsNothing)
<1>1. Init => OwnersInv
  <2> SUFFICES ASSUME Init PROVE OwnersInv
    OBVIOUS
  <2>1. DOMAIN byGlobalId = {} /\ \A o \in Owners : byOwner[o] = {}
    BY DEF Init, RegInit
  <2> QED
    BY <2>1, BrokerAssumption DEF OwnersInv, NoOrphans
<1>2. HubInv /\ OwnersInv => NoOrphans /\ GoneOwnsNothing
  BY BrokerAssumption DEF OwnersInv, NoOrphans, GoneOwnsNothing
<1> QED
  BY <1>1, <1>2, OwnersStepInv, HubInvariant, PTL DEF Spec
=============================================================================
