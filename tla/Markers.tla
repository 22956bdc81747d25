------------------------------ MODULE Markers ------------------------------
(***************************************************************************)
(* The display of wv/Marker channels (plugins/MarkerPlugin.ts): markers    *)
(* are added, changed and deleted by key; those of type mesh load their    *)
(* resource meanwhile; a marker with a lifetime goes with the first frame  *)
(* after it.                                                               *)
(*                                                                         *)
(* A pose is the number of the message it came with.  The types drawn at   *)
(* once are "shape"; text, unknown types and markers without points are    *)
(* "nothing"; a mesh is its mesh_url.  A mesh whose load has failed is as  *)
(* one without a reference: a marker with nothing in it.                   *)
(***************************************************************************)
EXTENDS Naturals, Sequences

CONSTANTS
    MarkerKeys,     \* pairs of a namespace and an id
    Within,         \* <<a, b>>: the name b/ begins with a/
    Meshes,         \* mesh_urls
    MarkerChannels, LatchedMarkers,
    MaxMarkers,     \* bound: messages handled
    MaxMarkerClock  \* bound: the clock; a lifetime is one tick

ASSUME MarkerAssumption ==
    /\ LatchedMarkers \subseteq MarkerChannels /\ {MaxMarkers, MaxMarkerClock} \subseteq Nat
    /\ Meshes \cap {"shape", "nothing"} = {}

VARIABLES
    markers,       \* by key
    meshLoads,     \* meshes being loaded
    markerChannel, \* the channel followed
    markerMirror,  \* the last message of each latched channel, in HubClient
    markerClock,
    handled,       \* messages handled
    said           \* history: those since the markers were cleared, with their time

markerVars == <<markers, meshLoads, markerChannel, markerMirror, markerClock, handled, said>>

NoMarker == [n |-> 0]
Never == MaxMarkerClock + 2

MarkerMessages(n) ==
    [n : {n}, action : {"add"}, key : MarkerKeys, ref : {"shape", "nothing"} \cup Meshes,
     mortal : BOOLEAN]
    \cup [n : {n}, action : {"delete", "delete_namespace", "delete_all"}, key : MarkerKeys,
          ref : {"nothing"}, mortal : {FALSE}]

MarkerInit ==
    /\ markers = <<>> /\ meshLoads = {} /\ said = <<>>
    /\ markerChannel \in MarkerChannels
    /\ markerMirror = [ch \in LatchedMarkers |-> NoMarker]
    /\ markerClock = 0 /\ handled = 0

-----------------------------------------------------------------------------
(* What a message does *)

ExpiryOf(m) == IF m.mortal THEN markerClock + 1 ELSE Never

\* Each entry is an object of its own, known by the message it was made at.
MakeEntry(m, drawn) ==
    [made |-> handled + 1, ref |-> m.ref, drawn |-> drawn, pose |-> m.n, expires |-> ExpiryOf(m)]

WithMarker(k, e) == [j \in DOMAIN markers \cup {k} |-> IF j = k THEN e ELSE markers[j]]
MarkersWithout(S) == [j \in DOMAIN markers \ S |-> markers[j]]

\* Mutant: whatever mesh the key has is kept.
Mut_UpsertMeshKeeps(m) ==
    IF m.key \in DOMAIN markers /\ markers[m.key].ref \in Meshes
    THEN /\ markers' = [markers EXCEPT ![m.key].expires = ExpiryOf(m),
                                       ![m.key].pose = IF @ = 0 THEN 0 ELSE m.n]
         /\ UNCHANGED meshLoads
    ELSE LET entry == [MakeEntry(m, "nothing") EXCEPT !.pose = 0]
         IN  /\ markers' = WithMarker(m.key, entry)
             /\ meshLoads' = meshLoads \cup {[key |-> m.key, made |-> entry.made,
                                              ref |-> m.ref, pose |-> m.n]}

\* The same mesh: the pose is for the object that is there, if any.
UpsertMesh(m) ==
    IF m.key \in DOMAIN markers /\ markers[m.key].ref = m.ref
    THEN /\ markers' = [markers EXCEPT ![m.key].expires = ExpiryOf(m),
                                       ![m.key].pose = IF @ = 0 THEN 0 ELSE m.n]
         /\ UNCHANGED meshLoads
    ELSE LET entry == [MakeEntry(m, "nothing") EXCEPT !.pose = 0]
         IN  /\ markers' = WithMarker(m.key, entry)
             /\ meshLoads' = meshLoads \cup {[key |-> m.key, made |-> entry.made,
                                              ref |-> m.ref, pose |-> m.n]}

Upsert(m) ==
    IF m.ref \in Meshes THEN UpsertMesh(m)
    ELSE /\ markers' = IF m.ref = "nothing" THEN MarkersWithout({m.key})
                       ELSE WithMarker(m.key, MakeEntry(m, "shape"))
         /\ UNCHANGED meshLoads

\* delete_namespace compares the beginnings of names.
Deletes(m, k) ==
    \/ m.action = "delete" /\ k = m.key
    \/ m.action = "delete_namespace" /\ <<m.key[1], k[1]>> \in Within
    \/ m.action = "delete_all"

HandleMarker(m) ==
    /\ handled < MaxMarkers /\ handled' = handled + 1
    /\ IF m.action = "add" THEN Upsert(m)
       ELSE markers' = MarkersWithout({k \in DOMAIN markers : Deletes(m, k)}) /\ UNCHANGED meshLoads

MarkerMessage(ch) ==
    \E m \in MarkerMessages(handled + 1) :
       /\ ch = markerChannel
       /\ HandleMarker(m)
       /\ markerMirror' = IF ch \in LatchedMarkers THEN [markerMirror EXCEPT ![ch] = m]
                          ELSE markerMirror
       /\ said' = Append(said, [m |-> m, at |-> markerClock])
       /\ UNCHANGED <<markerChannel, markerClock>>

\* The list of channels changes: a new subscription, which a latched channel's
\* last message comes to again.
RebindMarkers ==
    /\ markerChannel \in LatchedMarkers /\ markerMirror[markerChannel] # NoMarker
    /\ HandleMarker(markerMirror[markerChannel])
    /\ said' = Append(said, [m |-> markerMirror[markerChannel], at |-> markerClock])
    /\ UNCHANGED <<markerChannel, markerMirror, markerClock>>

\* Mutant: what the old channel has drawn stays.
Mut_SwitchKeeps(ch) ==
    /\ ch # markerChannel
    /\ ch \in LatchedMarkers => markerMirror[ch] = NoMarker
    /\ markerChannel' = ch
    /\ said' = <<>>
    /\ UNCHANGED <<markers, meshLoads, markerMirror, markerClock, handled>>

\* Another channel, or a display made anew: first the markers go.
SwitchMarkers(ch) ==
    /\ ch # markerChannel
    /\ markerChannel' = ch
    /\ IF ch \in LatchedMarkers /\ markerMirror[ch] # NoMarker
       THEN LET m == markerMirror[ch]
                entry == MakeEntry(m, IF m.ref \in Meshes THEN "nothing" ELSE m.ref)
            IN  /\ handled < MaxMarkers /\ handled' = handled + 1
                /\ said' = <<[m |-> m, at |-> markerClock]>>
                /\ markers' = [k \in {k \in {m.key} : m.action = "add" /\ m.ref # "nothing"} |->
                                  IF m.ref \in Meshes THEN [entry EXCEPT !.pose = 0] ELSE entry]
                /\ meshLoads' = meshLoads \cup
                       {[key |-> m.key, made |-> entry.made, ref |-> r, pose |-> m.n] :
                           r \in {m.ref} \cap Meshes}
       ELSE markers' = <<>> /\ said' = <<>> /\ UNCHANGED <<meshLoads, handled>>
    /\ UNCHANGED <<markerMirror, markerClock>>

-----------------------------------------------------------------------------
(* Loads, and frames *)

\* Mutant: the mesh goes to whatever the key is now.
Mut_MeshLoadedAnyway(l) ==
    /\ meshLoads' = meshLoads \ {l}
    /\ markers' = IF l.key \in DOMAIN markers
                  THEN [markers EXCEPT ![l.key].drawn = l.ref, ![l.key].pose = l.pose]
                  ELSE markers
    /\ UNCHANGED <<markerChannel, markerMirror, markerClock, handled, said>>

\* A mesh arrives: with the pose of the message that asked for it.
MeshLoaded(l) ==
    /\ meshLoads' = meshLoads \ {l}
    /\ markers' = IF l.key \in DOMAIN markers /\ markers[l.key].made = l.made
                  THEN [markers EXCEPT ![l.key].drawn = l.ref, ![l.key].pose = l.pose]
                  ELSE markers
    /\ UNCHANGED <<markerChannel, markerMirror, markerClock, handled, said>>

MeshFailed(l) ==
    /\ meshLoads' = meshLoads \ {l}
    /\ UNCHANGED <<markers, markerChannel, markerMirror, markerClock, handled, said>>

MarkerTick ==
    /\ markerClock < MaxMarkerClock /\ markerClock' = markerClock + 1
    /\ UNCHANGED <<markers, meshLoads, markerChannel, markerMirror, handled, said>>

\* onRender, while the display is enabled
MarkerFrame ==
    /\ markers' = MarkersWithout({k \in DOMAIN markers : markerClock >= markers[k].expires})
    /\ UNCHANGED <<meshLoads, markerChannel, markerMirror, markerClock, handled, said>>

MarkerNext ==
    \/ \E ch \in MarkerChannels : MarkerMessage(ch) \/ SwitchMarkers(ch)
    \/ RebindMarkers
    \/ \E l \in meshLoads : MeshLoaded(l) \/ MeshFailed(l)
    \/ MarkerTick \/ MarkerFrame
-----------------------------------------------------------------------------
(***************************************************************************)
(* What is on the display is what the messages have asked for since it was *)
(* cleared, whenever the meshes arrive: nothing that a later message has   *)
(* deleted or replaced comes back with its load, a marker that is not      *)
(* there has outlived its lifetime, and a mesh is never another's          *)
(* (MarkerPlugin.ts 140-184).                                              *)
(***************************************************************************)
About(s, k) == IF s.m.action = "add" THEN s.m.key = k ELSE Deletes(s.m, k)
LastAbout(k) ==
    LET at == {i \in 1..Len(said) : About(said[i], k)}
    IN  CHOOSE i \in at : \A j \in at : j <= i
Asked ==
    {k \in MarkerKeys :
        /\ \E i \in 1..Len(said) : About(said[i], k)
        /\ said[LastAbout(k)].m.action = "add" /\ said[LastAbout(k)].m.ref # "nothing"}

MarkersAsPublished ==
    /\ DOMAIN markers \subseteq Asked
    /\ \A k \in Asked :
          LET s == said[LastAbout(k)]
              expires == IF s.m.mortal THEN s.at + 1 ELSE Never
          IN  IF k \in DOMAIN markers
              THEN /\ markers[k].ref = s.m.ref /\ markers[k].expires = expires
                   /\ markers[k].drawn \in {s.m.ref, "nothing"}
                   /\ s.m.ref = "shape" => markers[k].pose = s.m.n
              ELSE markerClock >= expires
=============================================================================
