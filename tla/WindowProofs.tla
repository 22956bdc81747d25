---------------------------- MODULE WindowProofs ----------------------------
(***************************************************************************)
(* What a window keeps that all its panels share.  The two sources,        *)
(* SourcePublisher and Player, for any number of sockets, drops, handles   *)
(* and files: what the hub has from them is what they mean to show.  And   *)
(* the tree of frames, for any frames and transforms.                      *)
(***************************************************************************)
EXTENDS Publisher, Player, TFTree, FiniteSetTheorems, SequenceTheorems, WellFoundedInduction, TLAPS

-----------------------------------------------------------------------------
(* Sockets of either component *)

Phases == {"none", "connecting", "open", "closing", "closed"}

\* The sockets made so far are the first ones, by their phases p.
Numbered(p) == \E n \in 0..MaxSockets : \A s \in Sockets : p[s] # "none" <=> s <= n

\* The hub has connections of sockets that were opened only.
SocketInv ==
    /\ ws \in Sockets \cup {Null}
    /\ phase \in [Sockets -> Phases]
    /\ Numbered(phase)
    /\ ws # Null => phase[ws] # "none"
    /\ \A s \in hubEnd : s \in Sockets /\ phase[s] \in {"open", "closing"}
    /\ promptCloses \in BOOLEAN

LEMMA SocketInitHolds == SocketInit => SocketInv
<1> SUFFICES ASSUME SocketInit PROVE SocketInv
  OBVIOUS
<1>1. 0 \in 0..MaxSockets
  BY AppSocketAssumption
<1>2. \A s \in Sockets : phase[s] # "none" <=> s <= 0
  BY AppSocketAssumption DEF SocketInit, Sockets
<1>3. Numbered(phase)
  BY <1>1, <1>2 DEF Numbered
<1>4. promptCloses \in BOOLEAN
  BY ZenonT(30) DEF SocketInit
<1> QED
  BY <1>3, <1>4 DEF SocketInit, SocketInv, Null, Phases

\* The next socket's number has not been used.
LEMMA NewSocketFacts ==
    ASSUME NEW p \in [Sockets -> Phases], Numbered(p), NewSocket(p)
    PROVE  /\ ws' \in Sockets /\ ws' # Null /\ p[ws'] = "none"
           /\ phase' = [p EXCEPT ![ws'] = "connecting"]
           /\ Numbered(phase')
<1>1. PICK n \in 0..MaxSockets : \A s \in Sockets : p[s] # "none" <=> s <= n
  BY DEF Numbered
<1>2. {t \in Sockets : p[t] # "none"} = 1..n
  BY <1>1, AppSocketAssumption DEF Sockets
<1>3. Cardinality(1..n) = n
  BY <1>1, AppSocketAssumption, FS_Interval
<1>4. ws' = n + 1 /\ ws' \in Sockets /\ phase' = [p EXCEPT ![ws'] = "connecting"]
  BY <1>2, <1>3 DEF NewSocket
<1>5. n + 1 \in 0..MaxSockets
  BY <1>1, <1>4, AppSocketAssumption DEF Sockets
<1>6. \A s \in Sockets : phase'[s] # "none" <=> s <= n + 1
  BY <1>1, <1>4, AppSocketAssumption DEF Sockets
<1>7. Numbered(phase')
  BY <1>5, <1>6 DEF Numbered
<1>8. p[ws'] = "none" /\ ws' # Null
  BY <1>1, <1>4, AppSocketAssumption DEF Sockets, Null
<1> QED
  BY <1>4, <1>7, <1>8

\* Closing a socket makes none.
LEMMA ShutFacts ==
    ASSUME NEW p, p = Shut(ws), SocketInv
    PROVE  /\ p \in [Sockets -> Phases]
           /\ Numbered(p)
           /\ \A t \in Sockets : /\ p[t] = "none" <=> phase[t] = "none"
                                 /\ t # ws => p[t] = phase[t]
           /\ ws # Null => p[ws] \notin {"connecting", "open"}
<1>1. p \in [Sockets -> Phases]
  BY DEF SocketInv, Shut, Phases
<1>2. \A t \in Sockets : /\ p[t] = "none" <=> phase[t] = "none"
                         /\ t # ws => p[t] = phase[t]
  BY DEF SocketInv, Shut, Phases
<1>3. ws # Null => p[ws] \notin {"connecting", "open"}
  BY DEF SocketInv, Shut, Phases
<1>4. Numbered(p)
  BY <1>2 DEF SocketInv, Numbered
<1> QED
  BY <1>1, <1>2, <1>3, <1>4

\* What the callbacks and the hub do to the sockets, the current one being kept
\* or given up.
LEMMA SocketEventHolds ==
    ASSUME SocketInv, NEW s \in Sockets,
           HandshakeDone(s) \/ SocketEnds(s) \/ HubLoses(s),
           ws' \in {ws, Null}
    PROVE  SocketInv'
<1>1. CASE HandshakeDone(s)
  <2>1. Numbered(phase')
    BY <1>1 DEF SocketInv, HandshakeDone, Numbered, Phases
  <2> QED
    BY <1>1, <2>1 DEF SocketInv, HandshakeDone, Phases
<1>2. CASE SocketEnds(s)
  <2>1. /\ phase' = [phase EXCEPT ![s] = "closed"] /\ phase[s] # "none"
        /\ hubEnd' = hubEnd \ {s} /\ promptCloses' = promptCloses
    BY <1>2 DEF SocketEnds
  <2>2. Numbered(phase')
    BY <2>1 DEF SocketInv, Numbered, Phases
  <2> QED
    BY <2>1, <2>2 DEF SocketInv, Phases
<1>3. CASE HubLoses(s)
  BY <1>3 DEF SocketInv, HubLoses
<1> QED
  BY <1>1, <1>2, <1>3

-----------------------------------------------------------------------------
\* Every non-empty set of numbers has a least element.
LEMMA LeastThereIs ==
    ASSUME NEW S \in SUBSET Nat, S # {}
    PROVE  \E d \in S : \A y \in S : ~(<<y, d>> \in OpToRel(<, Nat))
BY NatLessThanWellFounded, WFMin, Zenon

-----------------------------------------------------------------------------
(* SourcePublisher *)

PublisherTypes ==
    /\ nextLocalId \in 1 .. MaxHandles + 1
    /\ channels \subseteq 1 .. nextLocalId - 1
    /\ handles \subseteq 1 .. nextLocalId - 1
    /\ DOMAIN names = Ids
    /\ \A i \in Ids : i < nextLocalId => names[i] \in PublishNames
    /\ last \in [Ids -> Nat]
    /\ told \in [Sockets -> [Ids -> Int]]
    /\ placed \in [Sockets -> [Ids -> Nat]]
    /\ sends \in Nat

\* An id that was not given out has no value yet, and the hub does not know it.
FreshIds ==
    \A i \in Ids : i >= nextLocalId =>
        last[i] = 0 /\ \A s \in Sockets : told[s][i] = NotTold

\* Where no 'close' event is stale, a socket that is being closed is the last
\* one there is, its channels are gone, and `connected` tells of ws.
SocketOwned ==
    promptCloses =>
        /\ OneSocket
        /\ Closing # {} => ws = Null /\ channels = {}
        /\ connected => ws # Null /\ phase[ws] = "open"

PublisherInv == SocketInv /\ PublisherTypes /\ FreshIds /\ SocketOwned /\ HubInSync

LEMMA PublisherInitHolds == SocketInit /\ PublisherInit => PublisherInv
<1> SUFFICES ASSUME SocketInit, PublisherInit PROVE PublisherInv
  OBVIOUS
<1>1. SocketInv
  BY SocketInitHolds
<1>2. PublisherTypes /\ FreshIds
  BY PublisherAssumption
  DEF PublisherInit, PublisherTypes, FreshIds, NoRows, NoPlaces, NotTold, Ids
<1>3. OneSocket /\ Closing = {} /\ ~connected
  BY DEF SocketInit, PublisherInit, OneSocket, Closing
<1>4. channels = handles /\ ~Reaches
  BY <1>3 DEF PublisherInit, Reaches
<1> QED
  BY <1>1, <1>2, <1>3, <1>4 DEF PublisherInv, SocketOwned, HubInSync

LEMMA ReachedSocket == SocketInv /\ Reaches => ws \in Sockets
BY DEF Reaches, Alive, SocketInv

\* What is counted is finite.
LEMMA RowsFinite ==
    ASSUME PublisherTypes, NEW s, NEW n
    PROVE  IsFiniteSet(RowsNamed(s, n)) /\ IsFiniteSet(OpenNamed(n))
<1>1. IsFiniteSet(Ids)
  BY PublisherAssumption, FS_Interval DEF Ids
<1>2. handles \subseteq Ids
  BY PublisherAssumption DEF PublisherTypes, Ids
<1>3. RowsNamed(s, n) \subseteq Ids /\ OpenNamed(n) \subseteq Ids
  BY <1>2 DEF RowsNamed, OpenNamed
<1> QED
  BY <1>1, <1>3, FS_Subset

\* A place in the hub's Map is a number.
LEMMA PlaceIsNat ==
    ASSUME NEW i \in Ids, NEW p PROVE RowPlace(i, p) \in Nat
<1> DEFINE S == {s \in Sockets : p[s] \notin {"none", "connecting"}}
<1>1. IsFiniteSet(Sockets)
  BY AppSocketAssumption, FS_Interval DEF Sockets
<1>2. Cardinality(S) \in Nat
  BY <1>1, FS_Subset, FS_CardinalityType
<1>3. \A a, b \in Nat : a * b \in Nat
  OBVIOUS
<1>4. MaxHandles * Cardinality(S) \in Nat
  BY <1>2, <1>3, PublisherAssumption
<1>5. RowPlace(i, p) = MaxHandles * Cardinality(S) + i /\ i \in Nat
  BY DEF RowPlace, Ids
<1> HIDE DEF S
<1> QED
  BY <1>4, <1>5

\* Where there are rows of a names, one of them comes first.
LEMMA FirstIsNamed ==
    ASSUME PublisherTypes, NEW s \in Sockets, NEW n, RowsNamed(s, n) # {}
    PROVE  FirstNamed(s, n) \in RowsNamed(s, n)
<1> DEFINE P == {placed[s][j] : j \in RowsNamed(s, n)}
<1>1. P \in SUBSET Nat /\ P # {}
  BY DEF PublisherTypes, RowsNamed
<1>2. PICK d \in P : \A y \in P : ~(<<y, d>> \in OpToRel(<, Nat))
  <2> HIDE DEF P
  <2> QED
    BY <1>1, LeastThereIs, Zenon
<1>3. ASSUME NEW y \in P PROVE d <= y
  <2>1. ~(<<y, d>> \in OpToRel(<, Nat))
    BY <1>2
  <2>2. d \in Nat /\ y \in Nat
    BY <1>1, <1>2
  <2>3. ~(y < d)
    BY <2>1, <2>2 DEF OpToRel
  <2> QED
    BY <2>2, <2>3
<1>4. PICK i \in RowsNamed(s, n) : d = placed[s][i]
  BY <1>2
<1>5. \A j \in RowsNamed(s, n) : placed[s][i] <= placed[s][j]
  BY <1>3, <1>4
<1> HIDE DEF P
<1> QED
  BY <1>4, <1>5 DEF FirstNamed

\* ensureSocket leaves the sockets in order, and a new one is nobody's.
LEMMA EnsureSocketHolds ==
    ASSUME PublisherInv, EnsureSocket, UNCHANGED <<hubEnd, promptCloses>>
    PROVE  /\ SocketInv'
           /\ ws # Null => UNCHANGED <<ws, connected, phase>>
           /\ ws = Null => /\ ws' \in Sockets /\ ~connected'
                           /\ phase' = [phase EXCEPT ![ws'] = "connecting"]
<1>1. CASE ws # Null
  BY <1>1 DEF EnsureSocket, PublisherInv, SocketInv, Numbered
<1>2. CASE ws = Null
  <2>1. NewSocket(phase) /\ ~connected'
    BY <1>2 DEF EnsureSocket
  <2>2. /\ ws' \in Sockets /\ ws' # Null /\ phase[ws'] = "none"
        /\ phase' = [phase EXCEPT ![ws'] = "connecting"] /\ Numbered(phase')
    BY <2>1, NewSocketFacts DEF PublisherInv, SocketInv
  <2>3. Numbered(phase)'
    BY <2>2 DEF Numbered
  <2> QED
    BY <1>2, <2>1, <2>2, <2>3 DEF PublisherInv, SocketInv, Phases
<1> QED
  BY <1>1, <1>2

\* A socket that is neither new nor the current one keeps its phase, so the
\* current one stays the only one.
LEMMA EnsureSocketOwned ==
    ASSUME PublisherInv, EnsureSocket, UNCHANGED <<hubEnd, promptCloses>>,
           promptCloses, Closing = {}
    PROVE  /\ OneSocket' /\ Closing' = {}
           /\ connected' => ws' # Null /\ phase'[ws'] = "open"
           /\ Reaches' => Reaches /\ ws' = ws
<1>1. /\ ws # Null => UNCHANGED <<ws, connected, phase>>
      /\ ws = Null => /\ ws' \in Sockets /\ ~connected'
                      /\ phase' = [phase EXCEPT ![ws'] = "connecting"]
  BY EnsureSocketHolds
<1>2. OneSocket /\ (connected => ws # Null /\ phase[ws] = "open") /\ phase \in [Sockets -> Phases]
  BY DEF PublisherInv, SocketOwned, SocketInv
<1>3. CASE ws # Null
  BY <1>1, <1>2, <1>3 DEF OneSocket, Closing, Reaches, Alive
<1>4. CASE ws = Null
  <2>1. /\ ws' \in Sockets /\ ~connected' /\ phase' = [phase EXCEPT ![ws'] = "connecting"]
    BY <1>1, <1>4
  <2>2. \A s \in Sockets : s # ws' => phase'[s] = phase[s] /\ phase[s] \notin {"connecting", "open", "closing"}
    BY <1>2, <1>4, <2>1 DEF OneSocket, Closing, Sockets, Null
  <2> QED
    BY <1>2, <2>1, <2>2 DEF OneSocket, Closing, Reaches
<1> QED
  BY <1>3, <1>4

\* A new handle is a new channel, which the hub has once it is told.
LEMMA AdvertiseHolds ==
    ASSUME PublisherInv, NEW n \in PublishNames, Advertise(n) PROVE PublisherInv'
<1> DEFINE k == nextLocalId
<1>1. /\ k \in Ids /\ k' = k + 1 /\ channels' = channels \cup {k}
      /\ names' = [names EXCEPT ![k] = n]
      /\ EnsureSocket /\ UNCHANGED <<hubEnd, promptCloses, last, crossed, sends>>
      /\ handles' = IF Throws THEN handles ELSE handles \cup {k}
      /\ told' = IF Reaches THEN [told EXCEPT ![ws][k] = 0] ELSE told
      /\ placed' = IF Reaches THEN [placed EXCEPT ![ws][k] = RowPlace(k, phase)] ELSE placed
  <2>1. k \in Ids
    BY PublisherAssumption DEF Advertise, PublisherInv, PublisherTypes, Ids
  <2>2. /\ told' = IF Reaches THEN [told EXCEPT ![ws][k] = 0] ELSE told
        /\ placed' = IF Reaches THEN [placed EXCEPT ![ws][k] = RowPlace(k, phase)] ELSE placed
    BY DEF Advertise, hubTable
  <2> QED
    BY <2>1, <2>2 DEF Advertise
<1>2. SocketInv'
  BY <1>1, EnsureSocketHolds
<1>3. Reaches => ws \in Sockets
  BY ReachedSocket DEF PublisherInv
<1>4. PublisherTypes'
  <2>1. told' \in [Sockets -> [Ids -> Int]]
    BY <1>1, <1>3 DEF PublisherInv, PublisherTypes
  <2>2. RowPlace(k, phase) \in Nat
    BY <1>1, PlaceIsNat
  <2>3. placed' \in [Sockets -> [Ids -> Nat]]
    BY <1>1, <1>3, <2>2 DEF PublisherInv, PublisherTypes
  <2>4. DOMAIN names' = Ids /\ \A i \in Ids : i < k' => names'[i] \in PublishNames
    BY <1>1, PublisherAssumption DEF PublisherInv, PublisherTypes, Ids
  <2>5. /\ k' \in 1 .. MaxHandles + 1
        /\ channels' \subseteq 1 .. k' - 1 /\ handles' \subseteq 1 .. k' - 1
    BY <1>1, PublisherAssumption DEF PublisherInv, PublisherTypes, Ids
  <2> QED
    BY <1>1, <2>1, <2>3, <2>4, <2>5 DEF PublisherInv, PublisherTypes
<1>5. FreshIds'
  BY <1>1, <1>3, PublisherAssumption DEF PublisherInv, PublisherTypes, FreshIds, Ids
<1>6. ASSUME promptCloses PROVE SocketOwned' /\ HubInSync'
  <2>1. Closing = {}
    BY <1>6 DEF Advertise
  <2>2. /\ OneSocket' /\ Closing' = {}
        /\ connected' => ws' # Null /\ phase'[ws'] = "open"
        /\ Reaches' => Reaches /\ ws' = ws
    BY <1>1, <1>6, <2>1, EnsureSocketOwned
  <2>3. ~Throws
    BY <1>6 DEF Throws, PublisherInv, SocketOwned
  <2>4. channels' = handles' /\ handles' = handles \cup {k}
    BY <1>1, <1>6, <2>3 DEF PublisherInv, HubInSync
  <2>5. ASSUME Reaches' PROVE AsManyAsOpen' /\ LastTold'
    <3>1. /\ Reaches /\ ws' = ws /\ ws \in Sockets /\ told' = [told EXCEPT ![ws][k] = 0]
          /\ AsManyAsOpen /\ LastTold
      BY <1>1, <1>3, <1>6, <2>2, <2>5 DEF PublisherInv, HubInSync
    <3>2. /\ last[k] = 0 /\ told[ws][k] = NotTold /\ k \notin handles
          /\ told \in [Sockets -> [Ids -> Int]] /\ DOMAIN names = Ids
      BY <1>1, <3>1, PublisherAssumption DEF PublisherInv, PublisherTypes, FreshIds, Ids
    <3>3. LastTold'
      BY <1>1, <3>1, <3>2 DEF LastTold
    <3>4. ASSUME NEW m \in PublishNames
          PROVE  Cardinality(RowsNamed(ws, m)') = Cardinality(OpenNamed(m)')
      <4>1. /\ IsFiniteSet(RowsNamed(ws, m)) /\ IsFiniteSet(OpenNamed(m))
            /\ Cardinality(RowsNamed(ws, m)) = Cardinality(OpenNamed(m))
        BY <3>1, RowsFinite DEF PublisherInv, AsManyAsOpen
      <4>2. CASE m = n
        <5>1. /\ RowsNamed(ws, m)' = RowsNamed(ws, m) \cup {k} /\ k \notin RowsNamed(ws, m)
              /\ OpenNamed(m)' = OpenNamed(m) \cup {k} /\ k \notin OpenNamed(m)
          <6>1. told'[ws][k] # NotTold /\ \A i \in Ids : i # k => told'[ws][i] = told[ws][i]
            BY <1>1, <3>1, <3>2 DEF NotTold
          <6>2. k \in Ids /\ names'[k] = n /\ \A i \in Ids : i # k => names'[i] = names[i]
            BY <1>1, <3>2
          <6>3. handles \subseteq Ids
            BY PublisherAssumption DEF PublisherInv, PublisherTypes, Ids
          <6> HIDE DEF k
          <6> QED
            BY <2>4, <3>1, <3>2, <4>2, <6>1, <6>2, <6>3 DEF RowsNamed, OpenNamed
        <5>2. /\ Cardinality(RowsNamed(ws, m) \cup {k}) = Cardinality(RowsNamed(ws, m)) + 1
              /\ Cardinality(OpenNamed(m) \cup {k}) = Cardinality(OpenNamed(m)) + 1
          BY <4>1, <5>1, FS_AddElement
        <5> QED
          BY <4>1, <5>1, <5>2
      <4>3. CASE m # n
        <5>1. RowsNamed(ws, m)' = RowsNamed(ws, m) /\ OpenNamed(m)' = OpenNamed(m)
          <6>1. \A i \in Ids : i # k => told'[ws][i] = told[ws][i]
            BY <1>1, <3>1, <3>2
          <6>2. k \in Ids /\ names'[k] = n /\ \A i \in Ids : i # k => names'[i] = names[i]
            BY <1>1, <3>2
          <6>3. handles \subseteq Ids
            BY PublisherAssumption DEF PublisherInv, PublisherTypes, Ids
          <6> HIDE DEF k
          <6> QED
            BY <2>4, <3>1, <3>2, <4>3, <6>1, <6>2, <6>3 DEF RowsNamed, OpenNamed
        <5> QED
          BY <4>1, <5>1
      <4> QED
        BY <4>2, <4>3
    <3> QED
      BY <3>1, <3>3, <3>4 DEF AsManyAsOpen
  <2> QED
    BY <2>2, <2>4, <2>5 DEF SocketOwned, HubInSync
<1> QED
  BY <1>1, <1>2, <1>4, <1>5, <1>6 DEF PublisherInv, SocketOwned, HubInSync

LEMMA SendHolds ==
    ASSUME PublisherInv, NEW i \in Ids, Send(i) PROVE PublisherInv'
<1>1. /\ i \in handles /\ sends' = sends + 1 /\ last' = [last EXCEPT ![i] = sends + 1]
      /\ UNCHANGED <<socketVars, connected, channels, nextLocalId, names, handles, placed, crossed>>
      /\ told' = ToldValue(i, sends + 1)
  BY DEF Send
<1>2. SocketInv' /\ SocketOwned'
  BY <1>1 DEF PublisherInv, SocketInv, SocketOwned, OneSocket, Closing, socketVars, Numbered
<1>3. Reaches => ws \in Sockets
  BY ReachedSocket DEF PublisherInv
<1>4. PublisherTypes' /\ FreshIds'
  <2>1. told' \in [Sockets -> [Ids -> Int]]
    BY <1>1, <1>3 DEF ToldValue, PublisherInv, PublisherTypes
  <2>2. \A s \in Sockets, j \in Ids : told[s][j] = NotTold => told'[s][j] = NotTold
    BY <1>1, <1>3 DEF ToldValue, PublisherInv, PublisherTypes
  <2>3. i < nextLocalId
    BY <1>1, PublisherAssumption DEF PublisherInv, PublisherTypes
  <2> QED
    BY <1>1, <2>1, <2>2, <2>3, PublisherAssumption DEF PublisherInv, PublisherTypes, FreshIds, Ids
<1>5. HubInSync'
  <2> SUFFICES ASSUME promptCloses PROVE HubInSync'
    BY <1>1 DEF HubInSync, socketVars
  <2>1. ASSUME Reaches PROVE AsManyAsOpen' /\ LastTold'
    <3>1. AsManyAsOpen /\ LastTold /\ channels = handles
      BY <2>1 DEF PublisherInv, HubInSync
    <3>2. /\ \A j \in Ids : told'[ws][j] = NotTold <=> told[ws][j] = NotTold
          /\ \A j \in Ids : told'[ws][j] =
                 IF j = i /\ told[ws][j] # NotTold THEN sends + 1 ELSE told[ws][j]
      BY <1>1, <1>3, <2>1 DEF ToldValue, NotTold, PublisherInv, PublisherTypes
    <3>3. AsManyAsOpen'
      <4>1. \A n : RowsNamed(ws, n)' = RowsNamed(ws, n) /\ OpenNamed(n)' = OpenNamed(n)
        BY <1>1, <3>2 DEF RowsNamed, OpenNamed, socketVars
      <4> QED
        BY <1>1, <3>1, <4>1 DEF AsManyAsOpen, socketVars
    <3>4. LastTold'
      <4>1. last[i] # NotTold /\ \A j \in Ids : last'[j] = IF j = i THEN sends + 1 ELSE last[j]
        BY <1>1 DEF PublisherInv, PublisherTypes, NotTold
      <4> QED
        BY <1>1, <3>1, <3>2, <4>1 DEF LastTold, socketVars
    <3> QED
      BY <3>3, <3>4
  <2> QED
    BY <1>1, <2>1 DEF PublisherInv, HubInSync, OneSocket, Reaches, Alive, socketVars
<1> QED
  BY <1>2, <1>4, <1>5 DEF PublisherInv

\* The hub drops one channel of the name the closed handle has.  If no handle of
\* that name is left, it has no channel of it either.
LEMMA CloseKeepsCount ==
    ASSUME PublisherInv, NEW i \in handles, Reaches, AsManyAsOpen,
           handles' = handles \ {i}, told' = ToldWithout(ws, names[i]),
           UNCHANGED <<ws, names>>
    PROVE  /\ AsManyAsOpen'
           /\ \A j \in Ids : names[j] # names[i] => told'[ws][j] = told[ws][j]
           /\ OpenNamed(names[i]) = {i} =>
                 \A j \in Ids : names[j] = names[i] => told'[ws][j] = NotTold
<1> DEFINE n == names[i]
<1> DEFINE f == FirstNamed(ws, n)
<1>1. ws \in Sockets /\ i \in Ids /\ n \in PublishNames /\ told \in [Sockets -> [Ids -> Int]]
  <2>1. i \in Ids /\ i < nextLocalId
    BY PublisherAssumption DEF PublisherInv, PublisherTypes, Ids
  <2> QED
    BY <2>1, ReachedSocket DEF PublisherInv, PublisherTypes
<1>2. \A m : /\ IsFiniteSet(RowsNamed(ws, m)) /\ Cardinality(RowsNamed(ws, m)) \in Nat
             /\ IsFiniteSet(OpenNamed(m)) /\ Cardinality(OpenNamed(m)) \in Nat
  BY RowsFinite, FS_CardinalityType DEF PublisherInv
<1>3. i \in OpenNamed(n)
  BY DEF OpenNamed
<1>4. Cardinality(OpenNamed(n)) # 0 /\ Cardinality(RowsNamed(ws, n)) = Cardinality(OpenNamed(n))
  BY <1>1, <1>2, <1>3, FS_EmptySet DEF AsManyAsOpen
<1>5. RowsNamed(ws, n) # {}
  BY <1>4, FS_EmptySet
<1>6. f \in RowsNamed(ws, n)
  BY <1>1, <1>5, FirstIsNamed DEF PublisherInv
<1>7. f \in Ids /\ names[f] = n /\ told' = [told EXCEPT ![ws][f] = NotTold]
  BY <1>5, <1>6 DEF ToldWithout, RowsNamed
<1>8. told'[ws][f] = NotTold /\ \A j \in Ids : j # f => told'[ws][j] = told[ws][j]
  BY <1>1, <1>7 DEF NotTold
<1> HIDE DEF f
<1>9. RowsNamed(ws, n)' = RowsNamed(ws, n) \ {f} /\ OpenNamed(n)' = OpenNamed(n) \ {i}
  BY <1>7, <1>8 DEF RowsNamed, OpenNamed
<1>10. /\ Cardinality(RowsNamed(ws, n) \ {f}) = Cardinality(RowsNamed(ws, n)) - 1
       /\ Cardinality(OpenNamed(n) \ {i}) = Cardinality(OpenNamed(n)) - 1
       /\ IsFiniteSet(RowsNamed(ws, n) \ {f})
  BY <1>2, <1>3, <1>6, FS_RemoveElement
<1>11. Cardinality(RowsNamed(ws, n)') = Cardinality(OpenNamed(n)')
  BY <1>4, <1>9, <1>10
<1>12. ASSUME NEW m \in PublishNames, m # n
       PROVE  Cardinality(RowsNamed(ws, m)') = Cardinality(OpenNamed(m)')
  <2>1. RowsNamed(ws, m)' = RowsNamed(ws, m) /\ OpenNamed(m)' = OpenNamed(m)
    BY <1>7, <1>8, <1>12 DEF RowsNamed, OpenNamed
  <2> QED
    BY <2>1 DEF AsManyAsOpen
<1>13. AsManyAsOpen'
  BY <1>11, <1>12 DEF AsManyAsOpen
<1>14. ASSUME OpenNamed(n) = {i}
       PROVE  \A j \in Ids : names[j] = n => told'[ws][j] = NotTold
  <2>1. OpenNamed(n)' = {}
    BY <1>9, <1>14
  <2>2. Cardinality(OpenNamed(n)') = 0
    BY <2>1, FS_EmptySet
  <2>3. RowsNamed(ws, n)' = {}
    BY <1>9, <1>10, <1>11, <2>2, FS_EmptySet
  <2> QED
    BY <2>3 DEF RowsNamed
<1> QED
  BY <1>7, <1>8, <1>13, <1>14

LEMMA CloseHolds ==
    ASSUME PublisherInv, NEW i \in Ids, Close(i) PROVE PublisherInv'
<1> DEFINE Kept == UNCHANGED <<ws, connected, phase>>
<1> DEFINE GivenUp == /\ channels' = {} /\ ~connected' /\ ws' = Null /\ phase' = Shut(ws)
<1>1. /\ i \in handles /\ handles' = handles \ {i}
      /\ UNCHANGED <<hubEnd, promptCloses, nextLocalId, names, last, placed, sends>>
      /\ told' = IF Reaches THEN ToldWithout(ws, names[i]) ELSE told
      /\ channels' = IF Throws THEN channels ELSE channels \ {i}
      /\ Kept \/ GivenUp
      /\ crossed' = IF OpenNamed(names[i]) = {i} THEN crossed \ {names[i]}
                    ELSE IF Reaches THEN crossed \cup {names[i]} ELSE crossed
  BY DEF Close
<1>2. Reaches => ws \in Sockets
  BY ReachedSocket DEF PublisherInv
<1>3. PublisherTypes' /\ FreshIds'
  <2>1. told \in [Sockets -> [Ids -> Int]] /\ NotTold \in Int
    BY DEF PublisherInv, PublisherTypes, NotTold
  <2>2. CASE Reaches /\ RowsNamed(ws, names[i]) # {}
    <3> DEFINE f == FirstNamed(ws, names[i])
    <3>1. f \in Ids
      BY <1>2, <2>2, FirstIsNamed DEF PublisherInv, RowsNamed
    <3>2. told' = [told EXCEPT ![ws][f] = NotTold]
      BY <1>1, <2>2 DEF ToldWithout
    <3> HIDE DEF f
    <3>3. /\ told' \in [Sockets -> [Ids -> Int]]
          /\ \A s \in Sockets, j \in Ids : told[s][j] = NotTold => told'[s][j] = NotTold
      BY <1>2, <2>1, <2>2, <3>1, <3>2
    <3> QED
      BY <1>1, <3>3, PublisherAssumption DEF PublisherInv, PublisherTypes, FreshIds
  <2>3. CASE ~(Reaches /\ RowsNamed(ws, names[i]) # {})
    <3>1. told' = told
      BY <1>1, <2>3 DEF ToldWithout
    <3> QED
      BY <1>1, <3>1, PublisherAssumption DEF PublisherInv, PublisherTypes, FreshIds
  <2> QED
    BY <2>2, <2>3
<1>4. promptCloses => channels' = handles'
  BY <1>1 DEF PublisherInv, SocketOwned, HubInSync, Throws
<1>5. CASE Kept
  <2>1. SocketInv'
    BY <1>1, <1>5 DEF PublisherInv, SocketInv, Numbered
  <2>2. SocketOwned'
    BY <1>1, <1>5 DEF PublisherInv, SocketOwned, OneSocket, Closing
  <2>3. ASSUME promptCloses, Reaches PROVE AsManyAsOpen' /\ LastTold'
    <3>1. AsManyAsOpen /\ LastTold /\ channels = handles
      BY <2>3 DEF PublisherInv, HubInSync
    <3>2. /\ AsManyAsOpen'
          /\ \A j \in Ids : names[j] # names[i] => told'[ws][j] = told[ws][j]
          /\ OpenNamed(names[i]) = {i} =>
                \A j \in Ids : names[j] = names[i] => told'[ws][j] = NotTold
      BY <1>1, <1>5, <2>3, <3>1, CloseKeepsCount
    <3>3. channels' = channels \ {i}
      BY <1>4, <1>1, <2>3, <3>1
    <3>4. ASSUME NEW j \in Ids, names[j] \notin crossed'
          PROVE  told'[ws][j] = IF j \in channels' THEN last[j] ELSE NotTold
      <4>1. CASE names[j] # names[i]
        <5>1. names[j] \notin crossed /\ (j \in channels' <=> j \in channels)
          BY <1>1, <3>3, <3>4, <4>1
        <5> QED
          BY <3>1, <3>2, <4>1, <5>1 DEF LastTold
      <4>2. CASE names[j] = names[i]
        <5>1. OpenNamed(names[i]) = {i}
          BY <1>1, <2>3, <3>4, <4>2
        <5>2. j \notin channels'
          BY <3>1, <3>3, <4>2, <5>1 DEF OpenNamed
        <5> QED
          BY <3>2, <4>2, <5>1, <5>2
      <4> QED
        BY <4>1, <4>2
    <3>5. LastTold'
      BY <1>1, <1>5, <3>4 DEF LastTold
    <3> QED
      BY <3>2, <3>5
  <2>4. HubInSync'
    BY <1>1, <1>4, <1>5, <2>3 DEF PublisherInv, HubInSync, OneSocket, Reaches, Alive
  <2> QED
    BY <1>3, <2>1, <2>2, <2>4 DEF PublisherInv
<1>6. CASE GivenUp
  <2>1. /\ phase' \in [Sockets -> Phases] /\ Numbered(phase')
        /\ \A t \in Sockets : t # ws => phase'[t] = phase[t]
        /\ \A t \in Sockets : phase'[t] = "none" <=> phase[t] = "none"
        /\ ws # Null => phase'[ws] \notin {"connecting", "open"}
    BY <1>6, ShutFacts DEF PublisherInv
  <2>2. \A s \in hubEnd : phase'[s] \in {"open", "closing"}
    BY <1>6 DEF PublisherInv, SocketInv, Shut
  <2>3. SocketInv'
    BY <1>1, <1>6, <2>1, <2>2 DEF PublisherInv, SocketInv, Numbered
  <2>4. promptCloses => OneSocket'
    BY <1>6, <2>1 DEF PublisherInv, SocketOwned, OneSocket, Null, Sockets
  <2>5. SocketOwned' /\ HubInSync'
    BY <1>1, <1>4, <1>6, <2>4 DEF SocketOwned, HubInSync, Reaches
  <2> QED
    BY <1>3, <2>3, <2>5 DEF PublisherInv
<1> QED
  BY <1>1, <1>5, <1>6

LEMMA OnOpenHolds ==
    ASSUME PublisherInv, NEW s \in Sockets, OnOpen(s) PROVE PublisherInv'
<1>1. /\ phase[s] = "connecting" /\ phase' = [phase EXCEPT ![s] = "open"]
      /\ hubEnd' = hubEnd \cup {s} /\ connected'
      /\ told' = ToldOnOpen(s) /\ placed' = PlacedOnOpen(s)
      /\ UNCHANGED <<ws, channels, nextLocalId, names, last, handles, sends, promptCloses>>
  BY DEF OnOpen, HandshakeDone
<1>2. SocketInv'
  BY <1>1, SocketEventHolds DEF OnOpen, PublisherInv
<1>3. PublisherTypes' /\ FreshIds'
  <2>1. Alive => ws \in Sockets
    BY DEF Alive, PublisherInv, SocketInv
  <2>2. told' \in [Sockets -> [Ids -> Int]]
    BY <1>1, <2>1 DEF ToldOnOpen, PublisherInv, PublisherTypes, NotTold
  <2>3. \A t \in Sockets, i \in Ids :
            told[t][i] = NotTold /\ i \notin channels => told'[t][i] = NotTold
    BY <1>1, <2>1 DEF ToldOnOpen, PublisherInv, PublisherTypes
  <2>4. \A i \in Ids : RowPlace(i, phase') \in Nat
    BY PlaceIsNat
  <2>5. placed' \in [Sockets -> [Ids -> Nat]]
    BY <1>1, <2>1, <2>4 DEF PlacedOnOpen, PublisherInv, PublisherTypes
  <2>6. \A i \in Ids : i >= nextLocalId => i \notin channels
    BY PublisherAssumption DEF PublisherInv, PublisherTypes, Ids
  <2> QED
    BY <1>1, <2>2, <2>3, <2>5, <2>6 DEF PublisherInv, PublisherTypes, FreshIds
<1>4. ASSUME promptCloses PROVE SocketOwned' /\ HubInSync'
  <2>1. ws = s /\ s # Null /\ channels = handles
    BY <1>1, <1>4 DEF PublisherInv, SocketOwned, HubInSync, OneSocket, Sockets, Null
  <2>2. /\ OneSocket' /\ phase'[ws'] = "open" /\ ws' # Null
        /\ Closing' # {} => ws' = Null /\ channels' = {}
    BY <1>1, <1>4, <2>1 DEF PublisherInv, SocketInv, SocketOwned, OneSocket, Closing
  <2>3. told' = [told EXCEPT ![s] = [i \in Ids |-> IF i \in channels THEN last[i] ELSE NotTold]]
    BY <1>1, <2>1 DEF ToldOnOpen
  <2>4. /\ \A i \in Ids : told'[ws][i] = IF i \in channels THEN last[i] ELSE NotTold
        /\ \A i \in Ids : told'[ws][i] # NotTold <=> i \in handles
    BY <2>1, <2>3 DEF PublisherInv, PublisherTypes, NotTold
  <2>5. LastTold'
    BY <1>1, <2>4 DEF LastTold
  <2>6. AsManyAsOpen'
    <3>1. handles \subseteq Ids
      BY PublisherAssumption DEF PublisherInv, PublisherTypes, Ids
    <3>2. \A n : RowsNamed(ws, n)' = OpenNamed(n)'
      BY <1>1, <2>4, <3>1 DEF RowsNamed, OpenNamed
    <3> QED
      BY <1>1, <3>2 DEF AsManyAsOpen
  <2> QED
    BY <1>1, <2>1, <2>2, <2>5, <2>6 DEF SocketOwned, HubInSync
<1> QED
  BY <1>1, <1>2, <1>3, <1>4 DEF PublisherInv, SocketOwned, HubInSync

\* Where the hub has lost a socket, it has no channels from it.
LEMMA HubForgetsHolds ==
    ASSUME PublisherTypes, FreshIds, NEW s \in Sockets, HubForgets(s),
           UNCHANGED <<channels, nextLocalId, names, last, handles, sends>>
    PROVE  PublisherTypes' /\ FreshIds'
<1>1. NoRows \in [Ids -> Int] /\ NoPlaces \in [Ids -> Nat] /\ \A i \in Ids : NoRows[i] = NotTold
  BY DEF NoRows, NoPlaces, NotTold
<1>2. told' \in [Sockets -> [Ids -> Int]] /\ placed' \in [Sockets -> [Ids -> Nat]]
  BY <1>1 DEF HubForgets, PublisherTypes
<1>3. \A t \in Sockets, i \in Ids : told[t][i] = NotTold => told'[t][i] = NotTold
  BY <1>1 DEF HubForgets, PublisherTypes
<1> QED
  BY <1>2, <1>3 DEF PublisherTypes, FreshIds

LEMMA OnCloseHolds ==
    ASSUME PublisherInv, NEW s \in Sockets, OnClose(s) PROVE PublisherInv'
<1>1. /\ phase[s] \in {"closing", "open", "connecting"} /\ phase' = [phase EXCEPT ![s] = "closed"]
      /\ hubEnd' = hubEnd \ {s} /\ ~connected' /\ ws' = Null /\ HubForgets(s)
      /\ UNCHANGED <<channels, nextLocalId, names, last, handles, sends, promptCloses>>
  BY DEF OnClose, SocketEnds
<1>2. SocketInv'
  BY <1>1, SocketEventHolds DEF OnClose, PublisherInv
<1>3. PublisherTypes' /\ FreshIds'
  BY <1>1, HubForgetsHolds DEF PublisherInv
<1>4. ASSUME promptCloses PROVE OneSocket' /\ (Closing' # {} => channels = {})
  <2>1. CASE phase[s] = "closing"
    BY <1>1, <1>4, <2>1
    DEF PublisherInv, SocketInv, SocketOwned, OneSocket, Closing, Sockets, Null
  <2>2. CASE phase[s] # "closing"
    BY <1>1, <1>4, <2>2
    DEF PublisherInv, SocketInv, SocketOwned, OneSocket, Closing, Sockets, Null
  <2> QED
    BY <2>1, <2>2
<1>5. SocketOwned' /\ HubInSync'
  BY <1>1, <1>4 DEF PublisherInv, SocketOwned, HubInSync, Reaches
<1> QED
  BY <1>2, <1>3, <1>5 DEF PublisherInv

LEMMA BreaksHolds ==
    ASSUME PublisherInv, NEW s \in Sockets, Breaks(s) PROVE PublisherInv'
<1>1. /\ HubLoses(s) /\ HubForgets(s) /\ hubEnd' = hubEnd \ {s}
      /\ UNCHANGED <<ws, phase, promptCloses>>
      /\ UNCHANGED <<connected, channels, nextLocalId, names, last, handles, crossed, sends>>
  BY DEF Breaks, HubLoses
<1>2. SocketInv'
  BY <1>1, SocketEventHolds DEF PublisherInv
<1>3. PublisherTypes' /\ FreshIds'
  BY <1>1, HubForgetsHolds DEF PublisherInv
<1>4. SocketOwned'
  BY <1>1 DEF PublisherInv, SocketOwned, OneSocket, Closing
<1>5. ASSUME Reaches' PROVE Reaches /\ \A i \in Ids : told'[ws][i] = told[ws][i]
  <2>1. Reaches /\ ws # s /\ ws \in Sockets
    BY <1>1, <1>5, ReachedSocket DEF Reaches, Alive, PublisherInv
  <2> QED
    BY <1>1, <2>1 DEF HubForgets, PublisherInv, PublisherTypes
<1>6. ASSUME Reaches', AsManyAsOpen, LastTold PROVE AsManyAsOpen' /\ LastTold'
  <2>1. \A n : RowsNamed(ws, n)' = RowsNamed(ws, n) /\ OpenNamed(n)' = OpenNamed(n)
    BY <1>1, <1>5, <1>6 DEF RowsNamed, OpenNamed
  <2>2. AsManyAsOpen'
    BY <1>1, <1>6, <2>1 DEF AsManyAsOpen
  <2> QED
    BY <1>1, <1>5, <1>6, <2>2 DEF LastTold
<1>7. HubInSync'
  BY <1>1, <1>5, <1>6 DEF PublisherInv, HubInSync, OneSocket
<1> QED
  BY <1>2, <1>3, <1>4, <1>7 DEF PublisherInv

LEMMA ReconnectHolds ==
    ASSUME PublisherInv, Reconnect PROVE PublisherInv'
<1>1. /\ IF channels # {} THEN EnsureSocket ELSE UNCHANGED <<ws, connected, phase>>
      /\ UNCHANGED <<hubEnd, promptCloses, channels, nextLocalId, names, last, handles, told,
                     placed, crossed, sends>>
  BY DEF Reconnect, hubTable
<1>2. PublisherTypes' /\ FreshIds'
  BY <1>1 DEF PublisherInv, PublisherTypes, FreshIds
<1>3. ws' = ws => (AsManyAsOpen /\ LastTold => AsManyAsOpen' /\ LastTold')
  <2>1. \A n : ws' = ws => RowsNamed(ws, n)' = RowsNamed(ws, n) /\ OpenNamed(n)' = OpenNamed(n)
    BY <1>1 DEF RowsNamed, OpenNamed
  <2>2. ws' = ws /\ AsManyAsOpen => AsManyAsOpen'
    BY <1>1, <2>1 DEF AsManyAsOpen
  <2> QED
    BY <1>1, <2>2 DEF LastTold
<1>4. CASE channels # {}
  <2>1. SocketInv'
    BY <1>1, <1>4, EnsureSocketHolds
  <2>2. ASSUME promptCloses
        PROVE  /\ OneSocket' /\ Closing' = {}
               /\ connected' => ws' # Null /\ phase'[ws'] = "open"
               /\ Reaches' => Reaches /\ ws' = ws
    <3>1. Closing = {}
      BY <1>4, <2>2 DEF PublisherInv, SocketOwned
    <3> QED
      BY <1>1, <1>4, <2>2, <3>1, EnsureSocketOwned
  <2> QED
    BY <1>1, <1>2, <1>3, <2>1, <2>2 DEF PublisherInv, SocketOwned, HubInSync
<1>5. CASE channels = {}
  <2>1. SocketInv' /\ SocketOwned'
    BY <1>1, <1>5 DEF PublisherInv, SocketInv, Numbered, SocketOwned, OneSocket, Closing
  <2>2. HubInSync'
    BY <1>1, <1>3, <1>5 DEF PublisherInv, HubInSync, OneSocket, Reaches, Alive
  <2> QED
    BY <1>2, <2>1, <2>2 DEF PublisherInv
<1> QED
  BY <1>4, <1>5

LEMMA PublisherStutters == PublisherInv /\ UNCHANGED pubVars => PublisherInv'
<1> SUFFICES ASSUME PublisherInv, UNCHANGED pubVars PROVE PublisherInv'
  OBVIOUS
<1>1. UNCHANGED <<ws, phase, hubEnd, promptCloses, connected, channels, nextLocalId, names, last,
                  handles, told, placed, crossed, sends>>
  BY DEF pubVars, socketVars, publisherVars, hubTable
<1>2. SocketInv' /\ PublisherTypes' /\ FreshIds' /\ SocketOwned'
  BY <1>1
  DEF PublisherInv, SocketInv, Numbered, PublisherTypes, FreshIds, SocketOwned, OneSocket, Closing
<1>3. AsManyAsOpen /\ LastTold => AsManyAsOpen' /\ LastTold'
  <2>1. \A n : RowsNamed(ws, n)' = RowsNamed(ws, n) /\ OpenNamed(n)' = OpenNamed(n)
    BY <1>1 DEF RowsNamed, OpenNamed
  <2>2. AsManyAsOpen => AsManyAsOpen'
    BY <1>1, <2>1 DEF AsManyAsOpen
  <2> QED
    BY <1>1, <2>2 DEF LastTold
<1>4. HubInSync'
  BY <1>1, <1>3 DEF PublisherInv, HubInSync, OneSocket, Reaches, Alive
<1> QED
  BY <1>2, <1>4 DEF PublisherInv

LEMMA PublisherStepHolds == PublisherInv /\ [PublisherNext]_pubVars => PublisherInv'
<1> SUFFICES ASSUME PublisherInv, [PublisherNext]_pubVars PROVE PublisherInv'
  OBVIOUS
<1>1. ASSUME NEW n \in PublishNames, Advertise(n) PROVE PublisherInv'
  BY <1>1, AdvertiseHolds
<1>2. ASSUME NEW i \in Ids, Send(i) \/ Close(i) PROVE PublisherInv'
  BY <1>2, SendHolds, CloseHolds
<1>3. ASSUME NEW s \in Sockets, OnOpen(s) \/ OnClose(s) \/ Breaks(s) PROVE PublisherInv'
  BY <1>3, OnOpenHolds, OnCloseHolds, BreaksHolds
<1>4. CASE Reconnect
  BY <1>4, ReconnectHolds
<1>5. CASE UNCHANGED pubVars
  BY <1>5, PublisherStutters
<1> QED
  BY <1>1, <1>2, <1>3, <1>4, <1>5 DEF PublisherNext

(***************************************************************************)
(* Whatever the owners of channels call and however connections are lost,  *)
(* as long as no 'close' event is stale there is one socket, over which    *)
(* the hub has as many channels of each name as there are open handles;    *)
(* they are the channels of those handles, with their last values, unless  *)
(* one of that name was closed before another (sourcePublisher.ts,         *)
(* ensureSocket, onopen, onclose, close; channel_registry.ts 105-117).     *)
(***************************************************************************)
THEOREM HubInSyncHolds == PublisherSpec => []HubInSync
<1>1. PublisherInv => HubInSync
  BY DEF PublisherInv
<1> QED
  BY <1>1, PublisherInitHolds, PublisherStepHolds, PTL DEF PublisherSpec

-----------------------------------------------------------------------------
(* The greatest and the least number of a set *)

LEMMA MaxIs ==
    ASSUME NEW S \in SUBSET Nat, NEW m \in S, \A y \in S : m >= y
    PROVE  Max(S) = m
<1>1. \A x \in S : (\A y \in S : x >= y) => x = m
  BY SMT
<1> QED
  BY <1>1, Zenon DEF Max

LEMMA MaxFacts ==
    ASSUME NEW n \in Nat, NEW S \in SUBSET (1..n), S # {}
    PROVE  Max(S) \in S /\ \A y \in S : Max(S) >= y
<1> DEFINE Left == {k \in Nat : n - k \in S}
<1>1. PICK e \in S : TRUE
  OBVIOUS
<1>2. n - e \in Left
  BY <1>1
<1>3. PICK d \in Left : \A y \in Left : ~(<<y, d>> \in OpToRel(<, Nat))
  <2>1. Left \subseteq Nat /\ Left # {}
    BY <1>2
  <2> QED
    BY <2>1, NatLessThanWellFounded, WFMin
<1>4. n - d \in S /\ \A y \in S : n - d >= y
  <2>1. ASSUME NEW y \in S PROVE n - d >= y
    <3>1. n - y \in Left
      OBVIOUS
    <3>2. ~(<<n - y, d>> \in OpToRel(<, Nat))
      BY <1>3, <3>1
    <3>3. ~(n - y < d)
      BY <3>1, <3>2 DEF OpToRel
    <3> QED
      BY <3>3
  <2> QED
    BY <2>1
<1>5. Max(S) = n - d
  BY <1>4, MaxIs
<1> QED
  BY <1>4, <1>5

LEMMA MinOfTwo ==
    ASSUME NEW a \in Nat, NEW b \in Nat
    PROVE  Min({a, b}) = IF a <= b THEN a ELSE b
<1> DEFINE m == IF a <= b THEN a ELSE b
<1>1. /\ m \in {a, b} /\ \A y \in {a, b} : m <= y
      /\ \A x \in {a, b} : (\A y \in {a, b} : x <= y) => x = m
  OBVIOUS
<1> QED
  BY <1>1, Zenon DEF Min

-----------------------------------------------------------------------------
(* Player *)

PlayerSpec == SocketInit /\ PlayerInit /\ [][PlayerNext]_playVars

PlayerTypes ==
    /\ records \in Recordings \cup {<<>>}
    /\ loading \subseteq Recordings
    /\ cursor \in 0 .. Len(records)
    /\ clock \in Nat
    /\ status \in {"idle", "playing", "paused", "ended"}

\* Only the current socket connects or is open; nothing was sent before it was
\* open, and then its channels are advertised.
ReplayOwned ==
    /\ OneSocket
    /\ ws # Null => phase[ws] # "closing"
    /\ ready => ws # Null
    /\ ws # Null /\ phase[ws] = "connecting" => cursor = 0 /\ ~ready
    /\ ws # Null /\ phase[ws] = "open" => catalogued = ChannelsOf(records)

\* How many records are due at time c.
Due(c) == Cardinality({k \in DOMAIN records : records[k].t <= c})

\* As long as the player is ready it counts what is due, heard or not.
CursorDue ==
    /\ clock <= Duration
    /\ ready /\ cursor > 0 => cursor = Due(clock)

PlayerInv == SocketInv /\ PlayerTypes /\ ReplayOwned /\ CursorDue /\ PositionShown

LEMMA RecordsFacts ==
    ASSUME PlayerTypes
    PROVE  /\ Len(records) \in Nat /\ DOMAIN records = 1 .. Len(records)
           /\ \A k \in 1 .. Len(records) : records[k].t \in Nat /\ records[k].ch \in RecordedChannels
           /\ \A j, k \in 1 .. Len(records) : j <= k => records[j].t <= records[k].t
           /\ Duration \in Nat
           /\ \A k \in 1 .. Len(records) : records[k].t <= Duration
<1>1. CASE records = <<>>
  BY <1>1 DEF Duration
<1>2. CASE records # <<>>
  <2>1. records \in Recordings
    BY <1>2 DEF PlayerTypes
  <2>2. /\ records \in Seq([t : Nat, ch : RecordedChannels])
        /\ \A j, k \in DOMAIN records : j <= k => records[j].t <= records[k].t
    BY <2>1, PlayerAssumption
  <2>3. /\ Len(records) \in Nat /\ DOMAIN records = 1 .. Len(records)
        /\ Len(records) \in 1 .. Len(records)
    BY <1>2, <2>2
  <2>4. \A k \in 1 .. Len(records) : records[k] \in [t : Nat, ch : RecordedChannels]
    BY <2>2, <2>3, ElementOfSeq
  <2>5. Duration = records[Len(records)].t
    BY <1>2 DEF Duration
  <2>6. \A k \in 1 .. Len(records) : records[k].t \in Nat /\ records[k].ch \in RecordedChannels
    BY <2>4
  <2>7. \A j, k \in 1 .. Len(records) : j <= k => records[j].t <= records[k].t
    BY <2>2, <2>3
  <2>8. Duration \in Nat
    BY <2>3, <2>5, <2>6
  <2>9. \A k \in 1 .. Len(records) : records[k].t <= Duration
    BY <2>3, <2>5, <2>7
  <2> QED
    BY <2>3, <2>6, <2>7, <2>8, <2>9
<1> QED
  BY <1>1, <1>2

\* The records that are due come first.
LEMMA DueFacts ==
    ASSUME PlayerTypes, NEW c \in Nat
    PROVE  /\ Due(c) \in 0 .. Len(records)
           /\ \A k \in 1 .. Len(records) : records[k].t <= c <=> k <= Due(c)
<1> DEFINE L == Len(records)
<1> DEFINE Late == {k \in 1..L : ~(records[k].t <= c)}
<1>0. /\ L \in Nat /\ DOMAIN records = 1..L
      /\ \A k \in 1..L : records[k].t \in Nat
      /\ \A j, k \in 1..L : j <= k => records[j].t <= records[k].t
  BY RecordsFacts
<1> HIDE DEF L
<1>1. \E n \in 0..L : \A k \in 1..L : records[k].t <= c <=> k <= n
  <2>1. CASE Late = {}
    <3>1. L \in 0..L
      BY <1>0
    <3>2. \A k \in 1..L : records[k].t <= c /\ k <= L
      BY <1>0, <2>1
    <3> QED
      BY <3>1, <3>2
  <2>2. CASE Late # {}
    <3>1. PICK m \in Late : \A y \in Late : ~(<<y, m>> \in OpToRel(<, Nat))
      <4>1. Late \subseteq Nat
        BY <1>0
      <4> QED
        BY <2>2, <4>1, NatLessThanWellFounded, WFMin
    <3>2. \A y \in Late : ~(y < m)
      <4>1. \A y \in Late : y \in Nat /\ m \in Nat
        BY <1>0
      <4> QED
        BY <3>1, <4>1 DEF OpToRel
    <3>3. ASSUME NEW k \in 1..L PROVE records[k].t <= c <=> k <= m - 1
      <4>1. k < m => records[k].t <= c
        BY <1>0, <3>2
      <4>2. k >= m => ~(records[k].t <= c)
        <5> SUFFICES ASSUME k >= m, records[k].t <= c PROVE FALSE
          OBVIOUS
        <5>1. records[m].t <= records[k].t
          BY <1>0
        <5>2. records[m].t <= c
          BY <1>0, <5>1
        <5> QED
          BY <5>2
      <4> QED
        BY <1>0, <4>1, <4>2
    <3>4. m - 1 \in 0..L
      BY <1>0
    <3> QED
      BY <3>3, <3>4
  <2> QED
    BY <2>1, <2>2
<1>2. PICK n \in 0..L : \A k \in 1..L : records[k].t <= c <=> k <= n
  BY <1>1
<1>3. {k \in DOMAIN records : records[k].t <= c} = 1..n
  BY <1>0, <1>2
<1>4. Due(c) = n
  <2>1. n \in Nat
    BY <1>0, <1>2
  <2>2. Cardinality(1..n) = n
    BY <2>1, FS_Interval
  <2> QED
    BY <1>3, <2>2 DEF Due
<1> QED
  BY <1>2, <1>4 DEF L

LEMMA DueAtEnd == ASSUME PlayerTypes PROVE Due(Duration) = Len(records)
<1>1. Duration \in Nat /\ Len(records) \in Nat /\ \A k \in 1 .. Len(records) : records[k].t <= Duration
  BY RecordsFacts
<1>2. Due(Duration) \in 0 .. Len(records)
  BY <1>1, DueFacts
<1>3. CASE Len(records) = 0
  BY <1>2, <1>3
<1>4. CASE Len(records) # 0
  <2>1. Len(records) \in 1 .. Len(records)
    BY <1>1, <1>4
  <2>2. Len(records) <= Due(Duration)
    BY <1>1, <2>1, DueFacts
  <2> QED
    BY <1>1, <1>2, <2>2
<1> QED
  BY <1>3, <1>4

\* flushDue passes the records that are due and were not counted before.
LEMMA PassedFacts ==
    ASSUME PlayerTypes, NEW c \in Nat, NEW k \in Nat, k <= Due(c)
    PROVE  Passed(k, c) = k + 1 .. Due(c) /\ k + Cardinality(Passed(k, c)) = Due(c)
<1> DEFINE L == Len(records)
<1> DEFINE n == Due(c)
<1>1. L \in Nat /\ n \in 0..L /\ \A j \in 1..L : records[j].t <= c <=> j <= n
  BY DueFacts, RecordsFacts
<1> HIDE DEF L, n
<1>2. Passed(k, c) = {j \in k + 1 .. L : \A i \in k + 1 .. j : records[i].t <= c}
  BY DEF Passed, L
<1>3. ASSUME NEW j \in k + 1 .. L
      PROVE  (\A i \in k + 1 .. j : records[i].t <= c) <=> j <= n
  BY <1>1, <1>3
<1>4. Passed(k, c) = k + 1 .. n
  BY <1>1, <1>2, <1>3
<1>5. Cardinality(k + 1 .. n) = n - k
  <2>1. Cardinality(k + 1 .. n) = IF k + 1 > n THEN 0 ELSE n - (k + 1) + 1
    BY <1>1, FS_Interval
  <2> QED
    BY <1>1, <2>1 DEF n
<1> QED
  BY <1>1, <1>4, <1>5 DEF n

\* The part of PositionShown that flushing keeps up.
Rebuilt ==
    ready /\ Alive /\ cursor > 0 =>
        /\ cursor = Cardinality({k \in DOMAIN records : records[k].t <= clock})
        /\ \A ch \in RecordedChannels : Past(ch) # {} => replayed[ch] = Max(Past(ch))

LEMMA FlushHolds ==
    ASSUME PlayerInv, NEW c \in 0 .. Duration, NEW k \in {0, cursor}, k = 0 \/ clock <= c,
           FlushDue(k, c), clock' = c,
           UNCHANGED <<ws, phase, hubEnd, records, ready, catalogued>>
    PROVE  /\ cursor' \in 0 .. Len(records)
           /\ ~ready => cursor' = k
           /\ ready => cursor' = Due(c)
           /\ CursorDue' /\ Rebuilt'
<1>0. /\ PlayerTypes /\ clock \in Nat /\ k \in Nat /\ k <= Len(records) /\ Len(records) \in Nat
      /\ cursor \in Nat /\ c \in Nat /\ c <= Duration' /\ Duration' = Duration
  BY RecordsFacts DEF PlayerInv, PlayerTypes, Duration
<1>1. CASE ~ready
  <2>1. cursor' = k
    BY <1>1 DEF FlushDue
  <2> QED
    BY <1>0, <1>1, <2>1 DEF CursorDue, Rebuilt
<1>2. CASE ready
  <2>1. ws # Null
    BY <1>2 DEF PlayerInv, ReplayOwned
  <2>2. /\ Due(c) \in 0 .. Len(records)
        /\ \A j \in 1 .. Len(records) : records[j].t <= c <=> j <= Due(c)
    BY <1>0, DueFacts
  <2>3. k = 0 \/ (k = cursor /\ k > 0 /\ k = Due(clock) /\ clock <= c)
    BY <1>0, <1>2 DEF PlayerInv, CursorDue
  <2>4. k <= Due(c)
    <3>1. CASE k = 0
      BY <2>2, <3>1
    <3>2. CASE k = cursor /\ k > 0 /\ k = Due(clock) /\ clock <= c
      <4>1. k \in 1 .. Len(records)
        BY <1>0, <3>2
      <4>2. records[k].t <= clock
        BY <1>0, <3>2, <4>1, DueFacts
      <4>3. records[k].t <= c
        BY <1>0, <3>2, <4>1, <4>2, RecordsFacts
      <4> QED
        BY <2>2, <4>1, <4>3
    <3> QED
      BY <2>3, <3>1, <3>2
  <2>5. Passed(k, c) = k + 1 .. Due(c) /\ k + Cardinality(Passed(k, c)) = Due(c)
    BY <1>0, <2>4, PassedFacts
  <2>6. cursor' = Due(c)
    BY <1>2, <2>1, <2>5 DEF FlushDue
  <2>7. Due(c)' = Due(c) /\ Due(clock)' = Due(c)
    BY DEF Due
  <2>8. CursorDue'
    BY <1>0, <2>6, <2>7 DEF CursorDue
  <2>9. ASSUME Alive, Due(c) > 0, NEW ch \in RecordedChannels, Past(ch)' # {}
        PROVE  replayed'[ch] = Max(Past(ch)')
    <3> DEFINE sent == {j \in Passed(k, c) : records[j].ch = ch}
    <3> DEFINE past == {j \in 1 .. Due(c) : records[j].ch = ch}
    <3>1. Past(ch)' = past
      BY <2>2, RecordsFacts, <1>0 DEF Past
    <3>2. phase[ws] = "open"
      <4>1. ws \in Sockets /\ phase[ws] \in {"open", "closing"}
        BY <2>9 DEF PlayerInv, SocketInv, Alive
      <4> QED
        BY <2>1, <4>1 DEF PlayerInv, ReplayOwned
    <3>3. ch \in catalogued
      <4>1. PICK j \in past : TRUE
        BY <2>9, <3>1
      <4>2. j \in DOMAIN records /\ records[j].ch = ch
        BY <1>0, <2>2, <4>1, RecordsFacts
      <4>3. ch \in ChannelsOf(records)
        BY <4>2 DEF ChannelsOf
      <4> QED
        BY <2>1, <3>2, <4>3 DEF PlayerInv, ReplayOwned
    <3>4. replayed'[ch] = IF sent # {} THEN Max(sent) ELSE replayed[ch]
      BY <1>2, <2>1, <2>9, <3>2, <3>3 DEF FlushDue
    <3>5. sent = {j \in k + 1 .. Due(c) : records[j].ch = ch}
      BY <2>5
    <3>6. CASE sent # {}
      <4>1. sent \in SUBSET (1 .. Due(c)) /\ Due(c) \in Nat
        BY <1>0, <2>2, <3>5
      <4>2. Max(sent) \in sent /\ \A y \in sent : Max(sent) >= y
        BY <3>6, <4>1, MaxFacts
      <4>3. Max(sent) \in past /\ \A y \in past : Max(sent) >= y
        <5>1. PICK m \in sent : m = Max(sent)
          BY <4>2
        <5>2. m \in past /\ m \in k + 1 .. Due(c)
          BY <1>0, <2>2, <3>5, <5>1
        <5>3. ASSUME NEW y \in past PROVE m >= y
          <6>1. y \in k + 1 .. Due(c) => y \in sent
            BY <3>5
          <6> QED
            BY <1>0, <2>2, <4>2, <5>1, <5>2, <6>1
        <5> QED
          BY <5>1, <5>2, <5>3
      <4>4. Max(past) = Max(sent)
        <5>1. past \in SUBSET Nat
          BY <2>2
        <5> QED
          BY <4>3, <5>1, MaxIs
      <4> QED
        BY <3>1, <3>4, <3>6, <4>4
    <3>7. CASE sent = {}
      <4>1. k = cursor /\ k > 0 /\ k = Due(clock)
        BY <2>2, <2>3, <2>9, <3>1, <3>5, <3>7
      <4>2. past = {j \in 1 .. k : records[j].ch = ch}
        BY <1>0, <2>2, <2>4, <3>5, <3>7
      <4>3. Past(ch) = past
        <5>1. \A j \in 1 .. Len(records) : records[j].t <= clock <=> j <= k
          BY <1>0, <4>1, DueFacts
        <5> QED
          BY <1>0, <4>2, <5>1, RecordsFacts DEF Past
      <4>4. replayed[ch] = Max(Past(ch))
        BY <1>2, <2>9, <3>1, <4>1, <4>3 DEF PlayerInv, PositionShown
      <4> QED
        BY <3>1, <3>4, <3>7, <4>3, <4>4
    <3> QED
      BY <3>6, <3>7
  <2>10. Rebuilt'
    <3>1. Alive' = Alive
      BY DEF Alive
    <3>2. Due(c)' = Cardinality({j \in DOMAIN records' : records'[j].t <= clock'})
      BY DEF Due
    <3> QED
      BY <2>6, <2>7, <2>9, <3>1, <3>2 DEF Rebuilt
  <2> QED
    BY <1>2, <2>2, <2>6, <2>8, <2>10
<1> QED
  BY <1>1, <1>2

LEMMA PlayerInitHolds == SocketInit /\ PlayerInit => PlayerInv
<1> SUFFICES ASSUME SocketInit, PlayerInit PROVE PlayerInv
  OBVIOUS
<1>1. SocketInv
  BY SocketInitHolds
<1>2. PlayerTypes
  BY DEF PlayerInit, PlayerTypes
<1>3. ReplayOwned
  BY DEF SocketInit, PlayerInit, ReplayOwned, OneSocket
<1>4. CursorDue
  BY DEF PlayerInit, CursorDue, Duration
<1>5. ~ready /\ status # "ended" /\ looping = (status = "playing")
  <2>1. status = "idle" /\ ~ready /\ looping = FALSE
    BY DEF PlayerInit
  <2>2. status # "ended" /\ status # "playing"
    BY <2>1
  <2> QED
    BY <2>1, <2>2, Zenon
<1>6. PositionShown
  BY <1>5, Zenon DEF PositionShown
<1> QED
  BY <1>1, <1>2, <1>3, <1>4, <1>6 DEF PlayerInv

\* What loading and unloading leave holds of any recording.
LEMMA ResetHolds ==
    ASSUME PlayerInv, NEW r \in Recordings \cup {<<>>}, Reset(r), SocketInv', OneSocket',
           loading' \subseteq Recordings, ws' # Null => phase'[ws'] = "connecting"
    PROVE  PlayerInv'
<1>1. /\ records' = r /\ cursor' = 0 /\ clock' = 0 /\ ~ready'
      /\ status' = IF r = <<>> THEN "idle" ELSE "playing"
      /\ looping' = (r # <<>>)
  BY Zenon DEF Reset
<1>2. PlayerTypes'
  <2>1. Len(r) \in Nat
    <3>1. CASE r = <<>>
      BY <3>1
    <3>2. CASE r \in Recordings
      BY <3>2, PlayerAssumption
    <3> QED
      BY <3>1, <3>2
  <2> QED
    BY <1>1, <2>1 DEF PlayerTypes
<1>3. ReplayOwned'
  BY <1>1 DEF ReplayOwned
<1>4. CursorDue'
  <2>1. CASE r = <<>>
    BY <1>1, <2>1 DEF CursorDue, Duration
  <2>2. CASE r # <<>>
    <3>1. r \in Seq([t : Nat, ch : RecordedChannels]) /\ Len(r) \in 1 .. Len(r)
      <4>1. r \in Seq([t : Nat, ch : RecordedChannels])
        BY <2>2, PlayerAssumption
      <4> QED
        BY <2>2, <4>1
    <3>2. r[Len(r)] \in [t : Nat, ch : RecordedChannels]
      BY <3>1, ElementOfSeq
    <3> QED
      BY <1>1, <2>2, <3>2 DEF CursorDue, Duration
  <2> QED
    BY <2>1, <2>2
<1>5. PositionShown'
  <2>1. looping' = (status' = "playing")
    BY <1>1, ZenonT(30)
  <2> QED
    BY <1>1, <2>1 DEF PositionShown
<1> QED
  BY <1>2, <1>3, <1>4, <1>5 DEF PlayerInv

LEMMA LoadedHolds ==
    ASSUME PlayerInv, NEW r \in Recordings, Loaded(r) PROVE PlayerInv'
<1>1. /\ loading' \subseteq Recordings /\ NewSocket(Shut(ws)) /\ Reset(r)
      /\ UNCHANGED <<hubEnd, promptCloses>>
  BY DEF Loaded, Reset, PlayerInv, PlayerTypes
<1> DEFINE p == Shut(ws)
<1>2. /\ p \in [Sockets -> Phases] /\ Numbered(p)
      /\ \A t \in Sockets : t # ws => p[t] = phase[t]
      /\ \A t \in Sockets : p[t] = "none" <=> phase[t] = "none"
      /\ ws # Null => p[ws] \notin {"connecting", "open"}
  BY ShutFacts DEF PlayerInv
<1>3. \A s \in hubEnd : s \in Sockets /\ p[s] \in {"open", "closing"}
  BY DEF PlayerInv, SocketInv, Shut
<1> HIDE DEF p
<1>4. /\ ws' \in Sockets /\ ws' # Null /\ p[ws'] = "none"
      /\ phase' = [p EXCEPT ![ws'] = "connecting"] /\ Numbered(phase')
  BY <1>1, <1>2, NewSocketFacts DEF p
<1>5. SocketInv'
  BY <1>1, <1>2, <1>3, <1>4 DEF PlayerInv, SocketInv, Numbered, Phases
<1>6. OneSocket'
  BY <1>2, <1>4 DEF PlayerInv, ReplayOwned, OneSocket, Sockets, Null
<1>7. phase'[ws'] = "connecting"
  BY <1>2, <1>4
<1> QED
  BY <1>1, <1>5, <1>6, <1>7, ResetHolds

LEMMA UnloadHolds ==
    ASSUME PlayerInv, Unload PROVE PlayerInv'
<1>1. /\ loading' \subseteq Recordings /\ ws' = Null /\ phase' = Shut(ws) /\ Reset(<<>>)
      /\ UNCHANGED <<hubEnd, promptCloses>>
  BY DEF Unload, Reset, PlayerInv, PlayerTypes
<1>2. /\ phase' \in [Sockets -> Phases] /\ Numbered(phase')
      /\ \A t \in Sockets : t # ws => phase'[t] = phase[t]
      /\ ws # Null => phase'[ws] \notin {"connecting", "open"}
  BY <1>1, ShutFacts DEF PlayerInv
<1>3. \A s \in hubEnd : s \in Sockets /\ phase'[s] \in {"open", "closing"}
  BY <1>1 DEF PlayerInv, SocketInv, Shut
<1>4. SocketInv'
  BY <1>1, <1>2, <1>3 DEF PlayerInv, SocketInv, Numbered
<1>5. OneSocket'
  BY <1>1, <1>2 DEF PlayerInv, ReplayOwned, OneSocket, Sockets, Null
<1> QED
  BY <1>1, <1>4, <1>5, ResetHolds

\* The calls that move the clock and leave the socket and the recording.
LEMMA MoveHolds ==
    ASSUME PlayerInv,
           UNCHANGED <<socketVars, records, ready, loading, catalogued>>,
           clock' \in Nat, cursor' \in 0 .. Len(records),
           phase[ws] = "connecting" /\ ws # Null => cursor' = 0,
           CursorDue', Rebuilt',
           status' \in {"idle", "playing", "paused", "ended"},
           status' = "ended" => clock' = Duration /\ cursor' = Len(records),
           looping' = (status' = "playing")
    PROVE  PlayerInv'
<1>1. UNCHANGED <<ws, phase, hubEnd, promptCloses, records, ready, loading, catalogued>>
  BY DEF socketVars
<1>2. SocketInv'
  BY <1>1 DEF PlayerInv, SocketInv, Numbered
<1>3. PlayerTypes'
  BY <1>1 DEF PlayerInv, PlayerTypes
<1>4. ReplayOwned'
  BY <1>1 DEF PlayerInv, ReplayOwned, OneSocket
<1>5. PositionShown'
  <2>1. Duration' = Duration
    BY <1>1 DEF Duration
  <2>2. status' = "ended" => clock' = Duration' /\ cursor' = Len(records')
    BY <1>1, <2>1
  <2> QED
    BY <2>2, Zenon DEF PositionShown, Rebuilt
<1> QED
  BY <1>2, <1>3, <1>4, <1>5 DEF PlayerInv

\* seekInternal, whose target the recording has.
LEMMA SeekInternalHolds ==
    ASSUME PlayerInv, NEW target \in 0 .. Duration, SeekInternal(target),
           UNCHANGED <<socketVars, records, ready, catalogued>>
    PROVE  /\ clock' = target /\ target \in Nat
           /\ cursor' \in 0 .. Len(records)
           /\ phase[ws] = "connecting" /\ ws # Null => cursor' = 0
           /\ CursorDue' /\ Rebuilt'
           /\ status = "ended" /\ target = Duration => cursor' = Len(records)
<1> DEFINE k == IF target < clock THEN 0 ELSE cursor
<1>1. PlayerTypes /\ target \in Nat /\ clock \in Nat /\ Duration \in Nat
  BY RecordsFacts DEF PlayerInv, PlayerTypes
<1>2. /\ clock' = target /\ FlushDue(k, target) /\ k \in {0, cursor} /\ (k = 0 \/ clock <= target)
      /\ UNCHANGED <<ws, phase, hubEnd, records, ready, catalogued>>
  BY <1>1 DEF SeekInternal, socketVars
<1> HIDE DEF k
<1>3. /\ cursor' \in 0 .. Len(records) /\ CursorDue' /\ Rebuilt'
      /\ ~ready => cursor' = k
      /\ ready => cursor' = Due(target)
  BY <1>1, <1>2, FlushHolds
<1>4. phase[ws] = "connecting" /\ ws # Null => cursor' = 0
  BY <1>2, <1>3 DEF PlayerInv, ReplayOwned
<1>5. ASSUME status = "ended", target = Duration PROVE cursor' = Len(records)
  <2>1. clock = Duration /\ cursor = Len(records)
    BY <1>5 DEF PlayerInv, PositionShown
  <2>2. k = cursor
    BY <1>1, <1>5, <2>1 DEF k
  <2>3. Due(target) = Len(records)
    BY <1>1, <1>5, DueAtEnd
  <2> QED
    BY <1>3, <2>1, <2>2, <2>3
<1> QED
  BY <1>1, <1>2, <1>3, <1>4, <1>5

LEMMA PlayHolds == ASSUME PlayerInv, Play PROVE PlayerInv'
<1>1. /\ IF status = "ended" THEN SeekInternal(0) ELSE UNCHANGED <<clock, cursor, replayed>>
      /\ status' = "playing" /\ looping' = TRUE
      /\ UNCHANGED <<socketVars, records, ready, loading, catalogued>>
  BY DEF Play
<1>2. PlayerTypes /\ 0 \in 0 .. Duration
  BY RecordsFacts DEF PlayerInv
<1>3. /\ clock' \in Nat /\ cursor' \in 0 .. Len(records)
      /\ phase[ws] = "connecting" /\ ws # Null => cursor' = 0
      /\ CursorDue' /\ Rebuilt'
  <2>1. CASE status = "ended"
    BY <1>1, <1>2, <2>1, SeekInternalHolds
  <2>2. CASE status # "ended"
    <3>1. UNCHANGED <<clock, cursor, replayed>>
      BY <1>1, <2>2
    <3> QED
      BY <1>1, <1>2, <3>1
      DEF PlayerInv, PlayerTypes, ReplayOwned, CursorDue, Due, Duration, PositionShown, Rebuilt,
          Past, Alive, socketVars
  <2> QED
    BY <2>1, <2>2
<1>4. looping' = (status' = "playing")
  BY <1>1, Zenon
<1> QED
  BY <1>1, <1>3, <1>4, MoveHolds

LEMMA SeekHolds ==
    ASSUME PlayerInv, NEW target \in 0 .. Duration, Seek(target) PROVE PlayerInv'
<1>1. /\ SeekInternal(target)
      /\ status' = IF status = "ended" /\ target < Duration THEN "paused" ELSE status
      /\ UNCHANGED <<socketVars, records, ready, looping, loading, catalogued>>
  BY DEF Seek
<1>2. /\ clock' = target /\ target \in Nat
      /\ cursor' \in 0 .. Len(records)
      /\ phase[ws] = "connecting" /\ ws # Null => cursor' = 0
      /\ CursorDue' /\ Rebuilt'
      /\ status = "ended" /\ target = Duration => cursor' = Len(records)
  BY <1>1, SeekInternalHolds
<1>3. Duration \in Nat
  BY RecordsFacts DEF PlayerInv
<1>4. status' \in {"idle", "playing", "paused", "ended"}
  BY <1>1 DEF PlayerInv, PlayerTypes
<1>5. status' = "ended" => status = "ended" /\ target = Duration
  BY <1>1, <1>3
<1>6. looping' = (status' = "playing")
  <2>1. looping = (status = "playing")
    BY DEF PlayerInv, PositionShown
  <2>2. status' = "playing" <=> status = "playing"
    BY <1>1
  <2> QED
    BY <1>1, <2>1, <2>2, Zenon
<1> QED
  BY <1>1, <1>2, <1>4, <1>5, <1>6, MoveHolds

LEMMA StepHolds ==
    ASSUME PlayerInv, NEW dt \in 0 .. MaxStep, Step(dt) PROVE PlayerInv'
<1>1. /\ looping /\ ready /\ clock' = Min({clock + dt, Duration}) /\ FlushDue(cursor, clock')
      /\ IF clock + dt >= Duration
         THEN status' = "ended" /\ looping' = FALSE
         ELSE UNCHANGED <<status, looping>>
      /\ UNCHANGED <<socketVars, records, ready, loading, catalogued>>
  BY DEF Step
<1>2. PlayerTypes /\ clock \in Nat /\ Duration \in Nat /\ dt \in Nat
  BY RecordsFacts, PlayerAssumption DEF PlayerInv, PlayerTypes
<1>3. clock' = IF clock + dt <= Duration THEN clock + dt ELSE Duration
  BY <1>1, <1>2, MinOfTwo
<1>4. clock <= clock' /\ clock' \in 0 .. Duration
  BY <1>2, <1>3 DEF PlayerInv, CursorDue
<1>5. /\ cursor' \in 0 .. Len(records) /\ CursorDue' /\ Rebuilt' /\ cursor' = Due(clock')
  <2>1. UNCHANGED <<ws, phase, hubEnd, records, ready, catalogued>>
    BY <1>1 DEF socketVars
  <2> DEFINE c == clock'
  <2>2. FlushDue(cursor, c) /\ c \in 0 .. Duration /\ clock <= c /\ c = clock'
    BY <1>1, <1>4
  <2> HIDE DEF c
  <2>3. /\ cursor' \in 0 .. Len(records) /\ CursorDue' /\ Rebuilt' /\ cursor' = Due(c)
    BY <1>1, <2>1, <2>2, FlushHolds
  <2> QED
    BY <2>2, <2>3
<1>6. phase[ws] = "connecting" /\ ws # Null => cursor' = 0
  BY <1>1 DEF PlayerInv, ReplayOwned
<1>7. CASE clock + dt >= Duration
  <2>1. status' = "ended" /\ looping' = FALSE /\ clock' = Duration
    BY <1>1, <1>2, <1>3, <1>7
  <2>2. cursor' = Len(records)
    BY <1>2, <1>5, <2>1, DueAtEnd
  <2>3. looping' = (status' = "playing")
    <3>1. status' # "playing"
      BY <2>1
    <3> QED
      BY <2>1, <3>1, Zenon
  <2> QED
    BY <1>1, <1>4, <1>5, <1>6, <2>1, <2>2, <2>3, MoveHolds
<1>8. CASE ~(clock + dt >= Duration)
  <2>1. UNCHANGED <<status, looping>>
    BY <1>1, <1>8
  <2>2. status = "playing" /\ looping' = (status' = "playing")
    BY <1>1, <2>1, Zenon DEF PlayerInv, PositionShown
  <2> QED
    <3>1. clock' \in Nat /\ status' = "playing"
      BY <1>4, <2>1, <2>2
    <3> QED
      BY <1>1, <1>5, <1>6, <2>2, <3>1, MoveHolds
<1> QED
  BY <1>7, <1>8

LEMMA PauseHolds == ASSUME PlayerInv, Pause PROVE PlayerInv'
<1>1. /\ status' = "paused" /\ looping' = FALSE
      /\ UNCHANGED <<socketVars, records, cursor, ready, clock, loading, catalogued, replayed>>
  BY DEF Pause
<1>2. looping' = (status' = "playing")
  <2>1. status' # "playing"
    BY <1>1
  <2> QED
    BY <1>1, <2>1, Zenon
<1>3. CursorDue' /\ Rebuilt'
  BY <1>1
  DEF PlayerInv, CursorDue, Due, Duration, PositionShown, Rebuilt, Past, Alive, socketVars
<1>4. /\ clock' \in Nat /\ cursor' \in 0 .. Len(records)
      /\ phase[ws] = "connecting" /\ ws # Null => cursor' = 0
  BY <1>1 DEF PlayerInv, PlayerTypes, ReplayOwned
<1> QED
  BY <1>1, <1>2, <1>3, <1>4, MoveHolds

\* The other steps leave the position, and what is shown of it, alone.
Position == <<records, cursor, status, clock, looping, replayed>>

LEMMA PositionKept ==
    ASSUME PlayerInv, UNCHANGED Position, SocketInv', ReplayOwned', loading' \subseteq Recordings,
           ready' /\ cursor > 0 => ready,
           ws' = ws /\ (ready' /\ cursor > 0 /\ Alive' => Alive)
    PROVE  PlayerInv'
<1>1. UNCHANGED <<records, cursor, status, clock, looping, replayed>>
  BY DEF Position
<1>2. PlayerTypes'
  BY <1>1 DEF PlayerInv, PlayerTypes
<1>3. CursorDue'
  BY <1>1 DEF PlayerInv, CursorDue, Due, Duration
<1>4. PositionShown'
  <2>1. Rebuilt'
    BY <1>1 DEF PlayerInv, PositionShown, Rebuilt, Past
  <2>2. status' = "ended" => clock' = Duration' /\ cursor' = Len(records')
    BY <1>1 DEF PlayerInv, PositionShown, Duration
  <2>3. looping' = (status' = "playing")
    BY <1>1, Zenon DEF PlayerInv, PositionShown
  <2> QED
    BY <2>1, <2>2, <2>3, Zenon DEF PositionShown, Rebuilt
<1> QED
  BY <1>2, <1>3, <1>4 DEF PlayerInv

LEMMA LoadHolds ==
    ASSUME PlayerInv, NEW r \in Recordings, Load(r) PROVE PlayerInv'
<1>1. /\ UNCHANGED Position /\ loading' \subseteq Recordings
      /\ UNCHANGED <<socketVars, ready, catalogued>>
  BY DEF Load, Position, PlayerInv, PlayerTypes
<1>2. SocketInv' /\ ReplayOwned' /\ ws' = ws /\ (Alive' => Alive)
  BY <1>1
  DEF PlayerInv, SocketInv, Numbered, ReplayOwned, OneSocket, Alive, socketVars, Position
<1> QED
  BY <1>1, <1>2, PositionKept

LEMMA PlayerOnOpenHolds ==
    ASSUME PlayerInv, NEW s \in Sockets, PlayerOnOpen(s) PROVE PlayerInv'
<1>1. /\ phase[s] = "connecting" /\ phase' = [phase EXCEPT ![s] = "open"]
      /\ catalogued' = ChannelsOf(records) /\ ws' = ws
      /\ UNCHANGED Position /\ loading' = loading
  BY DEF PlayerOnOpen, HandshakeDone, Position
<1>2. SocketInv'
  BY <1>1, SocketEventHolds DEF PlayerOnOpen, PlayerInv
<1>3. ws = s /\ s # Null /\ cursor = 0
  BY <1>1 DEF PlayerInv, ReplayOwned, OneSocket, Sockets, Null
<1>4. ReplayOwned'
  BY <1>1, <1>3 DEF PlayerInv, SocketInv, ReplayOwned, OneSocket, Position
<1>5. ~(cursor > 0) /\ loading' \subseteq Recordings
  BY <1>1, <1>3 DEF PlayerInv, PlayerTypes
<1> QED
  BY <1>1, <1>2, <1>4, <1>5, PositionKept

LEMMA PlayerOnCloseHolds ==
    ASSUME PlayerInv, NEW s \in Sockets, PlayerOnClose(s) PROVE PlayerInv'
<1>1. /\ phase' = [phase EXCEPT ![s] = "closed"] /\ ~ready' /\ ws' = ws
      /\ UNCHANGED Position /\ loading' = loading /\ catalogued' = catalogued
  BY DEF PlayerOnClose, SocketEnds, Position
<1>2. SocketInv'
  BY <1>1, SocketEventHolds DEF PlayerOnClose, PlayerInv
<1>3. ReplayOwned' /\ loading' \subseteq Recordings
  BY <1>1 DEF PlayerInv, PlayerTypes, SocketInv, ReplayOwned, OneSocket, Position
<1> QED
  BY <1>1, <1>2, <1>3, PositionKept

LEMMA PlayerHubLosesHolds ==
    ASSUME PlayerInv, NEW s \in Sockets, HubLoses(s), UNCHANGED playerVars
    PROVE  PlayerInv'
<1>1. /\ hubEnd' = hubEnd \ {s} /\ UNCHANGED <<ws, phase, promptCloses>>
      /\ UNCHANGED Position /\ UNCHANGED <<loading, catalogued, ready>>
  BY DEF HubLoses, playerVars, Position
<1>2. SocketInv'
  BY <1>1, SocketEventHolds DEF PlayerInv
<1>3. ReplayOwned' /\ loading' \subseteq Recordings /\ (Alive' => Alive)
  BY <1>1 DEF PlayerInv, PlayerTypes, ReplayOwned, OneSocket, Position, Alive
<1> QED
  BY <1>1, <1>2, <1>3, PositionKept

LEMMA PlayerStutterHolds ==
    ASSUME PlayerInv, UNCHANGED playVars PROVE PlayerInv'
<1>1. /\ UNCHANGED <<ws, phase, hubEnd, promptCloses>>
      /\ UNCHANGED Position /\ UNCHANGED <<loading, catalogued, ready>>
  BY DEF playVars, socketVars, playerVars, Position
<1>2. SocketInv' /\ ReplayOwned' /\ loading' \subseteq Recordings /\ (Alive' => Alive)
  BY <1>1
  DEF PlayerInv, PlayerTypes, SocketInv, Numbered, ReplayOwned, OneSocket, Position, Alive
<1> QED
  BY <1>1, <1>2, PositionKept

LEMMA PlayerStepHolds == PlayerInv /\ [PlayerNext]_playVars => PlayerInv'
<1> SUFFICES ASSUME PlayerInv, [PlayerNext]_playVars PROVE PlayerInv'
  OBVIOUS
<1>1. ASSUME NEW r \in Recordings, Load(r) \/ Loaded(r) PROVE PlayerInv'
  BY <1>1, LoadHolds, LoadedHolds
<1>2. CASE Unload
  BY <1>2, UnloadHolds
<1>3. CASE Play
  BY <1>3, PlayHolds
<1>4. CASE Pause
  BY <1>4, PauseHolds
<1>5. ASSUME NEW target \in 0 .. Duration, Seek(target) PROVE PlayerInv'
  BY <1>5, SeekHolds
<1>6. ASSUME NEW dt \in 0 .. MaxStep, Step(dt) PROVE PlayerInv'
  BY <1>6, StepHolds
<1>7. ASSUME NEW s \in Sockets,
             PlayerOnOpen(s) \/ PlayerOnClose(s) \/ (HubLoses(s) /\ UNCHANGED playerVars)
      PROVE  PlayerInv'
  BY <1>7, PlayerOnOpenHolds, PlayerOnCloseHolds, PlayerHubLosesHolds
<1>8. CASE UNCHANGED playVars
  BY <1>8, PlayerStutterHolds
<1> QED
  BY <1>1, <1>2, <1>3, <1>4, <1>5, <1>6, <1>7, <1>8 DEF PlayerNext

(***************************************************************************)
(* Whatever is loaded, sought, paused and repeated, and whenever the       *)
(* socket opens or breaks, a player that has replayed anything over a      *)
(* working socket has sent exactly the records up to its clock, the hub    *)
(* shows the last of each channel, and the end is reached with everything  *)
(* counted (player.ts, seekInternal, step, flushDue).                      *)
(***************************************************************************)
THEOREM PositionShownHolds == PlayerSpec => []PositionShown
<1>1. PlayerInv => PositionShown
  BY DEF PlayerInv
<1> QED
  BY <1>1, PlayerInitHolds, PlayerStepHolds, PTL DEF PlayerSpec

-----------------------------------------------------------------------------
(* The tree of frames: its buffers. *)

Samples == [t : TfTimes, parent : Frames, pose : Poses]

InTime(buf) == \A i, j \in 1..Len(buf) : i < j => buf[i].t <= buf[j].t

Recent(buf) == buf[Len(buf)].t - buf[1].t <= BufferTime

TfInv ==
    /\ fixedFrame \in Frames
    /\ \A f \in DOMAIN buffers :
          LET buf == buffers[f]
          IN  buf \in Seq(Samples) /\ buf # <<>> /\ InTime(buf) /\ Recent(buf)

\* A set of numbers has a least one, and one that is bounded a greatest.
LEMMA LeastOfSet ==
    ASSUME NEW S \in SUBSET Nat, S # {}
    PROVE  Min(S) \in S /\ \A y \in S : Min(S) <= y
<1>1. PICK d \in S : \A y \in S : ~(<<y, d>> \in OpToRel(<, Nat))
  BY LeastThereIs, Zenon
<1>2. ASSUME NEW y \in S PROVE d <= y
  <2>1. ~(<<y, d>> \in OpToRel(<, Nat))
    BY <1>1
  <2>2. ~(y < d)
    BY <2>1 DEF OpToRel
  <2> QED
    BY <2>2
<1> QED
  BY <1>2 DEF Min

LEMMA GreatestOfSet ==
    ASSUME NEW n \in Nat, NEW S \in SUBSET (0..n), S # {}
    PROVE  Max(S) \in S /\ \A y \in S : y <= Max(S)
<1> DEFINE T == {n - y : y \in S}
<1>1. T \in SUBSET Nat /\ T # {}
  <2>1. \A y \in S : n - y \in Nat
    OBVIOUS
  <2>2. T \in SUBSET Nat
    BY <2>1
  <2> QED
    BY <2>2
<1>2. PICK d \in T : \A y \in T : d <= y
  <2> HIDE DEF T
  <2> QED
    BY <1>1, LeastOfSet
<1>3. PICK m \in S : d = n - m
  OBVIOUS
<1>4. ASSUME NEW y \in S PROVE m >= y
  <2>1. n - y \in T
    OBVIOUS
  <2>2. n - m <= n - y
    BY <1>2, <1>3, <2>1
  <2> QED
    BY <2>2
<1> QED
  BY <1>4 DEF Max

\* A sample is stamped with a number.
LEMMA SamplesTimed ==
    ASSUME NEW buf \in Seq(Samples)
    PROVE  /\ Len(buf) \in Nat /\ DOMAIN buf = 1..Len(buf)
           /\ buf # <<>> => Len(buf) >= 1
           /\ \A i \in 1..Len(buf) : buf[i] \in Samples /\ buf[i].t \in Nat
<1>1. Len(buf) \in Nat /\ DOMAIN buf = 1..Len(buf) /\ (buf # <<>> => Len(buf) >= 1)
  OBVIOUS
<1>2. \A i \in 1..Len(buf) : buf[i] \in Samples
  OBVIOUS
<1>3. \A s \in Samples : s.t \in TfTimes
  BY DEF Samples
<1>4. TfTimes \subseteq Nat
  BY TfAssumption
<1> QED
  BY <1>1, <1>2, <1>3, <1>4

\* The place of a sample: what is before it is not newer, what is behind it is.
LEMMA PlaceFacts ==
    ASSUME NEW buf \in Seq(Samples), InTime(buf), NEW t \in Nat
    PROVE  /\ PlaceOf(buf, t) \in 1..(Len(buf) + 1)
           /\ \A i \in 1..Len(buf) : i < PlaceOf(buf, t) => buf[i].t <= t
           /\ \A i \in 1..Len(buf) : i >= PlaceOf(buf, t) => t <= buf[i].t
<1> DEFINE S == {0} \cup {i \in DOMAIN buf : buf[i].t <= t}
           n == Len(buf)
           m == Max(S)
<1>1. n \in Nat /\ DOMAIN buf = 1..n /\ \A i \in 1..n : buf[i].t \in Nat
  BY SamplesTimed
<1>2. S \in SUBSET (0..n) /\ S # {}
  BY <1>1
<1>3. m \in S /\ \A y \in S : y <= m
  <2> HIDE DEF S, n
  <2> QED
    BY <1>1, <1>2, GreatestOfSet
<1>4. PlaceOf(buf, t) = m + 1
  BY DEF PlaceOf
<1> HIDE DEF m
<1>5. m \in 0..n /\ (m # 0 => m \in 1..n /\ buf[m].t <= t)
  BY <1>1, <1>2, <1>3
<1>6. \A i \in 1..n : ~(buf[i].t <= t) \/ i <= m
  BY <1>1, <1>3
<1> HIDE DEF S, n
<1>7. ASSUME NEW i \in 1..n, i < m + 1 PROVE buf[i].t <= t
  <2>1. m \in 1..n /\ i <= m /\ buf[m].t <= t
    BY <1>1, <1>5, <1>7
  <2>2. i = m \/ buf[i].t <= buf[m].t
    BY <1>1, <1>7, <2>1 DEF InTime, n
  <2> QED
    BY <1>1, <2>1, <2>2
<1>8. ASSUME NEW i \in 1..n, i >= m + 1 PROVE t <= buf[i].t
  <2>1. ~(buf[i].t <= t)
    BY <1>1, <1>5, <1>6, <1>8
  <2> QED
    BY <1>1, <2>1
<1> QED
  BY <1>1, <1>4, <1>5, <1>7, <1>8 DEF n

LEMMA PlacedInTime ==
    ASSUME NEW buf \in Seq(Samples), InTime(buf), NEW sample \in Samples
    PROVE  LET w == InsertAt(buf, PlaceOf(buf, sample.t), sample)
           IN  w \in Seq(Samples) /\ w # <<>> /\ InTime(w)
<1> DEFINE n == Len(buf)
           p == PlaceOf(buf, sample.t)
           a == SubSeq(buf, 1, p - 1)
           b == SubSeq(buf, p, n)
           w == InsertAt(buf, p, sample)
<1>1. /\ p \in 1..(n + 1) /\ sample.t \in Nat
      /\ \A i \in 1..n : i < p => buf[i].t <= sample.t
      /\ \A i \in 1..n : i >= p => sample.t <= buf[i].t
  BY PlaceFacts, TfAssumption DEF Samples
<1>2. w = a \o <<sample>> \o b
  BY DEF InsertAt
<1>3. n \in Nat /\ \A i \in 1..n : buf[i].t \in Nat
  BY SamplesTimed
<1> HIDE DEF p, w
<1>4. /\ a \in Seq(Samples) /\ Len(a) = p - 1 /\ \A i \in 1..(p - 1) : a[i] = buf[i]
  BY <1>1
<1>5. /\ b \in Seq(Samples) /\ Len(b) = n - p + 1 /\ \A i \in 1..(n - p + 1) : b[i] = buf[p + i - 1]
  BY <1>1
<1> HIDE DEF a, b
<1>6. /\ w \in Seq(Samples) /\ Len(w) = n + 1
      /\ \A i \in 1..(n + 1) : w[i] = IF i < p THEN a[i] ELSE IF i = p THEN sample ELSE b[i - p]
  <2> DEFINE c == a \o <<sample>>
  <2>1. /\ c \in Seq(Samples) /\ Len(c) = p
        /\ \A i \in 1..p : c[i] = IF i < p THEN a[i] ELSE sample
    <3>1. <<sample>> \in Seq(Samples) /\ Len(<<sample>>) = 1 /\ <<sample>>[1] = sample
      OBVIOUS
    <3>2. /\ c \in Seq(Samples) /\ Len(c) = Len(a) + 1
          /\ \A i \in 1..(Len(a) + 1) :
                c[i] = IF i <= Len(a) THEN a[i] ELSE <<sample>>[i - Len(a)]
      BY <1>4, <3>1, ConcatProperties
    <3>3. p \in Int /\ Len(a) + 1 = p
      BY <1>1, <1>3, <1>4
    <3> HIDE DEF c
    <3>4. ASSUME NEW i \in 1..p PROVE c[i] = IF i < p THEN a[i] ELSE sample
      <4>1. CASE i < p
        BY <1>4, <3>2, <3>3, <4>1
      <4>2. CASE i = p
        <5>1. ~(i <= Len(a)) /\ i - Len(a) = 1
          BY <3>3, <4>2
        <5> QED
          BY <3>1, <3>2, <3>3, <4>2, <5>1
      <4> QED
        BY <3>3, <4>1, <4>2
    <3> QED
      BY <3>2, <3>3, <3>4
  <2>2. w = c \o b
    BY <1>2
  <2> HIDE DEF c
  <2>3. /\ w \in Seq(Samples) /\ Len(w) = Len(c) + Len(b)
        /\ \A i \in 1..(Len(c) + Len(b)) : w[i] = IF i <= Len(c) THEN c[i] ELSE b[i - Len(c)]
    BY <1>5, <2>1, <2>2, ConcatProperties
  <2>4. Len(c) + Len(b) = n + 1
    BY <1>1, <1>3, <1>5, <2>1
  <2>5. ASSUME NEW i \in 1..(n + 1)
        PROVE  w[i] = IF i < p THEN a[i] ELSE IF i = p THEN sample ELSE b[i - p]
    <3>1. w[i] = IF i <= p THEN c[i] ELSE b[i - p]
      BY <2>1, <2>3, <2>4
    <3>2. i <= p => c[i] = IF i < p THEN a[i] ELSE sample
      BY <1>1, <1>3, <2>1
    <3> QED
      BY <1>1, <1>3, <3>1, <3>2
  <2> QED
    BY <2>3, <2>4, <2>5
<1>7. \A i \in 1..(n + 1) : w[i] = IF i < p THEN buf[i] ELSE IF i = p THEN sample ELSE buf[i - 1]
  <2> SUFFICES ASSUME NEW i \in 1..(n + 1)
               PROVE  w[i] = IF i < p THEN buf[i] ELSE IF i = p THEN sample ELSE buf[i - 1]
    OBVIOUS
  <2>1. CASE i < p
    BY <1>1, <1>4, <1>6, <2>1
  <2>2. CASE i = p
    BY <1>6, <2>2
  <2>3. CASE i > p
    <3>1. i - p \in 1..(n - p + 1) /\ p + (i - p) - 1 = i - 1
      BY <1>1, <1>3, <2>3
    <3> QED
      BY <1>1, <1>5, <1>6, <2>3, <3>1
  <2> QED
    BY <1>1, <1>3, <2>1, <2>2, <2>3
<1>8. InTime(buf)
  OBVIOUS
<1> HIDE DEF n
<1>9. ASSUME NEW i \in 1..(n + 1), NEW j \in 1..(n + 1), i < j
      PROVE  w[i].t <= w[j].t
  <2>0. \A k \in 1..n : \A l \in 1..n : k < l => buf[k].t <= buf[l].t
    BY <1>8 DEF InTime, n
  <2>1. CASE j < p
    BY <1>1, <1>3, <1>7, <1>9, <2>0, <2>1
  <2>2. CASE j = p
    BY <1>1, <1>3, <1>7, <1>9, <2>2
  <2>3. CASE j > p
    <3>1. j - 1 \in 1..n /\ j - 1 >= p /\ w[j] = buf[j - 1]
      BY <1>1, <1>3, <1>7, <2>3
    <3>2. CASE i < p
      <4>1. i \in 1..n /\ i < j - 1 /\ w[i] = buf[i]
        BY <1>1, <1>3, <1>7, <2>3, <3>2
      <4> QED
        BY <2>0, <3>1, <4>1
    <3>3. CASE i = p
      BY <1>1, <1>7, <3>1, <3>3
    <3>4. CASE i > p
      <4>1. i - 1 \in 1..n /\ i - 1 < j - 1 /\ w[i] = buf[i - 1]
        BY <1>1, <1>3, <1>7, <1>9, <3>4
      <4> QED
        BY <2>0, <3>1, <4>1
    <3> QED
      BY <1>1, <3>2, <3>3, <3>4
  <2> QED
    BY <1>1, <2>1, <2>2, <2>3
<1> QED
  BY <1>3, <1>6, <1>9 DEF InTime, w, p

\* What is left is in time, too, and within the window.
LEMMA KeptInTime ==
    ASSUME NEW w \in Seq(Samples), w # <<>>, InTime(w)
    PROVE  LET v == WithinWindow(w)
           IN  v \in Seq(Samples) /\ v # <<>> /\ InTime(v) /\ Recent(v)
<1> DEFINE n == Len(w)
           S == {i \in DOMAIN w : w[i].t >= w[Len(w)].t - BufferTime}
           k == FirstKept(w)
           v == WithinWindow(w)
<1>1. /\ n \in Nat /\ n >= 1 /\ DOMAIN w = 1..n /\ \A i \in 1..n : w[i].t \in Nat
      /\ BufferTime \in Nat
  BY SamplesTimed, TfAssumption
<1>2. S \in SUBSET Nat /\ n \in S
  BY <1>1
<1>3. k \in S
  <2>1. k = Min(S)
    BY DEF FirstKept
  <2> HIDE DEF S, k, n
  <2> QED
    BY <1>2, <2>1, LeastOfSet
<1>4. v = SubSeq(w, k, n)
  BY DEF WithinWindow
<1> HIDE DEF v, k
<1>5. k \in 1..n /\ w[k].t >= w[n].t - BufferTime
  BY <1>1, <1>3
<1>6. /\ v \in Seq(Samples) /\ Len(v) = n - k + 1 /\ v # <<>>
      /\ \A i \in 1..(n - k + 1) : v[i] = w[k + i - 1]
  <2>1. \A i \in k..n : w[i] \in Samples
    BY <1>1, <1>5, SamplesTimed
  <2>2. /\ v \in Seq(Samples) /\ Len(v) = n - k + 1
        /\ \A i \in 1..(n - k + 1) : v[i] = w[k + i - 1]
    BY <1>1, <1>4, <1>5, <2>1, SubSeqProperties
  <2>3. Len(v) # 0
    BY <1>1, <1>5, <2>2
  <2> QED
    BY <2>2, <2>3
<1>7. ASSUME NEW i \in 1..Len(v), NEW j \in 1..Len(v), i < j
      PROVE  v[i].t <= v[j].t
  <2>1. /\ k + i - 1 \in 1..n /\ k + j - 1 \in 1..n /\ k + i - 1 < k + j - 1
        /\ v[i] = w[k + i - 1] /\ v[j] = w[k + j - 1]
    BY <1>1, <1>5, <1>6, <1>7
  <2> HIDE DEF n, S
  <2> QED
    BY <2>1 DEF InTime, n
<1>8. Recent(v)
  <2>1. /\ 1 \in 1..(n - k + 1) /\ n - k + 1 \in 1..(n - k + 1)
        /\ k + 1 - 1 = k /\ k + (n - k + 1) - 1 = n
    BY <1>1, <1>5
  <2>2. v[1] = w[k] /\ v[Len(v)] = w[n]
    BY <1>6, <2>1
  <2> QED
    BY <1>1, <1>5, <2>2 DEF Recent
<1> QED
  BY <1>6, <1>7, <1>8 DEF InTime, v

LEMMA TfInitInv == TfInit => TfInv
BY DEF TfInit, TfInv

LEMMA TfStepInv ==
    ASSUME TfInv, [TfNext]_tfVars
    PROVE  TfInv'
<1>1. ASSUME NEW ch, NEW f \in Frames, NEW sample \in Samples, Ingest(ch, f, sample)
      PROVE  TfInv'
  <2> DEFINE old == SamplesOf(f)
             put == InsertAt(old, PlaceOf(old, sample.t), sample)
             new == WithSample(old, sample)
  <2>1. old \in Seq(Samples) /\ InTime(old)
    <3>1. <<>> \in Seq(Samples) /\ InTime(<<>>)
      BY DEF InTime
    <3> QED
      BY <3>1 DEF SamplesOf, TfInv
  <2>2. put \in Seq(Samples) /\ put # <<>> /\ InTime(put)
    <3> HIDE DEF old
    <3> QED
      BY <2>1, PlacedInTime
  <2>3. new = WithinWindow(put)
    BY DEF WithSample
  <2> HIDE DEF old, put, new
  <2>4. new \in Seq(Samples) /\ new # <<>> /\ InTime(new) /\ Recent(new)
    BY <2>2, <2>3, KeptInTime
  <2>5. buffers' = [g \in DOMAIN buffers \cup {f} |-> IF g = f THEN new ELSE buffers[g]]
    BY <1>1 DEF Ingest, new, old
  <2>6. fixedFrame' = fixedFrame
    BY <1>1 DEF Ingest
  <2> QED
    BY <2>4, <2>5, <2>6 DEF TfInv
<1>2. ASSUME UNCHANGED buffers, fixedFrame' \in Frames PROVE TfInv'
  BY <1>2 DEF TfInv
<1>3. ASSUME NEW ch \in TfChannels, NEW f \in Frames, NEW parent \in Frames, NEW t \in TfTimes,
             NEW pose \in Poses, Ingest(ch, f, [t |-> t, parent |-> parent, pose |-> pose])
      PROVE  TfInv'
  <2>1. [t |-> t, parent |-> parent, pose |-> pose] \in Samples
    BY DEF Samples
  <2> QED
    BY <1>1, <1>3, <2>1
<1>4. CASE (\E ch \in TfChannels : SyncTfSubscriptions(ch)) \/ (\E f \in Frames : SetFixedFrame(f))
  BY <1>2, <1>4 DEF SyncTfSubscriptions, SetFixedFrame, TfInv
<1>5. CASE UNCHANGED tfVars
  BY <1>2, <1>5 DEF tfVars, TfInv
<1> QED
  BY <1>3, <1>4, <1>5 DEF TfNext

\* Two places in a buffer.
Places(buf) == [lo : DOMAIN buf, hi : DOMAIN buf]

Halfway(b) == (b.lo + b.hi) \div 2

LEMMA HalfwayFacts ==
    ASSUME NEW n \in Nat, NEW b \in [lo : 1..n, hi : 1..n], ~(b.hi - b.lo <= 1)
    PROVE  b.lo < Halfway(b) /\ Halfway(b) < b.hi /\ Halfway(b) \in 1..n
BY DEF Halfway

\* A step of the search gets closer.
LEMMA NarrowedFacts ==
    ASSUME NEW buf \in Seq(Samples), NEW time \in Nat, NEW b \in Places(buf), ~(b.hi - b.lo <= 1)
    PROVE  LET c == Narrowed(buf, time, b)
           IN  /\ c \in Places(buf) /\ c.lo < c.hi
               /\ c.hi - c.lo < b.hi - b.lo
               /\ buf[b.lo].t <= time /\ time <= buf[b.hi].t
                      => buf[c.lo].t <= time /\ time <= buf[c.hi].t
<1> DEFINE n == Len(buf)
           c == Narrowed(buf, time, b)
           mid == Halfway(b)
<1>1. /\ n \in Nat /\ Places(buf) = [lo : 1..n, hi : 1..n]
      /\ \A i \in 1..n : buf[i].t \in Nat
  BY SamplesTimed DEF Places
<1> HIDE DEF n
<1>2. b.lo < mid /\ mid < b.hi /\ mid \in 1..n /\ b.lo \in 1..n /\ b.hi \in 1..n
  BY <1>1, HalfwayFacts
<1>3. c = IF buf[mid].t <= time THEN [b EXCEPT !.lo = mid] ELSE [b EXCEPT !.hi = mid]
  BY DEF Narrowed, Halfway
<1> HIDE DEF c, mid
<1>4. CASE buf[mid].t <= time
  <2>1. c \in [lo : 1..n, hi : 1..n] /\ c.lo = mid /\ c.hi = b.hi
    BY <1>1, <1>2, <1>3, <1>4
  <2> QED
    BY <1>1, <1>2, <1>4, <2>1 DEF c
<1>5. CASE ~(buf[mid].t <= time)
  <2>1. c \in [lo : 1..n, hi : 1..n] /\ c.lo = b.lo /\ c.hi = mid
    BY <1>1, <1>2, <1>3, <1>5
  <2>2. time <= buf[mid].t
    BY <1>1, <1>2, <1>5
  <2> QED
    BY <1>1, <1>2, <2>1, <2>2 DEF c
<1> QED
  BY <1>4, <1>5

\* f[b] is where the search from b ends.
Searches(f, buf, time) ==
    f = [b \in Places(buf) |-> IF b.hi - b.lo <= 1 THEN b ELSE f[Narrowed(buf, time, b)]]

LEMMA SearchExists ==
    ASSUME NEW buf \in Seq(Samples), NEW time \in Nat
    PROVE  \E f : Searches(f, buf, time)
<1> DEFINE D == Places(buf)
           n == Len(buf)
           Right(f, b) == f[b] = IF b.hi - b.lo <= 1 THEN b ELSE f[Narrowed(buf, time, b)]
           Upto(w, f) == f = [b \in D |-> f[b]] /\ \A b \in D : b.hi - b.lo <= w => Right(f, b)
           Bad == {w \in Nat : ~ \E f : Upto(w, f)}
<1>0. n \in Nat /\ D = [lo : 1..n, hi : 1..n]
  BY SamplesTimed DEF Places
<1>1. \E f : Upto(0, f)
  <2>1. \A b \in D : b.hi - b.lo <= 0 => b.hi - b.lo <= 1
    BY <1>0
  <2>2. Upto(0, [b \in D |-> b])
    BY <2>1
  <2> QED
    BY <2>2
<1>2. ASSUME NEW w \in Nat, NEW f, Upto(w, f)
      PROVE  \E e : Upto(w + 1, e)
  <2> DEFINE e == [b \in D |-> IF b.hi - b.lo <= w THEN f[b]
                              ELSE IF b.hi - b.lo <= 1 THEN b ELSE f[Narrowed(buf, time, b)]]
  <2>1. ASSUME NEW b \in D, b.hi - b.lo <= w + 1
        PROVE  Right(e, b)
    <3>1. CASE b.hi - b.lo <= 1
      <4>1. e[b] = IF b.hi - b.lo <= w THEN f[b] ELSE b
        BY <3>1
      <4>2. b.hi - b.lo <= w => f[b] = b
        BY <1>2, <3>1
      <4> HIDE DEF e
      <4> QED
        BY <3>1, <4>1, <4>2
    <3>2. CASE ~(b.hi - b.lo <= 1)
      <4> DEFINE c == Narrowed(buf, time, b)
      <4>1. c \in D /\ c.hi - c.lo < b.hi - b.lo
        BY <3>2, NarrowedFacts
      <4> HIDE DEF c
      <4>2. c.hi - c.lo <= w
        BY <1>0, <2>1, <4>1
      <4>3. e[c] = f[c]
        BY <4>1, <4>2
      <4>4. e[b] = IF b.hi - b.lo <= w THEN f[b] ELSE f[c]
        BY <3>2 DEF c
      <4>5. b.hi - b.lo <= w => f[b] = f[c]
        BY <1>2, <3>2 DEF c
      <4> HIDE DEF e
      <4> QED
        BY <3>2, <4>3, <4>4, <4>5 DEF c
    <3> QED
      BY <3>1, <3>2
  <2>2. e = [b \in D |-> e[b]]
    OBVIOUS
  <2>3. Upto(w + 1, e)
    <3> HIDE DEF e, D
    <3> QED
      BY <2>1, <2>2
  <2> QED
    BY <2>3
<1>3. Bad = {}
  <2> SUFFICES ASSUME Bad # {} PROVE FALSE
    OBVIOUS
  <2> HIDE DEF Upto
  <2>1. Bad \in SUBSET Nat
    OBVIOUS
  <2> DEFINE k == Min(Bad)
  <2>2. k \in Bad /\ \A y \in Bad : k <= y
    <3> HIDE DEF Bad
    <3> QED
      BY <2>1, LeastOfSet
  <2> HIDE DEF k
  <2>3. k \in Nat /\ k # 0
    BY <1>1, <2>2
  <2>4. k - 1 \in Nat /\ ~(k <= k - 1)
    BY <2>3
  <2>5. \E f : Upto(k - 1, f)
    BY <2>2, <2>4
  <2>6. \E e : Upto((k - 1) + 1, e)
    BY <1>2, <2>4, <2>5
  <2> QED
    BY <2>2, <2>3, <2>6
<1>4. PICK f : Upto(n, f)
  BY <1>0, <1>3
<1>5. \A b \in D : Right(f, b)
  <2>1. \A b \in D : b.hi - b.lo <= n
    BY <1>0
  <2> QED
    BY <1>4, <2>1
<1>6. f = [b \in D |-> f[b]]
  BY <1>4
<1>7. Searches(f, buf, time)
  <2> HIDE DEF D
  <2> QED
    BY <1>5, <1>6 DEF Searches, D
<1> QED
  BY <1>7

\* It ends with neighbours that the time lies between.
LEMMA SearchEnds ==
    ASSUME NEW buf \in Seq(Samples), NEW time \in Nat, NEW f, Searches(f, buf, time),
           NEW b \in Places(buf), b.lo < b.hi, buf[b.lo].t <= time, time <= buf[b.hi].t
    PROVE  /\ f[b].hi = f[b].lo + 1
           /\ buf[f[b].lo].t <= time /\ time <= buf[f[b].hi].t
<1> DEFINE D == Places(buf)
           Starts(c) == c.lo < c.hi /\ buf[c.lo].t <= time /\ time <= buf[c.hi].t
           Ends(c) == c.hi = c.lo + 1 /\ buf[c.lo].t <= time /\ time <= buf[c.hi].t
           Bad == {w \in Nat : \E c \in D : c.hi - c.lo = w /\ Starts(c) /\ ~Ends(f[c])}
<1>0. Len(buf) \in Nat /\ D = [lo : 1..Len(buf), hi : 1..Len(buf)]
  BY SamplesTimed DEF Places
<1>1. \A c \in D : f[c] = IF c.hi - c.lo <= 1 THEN c ELSE f[Narrowed(buf, time, c)]
  BY DEF Searches
<1>2. Bad = {}
  <2> SUFFICES ASSUME Bad # {} PROVE FALSE
    OBVIOUS
  <2>1. Bad \in SUBSET Nat
    OBVIOUS
  <2> DEFINE k == Min(Bad)
  <2>2. k \in Bad /\ \A y \in Bad : k <= y
    <3> HIDE DEF Bad
    <3> QED
      BY <2>1, LeastOfSet
  <2> HIDE DEF k
  <2>3. PICK c \in D : c.hi - c.lo = k /\ Starts(c) /\ ~Ends(f[c])
    BY <2>2
  <2>4. CASE c.hi - c.lo <= 1
    <3>1. c.hi = c.lo + 1
      BY <1>0, <2>3, <2>4
    <3>2. f[c] = c
      BY <1>1, <2>4
    <3> QED
      BY <2>3, <3>1, <3>2
  <2>5. CASE ~(c.hi - c.lo <= 1)
    <3> DEFINE d == Narrowed(buf, time, c)
    <3>1. d \in D /\ d.hi - d.lo < c.hi - c.lo /\ Starts(d)
      BY <2>3, <2>5, NarrowedFacts
    <3>2. f[c] = f[d]
      BY <1>1, <2>5
    <3> HIDE DEF d
    <3>3. d.hi - d.lo \in Nat /\ ~(k <= d.hi - d.lo)
      <4>1. d.hi \in Int /\ d.lo \in Int /\ d.lo < d.hi
        BY <1>0, <3>1
      <4>2. d.hi - d.lo < k /\ k \in Int
        BY <2>2, <2>3, <3>1
      <4> QED
        BY <4>1, <4>2
    <3>4. d.hi - d.lo \notin Bad
      <4> HIDE DEF Bad
      <4> QED
        BY <2>2, <3>3
    <3> QED
      BY <2>3, <3>1, <3>2, <3>3, <3>4
  <2> QED
    BY <2>4, <2>5
<1>3. b.hi - b.lo \in Nat
  BY <1>0
<1> QED
  BY <1>2, <1>3

LEMMA BracketFacts ==
    ASSUME NEW buf \in Seq(Samples), Len(buf) > 1, NEW time \in Nat,
           buf[1].t <= time, time <= buf[Len(buf)].t
    PROVE  LET b == Bracket(buf, time)
           IN  b.hi = b.lo + 1 /\ buf[b.lo].t <= time /\ time <= buf[b.hi].t
<1> DEFINE f == CHOOSE g : g = [b \in [lo : DOMAIN buf, hi : DOMAIN buf] |->
                                  IF b.hi - b.lo <= 1 THEN b ELSE g[Narrowed(buf, time, b)]]
           whole == [lo |-> 1, hi |-> Len(buf)]
<1>1. Searches(f, buf, time)
  <2>1. \E g : g = [b \in [lo : DOMAIN buf, hi : DOMAIN buf] |->
                        IF b.hi - b.lo <= 1 THEN b ELSE g[Narrowed(buf, time, b)]]
    BY SearchExists DEF Searches, Places
  <2> QED
    BY <2>1 DEF Searches, Places
<1>2. Bracket(buf, time) = f[whole]
  BY DEF Bracket
<1> HIDE DEF f
<1>3. whole \in Places(buf) /\ whole.lo = 1 /\ whole.hi = Len(buf)
  BY SamplesTimed DEF Places
<1> HIDE DEF whole
<1>4. /\ f[whole].hi = f[whole].lo + 1
      /\ buf[f[whole].lo].t <= time /\ time <= buf[f[whole].hi].t
  BY <1>1, <1>3, SearchEnds
<1> QED
  BY <1>2, <1>4

(***************************************************************************)
(* Whatever samples come, in whatever order and from however many channels,*)
(* each buffer is in order and no longer than the window, and the search   *)
(* of interpolate finds the two samples that a time lies between           *)
(* (TFManager.ts 72-91, 198-212).                                          *)
(***************************************************************************)
THEOREM BuffersSoundHolds == TfSpec => []BuffersSound
<1>1. TfInv => BuffersSound
  <2> SUFFICES ASSUME TfInv, NEW f \in DOMAIN buffers
               PROVE  LET buf == buffers[f]
                      IN  /\ buf # <<>> /\ buf[Len(buf)].t - buf[1].t <= BufferTime
                          /\ \A i \in 1..Len(buf) - 1 : buf[i].t <= buf[i + 1].t
                          /\ Len(buf) > 1 =>
                                \A time \in buf[1].t + 1 .. buf[Len(buf)].t - 1 :
                                    LET b == Bracket(buf, time)
                                    IN  /\ b.hi = b.lo + 1 /\ buf[b.lo].t <= time
                                        /\ time <= buf[b.hi].t
    BY DEF BuffersSound
  <2> DEFINE buf == buffers[f]
  <2>1. buf \in Seq(Samples) /\ buf # <<>> /\ InTime(buf) /\ Recent(buf)
    BY DEF TfInv
  <2> HIDE DEF buf
  <2>2. /\ Len(buf) \in Nat /\ Len(buf) >= 1
        /\ \A i \in 1..Len(buf) : buf[i].t \in Nat
    BY <2>1, SamplesTimed
  <2>3. ASSUME NEW i \in 1..Len(buf) - 1 PROVE buf[i].t <= buf[i + 1].t
    <3>1. i \in 1..Len(buf) /\ i + 1 \in 1..Len(buf) /\ i < i + 1
      BY <2>2
    <3> QED
      BY <2>1, <3>1 DEF InTime
  <2>4. ASSUME Len(buf) > 1, NEW time \in buf[1].t + 1 .. buf[Len(buf)].t - 1
        PROVE  LET b == Bracket(buf, time)
               IN  b.hi = b.lo + 1 /\ buf[b.lo].t <= time /\ time <= buf[b.hi].t
    <3>1. buf[1].t \in Nat /\ buf[Len(buf)].t \in Nat
      BY <2>2
    <3>2. time \in Nat /\ buf[1].t <= time /\ time <= buf[Len(buf)].t
      BY <3>1
    <3> QED
      BY <2>1, <2>4, <3>2, BracketFacts
  <2> QED
    BY <2>1, <2>3, <2>4 DEF Recent, buf
<1> QED
  BY <1>1, TfInitInv, TfStepInv, PTL DEF TfSpec

-----------------------------------------------------------------------------
(* The tree of frames: poses. *)

\* Poses compose, and one and its inverse cancel out.
LEMMA TimesTypes ==
    ASSUME NEW q \in AnyPose, NEW p \in AnyPose
    PROVE  /\ Times(q, p) \in AnyPose /\ InverseOf(q) \in AnyPose /\ Identity \in AnyPose
           /\ q.s \in {1, -1} /\ q.x \in Int
<1>1. q.s \in {1, -1} /\ q.x \in Int /\ p.s \in {1, -1} /\ p.x \in Int
  BY DEF AnyPose
<1>2. q.s * p.s \in {1, -1} /\ q.x + q.s * p.x \in Int /\ -(q.s * q.x) \in Int
  BY <1>1
<1>3. Identity \in AnyPose
  BY DEF AnyPose, Identity
<1> QED
  BY <1>1, <1>2, <1>3 DEF AnyPose, Times, InverseOf

LEMMA TimesAssociative ==
    ASSUME NEW a \in AnyPose, NEW b \in AnyPose, NEW c \in AnyPose
    PROVE  Times(Times(a, b), c) = Times(a, Times(b, c))
<1>1. /\ a.s \in {1, -1} /\ a.x \in Int /\ b.s \in {1, -1} /\ b.x \in Int
      /\ c.s \in {1, -1} /\ c.x \in Int
  BY TimesTypes
<1>2. /\ (a.s * b.s) * c.s = a.s * (b.s * c.s)
      /\ (a.x + a.s * b.x) + (a.s * b.s) * c.x = a.x + a.s * (b.x + b.s * c.x)
  BY <1>1
<1>3. Times(a, b).s = a.s * b.s /\ Times(a, b).x = a.x + a.s * b.x
  BY DEF Times
<1>4. Times(b, c).s = b.s * c.s /\ Times(b, c).x = b.x + b.s * c.x
  BY DEF Times
<1>5. Times(Times(a, b), c)
        = [s |-> (a.s * b.s) * c.s, x |-> (a.x + a.s * b.x) + (a.s * b.s) * c.x]
  BY <1>3 DEF Times
<1>6. Times(a, Times(b, c))
        = [s |-> a.s * (b.s * c.s), x |-> a.x + a.s * (b.x + b.s * c.x)]
  BY <1>4 DEF Times
<1> QED
  BY <1>2, <1>5, <1>6

LEMMA TimesIdentity ==
    ASSUME NEW q \in AnyPose
    PROVE  /\ Times(Identity, q) = q /\ Times(q, Identity) = q
           /\ Times(InverseOf(q), q) = Identity
<1>1. q.s \in {1, -1} /\ q.x \in Int /\ q = [s |-> q.s, x |-> q.x]
  BY DEF AnyPose
<1>2. /\ 1 * q.s = q.s /\ 0 + 1 * q.x = q.x /\ q.s * 1 = q.s /\ q.x + q.s * 0 = q.x
      /\ q.s * q.s = 1 /\ -(q.s * q.x) + q.s * q.x = 0
  BY <1>1
<1>3. Identity.s = 1 /\ Identity.x = 0
  BY DEF Identity
<1>4. InverseOf(q).s = q.s /\ InverseOf(q).x = -(q.s * q.x)
  BY DEF InverseOf
<1> QED
  BY <1>1, <1>2, <1>3, <1>4 DEF Times, Identity

-----------------------------------------------------------------------------
\* What the buffers say of a frame last.
LEMMA LatestFacts ==
    ASSUME TfInv, NEW f
    PROVE  /\ Latest(f) = NoSample <=> f \notin DOMAIN buffers
           /\ f \in DOMAIN buffers => ParentOf(f) \in Frames /\ Latest(f).pose \in AnyPose
<1>1. CASE f \notin DOMAIN buffers
  BY <1>1 DEF Latest
<1>2. CASE f \in DOMAIN buffers
  <2>1. Latest(f) = buffers[f][Len(buffers[f])]
    BY <1>2 DEF Latest
  <2>2. buffers[f] \in Seq(Samples) /\ buffers[f] # <<>>
    BY <1>2 DEF TfInv
  <2>3. Len(buffers[f]) \in 1..Len(buffers[f])
    BY <2>2, SamplesTimed
  <2>4. Latest(f) \in Samples /\ Latest(f).t \in Nat
    BY <2>1, <2>2, <2>3, SamplesTimed
  <2>5. Latest(f) # NoSample
    BY <2>4 DEF NoSample
  <2>6. Latest(f).parent \in Frames /\ Latest(f).pose \in Poses
    BY <2>4 DEF Samples
  <2>7. Latest(f).pose \in AnyPose
    BY <2>6, TfAssumption DEF Poses, AnyPose
  <2> QED
    BY <1>2, <2>5, <2>6, <2>7 DEF ParentOf
<1> QED
  BY <1>1, <1>2

\* f itself is among its ancestors, and so are the parents of those that are.
LEMMA AncestorFacts ==
    ASSUME TfInv, NEW f \in Frames
    PROVE  /\ f \in Ancestors(f) /\ Ancestors(f) \subseteq Frames /\ Closed(Ancestors(f))
           /\ \A S \in SUBSET Frames : f \in S /\ Closed(S) => Ancestors(f) \subseteq S
<1>1. \A g \in DOMAIN buffers : ParentOf(g) \in Frames
  BY LatestFacts
<1> QED
  BY <1>1 DEF Ancestors, Closed

\* They are f and those of its parent.
LEMMA AncestorsOfParent ==
    ASSUME TfInv, NEW f \in Frames \cap DOMAIN buffers
    PROVE  Ancestors(f) = {f} \cup Ancestors(ParentOf(f))
<1> DEFINE p == ParentOf(f)
<1>1. p \in Frames
  BY LatestFacts
<1> HIDE DEF p
<1>2. Ancestors(p) \subseteq Ancestors(f)
  <2>1. p \in Ancestors(f)
    BY AncestorFacts DEF Closed, p
  <2> QED
    BY <1>1, <2>1, AncestorFacts
<1>3. Closed({f} \cup Ancestors(p))
  <2>1. p \in Ancestors(p) /\ Closed(Ancestors(p))
    BY <1>1, AncestorFacts
  <2> QED
    BY <2>1 DEF Closed, p
<1>4. Ancestors(f) \subseteq {f} \cup Ancestors(p)
  BY <1>1, <1>3, AncestorFacts
<1>5. f \in Ancestors(f)
  BY AncestorFacts
<1> QED
  BY <1>2, <1>4, <1>5 DEF p

\* In a forest, of any frames there is one whose parent is not one of them.
LEMMA TopmostExists ==
    ASSUME TfInv, Forest, NEW Bad \in SUBSET Frames, Bad # {}
    PROVE  \E f \in Bad : f \in DOMAIN buffers => ParentOf(f) \notin Bad
<1> DEFINE Sizes == {Cardinality(Ancestors(f)) : f \in Bad}
<1>1. \A f \in Bad : IsFiniteSet(Ancestors(f)) /\ Cardinality(Ancestors(f)) \in Nat
  BY AncestorFacts, TfAssumption, FS_Subset, FS_CardinalityType
<1>2. Sizes \in SUBSET Nat /\ Sizes # {}
  BY <1>1
<1> DEFINE k == Min(Sizes)
<1>3. k \in Sizes /\ \A y \in Sizes : k <= y
  <2> HIDE DEF Sizes
  <2> QED
    BY <1>2, LeastOfSet
<1> HIDE DEF k
<1>4. PICK f \in Bad : Cardinality(Ancestors(f)) = k
  BY <1>3
<1>5. ASSUME f \in DOMAIN buffers, ParentOf(f) \in Bad
      PROVE  FALSE
  <2> DEFINE p == ParentOf(f)
  <2>1. Ancestors(p) \subseteq Ancestors(f) /\ f \in Ancestors(f)
    BY <1>5, AncestorsOfParent
  <2>2. f \notin Ancestors(p)
    BY <1>5 DEF Forest
  <2>3. Cardinality(Ancestors(p)) < Cardinality(Ancestors(f))
    <3>1. /\ IsFiniteSet(Ancestors(f)) /\ Ancestors(p) \subseteq Ancestors(f)
          /\ Ancestors(p) # Ancestors(f)
      BY <1>1, <2>1, <2>2
    <3>2. /\ Cardinality(Ancestors(p)) <= Cardinality(Ancestors(f))
          /\ Cardinality(Ancestors(p)) # Cardinality(Ancestors(f))
      BY <3>1, FS_Subset
    <3>3. Cardinality(Ancestors(p)) \in Nat /\ Cardinality(Ancestors(f)) \in Nat
      BY <1>1, <1>5
    <3> QED
      BY <3>2, <3>3
  <2>4. k <= Cardinality(Ancestors(p))
    BY <1>3, <1>5
  <2>5. Cardinality(Ancestors(p)) \in Nat /\ Cardinality(Ancestors(f)) \in Nat
    BY <1>1, <1>5
  <2> QED
    BY <1>4, <2>3, <2>4, <2>5
<1> QED
  BY <1>5

-----------------------------------------------------------------------------
\* u[w] is where the walk w ends.
Stops(w, stopAt) == w.at = stopAt \/ w.at \in w.visited \/ Latest(w.at) = NoSample

End(w, stopAt) ==
    IF w.at # stopAt /\ w.at \in w.visited THEN NoPose ELSE [top |-> w.at, pose |-> w.pose]

Climbs(u, stopAt) ==
    u = [w \in Walks |-> IF Stops(w, stopAt) THEN End(w, stopAt) ELSE u[Climbed(w)]]

\* Frames that a walk has not come by.
Left(w) == Cardinality(Frames \ w.visited)

LEMMA LeftFacts ==
    ASSUME NEW w \in Walks
    PROVE  Left(w) \in Nat /\ Left(w) <= Cardinality(Frames) /\ Cardinality(Frames) \in Nat
<1>1. IsFiniteSet(Frames) /\ Frames \ w.visited \in SUBSET Frames
  BY TfAssumption
<1> QED
  BY <1>1, FS_Subset, FS_CardinalityType DEF Left

\* A step goes to one more.
LEMMA ClimbedFacts ==
    ASSUME TfInv, NEW stopAt, NEW w \in Walks, ~Stops(w, stopAt)
    PROVE  Climbed(w) \in Walks /\ Left(Climbed(w)) < Left(w)
<1>1. w.visited \in SUBSET Frames /\ w.at \in Frames /\ w.pose \in AnyPose
  BY DEF Walks
<1>2. w.at \in DOMAIN buffers /\ w.at \notin w.visited
  BY LatestFacts DEF Stops
<1>3. Latest(w.at).parent \in Frames /\ Latest(w.at).pose \in AnyPose
  BY <1>2, LatestFacts DEF ParentOf
<1>4. Times(Latest(w.at).pose, w.pose) \in AnyPose
  BY <1>1, <1>3, TimesTypes
<1>5. Climbed(w) \in Walks /\ Climbed(w).visited = w.visited \cup {w.at}
  BY <1>1, <1>3, <1>4 DEF Climbed, Walks
<1> DEFINE A == Frames \ w.visited
           B == Frames \ Climbed(w).visited
<1>6. IsFiniteSet(A) /\ B \in SUBSET A /\ A # B
  <2>1. IsFiniteSet(A)
    BY TfAssumption, FS_Subset
  <2> QED
    BY <1>1, <1>2, <1>5, <2>1
<1> HIDE DEF A, B
<1>7. Cardinality(B) <= Cardinality(A) /\ Cardinality(B) # Cardinality(A)
  BY <1>6, FS_Subset
<1>8. Cardinality(A) \in Nat /\ Cardinality(B) \in Nat
  BY <1>6, FS_Subset, FS_CardinalityType
<1>9. Left(w) = Cardinality(A) /\ Left(Climbed(w)) = Cardinality(B)
  BY DEF Left, A, B
<1> QED
  BY <1>5, <1>7, <1>8, <1>9

LEMMA WalkExists ==
    ASSUME TfInv, NEW stopAt
    PROVE  \E u : Climbs(u, stopAt)
<1> DEFINE Value(u, w) == IF Stops(w, stopAt) THEN End(w, stopAt) ELSE u[Climbed(w)]
           Upto(n, u) == u = [w \in Walks |-> u[w]] /\ \A w \in Walks : Left(w) <= n => u[w] = Value(u, w)
           Bad == {n \in Nat : ~ \E u : Upto(n, u)}
<1>1. \E u : Upto(0, u)
  <2>1. ASSUME NEW w \in Walks, Left(w) <= 0 PROVE Stops(w, stopAt)
    <3> SUFFICES ASSUME ~Stops(w, stopAt) PROVE FALSE
      OBVIOUS
    <3>1. Climbed(w) \in Walks /\ Left(Climbed(w)) < Left(w)
      BY ClimbedFacts
    <3> QED
      BY <2>1, <3>1, LeftFacts
  <2>2. Upto(0, [w \in Walks |-> End(w, stopAt)])
    BY <2>1
  <2> QED
    BY <2>2
<1>2. ASSUME NEW n \in Nat, NEW u, Upto(n, u)
      PROVE  \E e : Upto(n + 1, e)
  <2> DEFINE e == [w \in Walks |-> IF Left(w) <= n THEN u[w] ELSE Value(u, w)]
  <2>1. ASSUME NEW w \in Walks, Left(w) <= n + 1
        PROVE  e[w] = Value(e, w)
    <3>1. e[w] = Value(u, w)
      BY <1>2
    <3>2. CASE Stops(w, stopAt)
      <4> HIDE DEF e
      <4> QED
        BY <3>1, <3>2
    <3>3. CASE ~Stops(w, stopAt)
      <4> DEFINE c == Climbed(w)
      <4>1. c \in Walks /\ Left(c) < Left(w)
        BY <3>3, ClimbedFacts
      <4> HIDE DEF c
      <4>2. Left(c) <= n
        BY <2>1, <4>1, LeftFacts
      <4>3. e[c] = u[c]
        BY <4>1, <4>2
      <4> HIDE DEF e
      <4> QED
        BY <3>1, <3>3, <4>3 DEF c
    <3> QED
      BY <3>2, <3>3
  <2>2. e = [w \in Walks |-> e[w]]
    OBVIOUS
  <2>3. Upto(n + 1, e)
    <3> HIDE DEF e
    <3> QED
      BY <2>1, <2>2
  <2> QED
    BY <2>3
<1>3. Bad = {}
  <2> SUFFICES ASSUME Bad # {} PROVE FALSE
    OBVIOUS
  <2> HIDE DEF Upto
  <2>1. Bad \in SUBSET Nat
    OBVIOUS
  <2> DEFINE k == Min(Bad)
  <2>2. k \in Bad /\ \A y \in Bad : k <= y
    <3> HIDE DEF Bad
    <3> QED
      BY <2>1, LeastOfSet
  <2> HIDE DEF k
  <2>3. k \in Nat /\ k # 0
    BY <1>1, <2>2
  <2>4. k - 1 \in Nat /\ ~(k <= k - 1) /\ (k - 1) + 1 = k
    BY <2>3
  <2>5. \E u : Upto(k - 1, u)
    BY <2>2, <2>4
  <2>6. \E e : Upto((k - 1) + 1, e)
    BY <1>2, <2>4, <2>5
  <2>7. ~ \E u : Upto(k, u)
    BY <2>2
  <2> QED
    BY <2>4, <2>6, <2>7
<1>4. CASE Walks = {}
  <2>1. Climbs([w \in Walks |-> w], stopAt)
    BY <1>4 DEF Climbs
  <2> QED
    BY <2>1
<1>5. CASE Walks # {}
  <2> DEFINE n == Cardinality(Frames)
  <2>1. n \in Nat /\ \A w \in Walks : Left(w) <= n
    BY <1>5, LeftFacts
  <2> HIDE DEF n
  <2>2. PICK u : Upto(n, u)
    BY <1>3, <2>1
  <2>3. u = [w \in Walks |-> u[w]] /\ \A w \in Walks : u[w] = Value(u, w)
    BY <2>1, <2>2
  <2>4. Climbs(u, stopAt)
    BY <2>3 DEF Climbs
  <2> QED
    BY <2>4
<1> QED
  BY <1>4, <1>5

Foot(f) == [visited |-> {}, at |-> f, pose |-> Identity]

\* What composeUp yields is the end of such a walk.
LEMMA ComposeUpWalks ==
    ASSUME TfInv, NEW stopAt
    PROVE  \E u : Climbs(u, stopAt) /\ \A f : ComposeUp(f, stopAt) = u[Foot(f)]
<1> DEFINE Body(u) == [w \in Walks |->
               IF w.at = stopAt THEN [top |-> w.at, pose |-> w.pose]
               ELSE IF w.at \in w.visited THEN NoPose
               ELSE IF Latest(w.at) = NoSample THEN [top |-> w.at, pose |-> w.pose]
               ELSE u[Climbed(w)]]
           up == CHOOSE u : u = Body(u)
<1>1. ASSUME NEW u PROVE Climbs(u, stopAt) <=> u = Body(u)
  <2>1. ASSUME NEW w \in Walks
        PROVE  Body(u)[w] = IF Stops(w, stopAt) THEN End(w, stopAt) ELSE u[Climbed(w)]
    BY <2>1 DEF Stops, End
  <2>2. Body(u) = [w \in Walks |-> IF Stops(w, stopAt) THEN End(w, stopAt) ELSE u[Climbed(w)]]
    BY <2>1
  <2> HIDE DEF Body
  <2> QED
    BY <2>2 DEF Climbs
<1>2. Climbs(up, stopAt)
  <2>1. \E u : u = Body(u)
    BY <1>1, WalkExists
  <2>2. up = Body(up)
    BY <2>1
  <2> HIDE DEF up, Body
  <2> QED
    BY <1>1, <2>2
<1>3. \A f : ComposeUp(f, stopAt) = up[Foot(f)]
  BY DEF ComposeUp, Foot
<1> QED
  BY <1>2, <1>3

\* The walk from at, past the frames V, with pose p.
Walk(V, at, p) == [visited |-> V, at |-> at, pose |-> p]

\* In a forest a walk ends where it ends from its foot, whatever came before.
LEMMA WalkGoesOn ==
    ASSUME TfInv, Forest, NEW stopAt, NEW u, Climbs(u, stopAt), NEW f \in Frames
    PROVE  /\ u[Foot(f)].top \in Frames /\ u[Foot(f)].pose \in AnyPose
           /\ \A V \in SUBSET Frames, p \in AnyPose :
                 V \cap Ancestors(f) = {} =>
                     u[Walk(V, f, p)] = [top |-> u[Foot(f)].top, pose |-> Times(u[Foot(f)].pose, p)]
<1> DEFINE Good(g) ==
               /\ u[Foot(g)].top \in Frames /\ u[Foot(g)].pose \in AnyPose
               /\ \A V \in SUBSET Frames, p \in AnyPose :
                     V \cap Ancestors(g) = {} =>
                         u[Walk(V, g, p)] = [top |-> u[Foot(g)].top,
                                             pose |-> Times(u[Foot(g)].pose, p)]
           Bad == {g \in Frames : ~Good(g)}
<1>1. ASSUME NEW w \in Walks
      PROVE  u[w] = IF Stops(w, stopAt) THEN End(w, stopAt) ELSE u[Climbed(w)]
  BY DEF Climbs
<1>2. ASSUME NEW g \in Frames, NEW V \in SUBSET Frames, NEW p \in AnyPose
      PROVE  /\ Walk(V, g, p) \in Walks
             /\ Walk(V, g, p).visited = V /\ Walk(V, g, p).at = g /\ Walk(V, g, p).pose = p
  BY DEF Walk, Walks
<1>3. Identity \in AnyPose /\ \A g : Foot(g) = Walk({}, g, Identity)
  BY DEF Identity, AnyPose, Foot, Walk
<1>4. ASSUME NEW g \in Frames, g = stopAt \/ g \notin DOMAIN buffers
      PROVE  Good(g)
  <2>1. ASSUME NEW V \in SUBSET Frames, NEW p \in AnyPose, g \notin V
        PROVE  u[Walk(V, g, p)] = [top |-> g, pose |-> p]
    <3>1. Stops(Walk(V, g, p), stopAt)
      BY <1>2, <1>4, LatestFacts DEF Stops
    <3>2. End(Walk(V, g, p), stopAt) = [top |-> g, pose |-> p]
      BY <1>2, <2>1 DEF End
    <3> QED
      BY <1>1, <1>2, <3>1, <3>2
  <2>2. u[Foot(g)] = [top |-> g, pose |-> Identity]
    BY <1>3, <2>1
  <2>3. \A p \in AnyPose : Times(Identity, p) = p
    BY TimesIdentity
  <2>4. g \in Ancestors(g)
    BY AncestorFacts
  <2> QED
    BY <1>3, <2>1, <2>2, <2>3, <2>4
<1>5. ASSUME NEW g \in Frames, g # stopAt, g \in DOMAIN buffers, Good(ParentOf(g))
      PROVE  Good(g)
  <2> DEFINE q == ParentOf(g)
             c == u[Foot(q)]
             l == Latest(g).pose
  <2>1. q \in Frames /\ l \in AnyPose /\ c.top \in Frames /\ c.pose \in AnyPose
    BY <1>5, LatestFacts
  <2>2. /\ Ancestors(q) \subseteq Ancestors(g) /\ g \in Ancestors(g) /\ g \notin Ancestors(q)
    BY <1>5, AncestorsOfParent DEF Forest
  <2> HIDE DEF q, c, l
  <2>3. ASSUME NEW V \in SUBSET Frames, NEW p \in AnyPose, V \cap Ancestors(g) = {}
        PROVE  u[Walk(V, g, p)] = [top |-> c.top, pose |-> Times(c.pose, Times(l, p))]
    <3>1. ~Stops(Walk(V, g, p), stopAt)
      BY <1>2, <1>5, <2>2, <2>3, LatestFacts DEF Stops
    <3>2. Climbed(Walk(V, g, p)) = Walk(V \cup {g}, q, Times(l, p))
      BY DEF Climbed, Walk, q, l, ParentOf
    <3>3. u[Walk(V, g, p)] = u[Walk(V \cup {g}, q, Times(l, p))]
      BY <1>1, <1>2, <3>1, <3>2
    <3>4. Times(l, p) \in AnyPose
      BY <2>1, TimesTypes
    <3>5. V \cup {g} \in SUBSET Frames /\ (V \cup {g}) \cap Ancestors(q) = {}
      BY <2>2, <2>3
    <3>6. u[Walk(V \cup {g}, q, Times(l, p))] = [top |-> c.top, pose |-> Times(c.pose, Times(l, p))]
      BY <1>5, <3>4, <3>5 DEF q, c
    <3> QED
      BY <3>3, <3>6
  <2>4. u[Foot(g)] = [top |-> c.top, pose |-> Times(c.pose, l)]
    <3>1. Times(l, Identity) = l
      BY <2>1, TimesIdentity
    <3> QED
      BY <1>3, <2>3, <3>1
  <2>5. Times(c.pose, l) \in AnyPose
    BY <2>1, TimesTypes
  <2>6. \A p \in AnyPose : Times(Times(c.pose, l), p) = Times(c.pose, Times(l, p))
    BY <2>1, TimesAssociative
  <2> QED
    BY <2>1, <2>3, <2>4, <2>5, <2>6
<1>6. Bad = {}
  <2> SUFFICES ASSUME Bad # {} PROVE FALSE
    OBVIOUS
  <2>1. Bad \in SUBSET Frames
    OBVIOUS
  <2> HIDE DEF Good
  <2>2. PICK g \in Bad : g \in DOMAIN buffers => ParentOf(g) \notin Bad
    <3> HIDE DEF Bad
    <3> QED
      BY <2>1, TopmostExists
  <2>3. g \in Frames /\ ~Good(g)
    BY <2>2
  <2>4. g # stopAt /\ g \in DOMAIN buffers
    BY <1>4, <2>3
  <2>5. ParentOf(g) \in Frames
    BY <2>4, LatestFacts
  <2>6. Good(ParentOf(g))
    BY <2>2, <2>4, <2>5
  <2> QED
    BY <1>5, <2>3, <2>4, <2>6
<1> QED
  BY <1>6

\* In a forest, a frame is where its parent is, moved by its own transform.
LEMMA ComposeUpFacts ==
    ASSUME TfInv, Forest, NEW stopAt, NEW f \in Frames
    PROVE  LET c == ComposeUp(f, stopAt)
               d == ComposeUp(ParentOf(f), stopAt)
           IN  /\ c.top \in Frames /\ c.pose \in AnyPose
               /\ c = [top |-> c.top, pose |-> c.pose]
               /\ IF f = stopAt \/ f \notin DOMAIN buffers
                  THEN c.top = f /\ c.pose = Identity
                  ELSE c.top = d.top /\ c.pose = Times(d.pose, Latest(f).pose)
<1>1. PICK u : Climbs(u, stopAt) /\ \A g : ComposeUp(g, stopAt) = u[Foot(g)]
  BY ComposeUpWalks
<1>2. ComposeUp(f, stopAt) = u[Foot(f)] /\ ComposeUp(ParentOf(f), stopAt) = u[Foot(ParentOf(f))]
  BY <1>1
<1>3. u[Foot(f)].top \in Frames /\ u[Foot(f)].pose \in AnyPose
  BY <1>1, WalkGoesOn
<1>4. Identity \in AnyPose /\ Foot(f) \in Walks
  BY DEF Identity, AnyPose, Foot, Walks
<1>5. u[Foot(f)] = IF Stops(Foot(f), stopAt) THEN End(Foot(f), stopAt) ELSE u[Climbed(Foot(f))]
  BY <1>1, <1>4 DEF Climbs
<1>6. CASE f = stopAt \/ f \notin DOMAIN buffers
  <2>1. Stops(Foot(f), stopAt) /\ End(Foot(f), stopAt) = [top |-> f, pose |-> Identity]
    BY <1>6, LatestFacts DEF Stops, End, Foot
  <2>2. ComposeUp(f, stopAt) = [top |-> f, pose |-> Identity]
    BY <1>2, <1>5, <2>1
  <2> QED
    BY <1>3, <1>2, <1>6, <2>2
<1>7. CASE f # stopAt /\ f \in DOMAIN buffers
  <2> DEFINE q == ParentOf(f)
             l == Latest(f).pose
  <2>1. ~Stops(Foot(f), stopAt)
    BY <1>7, LatestFacts DEF Stops, Foot
  <2>2. q \in Frames /\ l \in AnyPose
    BY <1>7, LatestFacts
  <2>3. Climbed(Foot(f)) = Walk({f}, q, l)
    <3>1. Times(l, Identity) = l
      BY <2>2, TimesIdentity
    <3> QED
      BY <3>1 DEF Climbed, Foot, Walk, ParentOf
  <2>4. {f} \in SUBSET Frames /\ {f} \cap Ancestors(q) = {}
    BY <1>7 DEF Forest
  <2> HIDE DEF q, l
  <2>5. u[Walk({f}, q, l)] = [top |-> u[Foot(q)].top, pose |-> Times(u[Foot(q)].pose, l)]
    BY <1>1, <2>2, <2>4, WalkGoesOn
  <2>6. ComposeUp(f, stopAt) = [top |-> u[Foot(q)].top, pose |-> Times(u[Foot(q)].pose, l)]
    BY <1>2, <1>5, <2>1, <2>3, <2>5
  <2> HIDE DEF Foot
  <2> QED
    BY <1>2, <1>3, <1>7, <2>6 DEF q, l
<1> QED
  BY <1>6, <1>7

\* It leads to the frame asked for, if that is an ancestor, and else to the root.
LEMMA TopFacts ==
    ASSUME TfInv, Forest, NEW stopAt, NEW f \in Frames
    PROVE  /\ ComposeUp(f, stopAt).top \in Ancestors(f)
           /\ stopAt \in Ancestors(f) => ComposeUp(f, stopAt).top = stopAt
           /\ stopAt \notin Ancestors(f) => ComposeUp(f, stopAt) = ComposeUp(f, NoFrameId)
<1> DEFINE Up(g) == ComposeUp(g, stopAt)
           Root(g) == ComposeUp(g, NoFrameId)
           Good(g) == /\ Up(g).top \in Ancestors(g)
                      /\ stopAt \in Ancestors(g) => Up(g).top = stopAt
                      /\ stopAt \notin Ancestors(g) => Up(g) = Root(g)
           Bad == {g \in Frames : ~Good(g)}
<1>1. ASSUME NEW g \in Bad, g \in DOMAIN buffers => ParentOf(g) \notin Bad
      PROVE  FALSE
  <2>1. g \in Frames /\ ~Good(g)
    BY <1>1
  <2>2. /\ Up(g) = [top |-> Up(g).top, pose |-> Up(g).pose]
        /\ Root(g) = [top |-> Root(g).top, pose |-> Root(g).pose]
    BY <2>1, ComposeUpFacts
  <2>3. g # NoFrameId
    BY <2>1, TfAssumption
  <2>4. g \in Ancestors(g)
    BY <2>1, AncestorFacts
  <2>5. CASE g = stopAt
    <3>1. Up(g).top = g
      BY <2>1, <2>5, ComposeUpFacts
    <3> QED
      BY <2>1, <2>4, <2>5, <3>1
  <2>6. CASE g # stopAt /\ g \notin DOMAIN buffers
    <3>1. /\ Up(g).top = g /\ Up(g).pose = Identity
          /\ Root(g).top = g /\ Root(g).pose = Identity
      BY <2>1, <2>6, ComposeUpFacts
    <3>2. Ancestors(g) \subseteq {g}
      <4>1. Closed({g})
        BY <2>6 DEF Closed
      <4> QED
        BY <2>1, <4>1, AncestorFacts
    <3> HIDE DEF Up, Root
    <3> QED
      BY <2>1, <2>2, <2>4, <2>6, <3>1, <3>2
  <2>7. CASE g # stopAt /\ g \in DOMAIN buffers
    <3> DEFINE q == ParentOf(g)
               l == Latest(g).pose
    <3>1. q \in Frames
      BY <2>7, LatestFacts
    <3>2. Good(q)
      BY <1>1, <2>7, <3>1
    <3>3. /\ Up(g).top = Up(q).top /\ Up(g).pose = Times(Up(q).pose, l)
          /\ Root(g).top = Root(q).top /\ Root(g).pose = Times(Root(q).pose, l)
      BY <2>1, <2>3, <2>7, ComposeUpFacts
    <3>4. Ancestors(g) = {g} \cup Ancestors(q)
      BY <2>1, <2>7, AncestorsOfParent
    <3> HIDE DEF Up, Root, q, l
    <3> QED
      BY <2>1, <2>2, <2>7, <3>2, <3>3, <3>4
  <2> QED
    BY <2>5, <2>6, <2>7
<1>2. Bad \in SUBSET Frames
  OBVIOUS
<1> HIDE DEF Bad
<1>3. Bad = {}
  BY <1>1, <1>2, TopmostExists
<1> QED
  BY <1>3 DEF Bad

\* All ancestors of a frame have its root.
LEMMA OneRoot ==
    ASSUME TfInv, Forest, NEW f \in Frames, NEW a \in Ancestors(f)
    PROVE  ComposeUp(a, NoFrameId).top = ComposeUp(f, NoFrameId).top
<1> DEFINE Root(g) == ComposeUp(g, NoFrameId).top
           S == {g \in Ancestors(f) : Root(g) = Root(f)}
<1>1. f \in Ancestors(f) /\ Ancestors(f) \subseteq Frames /\ Closed(Ancestors(f))
  BY AncestorFacts
<1>2. ASSUME NEW g \in S \cap DOMAIN buffers PROVE ParentOf(g) \in S
  <2>1. g \in Frames /\ g # NoFrameId
    BY <1>1, TfAssumption
  <2>2. Root(g) = Root(ParentOf(g))
    BY <1>2, <2>1, ComposeUpFacts
  <2>3. ParentOf(g) \in Ancestors(f)
    BY <1>1, <1>2 DEF Closed
  <2> QED
    BY <2>2, <2>3
<1>3. f \in S /\ S \in SUBSET Frames /\ Closed(S)
  BY <1>1, <1>2 DEF Closed
<1> HIDE DEF S
<1>4. Ancestors(f) \subseteq S
  BY <1>3, AncestorFacts
<1> QED
  BY <1>4 DEF S

\* Two frames are connected exactly if they have one root.
LEMMA Connected ==
    ASSUME TfInv, Forest, NEW f \in Frames, NEW g \in Frames
    PROVE  ComposeUp(f, NoFrameId).top = ComposeUp(g, NoFrameId).top
               <=> Ancestors(f) \cap Ancestors(g) # {}
BY OneRoot, TopFacts

\* How a frame is placed: through the fixed frame, or through the root of both.
LEMMA Resolved ==
    ASSUME TfInv, Forest, NEW f \in Frames
    PROVE  ResolveToFixed(f) =
             IF fixedFrame \in Ancestors(f) THEN ComposeUp(f, fixedFrame).pose
             ELSE IF Ancestors(f) \cap Ancestors(fixedFrame) = {} THEN Hidden
             ELSE Times(InverseOf(ComposeUp(fixedFrame, NoFrameId).pose),
                        ComposeUp(f, NoFrameId).pose)
<1> DEFINE frame == ComposeUp(f, fixedFrame)
           fixed == ComposeUp(fixedFrame, NoFrameId)
<1>1. fixedFrame \in Frames
  BY DEF TfInv
<1>2. frame.top \in Frames /\ frame.top \in Ancestors(f)
  BY ComposeUpFacts, TopFacts
<1>3. frame # NoPose
  BY <1>2, TfAssumption DEF NoPose
<1>4. ResolveToFixed(f) = IF frame.top = fixedFrame THEN frame.pose
                          ELSE IF fixed.top # frame.top THEN Hidden
                          ELSE Times(InverseOf(fixed.pose), frame.pose)
  BY <1>3 DEF ResolveToFixed
<1>5. CASE fixedFrame \in Ancestors(f)
  <2>1. frame.top = fixedFrame
    BY <1>5, TopFacts
  <2> QED
    BY <1>4, <1>5, <2>1
<1>6. CASE fixedFrame \notin Ancestors(f)
  <2>1. frame = ComposeUp(f, NoFrameId) /\ frame.top # fixedFrame
    BY <1>2, <1>6, TopFacts
  <2>2. fixed.top = frame.top <=> Ancestors(f) \cap Ancestors(fixedFrame) # {}
    BY <1>1, <2>1, Connected
  <2> HIDE DEF frame, fixed
  <2> QED
    BY <1>4, <1>6, <2>1, <2>2 DEF fixed
<1> QED
  BY <1>5, <1>6

LEMMA PosesAgreeInv ==
    ASSUME TfInv
    PROVE  PosesAgree
<1> SUFFICES ASSUME Forest
             PROVE  /\ ResolveToFixed(fixedFrame) = Identity
                    /\ \A f \in Frames :
                          /\ (ResolveToFixed(f) # Hidden) <=>
                                 (Ancestors(f) \cap Ancestors(fixedFrame) # {})
                          /\ f \in DOMAIN buffers /\ ResolveToFixed(f) # Hidden =>
                                 ResolveToFixed(f) = Times(ResolveToFixed(ParentOf(f)), Latest(f).pose)
  BY DEF PosesAgree
<1> DEFINE o == fixedFrame
           Up(f) == ComposeUp(f, fixedFrame).pose
           Root(f) == ComposeUp(f, NoFrameId).pose
<1>1. o \in Frames /\ o \in Ancestors(o) /\ o # NoFrameId
  BY AncestorFacts, TfAssumption DEF TfInv
<1>2. ASSUME NEW f \in Frames PROVE Up(f) \in AnyPose /\ Root(f) \in AnyPose
  BY ComposeUpFacts
<1>3. ResolveToFixed(o) = Identity
  <2>1. Up(o) = Identity
    BY <1>1, ComposeUpFacts
  <2> QED
    BY <1>1, <2>1, Resolved
<1>4. Hidden \notin AnyPose
  BY DEF Hidden, AnyPose
<1>5. ASSUME NEW f \in Frames
      PROVE  ResolveToFixed(f) # Hidden <=> Ancestors(f) \cap Ancestors(o) # {}
  <2>1. Times(InverseOf(Root(o)), Root(f)) \in AnyPose
    BY <1>1, <1>2, TimesTypes
  <2>2. ResolveToFixed(f) = IF o \in Ancestors(f) THEN Up(f)
                            ELSE IF Ancestors(f) \cap Ancestors(o) = {} THEN Hidden
                            ELSE Times(InverseOf(Root(o)), Root(f))
    BY Resolved
  <2>3. Up(f) # Hidden /\ Times(InverseOf(Root(o)), Root(f)) # Hidden
    BY <1>2, <1>4, <2>1
  <2> QED
    BY <1>1, <2>2, <2>3
<1>6. ASSUME NEW f \in Frames, f \in DOMAIN buffers, ResolveToFixed(f) # Hidden
      PROVE  ResolveToFixed(f) = Times(ResolveToFixed(ParentOf(f)), Latest(f).pose)
  <2> DEFINE q == ParentOf(f)
             l == Latest(f).pose
  <2>1. q \in Frames /\ l \in AnyPose /\ Ancestors(f) = {f} \cup Ancestors(q) /\ f \notin Ancestors(q)
    BY <1>6, LatestFacts, AncestorsOfParent DEF Forest
  <2>2. Up(q) \in AnyPose /\ Root(q) \in AnyPose /\ Root(o) \in AnyPose
    BY <1>1, <1>2, <2>1
  <2>3. Root(f) = Times(Root(q), l) /\ (f # o => Up(f) = Times(Up(q), l))
    <3>1. f # NoFrameId
      BY TfAssumption
    <3> QED
      BY <1>6, <3>1, ComposeUpFacts
  <2>4. Ancestors(f) \cap Ancestors(o) # {}
    BY <1>5, <1>6
  <2>5. InverseOf(Root(o)) \in AnyPose
    BY <2>2, TimesTypes
  <2>6. CASE o \in Ancestors(q)
    <3>1. f # o /\ ResolveToFixed(f) = Up(f) /\ ResolveToFixed(q) = Up(q)
      BY <2>1, <2>6, Resolved
    <3> QED
      BY <2>3, <3>1
  <2>7. CASE o \notin Ancestors(q)
    <3>1. Ancestors(q) \cap Ancestors(o) # {}
      <4>1. f \in Ancestors(o) => q \in Ancestors(o)
        BY <1>1, <1>6, AncestorFacts DEF Closed
      <4>2. q \in Ancestors(q)
        BY <2>1, AncestorFacts
      <4> QED
        BY <2>1, <2>4, <4>1, <4>2
    <3>2. ResolveToFixed(q) = Times(InverseOf(Root(o)), Root(q))
      BY <2>1, <2>7, <3>1, Resolved
    <3>3. Times(ResolveToFixed(q), l) = Times(InverseOf(Root(o)), Root(f))
      <4>1. Times(Times(InverseOf(Root(o)), Root(q)), l)
              = Times(InverseOf(Root(o)), Times(Root(q), l))
        BY <2>1, <2>2, <2>5, TimesAssociative
      <4> QED
        BY <2>3, <3>2, <4>1
    <3>4. CASE f = o
      <4>1. Times(InverseOf(Root(o)), Root(o)) = Identity
        BY <2>2, TimesIdentity
      <4> QED
        BY <1>3, <3>3, <3>4, <4>1
    <3>5. CASE f # o
      <4>1. o \notin Ancestors(f)
        BY <2>1, <2>7, <3>5
      <4>2. ResolveToFixed(f) = Times(InverseOf(Root(o)), Root(f))
        BY <2>4, <4>1, Resolved
      <4> QED
        BY <3>3, <4>2
    <3> QED
      BY <3>4, <3>5
  <2> QED
    BY <2>6, <2>7
<1> QED
  BY <1>3, <1>5, <1>6

(***************************************************************************)
(* For any finite set of frames, and any transforms between them in any    *)
(* order: while they form a forest, every frame that is connected with the *)
(* fixed frame has a pose, no other has, and each is that of its parent    *)
(* with its own transform, whether the fixed frame is above it, below it   *)
(* or in another branch (TFManager.ts 126-192).                            *)
(***************************************************************************)
THEOREM PosesAgreeHolds == TfSpec => []PosesAgree
BY PosesAgreeInv, TfInitInv, TfStepInv, PTL DEF TfSpec
=============================================================================
