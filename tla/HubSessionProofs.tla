-------------------------- MODULE HubSessionProofs --------------------------
(***************************************************************************)
(* Proofs about a window and its hub, for any number of sources, sockets,  *)
(* channels, panels and restarts: the window's directory converges to the  *)
(* hub's channel list, and every id that panels are bound to is one the    *)
(* hub has the window subscribed to.                                       *)
(*                                                                         *)
(* Both are about queues: the invariants say what becomes of the window's  *)
(* directory, and of the hub's subscriptions, once everything under way    *)
(* has been read.  The first part is about such readings; it uses that a   *)
(* set of naturals has a least element where one would use induction.      *)
(***************************************************************************)
EXTENDS HubSession, BrokerProofs, FunctionTheorems, SequenceTheorems

-----------------------------------------------------------------------------
(* Sets of ids in increasing order. *)

Increasing(s, n) == \A i, j \in 1..n : i < j => s[i] < s[j]

\* Every set of ids can be put in order.
LEMMA OrderExists ==
    ASSUME NEW m \in Nat
    PROVE  \A S \in SUBSET (1..m) :
              /\ IsFiniteSet(S)
              /\ \E s \in [1..Cardinality(S) -> S] : Increasing(s, Cardinality(S))
<1> DEFINE Orders(k) == \A S \in SUBSET (1..k) :
              /\ IsFiniteSet(S)
              /\ \E s \in [1..Cardinality(S) -> S] : Increasing(s, Cardinality(S))
           Bad == {k \in Nat : ~Orders(k)}
<1>1. Orders(0)
  <2> SUFFICES ASSUME NEW S \in SUBSET (1..0)
               PROVE  /\ IsFiniteSet(S)
                      /\ \E s \in [1..Cardinality(S) -> S] : Increasing(s, Cardinality(S))
    OBVIOUS
  <2>1. S = {}
    OBVIOUS
  <2>2. IsFiniteSet(S) /\ Cardinality(S) = 0
    BY <2>1, FS_EmptySet
  <2>3. 1..0 = {}
    OBVIOUS
  <2>4. [i \in 1..0 |-> i] \in [1..Cardinality(S) -> S]
    BY <2>2, <2>3
  <2>5. Increasing([i \in 1..0 |-> i], Cardinality(S))
    BY <2>2, <2>3 DEF Increasing
  <2> QED
    BY <2>2, <2>4, <2>5
<1>2. ASSUME NEW k \in Nat, Orders(k)
      PROVE  Orders(k + 1)
  <2> SUFFICES ASSUME NEW S \in SUBSET (1..(k + 1))
               PROVE  /\ IsFiniteSet(S)
                      /\ \E s \in [1..Cardinality(S) -> S] : Increasing(s, Cardinality(S))
    OBVIOUS
  <2>1. CASE k + 1 \notin S
    <3>1. S \in SUBSET (1..k)
      BY <2>1
    <3> QED
      BY <1>2, <3>1
  <2>2. CASE k + 1 \in S
    <3> DEFINE T == S \ {k + 1}
               c == Cardinality(T)
    <3>1. T \in SUBSET (1..k) /\ S = T \cup {k + 1} /\ k + 1 \notin T
      BY <2>2
    <3> HIDE DEF T
    <3>2. IsFiniteSet(T) /\ \E s \in [1..c -> T] : Increasing(s, c)
      BY <1>2, <3>1
    <3>3. c \in Nat /\ IsFiniteSet(S) /\ Cardinality(S) = c + 1
      BY <3>1, <3>2, FS_CardinalityType, FS_AddElement
    <3>4. PICK s \in [1..c -> T] : Increasing(s, c)
      BY <3>2
    <3> HIDE DEF c
    <3> DEFINE e == [i \in 1..(c + 1) |-> IF i = c + 1 THEN k + 1 ELSE s[i]]
    <3>5. \A i \in 1..(c + 1) : i = c + 1 \/ (i \in 1..c /\ s[i] \in T)
      BY <3>3, <3>4
    <3>6. e \in [1..(c + 1) -> S]
      BY <3>1, <3>5
    <3>7. Increasing(e, c + 1)
      <4> SUFFICES ASSUME NEW i \in 1..(c + 1), NEW j \in 1..(c + 1), i < j
                   PROVE  e[i] < e[j]
        BY DEF Increasing
      <4>0. i # c + 1
        BY <3>3
      <4>1. i \in 1..c /\ e[i] = s[i] /\ s[i] \in 1..k
        BY <3>1, <3>5, <4>0
      <4>2. CASE j = c + 1
        BY <4>1, <4>2
      <4>3. CASE j \in 1..c
        BY <3>3, <3>4, <4>1, <4>3 DEF Increasing
      <4> QED
        BY <3>5, <4>2, <4>3
    <3> QED
      BY <3>3, <3>6, <3>7
  <2> QED
    BY <2>1, <2>2
<1>3. Bad = {}
  <2> SUFFICES ASSUME Bad # {} PROVE FALSE
    OBVIOUS
  <2> HIDE DEF Orders
  <2>1. PICK k \in Bad : \A j \in Bad : k <= j
    BY LeastThereIs
  <2>2. k # 0
    BY <1>1
  <2>3. k - 1 \in Nat /\ Orders(k - 1)
    BY <2>1, <2>2
  <2>4. Orders((k - 1) + 1)
    BY <2>3, <1>2
  <2> QED
    BY <2>1, <2>3, <2>4
<1> QED
  BY <1>3

\* What InOrder lists: every id of the set, once.
LEMMA InOrderFacts ==
    ASSUME NEW S \in SUBSET GlobalIds
    PROVE  \E k \in Nat :
              /\ InOrder(S) \in [1..k -> S]
              /\ \A g \in S : \E i \in 1..k : InOrder(S)[i] = g
              /\ \A i, j \in 1..k : i # j => InOrder(S)[i] # InOrder(S)[j]
<1> DEFINE k == Cardinality(S)
           s == InOrder(S)
<1>1. IsFiniteSet(S) /\ \E e \in [1..k -> S] : Increasing(e, k)
  BY OrderExists, RegistryAssumption DEF GlobalIds
<1>2. k \in Nat
  BY <1>1, FS_CardinalityType
<1>3. s \in [1..k -> S] /\ Increasing(s, k)
  BY <1>1 DEF InOrder, Increasing
<1> HIDE DEF s, k
<1>4. \A i \in 1..k : s[i] \in Int
  <2>1. \A i \in 1..k : s[i] \in S
    BY <1>3
  <2>2. \A g \in S : g \in Int
    BY DEF GlobalIds
  <2> QED
    BY <2>1, <2>2
<1>5. ASSUME NEW i \in 1..k, NEW j \in 1..k, i # j PROVE s[i] # s[j]
  <2>1. i < j \/ j < i
    BY <1>2, <1>5
  <2>2. s[i] < s[j] \/ s[j] < s[i]
    BY <1>3, <2>1 DEF Increasing
  <2> QED
    BY <1>4, <2>2
<1>6. s \in Injection(1..k, S)
  BY <1>3, <1>5, Fun_IsInj
<1>7. Cardinality(1..k) = k
  <2>1. Cardinality(1..k) = IF 1 > k THEN 0 ELSE k - 1 + 1
    BY <1>2, FS_Interval
  <2> QED
    BY <1>2, <2>1
<1>8. s \in Surjection(1..k, S)
  BY <1>1, <1>6, <1>7, FS_Injection DEF k
<1>9. \A g \in S : \E i \in 1..k : s[i] = g
  BY <1>8 DEF Surjection
<1> QED
  BY <1>2, <1>3, <1>5, <1>9 DEF s

-----------------------------------------------------------------------------
(* Messages, and what reading them one by one leads to. *)

PublicNames == {PublicName(e) : e \in Entries}

HubMsgs ==
    [op : {"server_info"}, channels : SUBSET [id : GlobalIds, name : PublicNames]]
        \cup [op : {"advertise"}, id : GlobalIds, name : PublicNames]
        \cup [op : {"unadvertise"}, name : PublicNames]

\* What one end of the socket makes of one message: the window of its directory,
\* the hub of the subscriptions it holds for the window.
Turned(end, x, m) == IF end = "app" THEN Applied(x, m) ELSE Granted(x, m)

\* f[k] is what has become of d after the first k messages of w.
Reads(end, f, d, w) ==
    f = [k \in 0..Len(w) |-> IF k = 0 THEN d ELSE Turned(end, f[k - 1], w[k])]

\* There is such a function, for any messages.
LEMMA ReadsExists ==
    ASSUME NEW end, NEW d, NEW M, NEW w \in Seq(M)
    PROVE  \E f : Reads(end, f, d, w)
<1> DEFINE Upto(n, f) == f = [k \in 0..n |-> IF k = 0 THEN d ELSE Turned(end, f[k - 1], w[k])]
           Bad == {n \in Nat : ~ \E f : Upto(n, f)}
<1>1. \E f : Upto(0, f)
  <2>1. Upto(0, [k \in 0..0 |-> d])
    OBVIOUS
  <2> QED
    BY <2>1
<1>2. ASSUME NEW n \in Nat, NEW f, Upto(n, f)
      PROVE  \E e : Upto(n + 1, e)
  <2> DEFINE e == [k \in 0..(n + 1) |-> IF k = n + 1 THEN Turned(end, f[n], w[n + 1]) ELSE f[k]]
  <2>1. \A k \in 0..n : e[k] = f[k]
    OBVIOUS
  <2>2. e[n + 1] = Turned(end, e[n], w[n + 1])
    BY <2>1
  <2>3. \A k \in 0..n : f[k] = IF k = 0 THEN d ELSE Turned(end, f[k - 1], w[k])
    BY <1>2
  <2>4. ASSUME NEW k \in 0..(n + 1)
        PROVE  e[k] = IF k = 0 THEN d ELSE Turned(end, e[k - 1], w[k])
    <3>1. CASE k = n + 1
      BY <3>1, <2>2
    <3>2. CASE k \in 0..n
      <4>1. k # 0 => k - 1 \in 0..n
        BY <3>2
      <4> HIDE DEF e
      <4> QED
        BY <3>2, <4>1, <2>1, <2>3
    <3> QED
      BY <3>1, <3>2
  <2>5. e = [k \in 0..(n + 1) |-> e[k]]
    OBVIOUS
  <2>6. Upto(n + 1, e)
    <3> HIDE DEF e
    <3> QED
      BY <2>4, <2>5
  <2> QED
    BY <2>6
<1>3. Bad = {}
  <2> SUFFICES ASSUME Bad # {} PROVE FALSE
    OBVIOUS
  <2> HIDE DEF Upto
  <2>1. PICK k \in Bad : \A j \in Bad : k <= j
    BY LeastThereIs
  <2>2. k # 0
    BY <1>1
  <2>3. k - 1 \in Nat /\ \E f : Upto(k - 1, f)
    BY <2>1, <2>2
  <2>4. \E e : Upto((k - 1) + 1, e)
    BY <2>3, <1>2
  <2> QED
    BY <2>1, <2>3, <2>4
<1>4. Len(w) \in Nat
  OBVIOUS
<1> QED
  BY <1>3, <1>4 DEF Reads

\* The directory of the model is such a function.
LEMMA DirAfterReads ==
    ASSUME wire[sock] \in Seq(HubMsgs)
    PROVE  Reads("app", DirAfter, dir, wire[sock])
<1>1. \E f : Reads("app", f, dir, wire[sock])
  BY ReadsExists
<1> QED
  BY <1>1 DEF DirAfter, Reads, Turned

\* g is where f was `back` messages before, up to the k-th.
Agree(g, f, k, back) == \A i \in 0..k : g[i + back] = f[i]

\* What a window makes of the messages before the last ones.
LEMMA ReadsBefore ==
    ASSUME NEW end, NEW d, NEW M, NEW w \in Seq(M), NEW v \in Seq(M), NEW f,
           Reads(end, f, d, w \o v)
    PROVE  \E g : Reads(end, g, d, w) /\ Agree(g, f, Len(w), 0)
<1> DEFINE g == [k \in 0..Len(w) |-> f[k]]
<1>1. /\ w \o v \in Seq(M) /\ Len(w \o v) = Len(w) + Len(v)
      /\ Len(w) \in Nat /\ Len(v) \in Nat
      /\ \A k \in 1..Len(w) : (w \o v)[k] = w[k]
  OBVIOUS
<1>2. \A k \in 0..(Len(w) + Len(v)) :
          f[k] = IF k = 0 THEN d ELSE Turned(end, f[k - 1], (w \o v)[k])
  BY <1>1 DEF Reads
<1>3. ASSUME NEW k \in 0..Len(w)
      PROVE  g[k] = IF k = 0 THEN d ELSE Turned(end, g[k - 1], w[k])
  <2>1. k \in 0..(Len(w) + Len(v))
    BY <1>1
  <2>2. f[k] = IF k = 0 THEN d ELSE Turned(end, f[k - 1], (w \o v)[k])
    BY <1>2, <2>1
  <2>3. k # 0 => k \in 1..Len(w) /\ k - 1 \in 0..Len(w)
    BY <1>1
  <2>4. k # 0 => (w \o v)[k] = w[k] /\ g[k - 1] = f[k - 1]
    BY <1>1, <2>3
  <2>5. g[k] = f[k]
    OBVIOUS
  <2> QED
    BY <2>2, <2>4, <2>5
<1>4. Reads(end, g, d, w)
  <2>1. g = [k \in 0..Len(w) |-> g[k]]
    OBVIOUS
  <2> HIDE DEF g
  <2> QED
    BY <1>3, <2>1 DEF Reads
<1>5. Agree(g, f, Len(w), 0)
  <2>1. \A i \in 0..Len(w) : i + 0 = i
    BY <1>1
  <2> QED
    BY <2>1 DEF Agree
<1> QED
  BY <1>4, <1>5

\* From f[k] on, f is what reading v makes of the directory.
Follows(end, f, k, v) == \A i \in 1..Len(v) : f[k + i] = Turned(end, f[k + i - 1], v[i])

\* What the window makes of the later ones.
LEMMA ReadsAfter ==
    ASSUME NEW end, NEW d, NEW M, NEW w \in Seq(M), NEW v \in Seq(M), NEW f,
           Reads(end, f, d, w \o v)
    PROVE  Follows(end, f, Len(w), v)
<1>1. /\ w \o v \in Seq(M) /\ Len(w \o v) = Len(w) + Len(v)
      /\ Len(w) \in Nat /\ Len(v) \in Nat
      /\ \A i \in 1..Len(v) : (w \o v)[Len(w) + i] = v[i]
  OBVIOUS
<1>2. \A k \in 0..(Len(w) + Len(v)) :
          f[k] = IF k = 0 THEN d ELSE Turned(end, f[k - 1], (w \o v)[k])
  BY <1>1 DEF Reads
<1>3. \A i \in 1..Len(v) : f[Len(w) + i] = Turned(end, f[Len(w) + i - 1], v[i])
  <2> SUFFICES ASSUME NEW i \in 1..Len(v)
               PROVE  f[Len(w) + i] = Turned(end, f[Len(w) + i - 1], v[i])
    OBVIOUS
  <2>1. Len(w) + i \in 0..(Len(w) + Len(v)) /\ Len(w) + i # 0
    BY <1>1
  <2>2. f[Len(w) + i] = Turned(end, f[Len(w) + i - 1], (w \o v)[Len(w) + i])
    BY <1>2, <2>1
  <2> QED
    BY <1>1, <2>2
<1> QED
  BY <1>3 DEF Follows

\* Reading a message changes nothing about where all of them lead.
LEMMA ReadsFirst ==
    ASSUME NEW end, NEW d, NEW M, NEW w \in Seq(M), w # <<>>, NEW f,
           Reads(end, f, Turned(end, d, Head(w)), Tail(w))
    PROVE  \E g : Reads(end, g, d, w) /\ Agree(g, f, Len(Tail(w)), 1)
<1> DEFINE g == [k \in 0..Len(w) |-> IF k = 0 THEN d ELSE f[k - 1]]
<1>1. /\ Len(Tail(w)) = Len(w) - 1 /\ Len(w) \in Nat /\ Len(w) >= 1
      /\ Head(w) = w[1]
      /\ \A k \in 1..(Len(w) - 1) : Tail(w)[k] = w[k + 1]
  OBVIOUS
<1>2. \A k \in 0..(Len(w) - 1) :
          f[k] = IF k = 0 THEN Turned(end, d, w[1]) ELSE Turned(end, f[k - 1], Tail(w)[k])
  BY <1>1 DEF Reads
<1>3. ASSUME NEW k \in 0..Len(w)
      PROVE  g[k] = IF k = 0 THEN d ELSE Turned(end, g[k - 1], w[k])
  <2>1. CASE k = 0
    BY <2>1
  <2>2. CASE k = 1
    <3>1. 0 \in 0..(Len(w) - 1) /\ 0 \in 0..Len(w) /\ 1 \in 0..Len(w)
      BY <1>1
    <3>2. f[0] = Turned(end, d, w[1]) /\ g[0] = d /\ g[1] = f[0]
      BY <1>2, <3>1
    <3> QED
      BY <2>2, <3>2
  <2>3. CASE k > 1
    <3>1. /\ k - 1 \in 0..(Len(w) - 1) /\ k - 1 # 0
          /\ k - 1 \in 1..(Len(w) - 1) /\ k - 1 \in 0..Len(w)
          /\ (k - 1) + 1 = k /\ k # 0
      BY <1>1, <2>3
    <3>2. f[k - 1] = Turned(end, f[(k - 1) - 1], Tail(w)[k - 1])
      BY <1>2, <3>1
    <3>3. Tail(w)[k - 1] = w[k]
      BY <1>1, <3>1
    <3>4. g[k] = f[k - 1] /\ g[k - 1] = f[(k - 1) - 1]
      BY <3>1
    <3> QED
      BY <3>1, <3>2, <3>3, <3>4
  <2> QED
    BY <1>1, <2>1, <2>2, <2>3
<1>4. Reads(end, g, d, w)
  <2>1. g = [k \in 0..Len(w) |-> g[k]]
    OBVIOUS
  <2> HIDE DEF g
  <2> QED
    BY <1>3, <2>1 DEF Reads
<1>5. Agree(g, f, Len(Tail(w)), 1)
  <2> SUFFICES ASSUME NEW i \in 0..Len(Tail(w)) PROVE g[i + 1] = f[i]
    BY DEF Agree
  <2>1. i + 1 \in 0..Len(w) /\ i + 1 # 0 /\ (i + 1) - 1 = i
    BY <1>1
  <2> QED
    BY <2>1
<1> QED
  BY <1>4, <1>5

-----------------------------------------------------------------------------
(* A directory that shows the hub's list, and what the messages of one     *)
(* broadcast make of it.                                                   *)

Leads(d, name, g) == name \in DOMAIN d.nameToId /\ d.nameToId[name] = g

Shows(d, hub) ==
    /\ d.channels = [g \in DOMAIN hub |-> PublicName(hub[g])]
    /\ \A g \in DOMAIN hub : Leads(d, PublicName(hub[g]), g)

NamesDiffer(hub) ==
    \A g, h \in DOMAIN hub : PublicName(hub[g]) = PublicName(hub[h]) => g = h

\* addChannel
LEMMA AdvertiseAppliedFacts ==
    ASSUME NEW d, NEW g, NEW name
    PROVE  LET e == AdvertiseApplied(d, g, name)
           IN  /\ e.channels = [x \in DOMAIN d.channels \cup {g} |->
                                   IF x = g THEN name ELSE d.channels[x]]
               /\ Leads(e, name, g)
               /\ \A other, x : other # name /\ Leads(d, other, x) => Leads(e, other, x)
BY DEF AdvertiseApplied, MapSet, Leads

\* f[i] is the directory once it has been told of the first i of n ids.
ToldOf(f, n, ids, hub) ==
    \A i \in 1..n : f[i] = AdvertiseApplied(f[i - 1], ids[i], PublicName(hub[ids[i]]))

\* The ids cover what is new or has another name.
Covers(n, ids, old, new) ==
    /\ \A i \in 1..n : ids[i] \in DOMAIN new
    /\ DOMAIN new = DOMAIN old \cup {ids[i] : i \in 1..n}
    /\ \A g \in DOMAIN old : (\A i \in 1..n : ids[i] # g) => new[g] = old[g]

\* The advertise messages of a broadcast: those already read have the new
\* names, the rest of the hub's list is as it was.
LEMMA AfterAdvertises ==
    ASSUME NEW old, NEW new, NEW n \in Nat, NEW ids, NEW f,
           Covers(n, ids, old, new), ToldOf(f, n, ids, new),
           Shows(f[0], old), NamesDiffer(new)
    PROVE  Shows(f[n], new)
<1> DEFINE Read(i) == {ids[j] : j \in 1..i}
           Now(i, g) == IF g \in Read(i) THEN PublicName(new[g]) ELSE PublicName(old[g])
           Spoken(i, g) == g \in Read(i) \/ (g \in DOMAIN old /\ \A j \in 1..n : ids[j] # g)
           Good(i) ==
              /\ f[i].channels = [g \in DOMAIN old \cup Read(i) |-> Now(i, g)]
              /\ \A g : Spoken(i, g) => Leads(f[i], PublicName(new[g]), g)
           Bad == {i \in Nat : i <= n /\ ~Good(i)}
<1>1. Good(0)
  <2>1. Read(0) = {}
    OBVIOUS
  <2>2. [g \in DOMAIN old \cup Read(0) |-> Now(0, g)] = [g \in DOMAIN old |-> PublicName(old[g])]
    BY <2>1
  <2>3. ASSUME NEW g, Spoken(0, g) PROVE Leads(f[0], PublicName(new[g]), g)
    <3>1. g \in DOMAIN old /\ new[g] = old[g]
      BY <2>1, <2>3 DEF Covers
    <3> QED
      BY <3>1 DEF Shows
  <2>4. f[0].channels = [g \in DOMAIN old |-> PublicName(old[g])]
    BY DEF Shows
  <2> QED
    BY <2>2, <2>3, <2>4
<1>2. ASSUME NEW i \in Nat, i < n, Good(i)
      PROVE  Good(i + 1)
  <2> DEFINE id == ids[i + 1]
             name == PublicName(new[id])
  <2>1. i + 1 \in 1..n /\ (i + 1) - 1 = i
    BY <1>2
  <2>2. f[i + 1] = AdvertiseApplied(f[i], id, name) /\ id \in DOMAIN new
    BY <2>1 DEF ToldOf, Covers
  <2>3. Read(i + 1) = Read(i) \cup {id}
    <3>1. 1..(i + 1) = 1..i \cup {i + 1}
      OBVIOUS
    <3> QED
      BY <3>1
  <2>4. DOMAIN f[i].channels = DOMAIN old \cup Read(i)
    BY <1>2
  <2> DEFINE e == AdvertiseApplied(f[i], id, name)
  <2>5. /\ e.channels = [x \in DOMAIN f[i].channels \cup {id} |->
                             IF x = id THEN name ELSE f[i].channels[x]]
        /\ Leads(e, name, id)
        /\ \A other, x : other # name /\ Leads(f[i], other, x) => Leads(e, other, x)
    BY AdvertiseAppliedFacts
  <2>6. f[i + 1] = e
    BY <2>2
  <2> HIDE DEF e, Read
  <2>7. f[i + 1].channels = [g \in DOMAIN old \cup Read(i + 1) |-> Now(i + 1, g)]
    <3>1. DOMAIN f[i].channels \cup {id} = DOMAIN old \cup Read(i + 1)
      BY <2>3, <2>4
    <3>2. ASSUME NEW x \in DOMAIN old \cup Read(i + 1)
          PROVE  (IF x = id THEN name ELSE f[i].channels[x]) = Now(i + 1, x)
      <4>1. CASE x = id
        BY <4>1, <2>3
      <4>2. CASE x # id
        <5>1. x \in DOMAIN old \cup Read(i) /\ (x \in Read(i + 1) <=> x \in Read(i))
          BY <4>2, <2>3
        <5>2. f[i].channels[x] = Now(i, x)
          BY <1>2, <5>1
        <5> QED
          BY <4>2, <5>1, <5>2
      <4> QED
        BY <4>1, <4>2
    <3> QED
      BY <2>5, <2>6, <3>1, <3>2
  <2>8. ASSUME NEW g, Spoken(i + 1, g)
        PROVE  Leads(f[i + 1], PublicName(new[g]), g)
    <3>1. CASE g = id
      BY <3>1, <2>5, <2>6
    <3>2. CASE g # id
      <4>1. Spoken(i, g)
        BY <3>2, <2>3, <2>8
      <4>2. Leads(f[i], PublicName(new[g]), g)
        BY <1>2, <4>1
      <4>3. g \in DOMAIN new
        <5>1. CASE g \in DOMAIN old
          BY <5>1 DEF Covers
        <5>2. CASE g \in Read(i)
          BY <5>2, <1>2 DEF Read, Covers
        <5> QED
          BY <4>1, <5>1, <5>2
      <4>4. PublicName(new[g]) # name
        BY <3>2, <4>3, <2>2 DEF NamesDiffer
      <4> QED
        BY <2>5, <2>6, <4>2, <4>4
    <3> QED
      BY <3>1, <3>2
  <2> QED
    BY <2>7, <2>8
<1>3. Bad = {}
  <2> SUFFICES ASSUME Bad # {} PROVE FALSE
    OBVIOUS
  <2> HIDE DEF Good
  <2>1. PICK k \in Bad : \A j \in Bad : k <= j
    BY LeastThereIs
  <2>2. k # 0
    BY <1>1
  <2>3. k - 1 \in Nat /\ k - 1 < n /\ Good(k - 1)
    BY <2>1, <2>2
  <2>4. Good((k - 1) + 1)
    BY <2>3, <1>2
  <2> QED
    BY <2>1, <2>3, <2>4
<1>4. Good(n)
  <2> HIDE DEF Good
  <2> QED
    BY <1>3
<1>5. \A g \in DOMAIN new : Spoken(n, g)
  BY DEF Covers
<1>6. f[n].channels = [g \in DOMAIN new |-> PublicName(new[g])]
  <2>1. f[n].channels = [g \in DOMAIN old \cup Read(n) |-> Now(n, g)]
    BY <1>4
  <2>2. DOMAIN old \cup Read(n) = DOMAIN new
    BY DEF Covers
  <2>3. \A g \in DOMAIN new : Now(n, g) = PublicName(new[g])
    BY DEF Covers
  <2> HIDE DEF Now, Read
  <2> QED
    BY <2>1, <2>2, <2>3
<1> QED
  BY <1>4, <1>5, <1>6 DEF Shows

\* applyUnadvertise, of a name that the directory leads to the right channel.
LEMMA UnadvertiseAppliedFacts ==
    ASSUME NEW d, NEW hub, NEW g \in DOMAIN hub, Shows(d, hub), NamesDiffer(hub)
    PROVE  Shows(UnadvertiseApplied(d, PublicName(hub[g])),
                 [h \in DOMAIN hub \ {g} |-> hub[h]])
<1> DEFINE name == PublicName(hub[g])
           e == [channels |-> MapDelete(d.channels, {g}),
                 nameToId |-> MapDelete(d.nameToId, {name})]
           left == [h \in DOMAIN hub \ {g} |-> hub[h]]
<1>1. UnadvertiseApplied(d, name) = e
  BY DEF UnadvertiseApplied, Shows, Leads
<1>2. /\ e.channels = [x \in DOMAIN d.channels \ {g} |-> d.channels[x]]
      /\ e.nameToId = [x \in DOMAIN d.nameToId \ {name} |-> d.nameToId[x]]
  BY DEF MapDelete
<1>3. /\ d.channels = [h \in DOMAIN hub |-> PublicName(hub[h])]
      /\ \A h \in DOMAIN hub : Leads(d, PublicName(hub[h]), h)
  BY DEF Shows
<1> HIDE DEF e
<1>4. e.channels = [h \in DOMAIN left |-> PublicName(left[h])]
  BY <1>2, <1>3
<1>5. ASSUME NEW h \in DOMAIN left
      PROVE  Leads(e, PublicName(left[h]), h)
  <2>1. h \in DOMAIN hub /\ h # g /\ left[h] = hub[h]
    OBVIOUS
  <2>2. PublicName(hub[h]) # name
    BY <2>1 DEF NamesDiffer
  <2>3. Leads(d, PublicName(hub[h]), h)
    BY <1>3, <2>1
  <2> QED
    BY <1>2, <2>1, <2>2, <2>3 DEF Leads
<1> QED
  BY <1>1, <1>4, <1>5 DEF Shows

\* f[i] is the directory once the first i of n ids have been withdrawn.
RidOf(f, n, ids, hub) ==
    \A i \in 1..n : f[i] = UnadvertiseApplied(f[i - 1], PublicName(hub[ids[i]]))

\* The ids are live, each is named once, and they are what goes.
Withdraws(n, ids, old, new) ==
    /\ \A i \in 1..n : ids[i] \in DOMAIN old
    /\ \A i, j \in 1..n : i # j => ids[i] # ids[j]
    /\ new = [g \in DOMAIN old \ {ids[i] : i \in 1..n} |-> old[g]]

\* The unadvertise messages of a broadcast.
LEMMA AfterUnadvertises ==
    ASSUME NEW old, NEW new, NEW n \in Nat, NEW ids, NEW f,
           Withdraws(n, ids, old, new), RidOf(f, n, ids, old),
           Shows(f[0], old), NamesDiffer(old)
    PROVE  Shows(f[n], new)
<1> DEFINE Left(i) == [g \in DOMAIN old \ {ids[j] : j \in 1..i} |-> old[g]]
           Good(i) == Shows(f[i], Left(i))
           Bad == {i \in Nat : i <= n /\ ~Good(i)}
<1>1. Good(0)
  <2>1. Left(0) = [g \in DOMAIN old |-> old[g]]
    OBVIOUS
  <2>2. ASSUME NEW d, Shows(d, old) PROVE Shows(d, [g \in DOMAIN old |-> old[g]])
    BY <2>2 DEF Shows
  <2> QED
    BY <2>1, <2>2
<1>2. ASSUME NEW i \in Nat, i < n, Good(i)
      PROVE  Good(i + 1)
  <2> DEFINE id == ids[i + 1]
  <2>1. i + 1 \in 1..n /\ (i + 1) - 1 = i
    BY <1>2
  <2>2. {ids[j] : j \in 1..(i + 1)} = {ids[j] : j \in 1..i} \cup {id}
    <3>1. 1..(i + 1) = 1..i \cup {i + 1}
      OBVIOUS
    <3> QED
      BY <3>1
  <2>3. id \in DOMAIN old /\ id \notin {ids[j] : j \in 1..i}
    <3>1. \A j \in 1..i : j \in 1..n /\ j # i + 1
      BY <1>2
    <3> QED
      BY <2>1, <3>1 DEF Withdraws
  <2>4. id \in DOMAIN Left(i) /\ Left(i)[id] = old[id]
    BY <2>3
  <2>5. NamesDiffer(Left(i))
    BY DEF NamesDiffer
  <2>6. Left(i + 1) = [g \in DOMAIN Left(i) \ {id} |-> Left(i)[g]]
    <3>1. DOMAIN Left(i) \ {id} = DOMAIN old \ {ids[j] : j \in 1..(i + 1)}
      BY <2>2
    <3>2. \A g \in DOMAIN Left(i) \ {id} : Left(i)[g] = old[g]
      OBVIOUS
    <3> QED
      BY <3>1, <3>2
  <2>7. f[i + 1] = UnadvertiseApplied(f[i], PublicName(Left(i)[id]))
    BY <2>1, <2>4 DEF RidOf
  <2> HIDE DEF Left
  <2>8. Shows(UnadvertiseApplied(f[i], PublicName(Left(i)[id])),
              [g \in DOMAIN Left(i) \ {id} |-> Left(i)[g]])
    BY <1>2, <2>4, <2>5, UnadvertiseAppliedFacts
  <2> QED
    BY <2>6, <2>7, <2>8
<1>3. Bad = {}
  <2> SUFFICES ASSUME Bad # {} PROVE FALSE
    OBVIOUS
  <2> HIDE DEF Good
  <2>1. PICK k \in Bad : \A j \in Bad : k <= j
    BY LeastThereIs
  <2>2. k # 0
    BY <1>1
  <2>3. k - 1 \in Nat /\ k - 1 < n /\ Good(k - 1)
    BY <2>1, <2>2
  <2>4. Good((k - 1) + 1)
    BY <2>3, <1>2
  <2> QED
    BY <2>1, <2>3, <2>4
<1>4. Good(n)
  <2> HIDE DEF Good
  <2> QED
    BY <1>3
<1>5. new = Left(n)
  BY DEF Withdraws
<1> QED
  BY <1>4, <1>5

\* applyServerInfo: the list is shown whatever the directory was before.
LEMMA AfterServerInfo ==
    ASSUME NEW hub, DOMAIN hub \subseteq Int, NamesDiffer(hub)
    PROVE  Shows(ServerInfoApplied({[id |-> g, name |-> PublicName(hub[g])] : g \in DOMAIN hub}),
                 hub)
<1> DEFINE list == {[id |-> g, name |-> PublicName(hub[g])] : g \in DOMAIN hub}
           e == ServerInfoApplied(list)
           entry(g) == [id |-> g, name |-> PublicName(hub[g])]
<1>0. /\ \A g \in DOMAIN hub : entry(g) \in list
      /\ \A c \in list : \E g \in DOMAIN hub : c = entry(g)
      /\ \A g : entry(g).id = g /\ entry(g).name = PublicName(hub[g])
  OBVIOUS
<1>1. {c.id : c \in list} = DOMAIN hub
  <2> HIDE DEF list, entry
  <2> QED
    BY <1>0
<1>2. ASSUME NEW g \in DOMAIN hub
      PROVE  (CHOOSE c \in list : c.id = g).name = PublicName(hub[g])
  <2> HIDE DEF list, entry
  <2>1. \E c \in list : c.id = g
    BY <1>0
  <2>2. \A c \in list : c.id = g => c.name = PublicName(hub[g])
    BY <1>0
  <2> QED
    BY <2>1, <2>2
<1>3. e.channels = [g \in DOMAIN hub |-> PublicName(hub[g])]
  <2>1. e.channels = [g \in {c.id : c \in list} |-> (CHOOSE c \in list : c.id = g).name]
    BY DEF ServerInfoApplied
  <2> HIDE DEF list, e
  <2> QED
    BY <1>1, <1>2, <2>1
<1>4. e.nameToId = [n \in ListedNames(list) |-> LastId(list, n)]
  BY DEF ServerInfoApplied
<1>5. ASSUME NEW g \in DOMAIN hub
      PROVE  Leads(e, PublicName(hub[g]), g)
  <2> DEFINE name == PublicName(hub[g])
  <2>1. name \in ListedNames(list)
    <3> HIDE DEF list, entry
    <3> QED
      BY <1>0 DEF ListedNames
  <2>2. {d \in list : d.name = name} = {[id |-> g, name |-> name]}
    BY DEF NamesDiffer
  <2>3. {c.id : c \in {d \in list : d.name = name}} = {g}
    <3>1. {c.id : c \in {[id |-> g, name |-> name]}} = {g}
      OBVIOUS
    <3> HIDE DEF list
    <3> QED
      BY <2>2, <3>1
  <2>4. Max({g}) = g
    BY g \in Int DEF Max
  <2>5. LastId(list, name) = g
    <3> HIDE DEF list, name
    <3> QED
      BY <2>3, <2>4 DEF LastId
  <2> HIDE DEF list, e, name
  <2>6. name \in DOMAIN e.nameToId /\ e.nameToId[name] = g
    BY <1>4, <2>1, <2>5
  <2> QED
    BY <2>6 DEF Leads, name
<1> HIDE DEF e
<1> QED
  BY <1>3, <1>5 DEF Shows, e

-----------------------------------------------------------------------------
(* The inductive invariant of the session, as far as the directory goes.   *)

\* No data is published, so no latched frame is ever replayed.
SessionTypes ==
    /\ conn \in [Sources \cup Clients -> {"new", "open", "closing", "gone"}]
    /\ wire \in [Clients -> Seq(HubMsgs)]
    /\ sock \in Clients \cup {NoConn}
    /\ DOMAIN latchedCache = {}
    /\ localIdCounters \in [Sources -> Nat]
    /\ \A s \in Sources : localIdCounters[s] < nextGlobalId

OwnNames ==
    \A g, h \in DOMAIN byGlobalId :
        /\ byGlobalId[g].owner = byGlobalId[h].owner
        /\ byGlobalId[g].bareName = byGlobalId[h].bareName
        => g = h

\* However the window reads what is under way, it ends up with the hub's list.
Announced ==
    Linked => \A f : Reads("app", f, dir, wire[sock])
                         => Shows(f[Len(wire[sock])], byGlobalId)

SessionInv == RegInv /\ SessionTypes /\ OwnNames /\ Announced

\* The setting: what each of the three promises is needed for is in the README.
Setting == SourceIdsDistinct /\ OwnNamesDistinct /\ HttpSources = {}

LEMMA NamesOfTheHub ==
    ASSUME SourceIdsDistinct, RegInv, SharedNameSharesSource, OwnNames
    PROVE  NamesDiffer(byGlobalId)
<1> SUFFICES ASSUME NEW g \in DOMAIN byGlobalId, NEW h \in DOMAIN byGlobalId,
                    PublicName(byGlobalId[g]) = PublicName(byGlobalId[h])
             PROVE  g = h
  BY DEF NamesDiffer
<1>1. byGlobalId[g].owner \in Owners /\ byGlobalId[h].owner \in Owners
  BY DEF RegInv, RegTypeOK, Entries
<1>2. SourceId[byGlobalId[g].owner] = SourceId[byGlobalId[h].owner]
  BY DEF SharedNameSharesSource
<1>3. byGlobalId[g].owner = byGlobalId[h].owner
  BY <1>1, <1>2 DEF SourceIdsDistinct
<1>4. byGlobalId[g].bareName = byGlobalId[h].bareName
  BY DEF PublicName
<1> QED
  BY <1>3, <1>4 DEF OwnNames

\* The same of the state that a step leads to.
LEMMA NamesOfTheNextHub ==
    ASSUME SourceIdsDistinct, RegInv', OwnNames'
    PROVE  NamesDiffer(byGlobalId')
<1>0. SharedNameSharesSource'
  <2>1. (RegInv => SharedNameSharesSource)'
    BY SharedNames, PTL
  <2> QED
    BY <2>1
<1> SUFFICES ASSUME NEW g \in DOMAIN byGlobalId', NEW h \in DOMAIN byGlobalId',
                    PublicName(byGlobalId'[g]) = PublicName(byGlobalId'[h])
             PROVE  g = h
  BY DEF NamesDiffer
<1>1. byGlobalId'[g].owner \in Owners /\ byGlobalId'[h].owner \in Owners
  BY DEF RegInv, RegTypeOK, Entries
<1>2. SourceId[byGlobalId'[g].owner] = SourceId[byGlobalId'[h].owner]
  BY <1>0 DEF SharedNameSharesSource
<1>3. byGlobalId'[g].owner = byGlobalId'[h].owner
  BY <1>1, <1>2 DEF SourceIdsDistinct
<1>4. byGlobalId'[g].bareName = byGlobalId'[h].bareName
  BY DEF PublicName
<1> QED
  BY <1>3, <1>4 DEF OwnNames

LEMMA SessionInitInv == SessionInit => SessionInv
<1> SUFFICES ASSUME SessionInit PROVE SessionInv
  OBVIOUS
<1>1. RegInv /\ DOMAIN byGlobalId = {} /\ nextGlobalId = 1
  BY RegInitInv DEF SessionInit, Init, RegInit
<1>2. SessionTypes
  BY <1>1 DEF SessionInit, Init, SessionTypes, EmptyMap
<1>3. OwnNames
  BY <1>1 DEF OwnNames
<1>4. Announced
  BY DEF SessionInit, Announced, Linked
<1> QED
  BY <1>1, <1>2, <1>3, <1>4 DEF SessionInv

-----------------------------------------------------------------------------
(* Steps *)

\* Reading msgs, a directory that shows the old list comes to show the new one.
Brings(msgs, old, new) ==
    \A f : Follows("app", f, 0, msgs) => (Shows(f[0], old) => Shows(f[Len(msgs)], new))

\* What is announced is live under that name; what is withdrawn may be anything.
Honest(msgs) ==
    \A i \in 1..Len(msgs) :
        \/ /\ msgs[i].op = "advertise"
           /\ msgs[i].id \in DOMAIN byGlobalId'
           /\ msgs[i].name = PublicName(byGlobalId'[msgs[i].id])
        \/ msgs[i].op = "unadvertise"

\* An id stays with one source and one bare name; a new channel has a new id.
Evolves ==
    /\ nextGlobalId' >= nextGlobalId
    /\ \A g \in DOMAIN byGlobalId' :
          \/ /\ g \in DOMAIN byGlobalId
             /\ byGlobalId'[g].owner = byGlobalId[g].owner
             /\ byGlobalId'[g].bareName = byGlobalId[g].bareName
          \/ g = nextGlobalId

Broadcasts == Evolves /\ \E msgs \in Seq(HubMsgs) : Broadcast(msgs) /\ Honest(msgs)

\* A window that has nothing to learn of the socket had nothing before.
StillWelcomed == Linked' /\ Welcomed' => Linked /\ Welcomed

\* A broadcast: the window will read msgs after all that is under way.
LEMMA BroadcastAnnounces ==
    ASSUME SessionInv, NEW msgs \in Seq(HubMsgs), Broadcast(msgs),
           UNCHANGED <<dir, sock>>,
           \A c \in Clients : conn'[c] = conn[c],
           Brings(msgs, byGlobalId, byGlobalId')
    PROVE  Announced' /\ wire' \in [Clients -> Seq(HubMsgs)] /\ StillWelcomed
<1>0. wire \in [Clients -> Seq(HubMsgs)] /\ sock \in Clients \cup {NoConn}
  BY DEF SessionInv, SessionTypes
<1>1. wire' \in [Clients -> Seq(HubMsgs)]
  <2>1. \A c \in Clients : wire[c] \in Seq(HubMsgs) /\ wire[c] \o msgs \in Seq(HubMsgs)
    BY <1>0
  <2> QED
    BY <2>1 DEF Broadcast
<1>11. ASSUME Linked', Welcomed' PROVE Linked /\ Welcomed
  <2>1. Linked /\ sock \in Clients /\ sock' = sock /\ wire'[sock] = wire[sock] \o msgs
    BY <1>0, <1>11 DEF Linked, Broadcast
  <2>2. wire[sock] \in Seq(HubMsgs)
    BY <1>0, <2>1
  <2>3. ASSUME NEW i \in 1..Len(wire[sock]) PROVE wire[sock][i].op # "server_info"
    <3>1. i \in 1..Len(wire[sock] \o msgs) /\ (wire[sock] \o msgs)[i] = wire[sock][i]
      BY <2>2
    <3> QED
      BY <1>11, <2>1, <3>1 DEF Welcomed
  <2> QED
    BY <2>1, <2>3 DEF Welcomed
<1>2. SUFFICES ASSUME Linked', NEW f, Reads("app", f, dir', wire'[sock'])
               PROVE  Shows(f[Len(wire'[sock'])], byGlobalId')
  BY <1>1, <1>11 DEF Announced, StillWelcomed
<1>3. /\ Linked /\ sock \in Clients /\ sock' = sock /\ dir' = dir
      /\ wire'[sock] = wire[sock] \o msgs
  BY <1>0, <1>2 DEF Linked, Broadcast
<1> DEFINE w == wire[sock]
           e == [i \in 0..Len(msgs) |-> f[Len(w) + i]]
<1>4. w \in Seq(HubMsgs) /\ Len(w) \in Nat /\ Len(msgs) \in Nat
  BY <1>0, <1>3
<1>5. /\ \E g : Reads("app", g, dir, w) /\ g[Len(w)] = f[Len(w)]
      /\ Follows("app", f, Len(w), msgs)
      /\ Len(w \o msgs) = Len(w) + Len(msgs)
  <2>1. Reads("app", f, dir, w \o msgs)
    BY <1>2, <1>3
  <2> HIDE DEF w
  <2>2. msgs \in Seq(HubMsgs)
    OBVIOUS
  <2>3. \E g : Reads("app", g, dir, w) /\ g[Len(w)] = f[Len(w)]
    <3>1. PICK g : Reads("app", g, dir, w) /\ Agree(g, f, Len(w), 0)
      BY <1>4, <2>1, <2>2, ReadsBefore
    <3>2. Len(w) \in 0..Len(w) /\ Len(w) + 0 = Len(w)
      BY <1>4
    <3> QED
      BY <3>1, <3>2 DEF Agree
  <2>4. Follows("app", f, Len(w), msgs)
    BY <1>4, <2>1, <2>2, ReadsAfter
  <2>5. Len(w \o msgs) = Len(w) + Len(msgs)
    BY <1>4
  <2> QED
    BY <2>3, <2>4, <2>5
<1>6. Shows(f[Len(w)], byGlobalId)
  BY <1>3, <1>5 DEF SessionInv, Announced
<1> HIDE DEF w
<1>7. Shows(e[0], byGlobalId)
  BY <1>4, <1>6
<1>8. Follows("app", e, 0, msgs)
  <2> SUFFICES ASSUME NEW i \in 1..Len(msgs)
               PROVE  e[0 + i] = Turned("app", e[0 + i - 1], msgs[i])
    BY DEF Follows
  <2>1. /\ i \in 0..Len(msgs) /\ i - 1 \in 0..Len(msgs)
        /\ Len(w) + (i - 1) = Len(w) + i - 1 /\ 0 + i = i
    BY <1>4
  <2> QED
    BY <1>5, <2>1 DEF Follows
<1> HIDE DEF e
<1>9. Shows(e[Len(msgs)], byGlobalId')
  BY <1>7, <1>8 DEF Brings
<1>10. e[Len(msgs)] = f[Len(w) + Len(msgs)]
  BY <1>4 DEF e
<1> QED
  BY <1>3, <1>5, <1>9, <1>10 DEF w

\* What an advertise does to the entries.
LEMMA AdvertisedEntries ==
    ASSUME SessionInv, SourceIdsDistinct, NEW s \in Sources, NEW n \in Names,
           ~Owns(s, n), AdvertiseWithoutId(s, n, FALSE)
    PROVE  /\ RegInv' /\ OwnNames'
           /\ nextGlobalId \in GlobalIds /\ nextGlobalId' = nextGlobalId + 1
           /\ DOMAIN byGlobalId' = DOMAIN byGlobalId \cup {nextGlobalId}
           /\ Renamed(s, n) \subseteq DOMAIN byGlobalId
           /\ \A g \in DOMAIN byGlobalId : g \notin Renamed(s, n) => byGlobalId'[g] = byGlobalId[g]
           /\ Evolves
<1> DEFINE l == localIdCounters[s] + 1
<1>0. /\ RegAdvertise(s, l, n, FALSE)
      /\ RegInv /\ OwnNames /\ localIdCounters[s] \in Nat /\ localIdCounters[s] < nextGlobalId
  BY DEF AdvertiseWithoutId, SessionInv, SessionTypes
<1>1. nextGlobalId <= MaxChannels /\ nextGlobalId \in 1..(MaxChannels + 1) /\ MaxChannels \in Nat
  BY <1>0, RegistryAssumption DEF RegAdvertise, RegInv, RegTypeOK
<1>2. l \in LocalIds /\ s \in Owners
  <2>1. l \in 1..MaxChannels
    BY <1>0, <1>1
  <2> QED
    BY <2>1, BrokerAssumption
<1> HIDE DEF l
<1>3. RegInv'
  BY <1>0, <1>2, AdvertiseInv
<1>4. nextGlobalId \in GlobalIds /\ nextGlobalId' = nextGlobalId + 1
  BY <1>0, <1>1 DEF RegAdvertise, GlobalIds
<1>5. Renamed(s, n) \subseteq DOMAIN byGlobalId
  BY DEF Renamed, Collisions
<1>6. /\ DOMAIN byGlobalId' = DOMAIN byGlobalId \cup {nextGlobalId}
      /\ byGlobalId'[nextGlobalId] = NewEntry(s, l, n, FALSE)
      /\ nextGlobalId \notin DOMAIN byGlobalId
      /\ \A g \in DOMAIN byGlobalId : g \notin Renamed(s, n) => byGlobalId'[g] = byGlobalId[g]
      /\ \A g \in DOMAIN byGlobalId : g \in Renamed(s, n)
             => byGlobalId'[g] = [byGlobalId[g] EXCEPT !.prefixed = TRUE]
  <2>1. byGlobalId' =
          [g \in DOMAIN byGlobalId \cup {nextGlobalId} |->
              IF g = nextGlobalId THEN NewEntry(s, l, n, FALSE)
              ELSE IF g \in Renamed(s, n)
                   THEN [byGlobalId[g] EXCEPT !.prefixed = TRUE]
                   ELSE byGlobalId[g]]
    BY <1>0 DEF RegAdvertise
  <2>2. nextGlobalId \notin DOMAIN byGlobalId
    BY <1>0, <1>1 DEF RegInv, RegTypeOK, GlobalIds
  <2> QED
    BY <2>1, <2>2
<1>7. \A g \in DOMAIN byGlobalId :
          /\ byGlobalId'[g].owner = byGlobalId[g].owner
          /\ byGlobalId'[g].bareName = byGlobalId[g].bareName
  <2>1. \A g \in DOMAIN byGlobalId : byGlobalId[g] \in Entries
    BY <1>0 DEF RegInv, RegTypeOK
  <2> QED
    BY <1>6, <2>1 DEF Entries
<1>8. OwnNames'
  <2> SUFFICES ASSUME NEW g \in DOMAIN byGlobalId', NEW h \in DOMAIN byGlobalId',
                      byGlobalId'[g].owner = byGlobalId'[h].owner,
                      byGlobalId'[g].bareName = byGlobalId'[h].bareName
               PROVE  g = h
    BY DEF OwnNames
  <2>1. /\ byGlobalId'[nextGlobalId].owner = s
        /\ byGlobalId'[nextGlobalId].bareName = n
    BY <1>6 DEF NewEntry
  <2>2. \A x \in DOMAIN byGlobalId : ~(byGlobalId[x].owner = s /\ byGlobalId[x].bareName = n)
    BY DEF Owns
  <2>3. CASE g \in DOMAIN byGlobalId /\ h \in DOMAIN byGlobalId
    BY <1>0, <1>7, <2>3 DEF OwnNames
  <2>4. CASE g \notin DOMAIN byGlobalId \/ h \notin DOMAIN byGlobalId
    BY <1>6, <1>7, <2>1, <2>2, <2>4
  <2> QED
    BY <2>3, <2>4
<1>9. Evolves
  BY <1>1, <1>4, <1>6, <1>7 DEF Evolves
<1> QED
  BY <1>3, <1>4, <1>5, <1>6, <1>8, <1>9

LEMMA AdvertiseSession ==
    ASSUME SessionInv, SourceIdsDistinct, NEW s \in Sources, NEW n \in Names,
           ~Owns(s, n), AdvertiseWithoutId(s, n, FALSE), UNCHANGED <<dir, sock>>
    PROVE  SessionInv' /\ StillWelcomed /\ Broadcasts
<1>1. /\ RegInv' /\ OwnNames'
      /\ nextGlobalId \in GlobalIds /\ nextGlobalId' = nextGlobalId + 1
      /\ DOMAIN byGlobalId' = DOMAIN byGlobalId \cup {nextGlobalId}
      /\ Renamed(s, n) \subseteq DOMAIN byGlobalId
      /\ \A g \in DOMAIN byGlobalId : g \notin Renamed(s, n) => byGlobalId'[g] = byGlobalId[g]
      /\ Evolves
  BY AdvertisedEntries
<1>2. NamesDiffer(byGlobalId')
  BY <1>1, NamesOfTheNextHub
<1>3. /\ DOMAIN byGlobalId \subseteq GlobalIds
      /\ byGlobalId' \in [DOMAIN byGlobalId' -> Entries]
      /\ DOMAIN byGlobalId' \subseteq GlobalIds
  BY <1>1 DEF SessionInv, RegInv, RegTypeOK
<1>4. PICK k \in Nat :
        /\ InOrder(Renamed(s, n)) \in [1..k -> Renamed(s, n)]
        /\ \A g \in Renamed(s, n) : \E i \in 1..k : InOrder(Renamed(s, n))[i] = g
  <2>1. Renamed(s, n) \in SUBSET GlobalIds
    BY <1>1, <1>3
  <2> QED
    BY <2>1, InOrderFacts
<1> DEFINE first == InOrder(Renamed(s, n))
           ids == first \o <<nextGlobalId>>
           msgs == AdvertiseMsgs(Renamed(s, n))
<1>5. /\ first \in Seq(GlobalIds) /\ Len(first) = k
      /\ <<nextGlobalId>> \in Seq(GlobalIds)
  <2>1. first \in [1..k -> GlobalIds]
    BY <1>1, <1>3, <1>4
  <2> HIDE DEF first
  <2> QED
    BY <1>1, <2>1
<1>6. /\ ids \in Seq(GlobalIds) /\ Len(ids) = k + 1
      /\ \A i \in 1..k : ids[i] = first[i]
      /\ ids[k + 1] = nextGlobalId
  <2> HIDE DEF first
  <2> QED
    BY <1>5
<1>7. msgs = [i \in 1..(k + 1) |-> AdvertiseMsg(ids[i], byGlobalId'[ids[i]])]
  BY <1>6 DEF AdvertiseMsgs
<1>8. /\ \A i \in 1..(k + 1) : ids[i] \in DOMAIN byGlobalId'
      /\ \A g \in Renamed(s, n) \cup {nextGlobalId} : \E i \in 1..(k + 1) : ids[i] = g
      /\ \A i \in 1..(k + 1) : ids[i] \in Renamed(s, n) \cup {nextGlobalId}
  <2>1. \A i \in 1..(k + 1) : i \in 1..k \/ i = k + 1
    OBVIOUS
  <2>2. \A i \in 1..k : i \in 1..(k + 1) /\ first[i] \in Renamed(s, n)
    BY <1>4
  <2>3. k + 1 \in 1..(k + 1)
    OBVIOUS
  <2> HIDE DEF first, ids
  <2>4. \A i \in 1..(k + 1) : ids[i] \in Renamed(s, n) \cup {nextGlobalId}
    BY <1>6, <2>1, <2>2
  <2>5. \A g \in Renamed(s, n) \cup {nextGlobalId} : \E i \in 1..(k + 1) : ids[i] = g
    BY <1>4, <1>6, <2>2, <2>3 DEF first
  <2> QED
    BY <1>1, <2>4, <2>5
<1> HIDE DEF ids, first, msgs
<1>9. msgs \in Seq(HubMsgs) /\ Len(msgs) = k + 1
  <2>1. \A i \in 1..(k + 1) : AdvertiseMsg(ids[i], byGlobalId'[ids[i]]) \in HubMsgs
    <3> SUFFICES ASSUME NEW g \in DOMAIN byGlobalId'
                 PROVE  AdvertiseMsg(g, byGlobalId'[g]) \in HubMsgs
      BY <1>8
    <3>1. g \in GlobalIds /\ PublicName(byGlobalId'[g]) \in PublicNames
      BY <1>3 DEF PublicNames
    <3> QED
      BY <3>1 DEF AdvertiseMsg, HubMsgs
  <2>2. msgs \in [1..(k + 1) -> HubMsgs]
    BY <1>7, <2>1
  <2> QED
    BY <2>2
<1>10. Brings(msgs, byGlobalId, byGlobalId')
  <2> SUFFICES ASSUME NEW f, Follows("app", f, 0, msgs), Shows(f[0], byGlobalId)
               PROVE  Shows(f[k + 1], byGlobalId')
    BY <1>9 DEF Brings
  <2>1. ASSUME NEW i \in 1..(k + 1)
        PROVE  f[i] = AdvertiseApplied(f[i - 1], ids[i], PublicName(byGlobalId'[ids[i]]))
    <3>1. /\ msgs[i].op = "advertise" /\ msgs[i].id = ids[i]
          /\ msgs[i].name = PublicName(byGlobalId'[ids[i]])
      BY <1>7 DEF AdvertiseMsg
    <3>2. Applied(f[i - 1], msgs[i]) = AdvertiseApplied(f[i - 1], msgs[i].id, msgs[i].name)
      BY <3>1 DEF Applied
    <3>3. f[0 + i] = Applied(f[0 + i - 1], msgs[i]) /\ 0 + i = i
      BY <1>9 DEF Follows, Turned
    <3> QED
      BY <3>1, <3>2, <3>3
  <2>2. DOMAIN byGlobalId' = DOMAIN byGlobalId \cup {ids[i] : i \in 1..(k + 1)}
    BY <1>1, <1>8
  <2>3. \A g \in DOMAIN byGlobalId :
            (\A i \in 1..(k + 1) : ids[i] # g) => byGlobalId'[g] = byGlobalId[g]
    BY <1>1, <1>8
  <2>4. k + 1 \in Nat
    OBVIOUS
  <2>5. ToldOf(f, k + 1, ids, byGlobalId')
    BY <2>1 DEF ToldOf
  <2>6. Covers(k + 1, ids, byGlobalId, byGlobalId')
    BY <1>8, <2>2, <2>3 DEF Covers
  <2> QED
    BY <1>2, <2>4, <2>5, <2>6, AfterAdvertises
<1>11. /\ Broadcast(msgs) /\ conn' = conn /\ latchedCache' = latchedCache
       /\ localIdCounters' = [localIdCounters EXCEPT ![s] = @ + 1]
  BY DEF AdvertiseWithoutId, msgs
<1>12. Announced' /\ wire' \in [Clients -> Seq(HubMsgs)] /\ StillWelcomed
  BY <1>9, <1>10, <1>11, BroadcastAnnounces
<1>13. SessionTypes'
  <2>1. /\ localIdCounters \in [Sources -> Nat] /\ nextGlobalId \in Nat
        /\ \A t \in Sources : localIdCounters[t] < nextGlobalId
    BY <1>1 DEF SessionInv, SessionTypes, GlobalIds
  <2>2. /\ localIdCounters' \in [Sources -> Nat]
        /\ \A t \in Sources : localIdCounters'[t] < nextGlobalId'
    BY <1>1, <1>11, <2>1
  <2> QED
    BY <1>11, <1>12, <2>2 DEF SessionInv, SessionTypes
<1>14. Honest(msgs)
  <2> SUFFICES ASSUME NEW i \in 1..(k + 1)
               PROVE  /\ msgs[i].op = "advertise"
                      /\ msgs[i].id \in DOMAIN byGlobalId'
                      /\ msgs[i].name = PublicName(byGlobalId'[msgs[i].id])
    BY <1>9 DEF Honest
  <2>1. msgs[i] = AdvertiseMsg(ids[i], byGlobalId'[ids[i]]) /\ ids[i] \in DOMAIN byGlobalId'
    BY <1>7, <1>8
  <2> QED
    BY <2>1 DEF AdvertiseMsg
<1> QED
  BY <1>1, <1>9, <1>11, <1>12, <1>13, <1>14 DEF SessionInv, Broadcasts

\* Taking away channels that the messages name one by one.
LEMMA RemovalBrings ==
    ASSUME SessionInv, SourceIdsDistinct, NEW n \in Nat, NEW ids, NEW msgs,
           msgs = [i \in 1..n |-> UnadvertiseMsg(byGlobalId[ids[i]])],
           Withdraws(n, ids, byGlobalId, byGlobalId')
    PROVE  /\ msgs \in Seq(HubMsgs)
           /\ Brings(msgs, byGlobalId, byGlobalId')
           /\ OwnNames'
           /\ Honest(msgs)
<1>0. /\ RegInv /\ OwnNames /\ byGlobalId \in [DOMAIN byGlobalId -> Entries]
      /\ \A i \in 1..n : ids[i] \in DOMAIN byGlobalId
  BY DEF SessionInv, RegInv, RegTypeOK, Withdraws
<1>1. msgs \in Seq(HubMsgs) /\ Len(msgs) = n
  <2>1. \A i \in 1..n : UnadvertiseMsg(byGlobalId[ids[i]]) \in HubMsgs
    <3> SUFFICES ASSUME NEW g \in DOMAIN byGlobalId
                 PROVE  UnadvertiseMsg(byGlobalId[g]) \in HubMsgs
      BY <1>0
    <3>1. PublicName(byGlobalId[g]) \in PublicNames
      BY <1>0 DEF PublicNames
    <3> QED
      BY <3>1 DEF UnadvertiseMsg, HubMsgs
  <2>2. msgs \in [1..n -> HubMsgs]
    BY <2>1
  <2> QED
    BY <2>2
<1>2. NamesDiffer(byGlobalId)
  BY <1>0, SharedNames, NamesOfTheHub
<1>3. Brings(msgs, byGlobalId, byGlobalId')
  <2> SUFFICES ASSUME NEW f, Follows("app", f, 0, msgs), Shows(f[0], byGlobalId)
               PROVE  Shows(f[n], byGlobalId')
    BY <1>1 DEF Brings
  <2>1. ASSUME NEW i \in 1..n
        PROVE  f[i] = UnadvertiseApplied(f[i - 1], PublicName(byGlobalId[ids[i]]))
    <3>1. /\ msgs[i].op = "unadvertise"
          /\ msgs[i].name = PublicName(byGlobalId[ids[i]])
      BY DEF UnadvertiseMsg
    <3>2. Applied(f[i - 1], msgs[i]) = UnadvertiseApplied(f[i - 1], msgs[i].name)
      BY <3>1 DEF Applied
    <3>3. f[0 + i] = Applied(f[0 + i - 1], msgs[i]) /\ 0 + i = i
      BY <1>1 DEF Follows, Turned
    <3> QED
      BY <3>1, <3>2, <3>3
  <2>2. RidOf(f, n, ids, byGlobalId)
    BY <2>1 DEF RidOf
  <2> QED
    BY <1>2, <2>2, AfterUnadvertises
<1>4. OwnNames'
  BY <1>0 DEF OwnNames, Withdraws
<1>5. Honest(msgs)
  BY <1>1 DEF Honest, UnadvertiseMsg
<1> QED
  BY <1>1, <1>3, <1>4, <1>5

LEMMA SourceGoneSession ==
    ASSUME SessionInv, SourceIdsDistinct, NEW s \in Sources, SourceGone(s),
           UNCHANGED <<dir, sock>>
    PROVE  SessionInv' /\ StillWelcomed /\ Broadcasts
<1>0. /\ RegInv /\ SessionTypes /\ s \in Owners /\ s \notin Clients
      /\ byOwner[s] \subseteq Slots
  BY BrokerAssumption DEF SessionInv, RegInv, RegTypeOK
<1>1. RegInv'
  BY <1>0, RemoveBySourceInv DEF SourceGone
<1> DEFINE rows == byOwner[s]
           places == {r.opened : r \in rows}
           opened == InOrder(places)
           row(k) == CHOOSE r \in rows : r.opened = k
           msgs == GoodbyeMsgs(s)
<1>2. PICK n \in Nat :
        /\ opened \in [1..n -> places]
        /\ \A p \in places : \E i \in 1..n : opened[i] = p
        /\ \A i, j \in 1..n : i # j => opened[i] # opened[j]
  <2>1. places \in SUBSET GlobalIds
    BY <1>0 DEF Slots
  <2> HIDE DEF places
  <2> QED
    BY <2>1, InOrderFacts
<1>3. /\ \A r \in rows : r.id \in DOMAIN byGlobalId /\ byGlobalId[r.id].localId = r.localId
      /\ \A r, q \in rows : r.localId = q.localId \/ r.opened = q.opened => r = q
  BY <1>0 DEF RegInv, IndexSound
<1>4. \A r \in rows : row(r.opened) = r
  <2> SUFFICES ASSUME NEW r \in rows PROVE row(r.opened) = r
    OBVIOUS
  <2>1. \E q \in rows : q.opened = r.opened
    OBVIOUS
  <2>2. row(r.opened) \in rows /\ row(r.opened).opened = r.opened
    BY <2>1
  <2> HIDE DEF row
  <2> QED
    BY <1>3, <2>2
<1> DEFINE ids == [i \in 1..n |-> row(opened[i]).id]
<1>5. \A i \in 1..n : \E r \in rows : r.opened = opened[i] /\ ids[i] = r.id
  <2> SUFFICES ASSUME NEW i \in 1..n
               PROVE  \E r \in rows : r.opened = opened[i] /\ ids[i] = r.id
    OBVIOUS
  <2>0. opened[i] \in places
    <3> HIDE DEF opened, places
    <3> QED
      BY <1>2
  <2>1. PICK r \in rows : r.opened = opened[i]
    BY <2>0
  <2>2. row(opened[i]) = r
    BY <1>4, <2>1
  <2> HIDE DEF row, opened
  <2> QED
    BY <2>1, <2>2
<1>6. \A r \in rows : \E i \in 1..n : ids[i] = r.id
  <2> SUFFICES ASSUME NEW r \in rows PROVE \E i \in 1..n : ids[i] = r.id
    OBVIOUS
  <2>1. PICK i \in 1..n : opened[i] = r.opened
    BY <1>2
  <2>2. row(opened[i]) = r
    BY <1>4, <2>1
  <2> HIDE DEF row, opened
  <2> QED
    BY <2>2
<1>7. msgs = [i \in 1..n |-> UnadvertiseMsg(byGlobalId[ids[i]])]
  <2>1. Len(opened) = n
    <3> HIDE DEF opened
    <3> QED
      BY <1>2
  <2>2. msgs = [i \in 1..Len(opened) |-> UnadvertiseMsg(byGlobalId[row(opened[i]).id])]
    BY DEF GoodbyeMsgs
  <2> HIDE DEF opened, row, msgs
  <2> QED
    BY <2>1, <2>2
<1> HIDE DEF ids, opened, row, msgs
<1>8. Withdraws(n, ids, byGlobalId, byGlobalId')
  <2>1. \A i \in 1..n : ids[i] \in DOMAIN byGlobalId
    BY <1>3, <1>5
  <2>2. \A i, j \in 1..n : i # j => ids[i] # ids[j]
    <3> SUFFICES ASSUME NEW i \in 1..n, NEW j \in 1..n, ids[i] = ids[j] PROVE i = j
      OBVIOUS
    <3>1. PICK r \in rows : r.opened = opened[i] /\ ids[i] = r.id
      BY <1>5
    <3>2. PICK q \in rows : q.opened = opened[j] /\ ids[j] = q.id
      BY <1>5
    <3>3. r = q
      <4>1. r.id = q.id
        BY <3>1, <3>2
      <4>2. r.localId = q.localId
        BY <1>3, <4>1
      <4> QED
        BY <1>3, <4>2
    <3> QED
      BY <1>2, <3>1, <3>2, <3>3
  <2>3. OwnedIds(s) = {ids[i] : i \in 1..n}
    BY <1>5, <1>6 DEF OwnedIds
  <2>4. byGlobalId' = [g \in DOMAIN byGlobalId \ OwnedIds(s) |-> byGlobalId[g]]
    BY DEF SourceGone, RegRemoveBySource, Without
  <2> QED
    BY <2>1, <2>2, <2>3, <2>4 DEF Withdraws
<1>9. /\ msgs \in Seq(HubMsgs) /\ Brings(msgs, byGlobalId, byGlobalId') /\ OwnNames'
      /\ Honest(msgs)
  BY <1>7, <1>8, RemovalBrings
<1>10. /\ Broadcast(msgs) /\ conn' = [conn EXCEPT ![s] = "gone"]
       /\ latchedCache' = MapDelete(latchedCache, Removed)
       /\ localIdCounters' = [localIdCounters EXCEPT ![s] = 0]
       /\ nextGlobalId' = nextGlobalId
  BY DEF SourceGone, RegRemoveBySource, msgs
<1>11. \A c \in Clients : conn'[c] = conn[c]
  BY <1>0, <1>10
<1>12. Announced' /\ wire' \in [Clients -> Seq(HubMsgs)] /\ StillWelcomed
  BY <1>9, <1>10, <1>11, BroadcastAnnounces
<1>13. SessionTypes'
  <2>1. DOMAIN latchedCache' = {}
    BY <1>0, <1>10 DEF SessionTypes, MapDelete
  <2>2. conn' \in [Sources \cup Clients -> {"new", "open", "closing", "gone"}]
    BY <1>0, <1>10 DEF SessionTypes
  <2>3. nextGlobalId \in Nat /\ nextGlobalId > 0
    BY <1>0, RegistryAssumption DEF RegInv, RegTypeOK
  <2>4. /\ localIdCounters' \in [Sources -> Nat]
        /\ \A t \in Sources : localIdCounters'[t] < nextGlobalId'
    BY <1>0, <1>10, <2>3 DEF SessionTypes
  <2> QED
    BY <1>0, <1>12, <2>1, <2>2, <2>4 DEF SessionTypes
<1>14. Evolves
  BY <1>0, <1>8, <1>10, RegistryAssumption DEF Evolves, Withdraws, RegInv, RegTypeOK
<1> QED
  BY <1>1, <1>9, <1>10, <1>12, <1>13, <1>14 DEF SessionInv, Broadcasts

LEMMA UnadvertiseSession ==
    ASSUME SessionInv, SourceIdsDistinct, NEW s \in Sources, NEW n \in Names,
           Unadvertise(s, n), UNCHANGED <<dir, sock>>
    PROVE  SessionInv' /\ StillWelcomed /\ Broadcasts
<1>0. RegInv /\ SessionTypes /\ s \in Owners
  BY BrokerAssumption DEF SessionInv
<1>1. RegInv'
  BY <1>0, UnadvertiseInv DEF Unadvertise
<1>2. PICK r \in FirstOwned(s, n) :
        byGlobalId' = Without({r.id}) /\ nextGlobalId' = nextGlobalId
  BY DEF Unadvertise, RegUnadvertise
<1>3. r.id \in DOMAIN byGlobalId
  BY <1>0 DEF FirstOwned, RegInv, IndexSound
<1>4. PICK g \in Removed : Broadcast(<<UnadvertiseMsg(byGlobalId[g])>>)
  BY DEF Unadvertise
<1>5. g = r.id
  BY <1>2, <1>4 DEF Removed, Without
<1> DEFINE ids == [i \in 1..1 |-> g]
           msgs == <<UnadvertiseMsg(byGlobalId[g])>>
<1>6. Withdraws(1, ids, byGlobalId, byGlobalId')
  <2>1. {ids[i] : i \in 1..1} = {g}
    OBVIOUS
  <2>2. \A i \in 1..1 : i = 1 /\ ids[i] = g
    OBVIOUS
  <2>3. byGlobalId' = [h \in DOMAIN byGlobalId \ {g} |-> byGlobalId[h]]
    BY <1>2, <1>5 DEF Without
  <2> HIDE DEF ids
  <2> QED
    BY <1>3, <1>5, <2>1, <2>2, <2>3 DEF Withdraws
<1>7. msgs = [i \in 1..1 |-> UnadvertiseMsg(byGlobalId[ids[i]])]
  OBVIOUS
<1> HIDE DEF ids, msgs
<1>8. /\ msgs \in Seq(HubMsgs) /\ Brings(msgs, byGlobalId, byGlobalId') /\ OwnNames'
      /\ Honest(msgs)
  <2>1. 1 \in Nat
    OBVIOUS
  <2> QED
    BY <1>6, <1>7, <2>1, RemovalBrings
<1>9. /\ Broadcast(msgs) /\ conn' = conn /\ localIdCounters' = localIdCounters
      /\ latchedCache' = MapDelete(latchedCache, Removed)
  BY <1>4 DEF Unadvertise, msgs
<1>10. Announced' /\ wire' \in [Clients -> Seq(HubMsgs)] /\ StillWelcomed
  BY <1>8, <1>9, BroadcastAnnounces
<1>11. SessionTypes'
  BY <1>0, <1>2, <1>9, <1>10 DEF SessionTypes, MapDelete
<1>12. Evolves
  BY <1>0, <1>2, <1>6, RegistryAssumption DEF Evolves, Withdraws, RegInv, RegTypeOK
<1> QED
  BY <1>1, <1>8, <1>9, <1>10, <1>11, <1>12 DEF SessionInv, Broadcasts

\* A new socket: whatever is under way, server_info comes last and says it all.
LEMMA ConnectsSession ==
    ASSUME SessionInv, SourceIdsDistinct, NEW c \in Clients, Connects(c)
    PROVE  SessionInv'
<1>0. /\ RegInv /\ SessionTypes /\ OwnNames /\ UNCHANGED <<regVars, dir>>
      /\ sock' = c /\ conn' = [conn EXCEPT ![c] = "open"]
      /\ wire' = [wire EXCEPT ![c] = Append(@, ServerInfoMsg)]
      /\ UNCHANGED <<latchedCache, localIdCounters>>
  BY DEF SessionInv, Connects, ClientConnects, clientVars
<1>1. RegInv' /\ OwnNames'
  BY <1>0, RegStepInv DEF OwnNames, regVars
<1>2. ServerInfoMsg \in HubMsgs
  <2>1. \A g \in DOMAIN byGlobalId : g \in GlobalIds /\ PublicName(byGlobalId[g]) \in PublicNames
    BY <1>0 DEF RegInv, RegTypeOK, PublicNames
  <2>2. ChannelList \in SUBSET [id : GlobalIds, name : PublicNames]
    BY <2>1 DEF ChannelList
  <2> QED
    BY <2>2 DEF ServerInfoMsg, HubMsgs
<1> DEFINE w == wire[c]
           v == <<ServerInfoMsg>>
<1>3. w \in Seq(HubMsgs) /\ v \in Seq(HubMsgs) /\ Append(w, ServerInfoMsg) = w \o v
  BY <1>0, <1>2 DEF SessionTypes
<1>4. wire'[c] = w \o v /\ wire' \in [Clients -> Seq(HubMsgs)]
  <2>1. wire'[c] = Append(w, ServerInfoMsg)
    BY <1>0 DEF SessionTypes
  <2>2. w \o v \in Seq(HubMsgs)
    BY <1>3
  <2> QED
    BY <1>0, <1>3, <2>1, <2>2 DEF SessionTypes
<1>5. SessionTypes'
  BY <1>0, <1>4 DEF SessionTypes, regVars
<1>6. ASSUME NEW f, Reads("app", f, dir, w \o v)
      PROVE  Shows(f[Len(w \o v)], byGlobalId)
  <2> HIDE DEF w
  <2>1. Len(w \o v) = Len(w) + 1 /\ v[1] = ServerInfoMsg /\ Len(v) = 1 /\ Len(w) \in Nat
    BY <1>3
  <2> HIDE DEF v
  <2>2. Follows("app", f, Len(w), v)
    BY <1>3, <1>6, ReadsAfter
  <2>3. f[Len(w) + 1] = Applied(f[Len(w) + 1 - 1], ServerInfoMsg)
    BY <2>1, <2>2 DEF Follows, Turned
  <2>4. Applied(f[Len(w) + 1 - 1], ServerInfoMsg) = ServerInfoApplied(ChannelList)
    BY DEF Applied, ServerInfoMsg
  <2>5. NamesDiffer(byGlobalId)
    BY <1>0, SharedNames, NamesOfTheHub
  <2>6. DOMAIN byGlobalId \subseteq Int
    BY <1>0, RegistryAssumption DEF RegInv, RegTypeOK, GlobalIds
  <2>7. Shows(ServerInfoApplied(ChannelList), byGlobalId)
    BY <2>5, <2>6, AfterServerInfo DEF ChannelList
  <2> QED
    BY <2>1, <2>3, <2>4, <2>7
<1>7. Announced'
  <2> HIDE DEF w, v
  <2> QED
    BY <1>0, <1>4, <1>6 DEF Announced, regVars
<1> QED
  BY <1>1, <1>5, <1>7 DEF SessionInv

\* The window reads a message: what is under way is one less.
LEMMA AppReceivesSession ==
    ASSUME SessionInv, AppReceives
    PROVE  SessionInv'
<1>0. /\ SessionTypes /\ UNCHANGED <<regVars, conn, latchedCache, localIdCounters, sock>>
      /\ sock \in Clients /\ wire[sock] # <<>>
      /\ wire' = [wire EXCEPT ![sock] = Tail(@)]
      /\ dir' = Applied(dir, Head(wire[sock]))
  BY DEF SessionInv, SessionTypes, AppReceives, Drain, ClientReceives
<1>1. RegInv' /\ OwnNames'
  BY <1>0, RegStepInv DEF SessionInv, OwnNames, regVars
<1> DEFINE w == wire[sock]
<1>2. w \in Seq(HubMsgs) /\ Tail(w) \in Seq(HubMsgs)
  BY <1>0 DEF SessionTypes
<1>3. wire'[sock] = Tail(w) /\ wire' \in [Clients -> Seq(HubMsgs)]
  BY <1>0, <1>2 DEF SessionTypes
<1>4. SessionTypes'
  BY <1>0, <1>3 DEF SessionTypes, regVars
<1>5. SUFFICES ASSUME Linked', NEW f, Reads("app", f, dir', wire'[sock'])
               PROVE  Shows(f[Len(wire'[sock'])], byGlobalId')
  BY <1>1, <1>4 DEF Announced, SessionInv
<1>6. Linked
  BY <1>0, <1>5 DEF Linked
<1>7. PICK g : Reads("app", g, dir, w) /\ g[Len(w)] = f[Len(Tail(w))]
  <2>1. Reads("app", f, Turned("app", dir, Head(w)), Tail(w)) /\ w # <<>>
    BY <1>0, <1>3, <1>5 DEF Turned
  <2> HIDE DEF w
  <2>2. PICK g : Reads("app", g, dir, w) /\ Agree(g, f, Len(Tail(w)), 1)
    BY <1>2, <2>1, ReadsFirst
  <2>3. Len(Tail(w)) \in 0..Len(Tail(w)) /\ Len(Tail(w)) + 1 = Len(w)
    BY <1>2, <2>1
  <2> QED
    BY <2>2, <2>3 DEF Agree
<1>8. Shows(g[Len(w)], byGlobalId)
  BY <1>6, <1>7 DEF SessionInv, Announced
<1> QED
  BY <1>0, <1>3, <1>7, <1>8 DEF regVars

\* A step that touches neither the registry nor what the window will read.
Quiet ==
    /\ UNCHANGED <<regVars, latchedCache, localIdCounters, dir>>
    /\ sock' \in {sock, NoConn}
    /\ conn' \in [Sources \cup Clients -> {"new", "open", "closing", "gone"}]
    /\ wire' \in [Clients -> Seq(HubMsgs)]
    /\ \A c \in Clients :
           conn'[c] = "open" => conn[c] = "open" /\ wire'[c] = wire[c]

LEMMA QuietSession ==
    ASSUME SessionInv, Quiet
    PROVE  SessionInv'
<1>1. RegInv' /\ OwnNames'
  BY RegStepInv DEF Quiet, SessionInv, OwnNames, regVars
<1>2. SessionTypes'
  BY DEF Quiet, SessionInv, SessionTypes, regVars
<1>3. Linked' => Linked /\ sock' = sock /\ wire'[sock] = wire[sock]
  BY DEF Quiet, Linked, SessionInv, SessionTypes
<1>4. Announced'
  BY <1>3 DEF Quiet, SessionInv, Announced, regVars
<1> QED
  BY <1>1, <1>2, <1>4 DEF SessionInv

\* A restart: nothing is left, and no socket is.
LEMMA RestartSession ==
    ASSUME SessionInv, HubRestarts
    PROVE  SessionInv' /\ ~Linked'
<1>0. SessionTypes
  BY DEF SessionInv
<1>1. DOMAIN byGlobalId' = {} /\ byOwner' = [o \in Owners |-> {}] /\ nextGlobalId' = 1
  BY DEF HubRestarts, EmptyMap
<1>2. RegInv'
  <2>1. byGlobalId' = [g \in {} |-> {}]
    BY DEF HubRestarts, EmptyMap
  <2>2. RegTypeOK'
    BY <1>1, <2>1, RegistryAssumption DEF RegTypeOK, GlobalIds
  <2>3. IndexSound' /\ CollisionsPrefixed'
    BY <1>1 DEF IndexSound, CollisionsPrefixed
  <2> QED
    BY <2>2, <2>3 DEF RegInv
<1>3. OwnNames'
  BY <1>1 DEF OwnNames
<1>4. /\ conn' \in [Sources \cup Clients -> {"new", "open", "closing", "gone"}]
      /\ \A c \in Clients : conn'[c] # "open"
  BY <1>0 DEF SessionTypes, HubRestarts
<1>5. SessionTypes'
  <2>1. wire' \in [Clients -> Seq(HubMsgs)]
    BY DEF HubRestarts
  <2>2. DOMAIN latchedCache' = {}
    BY DEF HubRestarts, EmptyMap
  <2>3. localIdCounters' \in [Sources -> Nat] /\ \A s \in Sources : localIdCounters'[s] < nextGlobalId'
    BY <1>1 DEF HubRestarts
  <2>4. sock' = sock
    BY DEF HubRestarts
  <2> QED
    BY <1>0, <1>4, <2>1, <2>2, <2>3, <2>4 DEF SessionTypes
<1>6. ~Linked' /\ Announced'
  BY <1>4, <1>5 DEF Announced, Linked, SessionTypes
<1> QED
  BY <1>2, <1>3, <1>5, <1>6 DEF SessionInv

-----------------------------------------------------------------------------
(* Every step *)

LEMMA SourceActsSession ==
    ASSUME Setting, SessionInv, SourceActs
    PROVE  /\ SessionInv'
           /\ StillWelcomed
           /\ Quiet \/ Broadcasts
           /\ \A c \in Clients : conn'[c] = conn[c]
<1>0. /\ SourceIdsDistinct /\ OwnNamesDistinct /\ HttpSources = {}
      /\ SessionTypes /\ UNCHANGED <<dir, sock>>
      /\ \A s \in Sources : s \notin Clients
  BY BrokerAssumption DEF Setting, SourceActs, clientVars, SessionInv
<1>1. CASE \E s \in Sources : SourceConnects(s)
  <2>1. PICK s \in Sources : SourceConnects(s)
    BY <1>1
  <2>2. /\ conn' = [conn EXCEPT ![s] = "open"]
        /\ UNCHANGED <<regVars, latchedCache, localIdCounters, wire>>
    BY <2>1 DEF SourceConnects
  <2>3. \A c \in Clients : conn'[c] = conn[c]
    BY <1>0, <2>2 DEF SessionTypes
  <2>4. Quiet
    BY <1>0, <2>2, <2>3 DEF Quiet, SessionTypes
  <2>5. StillWelcomed
    BY <1>0, <2>2, <2>3 DEF StillWelcomed, Linked, Welcomed, SessionTypes
  <2> QED
    BY <2>3, <2>4, <2>5, QuietSession
<1>2. CASE \E s \in Sources : SourceGone(s)
  <2>1. PICK s \in Sources : SourceGone(s)
    BY <1>2
  <2>2. SessionInv' /\ StillWelcomed /\ Broadcasts
    BY <1>0, <2>1, SourceGoneSession
  <2>3. conn' = [conn EXCEPT ![s] = "gone"]
    BY <2>1 DEF SourceGone
  <2>4. \A c \in Clients : conn'[c] = conn[c]
    BY <1>0, <2>3 DEF SessionTypes
  <2> QED
    BY <2>2, <2>4
<1>3. CASE \E s \in Sources, n \in Names : ~Owns(s, n) /\ AdvertiseWithoutId(s, n, FALSE)
  <2>1. PICK s \in Sources, n \in Names : ~Owns(s, n) /\ AdvertiseWithoutId(s, n, FALSE)
    BY <1>3
  <2>2. SessionInv' /\ StillWelcomed /\ Broadcasts
    BY <1>0, <2>1, AdvertiseSession
  <2>3. conn' = conn
    BY <2>1 DEF AdvertiseWithoutId
  <2> QED
    BY <2>2, <2>3
<1>4. CASE \E s \in Sources, n \in Names : Unadvertise(s, n)
  <2>1. PICK s \in Sources, n \in Names : Unadvertise(s, n)
    BY <1>4
  <2>2. SessionInv' /\ StillWelcomed /\ Broadcasts
    BY <1>0, <2>1, UnadvertiseSession
  <2>3. conn' = conn
    BY <2>1 DEF Unadvertise
  <2> QED
    BY <2>2, <2>3
<1> QED
  BY <1>0, <1>1, <1>2, <1>3, <1>4 DEF SourceActs

\* onClose at the hub, and the hub handling a request.
LEMMA HubStepsQuiet ==
    ASSUME SessionInv, NEW c \in Clients, HubLosesClient(c) \/ HubReceives(c)
    PROVE  Quiet
<1>0. SessionTypes
  BY DEF SessionInv
<1>1. CASE HubLosesClient(c)
  <2>1. /\ UNCHANGED <<regVars, latchedCache, localIdCounters, dir, sock>>
        /\ conn' = [conn EXCEPT ![c] = "gone"] /\ wire' = [wire EXCEPT ![c] = <<>>]
    BY <1>1 DEF HubLosesClient, ClientGone, clientVars
  <2>2. /\ conn' \in [Sources \cup Clients -> {"new", "open", "closing", "gone"}]
        /\ wire' \in [Clients -> Seq(HubMsgs)]
        /\ \A d \in Clients : conn'[d] = "open" => conn[d] = "open" /\ wire'[d] = wire[d]
    BY <1>0, <2>1 DEF SessionTypes
  <2> QED
    BY <2>1, <2>2 DEF Quiet
<1>2. CASE HubReceives(c)
  <2>1. /\ UNCHANGED <<regVars, conn, latchedCache, localIdCounters, wire>>
        /\ UNCHANGED <<dir, sock>>
    <3>1. UNCHANGED <<dir, sock>>
      BY <1>2 DEF HubReceives, clientVars
    <3> DEFINE m == Head(up[c])
    <3>2. CASE Subscribe(c, m.id, m.hz)
      BY <1>0, <3>1, <3>2 DEF Subscribe, SessionTypes
    <3>3. CASE Unsubscribe(c, m.id)
      BY <3>1, <3>3 DEF Unsubscribe
    <3>4. CASE UNCHANGED brokerVars
      BY <3>1, <3>4 DEF brokerVars, hubVars
    <3> QED
      BY <1>2, <3>2, <3>3, <3>4 DEF HubReceives, HubHandles
  <2> QED
    BY <1>0, <2>1 DEF Quiet, SessionTypes
<1> QED
  BY <1>1, <1>2

\* The window losing its socket, its panels, and stuttering.
LEMMA WindowStepsQuiet ==
    ASSUME SessionInv, UNCHANGED <<brokerVars, dir>>, sock' \in {sock, NoConn}
    PROVE  Quiet
BY DEF Quiet, SessionInv, SessionTypes, brokerVars, hubVars

LEMMA SessionStepInv ==
    ASSUME Setting, SessionInv, [SessionNext]_sessionVars
    PROVE  SessionInv'
<1>1. CASE SourceActs
  BY <1>1, SourceActsSession
<1>2. ASSUME NEW c \in Clients, Connects(c) PROVE SessionInv'
  BY <1>2, ConnectsSession DEF Setting
<1>3. ASSUME NEW c \in Clients, HubLosesClient(c) \/ HubReceives(c) PROVE SessionInv'
  BY <1>3, HubStepsQuiet, QuietSession
<1>4. CASE LosesSocket
  BY <1>4, WindowStepsQuiet, QuietSession DEF LosesSocket, clientVars
<1>5. CASE AppReceives
  BY <1>5, AppReceivesSession
<1>6. CASE HubRestarts
  BY <1>6, RestartSession
<1>7. ASSUME NEW p \in Panels,
             \/ \E n \in PanelNames, hz \in Rates : AppSubscribes(p, n, hz)
             \/ AppUnsubscribes(p)
      PROVE  SessionInv'
  <2>1. UNCHANGED <<brokerVars, dir, sock>>
    BY <1>7 DEF AppSubscribes, AppUnsubscribes, PanelSubscribes, PanelUnsubscribes
  <2> QED
    BY <2>1, WindowStepsQuiet, QuietSession
<1>8. CASE UNCHANGED sessionVars
  BY <1>8, WindowStepsQuiet, QuietSession DEF sessionVars, clientVars
<1> QED
  BY <1>1, <1>2, <1>3, <1>4, <1>5, <1>6, <1>7, <1>8 DEF SessionNext

(***************************************************************************)
(* What is under way to a connected window turns its channel list into the *)
(* hub's, and every public name then leads to the id that carries it,      *)
(* whatever has been advertised, renamed and withdrawn, and however often  *)
(* the socket or the hub went away (broker.ts 118-126, 355-394 with        *)
(* HubClient.ts 355-390).  The setting: no two sources call themselves the *)
(* same, no source advertises a name twice, and nothing is injected over   *)
(* HTTP.                                                                   *)
(***************************************************************************)
THEOREM DirectoryConvergesHolds ==
    ASSUME Setting
    PROVE  SessionSpec => []DirectoryConverges
<1>1. SessionInv => DirectoryConverges
  <2> SUFFICES ASSUME SessionInv, Linked
               PROVE  /\ Arriving.channels =
                           [g \in DOMAIN byGlobalId |-> PublicName(byGlobalId[g])]
                      /\ \A g \in DOMAIN byGlobalId :
                            Leads(Arriving, PublicName(byGlobalId[g]), g)
    BY DEF DirectoryConverges, Leads
  <2>1. wire[sock] \in Seq(HubMsgs)
    BY DEF Linked, SessionInv, SessionTypes
  <2>2. Reads("app", DirAfter, dir, wire[sock])
    BY <2>1, DirAfterReads
  <2> HIDE DEF DirAfter
  <2>3. Shows(Arriving, byGlobalId)
    BY <2>2 DEF SessionInv, Announced, Arriving
  <2> QED
    BY <2>3 DEF Shows
<1>2. SessionInv /\ [SessionNext]_sessionVars => SessionInv'
  BY SessionStepInv
<1> QED
  BY <1>1, <1>2, SessionInitInv, PTL DEF SessionSpec

-----------------------------------------------------------------------------
(* Names that lead to one id.  A rename leaves the old name in nameToId, so *)
(* two names may lead to one channel; what a window knows by one id were    *)
(* names of one channel all along.                                          *)

\* A name that the channel of entry e may have had.
Named(name, e) ==
    \E f \in Entries : /\ f.owner = e.owner /\ f.bareName = e.bareName
                       /\ name = PublicName(f)

\* No two names that panels may ask for are of one channel: without it, finding 2.
PanelsApart ==
    \A e, f \in Entries :
        /\ e.owner = f.owner /\ e.bareName = f.bareName
        /\ PublicName(e) \in PanelNames /\ PublicName(f) \in PanelNames
        => PublicName(e) = PublicName(f)

\* Ids that a directory d knows were given out by the hub, and the name is one
\* the channel has or had.
Known(d, next, hub) ==
    \A name, g : Leads(d, name, g) =>
        /\ g \in 1..(next - 1)
        /\ g \in DOMAIN hub => Named(name, hub[g])

Apart(d) ==
    \A m, n \in PanelNames : m # n => \A g : ~(Leads(d, m, g) /\ Leads(d, n, g))

\* What m says of a name is so at the hub, and leaves the panels' names apart.
LEMMA TwoNamesOneChannel ==
    ASSUME PanelsApart, NEW e, NEW m \in PanelNames, NEW n \in PanelNames,
           Named(m, e), Named(n, e)
    PROVE  m = n
BY DEF PanelsApart, Named

\* m is an advertise of a live channel, or an unadvertise.
Modest(m, hub) ==
    \/ /\ m.op = "advertise" /\ m.id \in DOMAIN hub
       /\ m.name = PublicName(hub[m.id])
    \/ m.op = "unadvertise"

LEMMA UnadvertiseLeads ==
    ASSUME NEW d, NEW name, NEW other, NEW g,
           Leads(UnadvertiseApplied(d, name), other, g)
    PROVE  Leads(d, other, g)
BY DEF UnadvertiseApplied, MapDelete, Leads

LEMMA AdvertiseLeads ==
    ASSUME NEW d, NEW id, NEW name, NEW other, NEW g,
           Leads(AdvertiseApplied(d, id, name), other, g)
    PROVE  (other = name /\ g = id) \/ Leads(d, other, g)
BY DEF AdvertiseApplied, MapSet, Leads

\* Reading such a message.
LEMMA ModestKeeps ==
    ASSUME PanelsApart, NEW d, NEW m, NEW next \in Nat, NEW hub,
           hub \in [DOMAIN hub -> Entries], DOMAIN hub \subseteq 1..(next - 1),
           Modest(m, hub), Known(d, next, hub)
    PROVE  /\ Known(Turned("app", d, m), next, hub)
           /\ Apart(d) => Apart(Turned("app", d, m))
<1> DEFINE e == Turned("app", d, m)
<1>1. CASE m.op = "unadvertise"
  <2>1. e = UnadvertiseApplied(d, m.name)
    BY <1>1 DEF Turned, Applied
  <2>2. \A name, g : Leads(e, name, g) => Leads(d, name, g)
    BY <2>1, UnadvertiseLeads
  <2> HIDE DEF e
  <2>3. Known(e, next, hub)
    BY <2>2 DEF Known
  <2>4. ASSUME Apart(d) PROVE Apart(e)
    BY <2>2, <2>4 DEF Apart
  <2> QED
    BY <2>3, <2>4 DEF e
<1>2. CASE /\ m.op = "advertise" /\ m.id \in DOMAIN hub
           /\ m.name = PublicName(hub[m.id])
  <2>1. e = AdvertiseApplied(d, m.id, m.name)
    BY <1>2 DEF Turned, Applied
  <2>2. \A name, g : Leads(e, name, g) => (name = m.name /\ g = m.id) \/ Leads(d, name, g)
    BY <2>1, AdvertiseLeads
  <2> HIDE DEF e
  <2>3. Named(m.name, hub[m.id]) /\ m.id \in 1..(next - 1)
    <3>1. hub[m.id] \in Entries
      BY <1>2
    <3> QED
      BY <1>2, <3>1 DEF Named
  <2>4. Known(e, next, hub)
    BY <2>2, <2>3 DEF Known
  <2>5. ASSUME Apart(d), NEW x \in PanelNames, NEW y \in PanelNames, x # y, NEW g,
               Leads(e, x, g), Leads(e, y, g)
        PROVE  FALSE
    <3>1. CASE g = m.id
      <4>1. Named(x, hub[g]) /\ Named(y, hub[g])
        BY <1>2, <2>4, <2>5, <3>1 DEF Known
      <4> QED
        BY <2>5, <4>1, TwoNamesOneChannel
    <3>2. CASE g # m.id
      BY <2>2, <2>5, <3>2 DEF Apart
    <3> QED
      BY <3>1, <3>2
  <2>6. ASSUME Apart(d) PROVE Apart(e)
    BY <2>5, <2>6 DEF Apart
  <2> QED
    BY <2>4, <2>6 DEF e
<1> QED
  BY <1>1, <1>2 DEF Modest

\* What was known of the hub goes on being so.
LEMMA EvolvesKeepsKnown ==
    ASSUME RegInv, RegInv', Evolves, NEW d, Known(d, nextGlobalId, byGlobalId)
    PROVE  Known(d, nextGlobalId', byGlobalId')
<1>0. nextGlobalId \in Nat /\ nextGlobalId' \in Nat /\ nextGlobalId' >= nextGlobalId
  BY RegistryAssumption DEF RegInv, RegTypeOK, Evolves
<1> SUFFICES ASSUME NEW name, NEW g, Leads(d, name, g)
             PROVE  /\ g \in 1..(nextGlobalId' - 1)
                    /\ g \in DOMAIN byGlobalId' => Named(name, byGlobalId'[g])
  BY DEF Known
<1>1. g \in 1..(nextGlobalId - 1) /\ (g \in DOMAIN byGlobalId => Named(name, byGlobalId[g]))
  BY DEF Known
<1>2. g \in 1..(nextGlobalId' - 1) /\ g # nextGlobalId
  <2>1. g \in 1..(nextGlobalId - 1)
    BY <1>1
  <2>2. \A n, m \in Nat : n <= m /\ g \in 1..(n - 1) => g \in 1..(m - 1) /\ g # n
    OBVIOUS
  <2>3. nextGlobalId <= nextGlobalId'
    BY <1>0
  <2> QED
    BY <1>0, <2>1, <2>2, <2>3
<1>3. ASSUME g \in DOMAIN byGlobalId' PROVE Named(name, byGlobalId'[g])
  <2>1. /\ g \in DOMAIN byGlobalId
        /\ byGlobalId'[g].owner = byGlobalId[g].owner
        /\ byGlobalId'[g].bareName = byGlobalId[g].bareName
    BY <1>2, <1>3 DEF Evolves
  <2> QED
    BY <1>1, <2>1 DEF Named
<1> QED
  BY <1>2, <1>3

-----------------------------------------------------------------------------
(* What the window knows, now and once it has read what is under way.       *)

\* After the first k messages comes no other server_info.
Settled(w, k) == \A i \in 1..Len(w) : i > k => w[i].op # "server_info"

Told ==
    Linked => \A f : Reads("app", f, dir, wire[sock]) =>
        /\ Known(f[Len(wire[sock])], nextGlobalId, byGlobalId)
        /\ \A k \in 0..Len(wire[sock]) : Settled(wire[sock], k) => Apart(f[k])

\* A broadcast: one message after the other.
LEMMA BroadcastTold ==
    ASSUME PanelsApart, SessionInv, SessionInv', Told, Broadcasts, UNCHANGED <<dir, sock>>,
           \A c \in Clients : conn'[c] = conn[c]
    PROVE  Told'
<1>1. PICK msgs \in Seq(HubMsgs) : Broadcast(msgs) /\ Honest(msgs)
  BY DEF Broadcasts
<1>2. SUFFICES ASSUME Linked', NEW f, Reads("app", f, dir', wire'[sock'])
               PROVE  /\ Known(f[Len(wire'[sock'])], nextGlobalId', byGlobalId')
                      /\ \A k \in 0..Len(wire'[sock']) :
                            Settled(wire'[sock'], k) => Apart(f[k])
  BY DEF Told
<1>3. /\ Linked /\ sock \in Clients /\ sock' = sock /\ dir' = dir
      /\ wire'[sock] = wire[sock] \o msgs /\ wire[sock] \in Seq(HubMsgs)
  BY <1>1, <1>2 DEF Linked, Broadcast, SessionInv, SessionTypes
<1> DEFINE w == wire[sock]
           n == Len(w)
           next == nextGlobalId'
           hub == byGlobalId'
<1>4. /\ w \in Seq(HubMsgs) /\ n \in Nat /\ Len(msgs) \in Nat
      /\ Len(w \o msgs) = n + Len(msgs)
      /\ \A i \in 1..n : (w \o msgs)[i] = w[i]
  BY <1>3
<1>5. PICK g : Reads("app", g, dir, w) /\ Agree(g, f, n, 0)
  <2>1. Reads("app", f, dir, w \o msgs)
    BY <1>2, <1>3
  <2> HIDE DEF w
  <2> QED
    BY <1>4, <2>1, ReadsBefore
<1>6. Follows("app", f, n, msgs)
  <2>1. Reads("app", f, dir, w \o msgs)
    BY <1>2, <1>3
  <2> HIDE DEF w
  <2> QED
    BY <1>4, <2>1, ReadsAfter
<1>7. \A k \in 0..n : g[k] = f[k]
  <2>1. \A k \in 0..n : k + 0 = k
    BY <1>4
  <2> QED
    BY <1>5, <2>1 DEF Agree
<1>8. /\ Known(g[n], nextGlobalId, byGlobalId)
      /\ \A k \in 0..n : Settled(w, k) => Apart(g[k])
  BY <1>3, <1>5 DEF Told
<1> HIDE DEF w
<1>9. \A k \in 0..n : Settled(w \o msgs, k) => Apart(f[k])
  <2> SUFFICES ASSUME NEW k \in 0..n, Settled(w \o msgs, k) PROVE Apart(f[k])
    OBVIOUS
  <2>1. \A i \in 1..n : i \in 1..Len(w \o msgs)
    BY <1>4
  <2>2. Settled(w, k)
    BY <1>4, <2>1 DEF Settled
  <2> QED
    BY <1>7, <1>8, <2>2
<1>10. Known(f[n], next, hub)
  <2>1. Known(f[n], nextGlobalId, byGlobalId)
    BY <1>4, <1>7, <1>8
  <2> QED
    BY <2>1, EvolvesKeepsKnown DEF SessionInv, Broadcasts, next, hub
<1>11. /\ next \in Nat /\ hub \in [DOMAIN hub -> Entries] /\ DOMAIN hub \subseteq 1..(next - 1)
  <2>1. RegTypeOK'
    BY DEF SessionInv, RegInv
  <2>2. next \in Nat
    BY <2>1, RegistryAssumption DEF RegTypeOK
  <2> QED
    BY <2>1, <2>2 DEF RegTypeOK, GlobalIds
<1> HIDE DEF next, hub
<1> DEFINE Good(i) ==
               /\ Known(f[n + i], next, hub)
               /\ \A k \in n..(n + i) : Settled(w \o msgs, n) => Apart(f[k])
           Bad == {i \in Nat : i <= Len(msgs) /\ ~Good(i)}
<1>12. Good(0)
  <2>1. n + 0 = n /\ n \in 0..n /\ \A k \in n..(n + 0) : k = n
    BY <1>4
  <2>2. Settled(w \o msgs, n) => Apart(f[n])
    BY <1>9, <2>1
  <2>3. ASSUME NEW k \in n..(n + 0), Settled(w \o msgs, n) PROVE Apart(f[k])
    BY <2>1, <2>2, <2>3
  <2>4. Known(f[n + 0], next, hub)
    BY <1>10, <2>1
  <2> QED
    BY <2>3, <2>4
<1>13. ASSUME NEW i \in Nat, i < Len(msgs), Good(i)
       PROVE  Good(i + 1)
  <2>1. i + 1 \in 1..Len(msgs) /\ n + (i + 1) - 1 = n + i
    BY <1>4, <1>13
  <2>2. f[n + (i + 1)] = Turned("app", f[n + i], msgs[i + 1])
    BY <1>6, <2>1 DEF Follows
  <2>3. Modest(msgs[i + 1], hub)
    BY <1>1, <2>1 DEF Honest, Modest, hub
  <2>4. /\ Known(f[n + (i + 1)], next, hub)
        /\ Apart(f[n + i]) => Apart(f[n + (i + 1)])
    BY <1>11, <1>13, <2>2, <2>3, ModestKeeps
  <2>5. ASSUME NEW k \in n..(n + (i + 1)) PROVE k \in n..(n + i) \/ k = n + (i + 1)
    BY <1>4
  <2>6. n + i \in n..(n + i)
    BY <1>4
  <2> QED
    BY <1>13, <2>4, <2>5, <2>6
<1>14. Bad = {}
  <2> SUFFICES ASSUME Bad # {} PROVE FALSE
    OBVIOUS
  <2> HIDE DEF Good
  <2>1. PICK k \in Bad : \A j \in Bad : k <= j
    BY LeastThereIs
  <2>2. k # 0
    BY <1>12
  <2>3. k - 1 \in Nat /\ k - 1 < Len(msgs) /\ Good(k - 1)
    BY <1>4, <2>1, <2>2
  <2>4. Good((k - 1) + 1)
    BY <2>3, <1>13
  <2> QED
    BY <2>1, <2>3, <2>4
<1>15. Good(Len(msgs))
  <2> HIDE DEF Good
  <2> QED
    BY <1>4, <1>14
<1>16. \A k \in 0..Len(w \o msgs) : Settled(w \o msgs, k) => Apart(f[k])
  <2> SUFFICES ASSUME NEW k \in 0..Len(w \o msgs), Settled(w \o msgs, k) PROVE Apart(f[k])
    OBVIOUS
  <2>1. CASE k \in 0..n
    BY <1>9, <2>1
  <2>2. CASE k \notin 0..n
    <3>1. k \in n..(n + Len(msgs))
      BY <1>4, <2>2
    <3>2. Settled(w \o msgs, n)
      <4>1. ASSUME NEW i \in 1..Len(w \o msgs), i > n
            PROVE  (w \o msgs)[i].op # "server_info"
        <5>1. i - n \in 1..Len(msgs) /\ (w \o msgs)[i] = msgs[i - n]
          BY <1>4, <4>1
        <5>2. msgs[i - n].op # "server_info"
          BY <1>1, <5>1 DEF Honest
        <5> QED
          BY <5>1, <5>2
      <4> QED
        BY <4>1 DEF Settled
    <3> QED
      BY <1>15, <3>1, <3>2
  <2> QED
    BY <2>1, <2>2
<1> QED
  BY <1>3, <1>4, <1>15, <1>16 DEF w, next, hub

LEMMA ServerInfoLeads ==
    ASSUME NEW hub, DOMAIN hub \subseteq Int, NamesDiffer(hub), NEW name, NEW g,
           Leads(ServerInfoApplied({[id |-> h, name |-> PublicName(hub[h])] : h \in DOMAIN hub}),
                 name, g)
    PROVE  g \in DOMAIN hub /\ name = PublicName(hub[g])
<1> DEFINE list == {[id |-> h, name |-> PublicName(hub[h])] : h \in DOMAIN hub}
           d == ServerInfoApplied(list)
<1>1. Shows(d, hub)
  BY AfterServerInfo
<1>2. DOMAIN d.nameToId = ListedNames(list)
  BY DEF ServerInfoApplied
<1>3. \E h \in DOMAIN hub : name = PublicName(hub[h])
  BY <1>2 DEF ListedNames, Leads
<1> HIDE DEF d
<1> QED
  BY <1>1, <1>3 DEF Shows, Leads, d

\* A new socket: server_info comes last.
LEMMA ConnectsTold ==
    ASSUME SessionInv, SourceIdsDistinct, NEW c \in Clients, Connects(c)
    PROVE  Told' /\ ~Welcomed'
<1>0. /\ RegInv /\ OwnNames /\ UNCHANGED <<regVars, dir>> /\ sock' = c
      /\ wire' = [wire EXCEPT ![c] = Append(@, ServerInfoMsg)]
      /\ wire \in [Clients -> Seq(HubMsgs)]
  BY DEF SessionInv, SessionTypes, Connects, ClientConnects, clientVars
<1> DEFINE w == wire[c]
           v == Append(w, ServerInfoMsg)
           n == Len(w)
           d == ServerInfoApplied(ChannelList)
<1>1. w \in Seq(HubMsgs) /\ wire'[c] = v
  BY <1>0
<1>2. /\ Len(v) = n + 1 /\ n \in Nat /\ v[n + 1] = ServerInfoMsg
  <2> HIDE DEF w
  <2> QED
    BY <1>1
<1> HIDE DEF v
<1>3. ServerInfoMsg.op = "server_info" /\ ServerInfoMsg.channels = ChannelList
  BY DEF ServerInfoMsg
<1>4. ~Welcomed'
  <2>1. n + 1 \in 1..Len(v)
    BY <1>2
  <2> QED
    BY <1>0, <1>1, <1>2, <1>3, <2>1 DEF Welcomed
<1>5. NamesDiffer(byGlobalId)
  BY <1>0, SharedNames, NamesOfTheHub
<1>6. /\ DOMAIN byGlobalId \subseteq Int /\ DOMAIN byGlobalId \subseteq 1..(nextGlobalId - 1)
      /\ byGlobalId \in [DOMAIN byGlobalId -> Entries]
  BY <1>0, RegistryAssumption DEF RegInv, RegTypeOK, GlobalIds
<1>7. \A name, g : Leads(d, name, g) =>
          g \in DOMAIN byGlobalId /\ name = PublicName(byGlobalId[g])
  BY <1>5, <1>6, ServerInfoLeads DEF ChannelList
<1> HIDE DEF d
<1>8. Known(d, nextGlobalId, byGlobalId) /\ Apart(d)
  <2>1. \A g \in DOMAIN byGlobalId : Named(PublicName(byGlobalId[g]), byGlobalId[g])
    BY <1>6 DEF Named
  <2> QED
    BY <1>6, <1>7, <2>1 DEF Known, Apart
<1>9. ASSUME NEW f, Reads("app", f, dir, v)
      PROVE  /\ Known(f[Len(v)], nextGlobalId, byGlobalId)
             /\ \A k \in 0..Len(v) : Settled(v, k) => Apart(f[k])
  <2>1. n + 1 \in 0..Len(v) /\ n + 1 # 0
    BY <1>2
  <2>2. f[n + 1] = Turned("app", f[n + 1 - 1], v[n + 1])
    BY <1>9, <2>1 DEF Reads
  <2>3. f[n + 1] = d
    BY <1>2, <1>3, <2>2 DEF Turned, Applied, d
  <2>4. ASSUME NEW k \in 0..Len(v), Settled(v, k) PROVE k = n + 1
    <3>1. n + 1 \in 1..Len(v) /\ ~(n + 1 > k)
      BY <1>2, <1>3, <2>4 DEF Settled
    <3> QED
      BY <1>2, <3>1
  <2> QED
    BY <1>2, <1>8, <2>3, <2>4
<1>10. Told'
  BY <1>0, <1>1, <1>9 DEF Told, regVars
<1> QED
  BY <1>4, <1>10

LEMMA AppReceivesTold ==
    ASSUME SessionInv, Told, AppReceives
    PROVE  Told'
<1>0. /\ SessionTypes /\ UNCHANGED <<regVars, conn, sock>>
      /\ sock \in Clients /\ wire[sock] # <<>>
      /\ wire' = [wire EXCEPT ![sock] = Tail(@)]
      /\ dir' = Applied(dir, Head(wire[sock]))
  BY DEF SessionInv, SessionTypes, AppReceives, Drain, ClientReceives
<1> DEFINE w == wire[sock]
<1>1. w \in Seq(HubMsgs) /\ wire'[sock] = Tail(w)
  BY <1>0 DEF SessionTypes
<1>2. SUFFICES ASSUME Linked', NEW f, Reads("app", f, dir', Tail(w))
               PROVE  /\ Known(f[Len(Tail(w))], nextGlobalId, byGlobalId)
                      /\ \A k \in 0..Len(Tail(w)) : Settled(Tail(w), k) => Apart(f[k])
  BY <1>0, <1>1 DEF Told, regVars
<1>3. Linked
  BY <1>0, <1>2 DEF Linked
<1>4. PICK g : Reads("app", g, dir, w) /\ Agree(g, f, Len(Tail(w)), 1)
  <2>1. Reads("app", f, Turned("app", dir, Head(w)), Tail(w)) /\ w # <<>>
    BY <1>0, <1>2 DEF Turned
  <2> HIDE DEF w
  <2> QED
    BY <1>1, <2>1, ReadsFirst
<1>5. /\ Known(g[Len(w)], nextGlobalId, byGlobalId)
      /\ \A k \in 0..Len(w) : Settled(w, k) => Apart(g[k])
  BY <1>3, <1>4 DEF Told
<1>6. /\ Len(Tail(w)) = Len(w) - 1 /\ Len(w) \in Nat /\ Len(w) >= 1
      /\ \A k \in 1..(Len(w) - 1) : Tail(w)[k] = w[k + 1]
  <2>1. w # <<>>
    BY <1>0
  <2> HIDE DEF w
  <2> QED
    BY <1>1, <2>1
<1> HIDE DEF w
<1>7. Known(f[Len(Tail(w))], nextGlobalId, byGlobalId)
  <2>1. Len(Tail(w)) \in 0..Len(Tail(w)) /\ Len(Tail(w)) + 1 = Len(w)
    BY <1>6
  <2> QED
    BY <1>4, <1>5, <2>1 DEF Agree
<1>8. ASSUME NEW k \in 0..Len(Tail(w)), Settled(Tail(w), k)
      PROVE  Apart(f[k])
  <2>1. Settled(w, k + 1)
    <3> SUFFICES ASSUME NEW i \in 1..Len(w), i > k + 1 PROVE w[i].op # "server_info"
      BY DEF Settled
    <3>1. i - 1 \in 1..(Len(w) - 1) /\ i - 1 > k /\ (i - 1) + 1 = i
      BY <1>6
    <3>2. Tail(w)[i - 1] = w[i] /\ i - 1 \in 1..Len(Tail(w))
      BY <1>6, <3>1
    <3> QED
      BY <1>8, <3>1, <3>2 DEF Settled
  <2>2. k + 1 \in 0..Len(w)
    BY <1>6
  <2> QED
    BY <1>4, <1>5, <2>1, <2>2 DEF Agree
<1> QED
  BY <1>7, <1>8

LEMMA QuietTold ==
    ASSUME SessionInv, Told, Quiet
    PROVE  Told'
<1>1. Linked' => Linked /\ sock' = sock /\ wire'[sock] = wire[sock]
  BY DEF Quiet, Linked, SessionInv, SessionTypes
<1> QED
  BY <1>1 DEF Quiet, Told, regVars

\* In particular, of what it knows now.
LEMMA ApartNow == SessionInv /\ Told /\ Linked /\ Welcomed => Apart(dir)
<1> SUFFICES ASSUME SessionInv, Told, Linked, Welcomed PROVE Apart(dir)
  OBVIOUS
<1>1. wire[sock] \in Seq(HubMsgs)
  BY DEF Linked, SessionInv, SessionTypes
<1>2. PICK f : Reads("app", f, dir, wire[sock])
  BY <1>1, ReadsExists
<1> DEFINE w == wire[sock]
<1>3. Len(w) \in Nat
  BY <1>1
<1>4. Settled(w, 0) /\ \A k \in 0..Len(w) : Settled(w, k) => Apart(f[k])
  BY <1>2 DEF Told, Welcomed, Settled
<1> HIDE DEF w
<1>5. f[0] = dir /\ 0 \in 0..Len(w)
  BY <1>2, <1>3 DEF Reads, w
<1> QED
  BY <1>4, <1>5

-----------------------------------------------------------------------------
(* Bindings and the subscriptions they stand for.                          *)

\* Is a rate asked for?
Capped(b) == b.sentMaxHz # 0

\* The hub's subscriptions have what a SubState stands for.
Holds(rates, b) ==
    b.boundId # NoId => b.boundId \in DOMAIN rates /\ rates[b.boundId] = Capped(b)

AllHold(rates, b) == \A n \in PanelNames : Holds(rates, b[n])

BoundApart(b) ==
    \A m, n \in PanelNames :
        m # n => b[m].boundId = NoId \/ b[m].boundId # b[n].boundId

\* One more subscription.
LEMMA GrantOne ==
    ASSUME NEW rates, NEW s
    PROVE  LET r == Turned("hub", rates, SubscribeMsg(s))
           IN  /\ Holds(r, s)
               /\ \A t : t.boundId # s.boundId /\ Holds(rates, t) => Holds(r, t)
<1> DEFINE m == SubscribeMsg(s)
           r == Turned("hub", rates, m)
<1>1. m.op = "subscribe" /\ m.id = s.boundId
  BY DEF SubscribeMsg
<1>2. m.hz = Capped(s)
  BY DEF SubscribeMsg, Capped
<1> HIDE DEF m
<1>3. r = MapSet(rates, s.boundId, m.hz)
  BY <1>1 DEF Turned, Granted
<1>4. /\ DOMAIN r = DOMAIN rates \cup {s.boundId}
      /\ r[s.boundId] = m.hz
      /\ \A g \in DOMAIN rates : g # s.boundId => r[g] = rates[g]
  BY <1>3 DEF MapSet
<1> HIDE DEF r
<1>5. Holds(r, s)
  BY <1>2, <1>4 DEF Holds
<1>6. \A t : t.boundId # s.boundId /\ Holds(rates, t) => Holds(r, t)
  BY <1>4 DEF Holds
<1> QED
  BY <1>5, <1>6 DEF r, m

\* v asks for what b has for each of n names.
Asks(v, n, names, b) ==
    Len(v) = n /\ \A i \in 1..n : v[i] = SubscribeMsg(b[names[i]])

\* New SubStates are asked for, or as before, or of nothing.
Differ(n, names, old, new) ==
    \A m \in PanelNames : (\A i \in 1..n : names[i] # m) => new[m] \in {old[m], NoSub}

LEMMA AfterSubscribes ==
    ASSUME NEW old, NEW new, NEW n \in Nat, NEW names \in [1..n -> PanelNames],
           NEW v, Asks(v, n, names, new), Differ(n, names, old, new), BoundApart(new),
           NEW f, Follows("hub", f, 0, v), AllHold(f[0], old)
    PROVE  AllHold(f[n], new)
<1> DEFINE Done(i, m) == (\E j \in 1..i : names[j] = m) \/ (\A j \in 1..n : names[j] # m)
           Good(i) == \A m \in PanelNames : Done(i, m) => Holds(f[i], new[m])
           Bad == {i \in Nat : i <= n /\ ~Good(i)}
<1>1. Good(0)
  <2> SUFFICES ASSUME NEW m \in PanelNames, Done(0, m) PROVE Holds(f[0], new[m])
    OBVIOUS
  <2>1. new[m] \in {old[m], NoSub}
    BY DEF Differ
  <2>2. Holds(f[0], NoSub)
    BY DEF Holds, NoSub
  <2>3. Holds(f[0], old[m])
    BY DEF AllHold
  <2> QED
    BY <2>1, <2>2, <2>3
<1>2. ASSUME NEW i \in Nat, i < n, Good(i)
      PROVE  Good(i + 1)
  <2> SUFFICES ASSUME NEW m \in PanelNames, Done(i + 1, m) PROVE Holds(f[i + 1], new[m])
    OBVIOUS
  <2> DEFINE s == new[names[i + 1]]
  <2>1. i + 1 \in 1..n /\ 0 + (i + 1) = i + 1 /\ 0 + (i + 1) - 1 = i
    BY <1>2
  <2>2. f[i + 1] = Turned("hub", f[i], SubscribeMsg(s))
    BY <2>1 DEF Follows, Asks
  <2>3. CASE names[i + 1] = m
    BY <2>2, <2>3, GrantOne
  <2>4. CASE names[i + 1] # m
    <3>1. Done(i, m)
      <4>1. 1..(i + 1) = 1..i \cup {i + 1}
        BY <1>2
      <4> QED
        BY <2>4, <4>1
    <3>2. Holds(f[i], new[m])
      BY <1>2, <3>1
    <3>3. new[m].boundId = NoId \/ new[m].boundId # s.boundId
      BY <2>1, <2>4 DEF BoundApart
    <3>4. CASE new[m].boundId = NoId
      BY <3>4 DEF Holds
    <3>5. CASE new[m].boundId # s.boundId
      BY <2>2, <3>2, <3>5, GrantOne
    <3> QED
      BY <3>3, <3>4, <3>5
  <2> QED
    BY <2>3, <2>4
<1>3. Bad = {}
  <2> SUFFICES ASSUME Bad # {} PROVE FALSE
    OBVIOUS
  <2> HIDE DEF Good
  <2>1. PICK k \in Bad : \A j \in Bad : k <= j
    BY LeastThereIs
  <2>2. k # 0
    BY <1>1
  <2>3. k - 1 \in Nat /\ k - 1 < n /\ Good(k - 1)
    BY <2>1, <2>2
  <2>4. Good((k - 1) + 1)
    BY <2>3, <1>2
  <2> QED
    BY <2>1, <2>3, <2>4
<1>4. Good(n)
  <2> HIDE DEF Good
  <2> QED
    BY <1>3
<1> QED
  BY <1>4 DEF AllHold

\* A set of names as a sequence: each of them is in it.
LEMMA SetToSeqFacts ==
    ASSUME NEW S \in SUBSET PanelNames
    PROVE  \E n \in Nat : /\ SetToSeq(S) \in [1..n -> S]
                          /\ \A x \in S : \E i \in 1..n : SetToSeq(S)[i] = x
<1> DEFINE n == Cardinality(S)
           s == SetToSeq(S)
<1>1. IsFiniteSet(S)
  BY HubClientAssumption, FS_Subset
<1>2. n \in Nat /\ ExistsBijection(1..n, S)
  BY <1>1, FS_CardinalityType
<1>3. \E f \in [1..n -> S] : IsInjective(f)
  <2>1. PICK f \in Bijection(1..n, S) : TRUE
    BY <1>2 DEF ExistsBijection
  <2>2. f \in [1..n -> S] /\ IsInjective(f)
    BY <2>1 DEF Bijection, Injection
  <2> QED
    BY <2>2
<1>4. s \in [1..n -> S] /\ IsInjective(s)
  BY <1>3 DEF SetToSeq
<1> HIDE DEF s
<1>5. s \in Injection(1..n, S)
  BY <1>4, Fun_IsInj DEF IsInjective
<1>6. Cardinality(1..n) = n
  <2>1. Cardinality(1..n) = IF 1 > n THEN 0 ELSE n - 1 + 1
    BY <1>2, FS_Interval
  <2> QED
    BY <1>2, <2>1
<1>7. s \in Surjection(1..n, S)
  BY <1>1, <1>5, <1>6, FS_Injection
<1>8. \A x \in S : \E i \in 1..n : s[i] = x
  BY <1>7 DEF Surjection
<1> QED
  BY <1>2, <1>4, <1>8 DEF s

\* If the hub has what b stands for, it has what c stands for after v.
Renews(v, b, c) ==
    \A f : Follows("hub", f, 0, v) => (AllHold(f[0], b) => AllHold(f[Len(v)], c))

Queued(u) == \E M : u \in Seq(M)

BatchOf(S, b) == [i \in 1..Len(SetToSeq(S)) |-> SubscribeMsg(b[SetToSeq(S)[i]])]

LEMMA BatchRenews ==
    ASSUME NEW S \in SUBSET PanelNames, NEW new
    PROVE  /\ Queued(BatchOf(S, new))
           /\ \A old : BoundApart(new) /\ (\A m \in PanelNames \ S : new[m] \in {old[m], NoSub})
                         => Renews(BatchOf(S, new), old, new)
<1> DEFINE names == SetToSeq(S)
           v == BatchOf(S, new)
<1>1. PICK n \in Nat : /\ names \in [1..n -> S]
                       /\ \A x \in S : \E i \in 1..n : names[i] = x
  BY SetToSeqFacts
<1>2. names \in [1..n -> PanelNames] /\ Len(names) = n
  <2> HIDE DEF names
  <2> QED
    BY <1>1
<1>3. v = [i \in 1..n |-> SubscribeMsg(new[names[i]])]
  BY <1>2 DEF BatchOf
<1> HIDE DEF names, v
<1>4. v \in Seq({SubscribeMsg(new[m]) : m \in PanelNames}) /\ Len(v) = n
  <2>1. v \in [1..n -> {SubscribeMsg(new[m]) : m \in PanelNames}]
    BY <1>2, <1>3
  <2> QED
    BY <2>1
<1>5. Asks(v, n, names, new)
  BY <1>3, <1>4 DEF Asks
<1>6. ASSUME NEW old, BoundApart(new), \A m \in PanelNames \ S : new[m] \in {old[m], NoSub}
      PROVE  Renews(v, old, new)
  <2>1. Differ(n, names, old, new)
    BY <1>1, <1>6 DEF Differ
  <2> QED
    BY <1>2, <1>4, <1>5, <1>6, <2>1, AfterSubscribes DEF Renews
<1>7. Queued(v)
  BY <1>4 DEF Queued
<1> QED
  BY <1>6, <1>7 DEF v

\* Taking back what one name stood for.
LEMMA UnsubscribeRenews ==
    ASSUME NEW b, NEW c, NEW n \in PanelNames, BoundApart(b), c[n] = NoSub,
           b[n].boundId # NoId,
           \A m \in PanelNames : m # n => c[m] = b[m]
    PROVE  Renews(<<UnsubscribeMsg(b[n])>>, b, c) /\ Queued(<<UnsubscribeMsg(b[n])>>)
<1> DEFINE r == UnsubscribeMsg(b[n])
           v == <<r>>
<1>1. r.op = "unsubscribe" /\ r.id = b[n].boundId
  BY DEF UnsubscribeMsg
<1> HIDE DEF r
<1>2. v \in Seq({r}) /\ Len(v) = 1 /\ v[1] = r
  OBVIOUS
<1> HIDE DEF v
<1>3. ASSUME NEW f, Follows("hub", f, 0, v), AllHold(f[0], b), NEW m \in PanelNames
      PROVE  Holds(f[1], c[m])
  <2>1. f[0 + 1] = Turned("hub", f[0 + 1 - 1], v[1])
    BY <1>2, <1>3 DEF Follows
  <2>5. f[1] = Turned("hub", f[0], r)
    BY <1>2, <2>1
  <2>6. Turned("hub", f[0], r) = MapDelete(f[0], {r.id})
    BY <1>1 DEF Turned, Granted
  <2>2. f[1] = MapDelete(f[0], {b[n].boundId})
    BY <1>1, <2>5, <2>6
  <2>3. CASE m = n
    BY <2>3 DEF Holds, NoSub
  <2>4. CASE m # n
    <3>1. c[m] = b[m] /\ (b[m].boundId = NoId \/ b[m].boundId # b[n].boundId)
      BY <2>4 DEF BoundApart
    <3>2. Holds(f[0], b[m])
      BY <1>3 DEF AllHold
    <3> QED
      BY <2>2, <3>1, <3>2 DEF Holds, MapDelete
  <2> QED
    BY <2>3, <2>4
<1>4. Renews(v, b, c)
  BY <1>2, <1>3 DEF Renews, AllHold
<1> QED
  BY <1>2, <1>4 DEF Queued, v, r

-----------------------------------------------------------------------------
(* Requests that are under way.                                            *)

\* However the hub handles the requests u, it comes to have what b stands for.
AskedOf(rates, u, b) ==
    \A f : Reads("hub", f, rates, u) => AllHold(f[Len(u)], b)

LEMMA SendAsks ==
    ASSUME NEW rates, NEW M, NEW u \in Seq(M), NEW v \in Seq(M), NEW b, NEW c,
           AskedOf(rates, u, b), Renews(v, b, c)
    PROVE  AskedOf(rates, u \o v, c)
<1> SUFFICES ASSUME NEW f, Reads("hub", f, rates, u \o v)
             PROVE  AllHold(f[Len(u \o v)], c)
  BY DEF AskedOf
<1>1. PICK g : Reads("hub", g, rates, u) /\ Agree(g, f, Len(u), 0)
  BY ReadsBefore
<1>2. Follows("hub", f, Len(u), v)
  BY ReadsAfter
<1>3. Len(u) \in Nat /\ Len(v) \in Nat /\ Len(u \o v) = Len(u) + Len(v)
  OBVIOUS
<1>4. AllHold(f[Len(u)], b)
  <2>1. Len(u) \in 0..Len(u) /\ Len(u) + 0 = Len(u)
    BY <1>3
  <2>2. g[Len(u)] = f[Len(u)]
    BY <1>1, <2>1 DEF Agree
  <2> QED
    BY <1>1, <2>2 DEF AskedOf
<1> DEFINE e == [i \in 0..Len(v) |-> f[Len(u) + i]]
<1>5. AllHold(e[0], b)
  BY <1>3, <1>4
<1>6. Follows("hub", e, 0, v)
  <2> SUFFICES ASSUME NEW i \in 1..Len(v)
               PROVE  e[0 + i] = Turned("hub", e[0 + i - 1], v[i])
    BY DEF Follows
  <2>1. /\ i \in 0..Len(v) /\ i - 1 \in 0..Len(v)
        /\ Len(u) + (i - 1) = Len(u) + i - 1 /\ 0 + i = i
    BY <1>3
  <2> QED
    BY <1>2, <2>1 DEF Follows
<1>7. e[Len(v)] = f[Len(u) + Len(v)]
  BY <1>3
<1> HIDE DEF e
<1> QED
  BY <1>3, <1>5, <1>6, <1>7 DEF Renews

\* The hub handles the first of them.
LEMMA HandleAsks ==
    ASSUME NEW rates, NEW M, NEW u \in Seq(M), u # <<>>, NEW b, AskedOf(rates, u, b)
    PROVE  AskedOf(Turned("hub", rates, Head(u)), Tail(u), b)
<1> SUFFICES ASSUME NEW f, Reads("hub", f, Turned("hub", rates, Head(u)), Tail(u))
             PROVE  AllHold(f[Len(Tail(u))], b)
  BY DEF AskedOf
<1>1. PICK g : Reads("hub", g, rates, u) /\ Agree(g, f, Len(Tail(u)), 1)
  BY ReadsFirst
<1>2. Len(Tail(u)) \in 0..Len(Tail(u)) /\ Len(Tail(u)) + 1 = Len(u)
  OBVIOUS
<1> QED
  BY <1>1, <1>2 DEF Agree, AskedOf

LEMMA QueuedFacts ==
    ASSUME NEW u, Queued(u), NEW v, Queued(v)
    PROVE  /\ \E M : u \in Seq(M) /\ v \in Seq(M)
           /\ Queued(u \o v)
           /\ u # <<>> => Queued(Tail(u))
<1>1. PICK A : u \in Seq(A)
  BY DEF Queued
<1>2. PICK B : v \in Seq(B)
  BY DEF Queued
<1> DEFINE M == A \cup B
<1>3. u \in Seq(M) /\ v \in Seq(M)
  <2>1. u \in [1..Len(u) -> M] /\ Len(u) \in Nat
    BY <1>1
  <2>2. v \in [1..Len(v) -> M] /\ Len(v) \in Nat
    BY <1>2
  <2> HIDE DEF M
  <2> QED
    BY <2>1, <2>2
<1> HIDE DEF M
<1>4. u \o v \in Seq(M) /\ (u # <<>> => Tail(u) \in Seq(M))
  BY <1>3
<1> QED
  BY <1>3, <1>4 DEF Queued

-----------------------------------------------------------------------------
(* The inductive invariant of the bindings.                                *)

\* What bindSub makes of a name, given the panels and the directory.
Binding(w, d, n) ==
    IF EntriesOf(w, n) = {} \/ n \notin DOMAIN d.nameToId THEN NoSub
    ELSE [boundId |-> d.nameToId[n], sentMaxHz |-> EffectiveMaxHz(w, n)]

Bound == bound = [n \in PanelNames |-> Binding(want, dir, n)]

BindTypes ==
    /\ \A p \in DOMAIN want : want[p].name \in PanelNames
    /\ DOMAIN subs = Clients /\ DOMAIN up = Clients
    /\ \A c \in Clients : Queued(up[c])

\* The hub's subscriptions of this window (id -> is there a max_hz?).
RatesAt == [g \in DOMAIN subs[sock] |-> subs[sock][g].maxHz]

\* A window that has read its server_info has asked for all it is bound to.
Asked == Linked /\ Welcomed => AskedOf(RatesAt, up[sock], bound)

BindInv == BindTypes /\ Bound /\ Told /\ Asked

LEMMA BindInitInv == SessionInit => BindInv
<1> SUFFICES ASSUME SessionInit PROVE BindInv
  OBVIOUS
<1>1. Told /\ Asked
  BY DEF SessionInit, Told, Asked, Linked
<1>2. want = EmptyMap /\ DOMAIN want = {}
  BY DEF SessionInit, HubClientInit, EmptyMap
<1>3. \A n : EntriesOf(want, n) = {}
  BY <1>2 DEF EntriesOf
<1>4. Bound
  BY <1>3 DEF SessionInit, HubClientInit, Bound, Binding
<1>5. Queued(<<>>)
  <2>1. <<>> \in Seq({})
    OBVIOUS
  <2> QED
    BY <2>1 DEF Queued
<1>6. BindTypes
  BY <1>2, <1>5 DEF SessionInit, Init, BindTypes
<1> QED
  BY <1>1, <1>4, <1>6 DEF BindInv

LEMMA BindingsApart ==
    ASSUME NEW d, Apart(d), NEW w, NEW b, \A n \in PanelNames : b[n] = Binding(w, d, n)
    PROVE  BoundApart(b)
<1>1. ASSUME NEW n \in PanelNames, b[n].boundId # NoId
      PROVE  Leads(d, n, b[n].boundId)
  <2>1. b[n] = Binding(w, d, n) /\ b[n] # NoSub
    BY <1>1 DEF NoSub
  <2>2. /\ n \in DOMAIN d.nameToId
        /\ b[n] = [boundId |-> d.nameToId[n], sentMaxHz |-> EffectiveMaxHz(w, n)]
    BY <2>1 DEF Binding
  <2> QED
    BY <2>2 DEF Leads
<1> QED
  BY <1>1 DEF BoundApart, Apart

\* The messages of bindSub for the names S.
LEMMA ReplyBatch ==
    ASSUME NEW w, NEW d, NEW names \in SUBSET PanelNames, NEW S \in SUBSET names
    PROVE  [i \in 1..Len(SetToSeq(S)) |-> SubscribeMsg(BindSub(w, d, SetToSeq(S)[i]))]
               = BatchOf(S, Rebound(w, d, names))
<1> DEFINE seq == SetToSeq(S)
           b == Rebound(w, d, names)
<1>1. PICK n \in Nat : seq \in [1..n -> S]
  BY SetToSeqFacts
<1>2. b = [x \in PanelNames |-> IF x \in names THEN BindSub(w, d, x) ELSE bound[x]]
  BY DEF Rebound
<1> HIDE DEF seq, b
<1>3. Len(seq) = n
  BY <1>1
<1>4. \A i \in 1..n : b[seq[i]] = BindSub(w, d, seq[i])
  BY <1>1, <1>2
<1>5. [i \in 1..Len(seq) |-> SubscribeMsg(BindSub(w, d, seq[i]))]
          = [i \in 1..Len(seq) |-> SubscribeMsg(b[seq[i]])]
  BY <1>3, <1>4
<1> QED
  BY <1>5 DEF BatchOf, seq, b

\* Requests put on the window's socket.
LEMMA SentTypes ==
    ASSUME BindTypes, want' = want \/ \A p \in DOMAIN want' : want'[p].name \in PanelNames,
           subs' = subs, NEW v, Queued(v),
           up' = up \/ (sock \in Clients /\ up' = [up EXCEPT ![sock] = @ \o v])
    PROVE  BindTypes'
<1>1. \A p \in DOMAIN want' : want'[p].name \in PanelNames
  BY DEF BindTypes
<1>2. \A c \in Clients : Queued(up[c] \o v)
  BY QueuedFacts DEF BindTypes
<1>3. DOMAIN up' = Clients /\ \A c \in Clients : up'[c] \in {up[c], up[c] \o v}
  BY DEF BindTypes
<1>4. \A c \in Clients : Queued(up'[c])
  BY <1>2, <1>3 DEF BindTypes
<1> QED
  BY <1>1, <1>3, <1>4 DEF BindTypes

LEMMA SentAsks ==
    ASSUME BindTypes, sock \in Clients, sock' = sock, subs' = subs, NEW v, Queued(v),
           up' = [up EXCEPT ![sock] = @ \o v], NEW b,
           AskedOf(RatesAt, up[sock], b), Renews(v, b, bound')
    PROVE  AskedOf(RatesAt', up'[sock'], bound')
<1>1. RatesAt' = RatesAt /\ up'[sock'] = up[sock] \o v
  BY DEF RatesAt, BindTypes
<1>2. PICK M : up[sock] \in Seq(M) /\ v \in Seq(M)
  BY QueuedFacts DEF BindTypes
<1>3. AskedOf(RatesAt, up[sock] \o v, bound')
  BY <1>2, SendAsks
<1> QED
  BY <1>1, <1>3

\* bindSub for the names that a message reconciles.
LEMMA ReceivedBound ==
    ASSUME Bound, NEW m \in HubMsgs, ClientReceives(m)
    PROVE  Bound'
<1> DEFINE d == Applied(dir, m)
           names == Reconciled(m)
<1>0. /\ dir' = d /\ want' = want
      /\ bound' = [n \in PanelNames |-> IF n \in names THEN BindSub(want, d, n) ELSE bound[n]]
      /\ \A n \in PanelNames : bound[n] = Binding(want, dir, n)
  BY DEF ClientReceives, Rebound, Bound
<1>1. ASSUME NEW n \in PanelNames, n \in names
      PROVE  BindSub(want, d, n) = Binding(want, d, n)
  <2> HIDE DEF d
  <2> QED
    BY <1>0 DEF BindSub, Binding
<1>2. ASSUME NEW n \in PanelNames, n \notin names
      PROVE  bound[n] = Binding(want, d, n)
  <2>1. m.op = "unadvertise" /\ (n # m.name \/ n \notin DOMAIN dir.nameToId)
    BY <1>2 DEF Reconciled
  <2>2. d = UnadvertiseApplied(dir, m.name)
    BY <2>1 DEF Applied
  <2>3. /\ n \in DOMAIN d.nameToId <=> n \in DOMAIN dir.nameToId
        /\ n \in DOMAIN d.nameToId => d.nameToId[n] = dir.nameToId[n]
    BY <2>1, <2>2 DEF UnadvertiseApplied, MapDelete
  <2> HIDE DEF d
  <2> QED
    BY <1>0, <2>3 DEF Binding
<1> HIDE DEF d, names
<1> QED
  BY <1>0, <1>1, <1>2 DEF Bound

LEMMA AppReceivesBind ==
    ASSUME PanelsApart, SessionInv, SessionInv', BindInv, AppReceives
    PROVE  BindInv'
<1> DEFINE w == wire[sock]
           m == Head(w)
           d == Applied(dir, m)
           names == Reconciled(m)
           S == {n \in names : Sends(want, d, n, m.op = "server_info")}
           v == ReplyTo(m)
<1>0. /\ ClientReceives(m) /\ UNCHANGED <<regVars, conn, sock, subs, want>>
      /\ sock \in Clients /\ w # <<>> /\ w \in Seq(HubMsgs) /\ wire'[sock] = Tail(w)
      /\ up' = [up EXCEPT ![sock] = @ \o v]
  BY DEF SessionInv, SessionTypes, AppReceives, Drain, ClientReceives, Send
<1>1. m \in HubMsgs
  <2>1. w \in Seq(HubMsgs) /\ w # <<>>
    BY <1>0
  <2> HIDE DEF w
  <2> QED
    BY <2>1
<1>2. Bound'
  BY <1>0, <1>1, ReceivedBound DEF BindInv
<1>3. Told'
  BY AppReceivesTold DEF BindInv
<1>4. names \in SUBSET PanelNames /\ S \in SUBSET names
  BY DEF Reconciled
<1>5. bound' = Rebound(want, d, names)
  BY <1>0 DEF ClientReceives
<1>6. v = BatchOf(S, bound')
  <2>1. v = [i \in 1..Len(SetToSeq(S)) |-> SubscribeMsg(BindSub(want, d, SetToSeq(S)[i]))]
    BY DEF ReplyTo, RebindMsgs
  <2> HIDE DEF v, S, names, d
  <2> QED
    BY <1>4, <1>5, <2>1, ReplyBatch
<1>7. \A n \in PanelNames : bound'[n] = Binding(want, d, n)
  BY <1>0, <1>2 DEF Bound, ClientReceives
<1>8. BoundApart(bound') \/ ~(Linked' /\ Welcomed')
  <2>1. (SessionInv /\ Told /\ Linked /\ Welcomed => Apart(dir))'
    BY ApartNow, PTL
  <2>2. dir' = d
    BY <1>0 DEF ClientReceives
  <2> HIDE DEF d
  <2>3. Apart(d) \/ ~(Linked' /\ Welcomed')
    BY <1>3, <2>1, <2>2
  <2> QED
    BY <1>7, <2>3, BindingsApart
<1>9. Queued(v)
  <2> HIDE DEF v, S, names
  <2> QED
    BY <1>4, <1>6, BatchRenews
<1> HIDE DEF v
<1>10. BindTypes'
  BY <1>0, <1>9, SentTypes DEF BindInv
<1>11. ASSUME Linked', Welcomed', NEW b, AskedOf(RatesAt, up[sock], b),
              \A n \in PanelNames \ S : bound'[n] \in {b[n], NoSub}
       PROVE  AskedOf(RatesAt', up'[sock'], bound')
  <2>1. S \in SUBSET PanelNames /\ BoundApart(bound')
    BY <1>4, <1>8, <1>11
  <2> HIDE DEF S, names
  <2>3. \A old : BoundApart(bound') /\ (\A n \in PanelNames \ S : bound'[n] \in {old[n], NoSub})
                    => Renews(BatchOf(S, bound'), old, bound')
    BY <2>1, BatchRenews
  <2>2. Renews(v, b, bound')
    BY <1>6, <1>11, <2>1, <2>3
  <2> QED
    BY <1>0, <1>9, <1>11, <2>2, SentAsks DEF BindInv
<1>12. ASSUME Linked', Welcomed', m.op = "server_info"
       PROVE  AskedOf(RatesAt', up'[sock'], bound')
  <2> DEFINE b == [n \in PanelNames |-> NoSub]
  <2>1. AskedOf(RatesAt, up[sock], b)
    BY DEF AskedOf, AllHold, Holds, NoSub
  <2>2. ASSUME NEW n \in PanelNames \ S PROVE bound'[n] \in {b[n], NoSub}
    <3>1. n \in names
      BY <1>12 DEF Reconciled
    <3>2. ~Sends(want, d, n, m.op = "server_info")
      BY <2>2, <3>1
    <3>3. EntriesOf(want, n) = {} \/ n \notin DOMAIN d.nameToId
      BY <1>12, <3>2 DEF Sends
    <3> HIDE DEF d, S, names
    <3> QED
      BY <1>7, <3>3 DEF Binding
  <2> HIDE DEF b
  <2> QED
    BY <1>11, <1>12, <2>1, <2>2
<1>13. ASSUME Linked', Welcomed', m.op # "server_info"
       PROVE  AskedOf(RatesAt', up'[sock'], bound')
  <2>1. Linked
    BY <1>0, <1>13 DEF Linked
  <2>2. Welcomed
    <3>1. /\ Len(w) \in Nat /\ Len(w) >= 1 /\ Len(Tail(w)) = Len(w) - 1
          /\ w[1] = m
          /\ \A i \in 1..(Len(w) - 1) : Tail(w)[i] = w[i + 1]
      <4> DEFINE x == w
      <4>1. x \in Seq(HubMsgs) /\ x # <<>> /\ m = Head(x)
        BY <1>0
      <4> HIDE DEF x
      <4>2. /\ Len(x) \in Nat /\ Len(x) >= 1 /\ Len(Tail(x)) = Len(x) - 1
            /\ x[1] = Head(x)
            /\ \A i \in 1..(Len(x) - 1) : Tail(x)[i] = x[i + 1]
        BY <4>1
      <4> QED
        BY <4>1, <4>2 DEF x
    <3>2. \A i \in 1..Len(Tail(w)) : Tail(w)[i].op # "server_info"
      BY <1>0, <1>13 DEF Welcomed
    <3> HIDE DEF m
    <3>3. ASSUME NEW i \in 1..Len(w) PROVE w[i].op # "server_info"
      <4>1. CASE i = 1
        BY <1>13, <3>1, <4>1
      <4>2. CASE i # 1
        <5>1. i - 1 \in 1..(Len(w) - 1) /\ (i - 1) + 1 = i
          BY <3>1, <4>2
        <5>2. Tail(w)[i - 1] = w[i] /\ i - 1 \in 1..Len(Tail(w))
          BY <3>1, <5>1
        <5> QED
          BY <3>2, <5>2
      <4> QED
        BY <4>1, <4>2
    <3> QED
      BY <3>3 DEF Welcomed
  <2>3. AskedOf(RatesAt, up[sock], bound)
    BY <2>1, <2>2 DEF BindInv, Asked
  <2>4. ASSUME NEW n \in PanelNames \ S PROVE bound'[n] \in {bound[n], NoSub}
    <3>1. bound' = [x \in PanelNames |-> IF x \in names THEN BindSub(want, d, x) ELSE bound[x]]
      BY <1>5 DEF Rebound
    <3>2. n \notin names \/ ~Sends(want, d, n, m.op = "server_info")
      BY <2>4
    <3> HIDE DEF d, S, names
    <3> QED
      BY <3>1, <3>2 DEF Sends, BindSub
  <2> QED
    BY <1>11, <1>13, <2>3, <2>4
<1> QED
  BY <1>2, <1>3, <1>10, <1>12, <1>13 DEF BindInv, Asked

\* A step that the panels, the requests and the hub's subscriptions take no part in.
LEMMA RestsBind ==
    ASSUME SessionInv, BindInv, UNCHANGED <<clientVars, up, subs>>, Told',
           Linked' /\ Welcomed' => Linked /\ Welcomed /\ sock' = sock
    PROVE  BindInv'
<1>1. Bound' /\ BindTypes'
  BY DEF BindInv, Bound, BindTypes, clientVars
<1>2. ASSUME Linked', Welcomed' PROVE AskedOf(RatesAt', up'[sock'], bound')
  <2>1. /\ sock' = sock /\ up'[sock'] = up[sock] /\ bound' = bound /\ RatesAt' = RatesAt
        /\ AskedOf(RatesAt, up[sock], bound)
    BY <1>2 DEF BindInv, Asked, clientVars, RatesAt
  <2> QED
    BY <2>1
<1> QED
  BY <1>1, <1>2 DEF BindInv, Asked

\* The window's own end, and what the hub has under way to it, stay as they are.
LEMMA QuietWelcome ==
    ASSUME SessionInv, Quiet, Linked'
    PROVE  Linked /\ sock' = sock /\ sock \in Clients /\ (Welcomed' => Welcomed)
<1>1. Linked /\ sock' = sock /\ sock \in Clients /\ wire'[sock] = wire[sock]
  BY DEF Quiet, Linked, SessionInv, SessionTypes
<1> QED
  BY <1>1 DEF Welcomed

LEMMA SourceActsBind ==
    ASSUME Setting, PanelsApart, SessionInv, BindInv, SourceActs
    PROVE  BindInv'
<1>1. /\ SessionInv' /\ StillWelcomed /\ (Quiet \/ Broadcasts)
      /\ \A c \in Clients : conn'[c] = conn[c]
  BY SourceActsSession
<1>2. UNCHANGED <<clientVars, up, sock>>
  BY DEF SourceActs
<1>3. Told'
  BY <1>1, <1>2, QuietTold, BroadcastTold DEF BindInv, clientVars
<1>4. subs' = subs
  <2>1. HttpSources = {}
    BY DEF Setting
  <2> QED
    BY <2>1 DEF SourceActs, SourceConnects, SourceGone, AdvertiseWithoutId, Unadvertise
<1> QED
  BY <1>1, <1>2, <1>3, <1>4, RestsBind DEF StillWelcomed

LEMMA ConnectsBind ==
    ASSUME Setting, SessionInv, BindInv, NEW c \in Clients, Connects(c)
    PROVE  BindInv'
<1>1. Told' /\ ~Welcomed'
  BY ConnectsTold DEF Setting
<1>2. UNCHANGED <<clientVars, up, subs>>
  BY DEF Connects, ClientConnects
<1> QED
  BY <1>1, <1>2, RestsBind

\* A socket that is gone at the hub was another one, or is no longer linked.
LEMMA HubLosesBind ==
    ASSUME SessionInv, BindInv, NEW c \in Clients, HubLosesClient(c)
    PROVE  BindInv'
<1>1. Quiet
  BY HubStepsQuiet
<1>2. Told'
  BY <1>1, QuietTold DEF BindInv
<1>3. /\ UNCHANGED <<clientVars, sock>> /\ conn' = [conn EXCEPT ![c] = "gone"]
      /\ up' = [up EXCEPT ![c] = <<>>]
      /\ subs' = [subs EXCEPT ![c] = [g \in DOMAIN subs[c] |-> ClearSub(subs[c][g])]]
  BY DEF HubLosesClient, ClientGone
<1>4. Queued(<<>>)
  <2>1. <<>> \in Seq({})
    OBVIOUS
  <2> QED
    BY <2>1 DEF Queued
<1>5. BindTypes' /\ Bound'
  BY <1>3, <1>4 DEF BindInv, BindTypes, Bound, clientVars
<1>6. ASSUME Linked', Welcomed' PROVE AskedOf(RatesAt', up'[sock'], bound')
  <2>1. Linked /\ Welcomed /\ sock' = sock /\ sock \in Clients
    BY <1>1, <1>6, QuietWelcome
  <2>2. c # sock
    BY <1>3, <1>6, <2>1 DEF Linked, SessionInv, SessionTypes
  <2>3. subs'[sock] = subs[sock] /\ up'[sock] = up[sock]
    BY <1>3, <2>1, <2>2 DEF BindInv, BindTypes
  <2>4. RatesAt' = RatesAt /\ bound' = bound
    BY <1>3, <2>1, <2>3 DEF RatesAt, clientVars
  <2> QED
    BY <2>1, <2>3, <2>4 DEF BindInv, Asked
<1> QED
  BY <1>2, <1>5, <1>6 DEF BindInv, Asked

\* What the hub makes of a request is what Granted says of it.
LEMMA HubReceivesBind ==
    ASSUME SessionInv, BindInv, NEW c \in Clients, HubReceives(c)
    PROVE  BindInv'
<1>1. Quiet
  BY HubStepsQuiet
<1>2. Told'
  BY <1>1, QuietTold DEF BindInv
<1> DEFINE u == up[c]
           m == Head(u)
           s == [g \in DOMAIN subs[c] |-> subs[c][g].maxHz]
<1>3. /\ UNCHANGED <<clientVars, sock>> /\ u # <<>> /\ HubHandles(c, m)
      /\ up' = [up EXCEPT ![c] = Tail(u)]
      /\ DOMAIN latchedCache = {} /\ DOMAIN subs = Clients /\ DOMAIN up = Clients
      /\ Queued(u)
  BY DEF HubReceives, SessionInv, SessionTypes, BindInv, BindTypes
<1>4. /\ DOMAIN subs' = Clients /\ \A d \in Clients : d # c => subs'[d] = subs[d]
      /\ [g \in DOMAIN subs'[c] |-> subs'[c][g].maxHz] = Turned("hub", s, m)
  <2>1. CASE m.op = "subscribe" /\ Subscribe(c, m.id, m.hz)
    <3> DEFINE r == Renewed(OldSub(c, m.id), m.hz)
    <3>1. subs' = [subs EXCEPT ![c] = MapSet(subs[c], m.id, r)]
      BY <1>3, <2>1 DEF Subscribe
    <3>2. r.maxHz = m.hz
      BY DEF Renewed
    <3> HIDE DEF r, m
    <3>3. DOMAIN subs' = Clients /\ \A d \in Clients : d # c => subs'[d] = subs[d]
      BY <1>3, <3>1
    <3>4. subs'[c] = MapSet(subs[c], m.id, r)
      BY <1>3, <3>1
    <3>5. /\ DOMAIN subs'[c] = DOMAIN subs[c] \cup {m.id}
          /\ \A g \in DOMAIN subs'[c] :
                subs'[c][g].maxHz = IF g = m.id THEN m.hz ELSE s[g]
      BY <3>2, <3>4 DEF MapSet
    <3>6. Turned("hub", s, m) = MapSet(s, m.id, m.hz)
      BY <2>1 DEF Turned, Granted
    <3>7. MapSet(s, m.id, m.hz) = [g \in DOMAIN subs[c] \cup {m.id} |->
                                      IF g = m.id THEN m.hz ELSE s[g]]
      BY DEF MapSet
    <3>8. [g \in DOMAIN subs'[c] |-> subs'[c][g].maxHz]
              = [g \in DOMAIN subs[c] \cup {m.id} |-> IF g = m.id THEN m.hz ELSE s[g]]
      <4> HIDE DEF s
      <4> QED
        BY <3>5
    <3> QED
      BY <3>3, <3>6, <3>7, <3>8
  <2>2. CASE m.op = "unsubscribe" /\ m.id \in DOMAIN subs[c] /\ Unsubscribe(c, m.id)
    <3>1. subs' = [subs EXCEPT ![c] = MapDelete(subs[c], {m.id})]
      BY <2>2 DEF Unsubscribe
    <3>2. Turned("hub", s, m) = MapDelete(s, {m.id})
      BY <2>2 DEF Turned, Granted
    <3> HIDE DEF m
    <3>3. DOMAIN subs' = Clients /\ \A d \in Clients : d # c => subs'[d] = subs[d]
      BY <1>3, <3>1
    <3>4. subs'[c] = MapDelete(subs[c], {m.id})
      BY <1>3, <3>1
    <3>5. [g \in DOMAIN subs'[c] |-> subs'[c][g].maxHz] = MapDelete(s, {m.id})
      BY <3>4 DEF MapDelete
    <3> QED
      BY <3>2, <3>3, <3>5
  <2>3. CASE m.op = "unsubscribe" /\ m.id \notin DOMAIN subs[c] /\ UNCHANGED brokerVars
    <3>1. subs' = subs
      BY <2>3 DEF brokerVars, hubVars
    <3>2. Turned("hub", s, m) = MapDelete(s, {m.id})
      BY <2>3 DEF Turned, Granted
    <3> HIDE DEF m
    <3>3. MapDelete(s, {m.id}) = s
      BY <2>3 DEF MapDelete
    <3> QED
      BY <1>3, <3>1, <3>2, <3>3
  <2> QED
    BY <1>3, <2>1, <2>2, <2>3 DEF HubHandles
<1> HIDE DEF m, s
<1>5. BindTypes' /\ Bound'
  <2>1. Queued(Tail(u))
    BY <1>3, QueuedFacts
  <2>2. want' = want /\ DOMAIN up' = Clients
    BY <1>3 DEF clientVars
  <2>3. \A d \in Clients : up'[d] = up[d] \/ up'[d] = Tail(u)
    BY <1>3
  <2> HIDE DEF u
  <2>4. BindTypes'
    BY <1>4, <2>1, <2>2, <2>3 DEF BindInv, BindTypes
  <2> QED
    BY <1>3, <2>4 DEF BindInv, Bound, clientVars
<1>6. ASSUME Linked', Welcomed' PROVE AskedOf(RatesAt', up'[sock'], bound')
  <2>1. Linked /\ Welcomed /\ sock' = sock /\ sock \in Clients /\ bound' = bound
    BY <1>1, <1>3, <1>6, QuietWelcome DEF clientVars
  <2>2. AskedOf(RatesAt, up[sock], bound)
    BY <2>1 DEF BindInv, Asked
  <2>3. CASE c # sock
    <3>1. subs'[sock] = subs[sock] /\ up'[sock] = up[sock]
      BY <1>3, <1>4, <2>1, <2>3
    <3>2. RatesAt' = RatesAt
      BY <2>1, <3>1 DEF RatesAt
    <3> QED
      BY <2>1, <2>2, <3>1, <3>2
  <2>4. CASE c = sock
    <3>1. RatesAt = s /\ up'[sock'] = Tail(u)
      BY <1>3, <2>1, <2>4 DEF RatesAt, s
    <3>2. RatesAt' = Turned("hub", s, m)
      BY <1>4, <2>1, <2>4 DEF RatesAt
    <3>3. PICK M : u \in Seq(M)
      BY <1>3 DEF Queued
    <3>4. AskedOf(Turned("hub", s, Head(u)), Tail(u), bound)
      <4>1. AskedOf(s, u, bound)
        BY <2>2, <2>4, <3>1
      <4> HIDE DEF u
      <4> QED
        BY <1>3, <3>3, <4>1, HandleAsks
    <3> QED
      BY <2>1, <3>1, <3>2, <3>4 DEF m
  <2> QED
    BY <2>3, <2>4
<1> QED
  BY <1>2, <1>5, <1>6 DEF BindInv, Asked

LEMMA RestartBind ==
    ASSUME SessionInv, BindInv, HubRestarts
    PROVE  BindInv'
<1>1. ~Linked'
  BY RestartSession
<1>2. UNCHANGED <<clientVars, sock>> /\ up' = [c \in Clients |-> <<>>]
      /\ subs' = [c \in Clients |-> EmptyMap]
  BY DEF HubRestarts
<1>3. Queued(<<>>)
  <2>1. <<>> \in Seq({})
    OBVIOUS
  <2> QED
    BY <2>1 DEF Queued
<1>4. BindTypes' /\ Bound'
  BY <1>2, <1>3 DEF BindInv, BindTypes, Bound, clientVars
<1> QED
  BY <1>1, <1>4 DEF BindInv, Told, Asked

-----------------------------------------------------------------------------
(* A panel subscribes or leaves.                                           *)

\* Only panels of the name n come or go, and some are left.
LEMMA ReboundBound ==
    ASSUME Bound, dir' = dir, NEW n \in PanelNames, EntriesOf(want', n) # {},
           bound' = Rebound(want', dir, {n}),
           \A m \in PanelNames \ {n} :
               /\ EntriesOf(want', m) = EntriesOf(want, m)
               /\ \A p \in EntriesOf(want, m) : want'[p] = want[p]
    PROVE  Bound'
<1>1. bound' = [m \in PanelNames |-> IF m = n THEN BindSub(want', dir, n) ELSE bound[m]]
  BY DEF Rebound
<1>2. BindSub(want', dir, n) = Binding(want', dir, n)
  BY DEF BindSub, Binding
<1>3. ASSUME NEW m \in PanelNames, m # n
      PROVE  bound[m] = Binding(want', dir, m)
  <2>1. EffectiveMaxHz(want', m) = EffectiveMaxHz(want, m)
    <3>1. {want'[p].maxHz : p \in EntriesOf(want', m)} = {want[p].maxHz : p \in EntriesOf(want, m)}
      BY <1>3
    <3> QED
      BY <3>1 DEF EffectiveMaxHz
  <2>2. Binding(want', dir, m) = Binding(want, dir, m)
    BY <1>3, <2>1 DEF Binding
  <2> QED
    BY <2>2 DEF Bound
<1> QED
  BY <1>1, <1>2, <1>3 DEF Bound

LEMMA RebindBatch ==
    ASSUME SessionInv, Told, Bound', dir' = dir,
           NEW n \in PanelNames, bound' = Rebound(want', dir, {n})
    PROVE  LET v == RebindMsgs(want', dir, {n}, FALSE)
           IN  Queued(v) /\ (Linked /\ Welcomed => Renews(v, bound, bound'))
<1> DEFINE S == {m \in {n} : Sends(want', dir, m, FALSE)}
           v == RebindMsgs(want', dir, {n}, FALSE)
<1>1. S \in SUBSET {n} /\ {n} \in SUBSET PanelNames
  OBVIOUS
<1>2. v = BatchOf(S, bound')
  <2>1. v = [i \in 1..Len(SetToSeq(S)) |-> SubscribeMsg(BindSub(want', dir, SetToSeq(S)[i]))]
    BY DEF RebindMsgs
  <2> HIDE DEF v, S
  <2> QED
    BY <1>1, <2>1, ReplyBatch
<1>3. ASSUME NEW m \in PanelNames \ S PROVE bound'[m] \in {bound[m], NoSub}
  <2>1. bound' = [x \in PanelNames |-> IF x \in {n} THEN BindSub(want', dir, x) ELSE bound[x]]
    BY DEF Rebound
  <2>2. m # n \/ ~Sends(want', dir, m, FALSE)
    BY <1>3
  <2> HIDE DEF S
  <2> QED
    BY <2>1, <2>2 DEF Sends, BindSub
<1>4. ASSUME Linked, Welcomed PROVE BoundApart(bound')
  <2>1. Apart(dir)
    BY <1>4, ApartNow
  <2>2. \A m \in PanelNames : bound'[m] = Binding(want', dir, m)
    BY DEF Bound
  <2> QED
    BY <2>1, <2>2, BindingsApart
<1> HIDE DEF S, v
<1>5. /\ Queued(v)
      /\ \A old : BoundApart(bound') /\ (\A m \in PanelNames \ S : bound'[m] \in {old[m], NoSub})
                    => Renews(v, old, bound')
  <2>1. S \in SUBSET PanelNames
    BY <1>1
  <2> QED
    BY <1>2, <2>1, BatchRenews
<1> QED
  BY <1>3, <1>4, <1>5 DEF v

\* What the panels ask for goes on the socket.
LEMMA PanelActsBind ==
    ASSUME SessionInv, BindInv, UNCHANGED <<brokerVars, dir, sock>>, Bound',
           \A p \in DOMAIN want' : want'[p].name \in PanelNames,
           NEW v, Queued(v), Send(v), Linked /\ Welcomed => Renews(v, bound, bound')
    PROVE  BindInv'
<1>1. Quiet /\ subs' = subs
  BY WindowStepsQuiet DEF brokerVars, hubVars
<1>2. Told'
  BY <1>1, QuietTold DEF BindInv
<1>3. up' = up \/ (sock \in Clients /\ up' = [up EXCEPT ![sock] = @ \o v])
  BY DEF Send, SessionInv, SessionTypes
<1>4. BindTypes'
  BY <1>1, <1>3, SentTypes DEF BindInv
<1>5. ASSUME Linked', Welcomed' PROVE AskedOf(RatesAt', up'[sock'], bound')
  <2>1. Linked /\ Welcomed /\ sock' = sock /\ sock \in Clients
    BY <1>1, <1>5, QuietWelcome
  <2>2. up' = [up EXCEPT ![sock] = @ \o v]
    BY <2>1 DEF Send, Linked
  <2>3. AskedOf(RatesAt, up[sock], bound) /\ Renews(v, bound, bound')
    BY <2>1 DEF BindInv, Asked
  <2> QED
    BY <1>1, <2>1, <2>2, <2>3, SentAsks DEF BindInv
<1> QED
  BY <1>2, <1>4, <1>5 DEF BindInv, Asked

LEMMA AppSubscribesBind ==
    ASSUME SessionInv, BindInv, NEW p, NEW n \in PanelNames, NEW hz, AppSubscribes(p, n, hz)
    PROVE  BindInv'
<1> DEFINE v == RebindMsgs(want', dir, {n}, FALSE)
<1>1. /\ UNCHANGED <<brokerVars, dir, sock>> /\ p \notin DOMAIN want
      /\ want' = MapSet(want, p, [name |-> n, maxHz |-> hz])
      /\ bound' = Rebound(want', dir, {n}) /\ Send(v)
  BY DEF AppSubscribes, PanelSubscribes
<1>2. /\ DOMAIN want' = DOMAIN want \cup {p} /\ want'[p].name = n
      /\ \A q \in DOMAIN want : want'[q] = want[q]
  BY <1>1 DEF MapSet
<1> HIDE DEF v
<1>3. \A q \in DOMAIN want' : want'[q].name \in PanelNames
  BY <1>2 DEF BindInv, BindTypes
<1>4. EntriesOf(want', n) # {}
  BY <1>2 DEF EntriesOf
<1>5. ASSUME NEW m \in PanelNames \ {n}
      PROVE  /\ EntriesOf(want', m) = EntriesOf(want, m)
             /\ \A q \in EntriesOf(want, m) : want'[q] = want[q]
  BY <1>1, <1>2 DEF EntriesOf
<1>6. Bound'
  BY <1>1, <1>4, <1>5, ReboundBound DEF BindInv
<1>7. Queued(v) /\ (Linked /\ Welcomed => Renews(v, bound, bound'))
  BY <1>1, <1>6, RebindBatch DEF BindInv, v
<1> QED
  BY <1>1, <1>3, <1>6, <1>7, PanelActsBind

LEMMA AppUnsubscribesBind ==
    ASSUME SessionInv, BindInv, NEW p, AppUnsubscribes(p)
    PROVE  BindInv'
<1> DEFINE n == want[p].name
           v == UnsubscribeMsgs(p)
<1>1. /\ UNCHANGED <<brokerVars, dir, sock>> /\ p \in DOMAIN want
      /\ want' = MapDelete(want, {p}) /\ Send(v)
      /\ bound' = IF IsLast(p) THEN [bound EXCEPT ![n] = NoSub]
                  ELSE Rebound(want', dir, {n})
  BY DEF AppUnsubscribes, PanelUnsubscribes
<1>2. n \in PanelNames
  BY <1>1 DEF BindInv, BindTypes
<1>3. /\ DOMAIN want' = DOMAIN want \ {p}
      /\ \A q \in DOMAIN want' : want'[q] = want[q]
  BY <1>1 DEF MapDelete
<1>4. /\ \A q \in DOMAIN want' : want'[q].name \in PanelNames
      /\ EntriesOf(want', n) = EntriesOf(want, n) \ {p}
  BY <1>3 DEF EntriesOf, BindInv, BindTypes
<1>5. ASSUME NEW m \in PanelNames \ {n}
      PROVE  /\ EntriesOf(want', m) = EntriesOf(want, m)
             /\ \A q \in EntriesOf(want, m) : want'[q] = want[q]
  BY <1>3 DEF EntriesOf
<1>6. Bound /\ bound = [m \in PanelNames |-> Binding(want, dir, m)]
  BY DEF BindInv, Bound
<1>7. CASE ~IsLast(p)
  <2>1. bound' = Rebound(want', dir, {n}) /\ v = RebindMsgs(want', dir, {n}, FALSE)
    BY <1>1, <1>7 DEF UnsubscribeMsgs
  <2>2. EntriesOf(want', n) # {}
    <3>1. EntriesOf(want, n) # {p} /\ p \in EntriesOf(want, n)
      BY <1>1, <1>7 DEF IsLast, EntriesOf
    <3> QED
      BY <1>4, <3>1
  <2> HIDE DEF n, v
  <2>3. Bound'
    BY <1>1, <1>2, <1>5, <1>6, <2>1, <2>2, ReboundBound
  <2>4. Queued(v) /\ (Linked /\ Welcomed => Renews(v, bound, bound'))
    BY <1>1, <1>2, <2>1, <2>3, RebindBatch DEF BindInv
  <2> QED
    BY <1>1, <1>4, <2>3, <2>4, PanelActsBind
<1>8. CASE IsLast(p)
  <2>1. /\ bound' = [bound EXCEPT ![n] = NoSub]
        /\ v = IF bound[n].boundId = NoId THEN <<>> ELSE <<UnsubscribeMsg(bound[n])>>
    BY <1>1, <1>8 DEF UnsubscribeMsgs
  <2>2. EntriesOf(want', n) = {}
    BY <1>4, <1>8 DEF IsLast
  <2> HIDE DEF n, v
  <2>3. /\ bound' = [m \in PanelNames |-> IF m = n THEN NoSub ELSE bound[m]]
        /\ bound'[n] = NoSub /\ \A m \in PanelNames : m # n => bound'[m] = bound[m]
    BY <1>2, <1>6, <2>1
  <2>4. Bound'
    <3>1. Binding(want', dir, n) = NoSub
      BY <2>2 DEF Binding
    <3>2. ASSUME NEW m \in PanelNames, m # n
          PROVE  Binding(want', dir, m) = Binding(want, dir, m)
      <4>1. {want'[q].maxHz : q \in EntriesOf(want', m)}
                = {want[q].maxHz : q \in EntriesOf(want, m)}
        BY <1>5, <3>2
      <4>2. EffectiveMaxHz(want', m) = EffectiveMaxHz(want, m)
        BY <4>1 DEF EffectiveMaxHz
      <4> QED
        BY <1>5, <3>2, <4>2 DEF Binding
    <3> QED
      BY <1>1, <1>6, <2>3, <3>1, <3>2 DEF Bound
  <2>5. CASE bound[n].boundId = NoId
    <3>1. v = <<>> /\ Len(v) = 0
      BY <2>1, <2>5
    <3>2. Queued(v)
      <4>1. <<>> \in Seq({})
        OBVIOUS
      <4> QED
        BY <3>1, <4>1 DEF Queued
    <3>3. \A rates : AllHold(rates, bound) => AllHold(rates, bound')
      BY <2>3 DEF AllHold, Holds, NoSub
    <3>4. Renews(v, bound, bound')
      BY <3>1, <3>3 DEF Renews
    <3> QED
      BY <1>1, <1>4, <2>4, <3>2, <3>4, PanelActsBind
  <2>6. CASE bound[n].boundId # NoId
    <3>1. v = <<UnsubscribeMsg(bound[n])>>
      BY <2>1, <2>6
    <3>2. Queued(<<UnsubscribeMsg(bound[n])>>)
      <4>1. <<UnsubscribeMsg(bound[n])>> \in Seq({UnsubscribeMsg(bound[n])})
        OBVIOUS
      <4> QED
        BY <4>1 DEF Queued
    <3>3. ASSUME Linked, Welcomed PROVE Renews(v, bound, bound')
      <4>1. Apart(dir)
        BY <3>3, ApartNow DEF BindInv
      <4>2. BoundApart(bound)
        <5>1. \A m \in PanelNames : bound[m] = Binding(want, dir, m)
          BY <1>6
        <5> QED
          BY <4>1, <5>1, BindingsApart
      <4> QED
        BY <1>2, <2>3, <2>6, <3>1, <4>2, UnsubscribeRenews
    <3> QED
      BY <1>1, <1>4, <2>4, <3>1, <3>2, <3>3, PanelActsBind
  <2> QED
    BY <2>5, <2>6
<1> QED
  BY <1>7, <1>8

\* The window's own end of the socket closing, and stuttering.
LEMMA WindowRestsBind ==
    ASSUME SessionInv, BindInv, UNCHANGED <<brokerVars, clientVars, up>>,
           sock' \in {sock, NoConn}
    PROVE  BindInv'
<1>1. Quiet /\ UNCHANGED <<clientVars, up, subs>>
  BY WindowStepsQuiet DEF brokerVars, hubVars, clientVars
<1>2. Told'
  BY <1>1, QuietTold DEF BindInv
<1> QED
  BY <1>1, <1>2, QuietWelcome, RestsBind

LEMMA BindStepInv ==
    ASSUME Setting, PanelsApart, SessionInv, BindInv, [SessionNext]_sessionVars
    PROVE  BindInv'
<1>1. CASE SourceActs
  BY <1>1, SourceActsBind
<1>2. ASSUME NEW c \in Clients, Connects(c) PROVE BindInv'
  BY <1>2, ConnectsBind
<1>3. ASSUME NEW c \in Clients, HubLosesClient(c) \/ HubReceives(c) PROVE BindInv'
  BY <1>3, HubLosesBind, HubReceivesBind
<1>4. CASE LosesSocket
  BY <1>4, WindowRestsBind DEF LosesSocket
<1>5. CASE AppReceives
  BY <1>5, SessionStepInv, AppReceivesBind
<1>6. CASE HubRestarts
  BY <1>6, RestartBind
<1>7. ASSUME NEW p \in Panels, NEW n \in PanelNames, NEW hz \in Rates, AppSubscribes(p, n, hz)
      PROVE  BindInv'
  BY <1>7, AppSubscribesBind
<1>8. ASSUME NEW p \in Panels, AppUnsubscribes(p) PROVE BindInv'
  BY <1>8, AppUnsubscribesBind
<1>9. CASE UNCHANGED sessionVars
  BY <1>9, WindowRestsBind DEF sessionVars
<1> QED
  BY <1>1, <1>2, <1>3, <1>4, <1>5, <1>6, <1>7, <1>8, <1>9 DEF SessionNext

\* The hub's subscriptions of the model are such a reading, too.
LEMMA GrantedAfterReads ==
    ASSUME NEW M, up[sock] \in Seq(M)
    PROVE  Reads("hub", GrantedAfter, RatesAt, up[sock])
<1>1. \E f : Reads("hub", f, RatesAt, up[sock])
  BY ReadsExists
<1> QED
  BY <1>1 DEF GrantedAfter, Reads, Turned, RatesAt

(***************************************************************************)
(* Once a connected window has read this socket's server_info, every id it *)
(* is bound to is one the hub has it subscribed to, or will when it has    *)
(* handled the requests under way, at the rate last asked for: bindSub,    *)
(* the unsubscribe of the last panel to leave and the forced re-binding    *)
(* after a reconnect never leave a panel with an id that nobody asked for  *)
(* (HubClient.ts 161-205, 355-390, with the hub's subscribe and            *)
(* unsubscribe).  Two names of one channel are the exception that the      *)
(* premise PanelsApart excludes: unsubscribing one takes the id from both. *)
(***************************************************************************)
THEOREM BoundIsSubscribedHolds ==
    ASSUME Setting, PanelsApart
    PROVE  SessionSpec => []BoundIsSubscribed
<1>1. SessionInv /\ BindInv => BoundIsSubscribed
  <2> SUFFICES ASSUME SessionInv, BindInv, Linked, Welcomed,
                      NEW n \in PanelNames, bound[n].boundId # NoId
               PROVE  /\ bound[n].boundId \in DOMAIN Requested
                      /\ Requested[bound[n].boundId] = Capped(bound[n])
    BY DEF BoundIsSubscribed, Capped
  <2>1. sock \in Clients
    BY DEF Linked, SessionInv, SessionTypes
  <2>2. PICK M : up[sock] \in Seq(M)
    BY <2>1 DEF BindInv, BindTypes, Queued
  <2>3. Reads("hub", GrantedAfter, RatesAt, up[sock])
    BY <2>2, GrantedAfterReads
  <2> HIDE DEF GrantedAfter
  <2>4. AllHold(Requested, bound)
    BY <2>3 DEF BindInv, Asked, AskedOf, Requested
  <2> QED
    BY <2>4 DEF AllHold, Holds
<1>2. SessionInv /\ BindInv /\ [SessionNext]_sessionVars => SessionInv' /\ BindInv'
  BY SessionStepInv, BindStepInv
<1> QED
  BY <1>1, <1>2, SessionInitInv, BindInitInv, PTL DEF SessionSpec
=============================================================================
