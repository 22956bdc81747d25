---------------------------- MODULE ClientProofs ----------------------------
(***************************************************************************)
(* What the clients of the hub promise, for any number of threads,         *)
(* channels, renames, configurations and entries: the C++ client writes its*)
(* frames whole and on an open descriptor, the Python consumer takes every *)
(* frame once and under its channel's name, and the controller commands the*)
(* robot to go where the user has sent it.                                 *)
(***************************************************************************)
EXTENDS CppClient, Consumer, JogLoop, SequenceTheorems, TLAPS

-----------------------------------------------------------------------------
(***************************************************************************)
(* The C++ client                                                          *)
(***************************************************************************)

\* Who writes holds the lock.
Exclusive ==
    /\ \A t \in Writers : doing[t] = "writing" <=> sendMtx = t
    /\ sendMtx # Nobody => unsent \in {1, 2}

\* What the last chunk is while the wire works.
LastChunk ==
    peer = "up" /\ fd = "up" =>
        IF sendMtx # Nobody /\ unsent = 1
        THEN wire # <<>> /\ wire[Len(wire)] = [frame |-> frames, part |-> 1]
        ELSE wire = <<>> \/ wire[Len(wire)].part = 2

\* How far close() is.
CloseOrder ==
    /\ closing = "no" => fd = "up"
    /\ closing = "joining" => fd = "shut"
    /\ closing # "no" => ~open
    /\ closing = "done" => doing["reader"] = "done"
    /\ \A t \in Senders : doing[t] \in {"idle", "locking", "writing"}
    /\ joinedCalls /\ closing # "no" => \A t \in Senders : doing[t] # "writing"

CppInv == CppTypeOK /\ Exclusive /\ LastChunk /\ WholeFrames /\ CloseOrder
-----------------------------------------------------------------------------
\* The reader is a writer like the senders, and none of them is Nobody.
LEMMA WritersFacts ==
    /\ "reader" \in Writers /\ "reader" \notin Senders
    /\ Senders \subseteq Writers
    /\ Nobody \notin Writers
BY CppClientAssumption DEF Writers, Nobody

\* What one writev puts on the wire are chunks.
LEMMA WrittenFacts ==
    ASSUME CppTypeOK, NEW n \in 1..unsent
    PROVE  Written(n) \in Seq([frame : Nat, part : {1, 2}])
<1>1. CASE n = 2
  BY <1>1 DEF Written, Chunk, CppTypeOK
<1>2. CASE n # 2
  <2>1. 3 - unsent \in {1, 2}
    BY DEF CppTypeOK
  <2> QED
    BY <1>2, <2>1 DEF Written, Chunk, CppTypeOK
<1> QED
  BY <1>1, <1>2

\* Every step keeps the shapes of the client's variables.
LEMMA TypeStep ==
    ASSUME CppTypeOK, [CppNext]_cppVars
    PROVE  CppTypeOK'
<1>1. ASSUME NEW t \in Senders, CallSend(t)
      PROVE  CppTypeOK'
  BY <1>1, WritersFacts DEF CallSend, CppTypeOK
<1>2. ASSUME NEW t \in Writers, Lock(t)
      PROVE  CppTypeOK'
  BY <1>2, WritersFacts DEF Lock, CppTypeOK
<1>3. ASSUME NEW t \in Writers, WriteFails(t)
      PROVE  CppTypeOK'
  <2>1. Rest(t) \in {"idle", "looping"}
    BY DEF Rest
  <2>2. doing' \in [Writers -> {"idle", "locking", "writing", "looping", "reading", "done"}]
    BY <1>3, <2>1 DEF WriteFails, CppTypeOK
  <2>3. open' \in BOOLEAN /\ sendMtx' = Nobody /\ unsent' = 0
    BY <1>3 DEF WriteFails
  <2>4. UNCHANGED <<fd, peer, frames, wire, inbound, pings, closing, joinedCalls>>
    BY <1>3 DEF WriteFails
  <2> QED
    BY <2>2, <2>3, <2>4 DEF CppTypeOK
<1>4. ASSUME NEW t \in Writers, NEW n \in 1..2, WriteSome(t, n)
      PROVE  CppTypeOK'
  <2>1. wire' \in Seq([frame : Nat, part : {1, 2}])
    BY <1>4, WrittenFacts DEF WriteSome, CppTypeOK
  <2>2. Rest(t) \in {"idle", "looping"}
    BY DEF Rest
  <2>3. unsent' \in 0..2 /\ sendMtx' \in Writers \cup {Nobody}
    BY <1>4 DEF WriteSome, CppTypeOK
  <2>4. doing' \in [Writers -> {"idle", "locking", "writing", "looping", "reading", "done"}]
    BY <1>4, <2>2 DEF WriteSome, CppTypeOK
  <2> QED
    BY <1>4, <2>1, <2>3, <2>4 DEF WriteSome, CppTypeOK
<1>5. CASE LoopHead
  BY <1>5, WritersFacts DEF LoopHead, CppTypeOK
<1>6. CASE Read
  BY <1>6, WritersFacts DEF Read, CppTypeOK
<1>7. CASE ReadFails
  BY <1>7, WritersFacts DEF ReadFails, CppTypeOK
<1>8. CASE CloseBegins
  BY <1>8, WritersFacts DEF CloseBegins, CppTypeOK
<1>9. CASE CloseEnds
  BY <1>9, WritersFacts DEF CloseEnds, CppTypeOK
<1>10. CASE HubPings
  BY <1>10, WritersFacts DEF HubPings, CppTypeOK
<1>11. CASE HubGoes
  BY <1>11, WritersFacts DEF HubGoes, CppTypeOK
<1>12. CASE UNCHANGED cppVars
  BY <1>12 DEF cppVars, CppTypeOK
<1> QED
  BY <1>1, <1>2, <1>3, <1>4, <1>5, <1>6, <1>7, <1>8, <1>9, <1>10, <1>11, <1>12 DEF CppNext

\* Every step keeps the lock with whoever is writing.
LEMMA ExclusiveStep ==
    ASSUME CppTypeOK, Exclusive, [CppNext]_cppVars
    PROVE  Exclusive'
<1>1. ASSUME NEW t \in Senders, CallSend(t)
      PROVE  Exclusive'
  BY <1>1, WritersFacts DEF CallSend, Exclusive, CppTypeOK
<1>2. ASSUME NEW t \in Writers, Lock(t)
      PROVE  Exclusive'
  BY <1>2, WritersFacts DEF Lock, Exclusive, CppTypeOK
<1>3. ASSUME NEW t \in Writers, WriteFails(t)
      PROVE  Exclusive'
  BY <1>3, WritersFacts DEF WriteFails, Rest, Exclusive, CppTypeOK
<1>4. ASSUME NEW t \in Writers, NEW n \in 1..2, WriteSome(t, n)
      PROVE  Exclusive'
  <2>1. unsent' \in 0..1 /\ (unsent' > 0 => unsent' = 1)
    BY <1>4 DEF WriteSome, CppTypeOK
  <2>2. CASE unsent' > 0
    BY <1>4, <2>1, <2>2 DEF WriteSome, Exclusive
  <2>3. CASE ~(unsent' > 0)
    BY <1>4, <2>3, WritersFacts DEF WriteSome, Rest, Exclusive, CppTypeOK
  <2> QED
    BY <2>2, <2>3
<1>5. CASE LoopHead
  BY <1>5, WritersFacts DEF LoopHead, Exclusive, CppTypeOK
<1>6. CASE Read
  BY <1>6, WritersFacts DEF Read, Exclusive, CppTypeOK
<1>7. CASE ReadFails
  BY <1>7, WritersFacts DEF ReadFails, Exclusive, CppTypeOK
<1>8. CASE CloseBegins
  BY <1>8, WritersFacts DEF CloseBegins, Exclusive, CppTypeOK
<1>9. CASE CloseEnds
  BY <1>9, WritersFacts DEF CloseEnds, Exclusive, CppTypeOK
<1>10. CASE HubPings
  BY <1>10, WritersFacts DEF HubPings, Exclusive, CppTypeOK
<1>11. CASE HubGoes
  BY <1>11, WritersFacts DEF HubGoes, Exclusive, CppTypeOK
<1>12. CASE UNCHANGED cppVars
  BY <1>12 DEF cppVars, Exclusive, CppTypeOK
<1> QED
  BY <1>1, <1>2, <1>3, <1>4, <1>5, <1>6, <1>7, <1>8, <1>9, <1>10, <1>11, <1>12 DEF CppNext

\* Every step of a thread, of close() and of the hub keeps to the order in which
\* the client is closed.
LEMMA CloseOrderStep ==
    ASSUME CppTypeOK, CloseOrder, [CppNext]_cppVars
    PROVE  CloseOrder'
<1>1. ASSUME NEW t \in Senders, CallSend(t)
      PROVE  CloseOrder'
  BY <1>1, WritersFacts DEF CallSend, CloseOrder, CppTypeOK
<1>2. ASSUME NEW t \in Writers, Lock(t)
      PROVE  CloseOrder'
  BY <1>2, WritersFacts DEF Lock, CloseOrder, CppTypeOK
<1>3. ASSUME NEW t \in Writers, WriteFails(t)
      PROVE  CloseOrder'
  BY <1>3, WritersFacts DEF WriteFails, Rest, CloseOrder, CppTypeOK
<1>4. ASSUME NEW t \in Writers, NEW n \in 1..2, WriteSome(t, n)
      PROVE  CloseOrder'
  BY <1>4, WritersFacts DEF WriteSome, Rest, Written, Chunk, CloseOrder, CppTypeOK
<1>5. CASE LoopHead
  BY <1>5, WritersFacts DEF LoopHead, CloseOrder, CppTypeOK
<1>6. CASE Read
  BY <1>6, WritersFacts DEF Read, CloseOrder, CppTypeOK
<1>7. CASE ReadFails
  BY <1>7, WritersFacts DEF ReadFails, CloseOrder, CppTypeOK
<1>8. CASE CloseBegins
  BY <1>8, WritersFacts DEF CloseBegins, CloseOrder, CppTypeOK
<1>9. CASE CloseEnds
  BY <1>9, WritersFacts DEF CloseEnds, CloseOrder, CppTypeOK
<1>10. CASE HubPings
  BY <1>10, WritersFacts DEF HubPings, CloseOrder, CppTypeOK
<1>11. CASE HubGoes
  BY <1>11, WritersFacts DEF HubGoes, CloseOrder, CppTypeOK
<1>12. CASE UNCHANGED cppVars
  BY <1>12 DEF cppVars, CloseOrder, CppTypeOK
<1> QED
  BY <1>1, <1>2, <1>3, <1>4, <1>5, <1>6, <1>7, <1>8, <1>9, <1>10, <1>11, <1>12 DEF CppNext

\* A chunk goes out only behind the one before it.
LEMMA WireStep ==
    ASSUME CppTypeOK, Exclusive, CloseOrder, LastChunk, WholeFrames, [CppNext]_cppVars
    PROVE  LastChunk' /\ WholeFrames'
<1>1. CASE UNCHANGED <<wire, fd, peer, sendMtx, unsent, frames>>
  BY <1>1 DEF LastChunk, WholeFrames
<1>2. ASSUME NEW t \in Writers, Lock(t)
      PROVE  LastChunk' /\ WholeFrames'
  <2>1. sendMtx = Nobody /\ wire' = wire /\ fd' = fd /\ peer' = peer
    BY <1>2 DEF Lock
  <2>2. peer = "up" /\ fd = "up" => wire = <<>> \/ wire[Len(wire)].part = 2
    BY <2>1 DEF LastChunk
  <2>3. sendMtx' = Nobody \/ unsent' = 2
    BY <1>2, <2>1 DEF Lock
  <2> QED
    BY <2>1, <2>2, <2>3 DEF LastChunk, WholeFrames
<1>3. ASSUME NEW t \in Writers, WriteFails(t)
      PROVE  LastChunk' /\ WholeFrames'
  BY <1>3 DEF WriteFails, LastChunk, WholeFrames, CppTypeOK
<1>4. ASSUME NEW t \in Writers, NEW n \in 1..2, WriteSome(t, n)
      PROVE  LastChunk' /\ WholeFrames'
  <2>1. sendMtx = t /\ sendMtx # Nobody /\ fd = "up" /\ fd' = fd /\ peer' = peer
        /\ frames' = frames
    BY <1>4, WritersFacts DEF WriteSome, Exclusive
  <2>2. CASE peer # "up"
    BY <1>4, <2>1, <2>2 DEF WriteSome, LastChunk, WholeFrames
  <2>3. CASE peer = "up" /\ unsent = 1
    <3>1. wire' = Append(wire, Chunk(2)) /\ unsent' = 0 /\ sendMtx' = Nobody
      BY <1>4, <2>1, <2>3 DEF WriteSome, Written, CppTypeOK, Chunk
    <3>2. wire # <<>> /\ wire[Len(wire)] = [frame |-> frames, part |-> 1]
      BY <2>1, <2>3 DEF LastChunk
    <3> QED
      BY <2>1, <3>1, <3>2 DEF LastChunk, WholeFrames, Chunk, CppTypeOK
  <2>4. CASE peer = "up" /\ unsent = 2 /\ n = 1
    <3>1. wire' = Append(wire, Chunk(1)) /\ unsent' = 1 /\ sendMtx' = sendMtx
      BY <1>4, <2>1, <2>4 DEF WriteSome, Written, CppTypeOK, Chunk
    <3>2. wire = <<>> \/ wire[Len(wire)].part = 2
      BY <2>1, <2>4 DEF LastChunk
    <3> QED
      BY <2>1, <3>1, <3>2 DEF LastChunk, WholeFrames, Chunk, CppTypeOK
  <2>5. CASE peer = "up" /\ unsent = 2 /\ n = 2
    <3>1. wire' = Append(Append(wire, Chunk(1)), Chunk(2)) /\ unsent' = 0 /\ sendMtx' = Nobody
      BY <1>4, <2>1, <2>5 DEF WriteSome, Written, CppTypeOK, Chunk
    <3>2. wire = <<>> \/ wire[Len(wire)].part = 2
      BY <2>1, <2>5 DEF LastChunk
    <3>3. /\ wire \in Seq([frame : Nat, part : {1, 2}])
          /\ Chunk(1) = [frame |-> frames, part |-> 1]
          /\ Chunk(2) = [frame |-> frames, part |-> 2]
          /\ Chunk(1) \in [frame : Nat, part : {1, 2}]
          /\ Chunk(2) \in [frame : Nat, part : {1, 2}]
      BY DEF Chunk, CppTypeOK
    <3>4. /\ Len(wire') = Len(wire) + 2
          /\ \A i \in 1..Len(wire) : wire'[i] = wire[i]
          /\ wire'[Len(wire) + 1] = Chunk(1) /\ wire'[Len(wire) + 2] = Chunk(2)
          /\ wire' # <<>> /\ DOMAIN wire' = 1..(Len(wire) + 2)
      BY <3>1, <3>3
    <3>5. LastChunk'
      BY <2>1, <3>1, <3>3, <3>4 DEF LastChunk
    <3>6. ASSUME NEW i \in DOMAIN wire'
          PROVE  /\ i > 1 /\ wire'[i].part = 1 => wire'[i - 1].part = 2
                 /\ wire'[i].part = 2 =>
                      i > 1 /\ wire'[i - 1] = [frame |-> wire'[i].frame, part |-> 1]
      <4>1. CASE i \in 1..Len(wire)
        BY <3>3, <3>4, <4>1 DEF WholeFrames
      <4>2. CASE i = Len(wire) + 1
        BY <3>2, <3>3, <3>4, <4>2
      <4>3. CASE i = Len(wire) + 2
        BY <3>3, <3>4, <4>3
      <4> QED
        BY <3>3, <3>4, <4>1, <4>2, <4>3
    <3> QED
      BY <3>5, <3>6 DEF WholeFrames
  <2> QED
    BY <1>4, <2>1, <2>2, <2>3, <2>4, <2>5 DEF WriteSome, Exclusive, CppTypeOK
<1>5. ASSUME CloseBegins \/ HubGoes
      PROVE  LastChunk' /\ WholeFrames'
  BY <1>5 DEF CloseBegins, HubGoes, LastChunk, WholeFrames
<1>6. CASE CloseEnds
  BY <1>6 DEF CloseEnds, CloseOrder, LastChunk, WholeFrames
<1>7. ASSUME NEW t \in Senders, CallSend(t)
      PROVE  UNCHANGED <<wire, fd, peer, sendMtx, unsent, frames>>
  BY <1>7 DEF CallSend
<1>8. CASE LoopHead \/ Read \/ ReadFails \/ HubPings \/ UNCHANGED cppVars
  BY <1>1, <1>8 DEF LoopHead, Read, ReadFails, HubPings, cppVars
<1> QED
  BY <1>1, <1>2, <1>3, <1>4, <1>5, <1>6, <1>7, <1>8 DEF CppNext

-----------------------------------------------------------------------------
\* CppInv is inductive.
THEOREM CppInvariant == CppSpec => []CppInv
<1>1. CppInit => CppInv
  BY WritersFacts DEF CppInit, CppInv, CppTypeOK, Exclusive, LastChunk, WholeFrames, CloseOrder
<1>2. CppInv /\ [CppNext]_cppVars => CppInv'
  BY TypeStep, ExclusiveStep, CloseOrderStep, WireStep DEF CppInv
<1> QED
  BY <1>1, <1>2, PTL DEF CppSpec

\* However many threads send, answer pings and close the client, frames leave
\* whole and one after the other (client.hpp 425-445).
THEOREM CppWholeFrames == CppSpec => []WholeFrames
<1>1. CppInv => WholeFrames
  BY DEF CppInv
<1> QED
  BY <1>1, CppInvariant, PTL

\* If close() is not called during a send, no thread reads from or writes to the
\* descriptor after it is closed (client.hpp 354-365).
THEOREM CppClosedFdUnused == CppSpec => []ClosedFdUnused
<1>1. CppInv => ClosedFdUnused
  BY WritersFacts DEF CppInv, CppTypeOK, CloseOrder, ClosedFdUnused, UsesFd, Writers
<1> QED
  BY <1>1, CppInvariant, PTL

-----------------------------------------------------------------------------
(***************************************************************************)
(* The Python consumer                                                     *)
(***************************************************************************)

ConsumerSpec == ConsumerInit /\ [][ConsumerNext]_consumerVars

HubMessages ==
    [op : {"advertise", "unadvertise", "message"}, id : 0..MaxChannels, name : ChannelNames]

ConsumerTypes ==
    /\ hubName \in [ChannelIds -> ChannelNames \cup {"new", "gone"}]
    /\ hubSubs \in [ChannelIds -> Nat]
    /\ inbox \in Seq(HubMessages)
    /\ \A p \in 1 .. Len(inbox) : inbox[p].op # "unadvertise" => inbox[p].id \in ChannelIds
    /\ \A n \in DOMAIN nameToId : nameToId[n] \in ChannelIds
    /\ at \in [Threads -> [do : {"idle", "ensure", "send"}, id : 0..MaxChannels]]
    /\ \A t \in Threads : at[t].do # "idle" => at[t].id \in ChannelIds

\* A public name is one channel's.
NamesUnique ==
    \A i, j \in ChannelIds : hubName[i] \in ChannelNames /\ hubName[i] = hubName[j] => i = j

\* A channel that has not ended was asked for at most once, counting who is
\* about to, and only if that is noted.
AskedOnce ==
    \A i \in ChannelIds : hubName[i] # "gone" =>
        /\ hubSubs[i] <= 1
        /\ i \notin subscribed => hubSubs[i] = 0
        /\ \A t \in Threads : at[t] = AboutTo("send", i) => i \in subscribed /\ hubSubs[i] = 0
        /\ at["caller"] = AboutTo("send", i) => at["reader"] # AboutTo("send", i)

\* Messages about who has name n, and which name channel i has.
OfName(m, n) == m.op \in {"advertise", "unadvertise"} /\ m.name = n
OfChannel(m, i) == m.op = "advertise" /\ m.id = i

\* Once the reader is past the first p messages, name n is channel i's.
HolderThen(n, p, i) ==
    \/ \E q \in 1..p : inbox[q] = Adv(i, n) /\ \A r \in q + 1 .. p : ~OfName(inbox[r], n)
    \/ /\ \A r \in 1..p : ~OfName(inbox[r], n)
       /\ n \in DOMAIN nameToId /\ nameToId[n] = i

\* ... and channel i, if it is known, has name n.
NameThen(i, p, n) ==
    \/ \E q \in 1..p : inbox[q] = Adv(i, n) /\ \A r \in q + 1 .. p : ~OfChannel(inbox[r], i)
    \/ /\ \A r \in 1..p : ~OfChannel(inbox[r], i)
       /\ i \in DOMAIN byId => byId[i] = n

\* What the reader has after all that is on its way is what the hub says now; a
\* name that ends is then that of a channel that has ended; and a frame comes
\* under the name its channel then has.
OnTheWay ==
    \A p \in 0 .. Len(inbox), n \in ChannelNames :
        /\ p = Len(inbox) =>
              \A i \in ChannelIds : hubName[i] = n => HolderThen(n, p, i) /\ NameThen(i, p, n)
        /\ p < Len(inbox) /\ inbox[p + 1].op = "unadvertise" /\ inbox[p + 1].name = n =>
              \E i \in ChannelIds : hubName[i] = "gone" /\ HolderThen(n, p, i)
        /\ p < Len(inbox) /\ inbox[p + 1].op = "message" /\ inbox[p + 1].name = n =>
              \A i \in ChannelIds : inbox[p + 1].id = i => NameThen(i, p, n)

ConsumerInv == ConsumerTypes /\ NamesUnique /\ AskedOnce /\ OnTheWay /\ DeliveredOnce
-----------------------------------------------------------------------------
LEMMA ConsumerInitHolds == ConsumerInit => ConsumerInv
<1> SUFFICES ASSUME ConsumerInit PROVE ConsumerInv
  OBVIOUS
<1>1. ConsumerTypes
  BY ConsumerAssumption DEF ConsumerInit, ConsumerTypes, EmptyMap, Idle, Threads
<1>2. \A i \in ChannelIds : hubName[i] \notin ChannelNames /\ hubSubs[i] = 0
  BY ConsumerAssumption DEF ConsumerInit
<1>3. \A t \in Threads : at[t].do # "send"
  BY DEF ConsumerInit, Idle
<1>4. NamesUnique /\ AskedOnce /\ OnTheWay /\ DeliveredOnce
  <2>1. Len(inbox) = 0 /\ routed = {}
    BY DEF ConsumerInit
  <2>2. NamesUnique /\ DeliveredOnce
    BY <1>2, <2>1 DEF NamesUnique, DeliveredOnce
  <2>3. AskedOnce
    BY <1>2, <1>3 DEF AskedOnce, AboutTo, Threads
  <2>4. OnTheWay
    <3>1. \A p \in 0 .. Len(inbox) : ~(p < Len(inbox))
      BY <2>1
    <3> QED
      BY <1>2, <3>1 DEF OnTheWay
  <2> QED
    BY <2>2, <2>3, <2>4
<1> QED
  BY <1>1, <1>4 DEF ConsumerInv

\* A message of the hub goes behind what is on its way.
LEMMA Sent ==
    ASSUME ConsumerTypes, NEW m \in HubMessages, inbox' = Append(inbox, m)
    PROVE  /\ inbox' \in Seq(HubMessages)
           /\ Len(inbox) \in Nat /\ Len(inbox') = Len(inbox) + 1
           /\ \A p \in 1 .. Len(inbox) : inbox'[p] = inbox[p]
           /\ inbox'[Len(inbox) + 1] = m
BY AppendProperties DEF ConsumerTypes

LEMMA SentHolder ==
    ASSUME ConsumerTypes, NEW m \in HubMessages, inbox' = Append(inbox, m),
           UNCHANGED nameToId, NEW n, NEW i, NEW p \in 0 .. Len(inbox), HolderThen(n, p, i)
    PROVE  /\ HolderThen(n, p, i)'
           /\ p = Len(inbox) /\ ~OfName(m, n) => HolderThen(n, p + 1, i)'
<1>1. /\ Len(inbox) \in Nat /\ Len(inbox') = Len(inbox) + 1
      /\ \A q \in 1 .. Len(inbox) : inbox'[q] = inbox[q]
      /\ inbox'[Len(inbox) + 1] = m
  BY Sent
<1>2. CASE \E q \in 1..p : inbox[q] = Adv(i, n) /\ \A r \in q + 1 .. p : ~OfName(inbox[r], n)
  <2>1. PICK q \in 1..p : inbox[q] = Adv(i, n) /\ \A r \in q + 1 .. p : ~OfName(inbox[r], n)
    BY <1>2
  <2>2. inbox'[q] = Adv(i, n) /\ \A r \in q + 1 .. p : ~OfName(inbox'[r], n)
    BY <1>1, <2>1
  <2>3. p = Len(inbox) /\ ~OfName(m, n) => \A r \in q + 1 .. p + 1 : ~OfName(inbox'[r], n)
    BY <1>1, <2>2
  <2> QED
    BY <1>1, <2>2, <2>3 DEF HolderThen, OfName, Adv
<1>3. CASE /\ \A r \in 1..p : ~OfName(inbox[r], n)
           /\ n \in DOMAIN nameToId /\ nameToId[n] = i
  <2>1. \A r \in 1..p : ~OfName(inbox'[r], n)
    BY <1>1, <1>3
  <2>2. p = Len(inbox) /\ ~OfName(m, n) => \A r \in 1 .. p + 1 : ~OfName(inbox'[r], n)
    BY <1>1, <2>1
  <2> QED
    BY <1>3, <2>1, <2>2 DEF HolderThen, OfName
<1> QED
  BY <1>2, <1>3 DEF HolderThen

LEMMA SentName ==
    ASSUME ConsumerTypes, NEW m \in HubMessages, inbox' = Append(inbox, m),
           UNCHANGED byId, NEW n, NEW i, NEW p \in 0 .. Len(inbox), NameThen(i, p, n)
    PROVE  /\ NameThen(i, p, n)'
           /\ p = Len(inbox) /\ ~OfChannel(m, i) => NameThen(i, p + 1, n)'
<1>1. /\ Len(inbox) \in Nat /\ Len(inbox') = Len(inbox) + 1
      /\ \A q \in 1 .. Len(inbox) : inbox'[q] = inbox[q]
      /\ inbox'[Len(inbox) + 1] = m
  BY Sent
<1>2. CASE \E q \in 1..p : inbox[q] = Adv(i, n) /\ \A r \in q + 1 .. p : ~OfChannel(inbox[r], i)
  <2>1. PICK q \in 1..p : inbox[q] = Adv(i, n) /\ \A r \in q + 1 .. p : ~OfChannel(inbox[r], i)
    BY <1>2
  <2>2. inbox'[q] = Adv(i, n) /\ \A r \in q + 1 .. p : ~OfChannel(inbox'[r], i)
    BY <1>1, <2>1
  <2>3. p = Len(inbox) /\ ~OfChannel(m, i) => \A r \in q + 1 .. p + 1 : ~OfChannel(inbox'[r], i)
    BY <1>1, <2>2
  <2>4. NameThen(i, p, n)'
    BY <2>2 DEF NameThen, OfChannel, Adv
  <2>5. p = Len(inbox) /\ ~OfChannel(m, i) => NameThen(i, p + 1, n)'
    <3>1. q \in 1 .. p + 1
      BY <1>1
    <3> QED
      BY <2>2, <2>3, <3>1 DEF NameThen, OfChannel, Adv
  <2> QED
    BY <2>4, <2>5
<1>3. CASE /\ \A r \in 1..p : ~OfChannel(inbox[r], i)
           /\ i \in DOMAIN byId => byId[i] = n
  <2>1. \A r \in 1..p : ~OfChannel(inbox'[r], i)
    BY <1>1, <1>3
  <2>2. p = Len(inbox) /\ ~OfChannel(m, i) => \A r \in 1 .. p + 1 : ~OfChannel(inbox'[r], i)
    BY <1>1, <2>1
  <2> QED
    BY <1>3, <2>1, <2>2 DEF NameThen, OfChannel
<1> QED
  BY <1>2, <1>3 DEF NameThen

\* The reader takes the message in front.
LEMMA Taken ==
    ASSUME ConsumerTypes, NEW op, Reads(op)
    PROVE  /\ inbox' \in Seq(HubMessages)
           /\ Len(inbox) \in Nat \ {0} /\ Len(inbox') = Len(inbox) - 1
           /\ \A p \in 1 .. Len(inbox') : inbox'[p] = inbox[p + 1]
           /\ Head(inbox) = inbox[1] /\ inbox[1] \in HubMessages /\ inbox[1].op = op
<1>1. inbox \in Seq(HubMessages) /\ inbox # <<>> /\ inbox' = Tail(inbox) /\ Head(inbox).op = op
  BY DEF Reads, ConsumerTypes
<1> QED
  BY <1>1, HeadTailProperties, ElementOfSeq

LEMMA TakenHolder ==
    ASSUME ConsumerTypes, NEW op, Reads(op), NEW n, NEW i, NEW p \in 1 .. Len(inbox),
           HolderThen(n, p, i),
           Head(inbox) = Adv(i, n) => n \in DOMAIN nameToId' /\ nameToId'[n] = i,
           ~OfName(Head(inbox), n) /\ n \in DOMAIN nameToId =>
               n \in DOMAIN nameToId' /\ nameToId'[n] = nameToId[n]
    PROVE  HolderThen(n, p - 1, i)'
<1>1. /\ Len(inbox) \in Nat \ {0} /\ Len(inbox') = Len(inbox) - 1
      /\ \A q \in 1 .. Len(inbox') : inbox'[q] = inbox[q + 1]
      /\ Head(inbox) = inbox[1]
  BY Taken
<1>2. ASSUME NEW q \in 1..p, inbox[q] = Adv(i, n), \A r \in q + 1 .. p : ~OfName(inbox[r], n)
      PROVE  HolderThen(n, p - 1, i)'
  <2>1. \A r \in q .. p - 1 : ~OfName(inbox'[r], n)
    <3> SUFFICES ASSUME NEW r \in q .. p - 1 PROVE ~OfName(inbox'[r], n)
      OBVIOUS
    <3>1. inbox'[r] = inbox[r + 1] /\ r + 1 \in q + 1 .. p
      BY <1>1
    <3> QED
      BY <1>2, <3>1
  <2>2. CASE q = 1
    <3>1. \A r \in 1 .. p - 1 : ~OfName(inbox'[r], n)
      BY <2>1, <2>2
    <3>2. n \in DOMAIN nameToId' /\ nameToId'[n] = i
      BY <1>1, <1>2, <2>2
    <3> QED
      BY <3>1, <3>2 DEF HolderThen, OfName
  <2>3. CASE q # 1
    <3>1. q - 1 \in 1 .. p - 1 /\ inbox'[q - 1] = Adv(i, n)
      BY <1>1, <1>2, <2>3
    <3>2. \A r \in (q - 1) + 1 .. p - 1 : ~OfName(inbox'[r], n)
      BY <2>1, <2>3
    <3> QED
      BY <3>1, <3>2 DEF HolderThen, OfName, Adv
  <2> QED
    BY <2>2, <2>3
<1>3. CASE /\ \A r \in 1..p : ~OfName(inbox[r], n)
           /\ n \in DOMAIN nameToId /\ nameToId[n] = i
  <2>1. ASSUME NEW r \in 1 .. p - 1 PROVE ~OfName(inbox'[r], n)
    <3>1. inbox'[r] = inbox[r + 1] /\ r + 1 \in 1..p
      BY <1>1
    <3> QED
      BY <1>3, <3>1
  <2>2. ~OfName(Head(inbox), n)
    BY <1>1, <1>3
  <2> QED
    BY <1>3, <2>1, <2>2 DEF HolderThen, OfName
<1> QED
  BY <1>2, <1>3 DEF HolderThen

LEMMA TakenName ==
    ASSUME ConsumerTypes, NEW op, Reads(op), NEW n, NEW i, NEW p \in 1 .. Len(inbox),
           NameThen(i, p, n),
           Head(inbox) = Adv(i, n) /\ i \in DOMAIN byId' => byId'[i] = n,
           ~OfChannel(Head(inbox), i) /\ i \in DOMAIN byId' =>
               i \in DOMAIN byId /\ byId'[i] = byId[i]
    PROVE  NameThen(i, p - 1, n)'
<1>1. /\ Len(inbox) \in Nat \ {0} /\ Len(inbox') = Len(inbox) - 1
      /\ \A q \in 1 .. Len(inbox') : inbox'[q] = inbox[q + 1]
      /\ Head(inbox) = inbox[1]
  BY Taken
<1>2. ASSUME NEW q \in 1..p, inbox[q] = Adv(i, n), \A r \in q + 1 .. p : ~OfChannel(inbox[r], i)
      PROVE  NameThen(i, p - 1, n)'
  <2>1. ASSUME NEW r \in q .. p - 1 PROVE ~OfChannel(inbox'[r], i)
    <3>1. inbox'[r] = inbox[r + 1] /\ r + 1 \in q + 1 .. p
      BY <1>1
    <3> QED
      BY <1>2, <3>1
  <2>2. CASE q = 1
    <3>1. \A r \in 1 .. p - 1 : ~OfChannel(inbox'[r], i)
      BY <2>1, <2>2
    <3>2. i \in DOMAIN byId' => byId'[i] = n
      BY <1>1, <1>2, <2>2
    <3> QED
      BY <3>1, <3>2 DEF NameThen, OfChannel
  <2>3. CASE q # 1
    <3>1. q - 1 \in 1 .. p - 1 /\ inbox'[q - 1] = Adv(i, n)
      BY <1>1, <1>2, <2>3
    <3>2. \A r \in (q - 1) + 1 .. p - 1 : ~OfChannel(inbox'[r], i)
      BY <2>1, <2>3
    <3> QED
      BY <3>1, <3>2 DEF NameThen, OfChannel, Adv
  <2> QED
    BY <2>2, <2>3
<1>3. CASE /\ \A r \in 1..p : ~OfChannel(inbox[r], i)
           /\ i \in DOMAIN byId => byId[i] = n
  <2>1. ASSUME NEW r \in 1 .. p - 1 PROVE ~OfChannel(inbox'[r], i)
    <3>1. inbox'[r] = inbox[r + 1] /\ r + 1 \in 1..p
      BY <1>1
    <3> QED
      BY <1>3, <3>1
  <2>2. ~OfChannel(Head(inbox), i)
    BY <1>1, <1>3
  <2> QED
    BY <1>3, <2>1, <2>2 DEF NameThen, OfChannel
<1> QED
  BY <1>2, <1>3 DEF NameThen

-----------------------------------------------------------------------------
(* The hub *)

\* Another message of the hub keeps that up, if it does for itself.
LEMMA SentOnTheWay ==
    ASSUME ConsumerInv, NEW m \in HubMessages, inbox' = Append(inbox, m),
           UNCHANGED <<byId, nameToId>>,
           \A j \in ChannelIds : hubName[j] = "gone" => hubName'[j] = "gone",
           \A j \in ChannelIds : hubName'[j] \in ChannelNames =>
               \/ hubName[j] = hubName'[j] /\ ~OfName(m, hubName[j]) /\ ~OfChannel(m, j)
               \/ m = Adv(j, hubName'[j]),
           m.op = "unadvertise" =>
               \E j \in ChannelIds : hubName[j] = m.name /\ hubName'[j] = "gone",
           m.op = "message" => hubName[m.id] = m.name
    PROVE  OnTheWay'
<1>1. /\ Len(inbox) \in Nat /\ Len(inbox') = Len(inbox) + 1
      /\ \A p \in 1 .. Len(inbox) : inbox'[p] = inbox[p]
      /\ inbox'[Len(inbox) + 1] = m
  BY Sent DEF ConsumerInv
<1> SUFFICES ASSUME NEW p \in 0 .. Len(inbox'), NEW n \in ChannelNames
             PROVE  /\ p = Len(inbox') =>
                         \A i \in ChannelIds : hubName'[i] = n =>
                             HolderThen(n, p, i)' /\ NameThen(i, p, n)'
                    /\ p < Len(inbox') /\ inbox'[p + 1].op = "unadvertise"
                       /\ inbox'[p + 1].name = n =>
                         \E i \in ChannelIds : hubName'[i] = "gone" /\ HolderThen(n, p, i)'
                    /\ p < Len(inbox') /\ inbox'[p + 1].op = "message" /\ inbox'[p + 1].name = n =>
                         \A i \in ChannelIds : inbox'[p + 1].id = i => NameThen(i, p, n)'
  BY DEF OnTheWay
<1>2. ASSUME p = Len(inbox'), NEW i \in ChannelIds, hubName'[i] = n
      PROVE  HolderThen(n, p, i)' /\ NameThen(i, p, n)'
  <2>1. CASE m = Adv(i, n)
    <3>1. p \in 1..p /\ inbox'[p] = Adv(i, n) /\ p + 1 .. p = {}
      BY <1>1, <1>2, <2>1
    <3> QED
      BY <3>1 DEF HolderThen, NameThen, Adv
  <2>2. CASE hubName[i] = n /\ ~OfName(m, n) /\ ~OfChannel(m, i)
    <3> DEFINE q == p - 1
    <3>1. q = Len(inbox) /\ q \in 0 .. Len(inbox) /\ p = q + 1
      BY <1>1, <1>2
    <3> HIDE DEF q
    <3>2. HolderThen(n, q, i) /\ NameThen(i, q, n)
      BY <2>2, <3>1 DEF ConsumerInv, OnTheWay
    <3>3. HolderThen(n, q + 1, i)'
      BY <2>2, <3>1, <3>2, SentHolder DEF ConsumerInv
    <3>4. NameThen(i, q + 1, n)'
      BY <2>2, <3>1, <3>2, SentName DEF ConsumerInv
    <3> QED
      BY <3>1, <3>3, <3>4
  <2> QED
    BY <1>2, <2>1, <2>2
<1>3. ASSUME p < Len(inbox'), inbox'[p + 1].op = "unadvertise", inbox'[p + 1].name = n
      PROVE  \E i \in ChannelIds : hubName'[i] = "gone" /\ HolderThen(n, p, i)'
  <2>1. \E i \in ChannelIds : hubName'[i] = "gone" /\ HolderThen(n, p, i)
    <3>1. CASE p = Len(inbox)
      <4>1. inbox'[p + 1] = m
        BY <1>1, <3>1
      <4>2. PICK j \in ChannelIds : hubName[j] = m.name /\ hubName'[j] = "gone"
        BY <1>3, <4>1
      <4> QED
        BY <1>3, <3>1, <4>1, <4>2 DEF ConsumerInv, OnTheWay
    <3>2. CASE p < Len(inbox)
      <4>1. inbox'[p + 1] = inbox[p + 1]
        BY <1>1, <3>2
      <4> QED
        BY <1>1, <1>3, <3>2, <4>1 DEF ConsumerInv, OnTheWay
    <3> QED
      BY <1>1, <1>3, <3>1, <3>2
  <2>2. p \in 0 .. Len(inbox)
    BY <1>1, <1>3
  <2> QED
    BY <2>1, <2>2, SentHolder DEF ConsumerInv
<1>4. ASSUME p < Len(inbox'), inbox'[p + 1].op = "message", inbox'[p + 1].name = n,
             NEW i \in ChannelIds, inbox'[p + 1].id = i
      PROVE  NameThen(i, p, n)'
  <2>1. NameThen(i, p, n)
    <3>1. CASE p = Len(inbox)
      <4>1. inbox'[p + 1] = m /\ hubName[i] = n
        BY <1>1, <1>4, <3>1
      <4> QED
        BY <1>4, <3>1, <4>1 DEF ConsumerInv, OnTheWay
    <3>2. CASE p < Len(inbox)
      <4>1. inbox'[p + 1] = inbox[p + 1]
        BY <1>1, <3>2
      <4> QED
        BY <1>1, <1>4, <3>2, <4>1 DEF ConsumerInv, OnTheWay
    <3> QED
      BY <1>1, <1>4, <3>1, <3>2
  <2>2. p \in 0 .. Len(inbox)
    BY <1>1, <1>4
  <2> QED
    BY <2>1, <2>2, SentName DEF ConsumerInv
<1>5. p = Len(inbox') =>
          \A i \in ChannelIds : hubName'[i] = n => HolderThen(n, p, i)' /\ NameThen(i, p, n)'
  BY <1>2
<1>6. p < Len(inbox') /\ inbox'[p + 1].op = "message" /\ inbox'[p + 1].name = n =>
          \A i \in ChannelIds : inbox'[p + 1].id = i => NameThen(i, p, n)'
  BY <1>4
<1> QED
  BY <1>3, <1>5, <1>6

LEMMA NamedHolds ==
    ASSUME ConsumerInv, NEW i \in ChannelIds, NEW n \in ChannelNames,
           HubAdvertises(i, n) \/ HubRenames(i, n)
    PROVE  ConsumerInv'
<1>1. /\ hubName[i] # "gone" /\ Free(n)
      /\ hubName' = [hubName EXCEPT ![i] = n] /\ inbox' = Append(inbox, Adv(i, n))
      /\ UNCHANGED <<hubSubs, byId, nameToId, subscribed, at, routed>>
  BY ConsumerAssumption DEF HubAdvertises, HubRenames
<1>2. Adv(i, n) \in HubMessages
  BY DEF Adv, HubMessages, ChannelIds
<1>3. ConsumerTypes'
  <2>1. \A p \in 1 .. Len(inbox') : inbox'[p].op # "unadvertise" => inbox'[p].id \in ChannelIds
    BY <1>1, <1>2, Sent DEF ConsumerInv, ConsumerTypes, Adv
  <2> QED
    BY <1>1, <1>2, <2>1, Sent DEF ConsumerInv, ConsumerTypes
<1>4. NamesUnique'
  BY <1>1 DEF ConsumerInv, ConsumerTypes, NamesUnique, Free
<1>5. AskedOnce'
  BY <1>1, ConsumerAssumption DEF ConsumerInv, ConsumerTypes, AskedOnce
<1>6. OnTheWay'
  <2> DEFINE m == Adv(i, n)
  <2>1. m.op = "advertise" /\ m.name = n /\ m.id = i
    BY DEF Adv
  <2>2. \A j \in ChannelIds : hubName[j] = "gone" => hubName'[j] = "gone"
    BY <1>1 DEF ConsumerInv, ConsumerTypes
  <2>3. \A j \in ChannelIds : hubName'[j] \in ChannelNames =>
            \/ hubName[j] = hubName'[j] /\ ~OfName(m, hubName[j]) /\ ~OfChannel(m, j)
            \/ m = Adv(j, hubName'[j])
    BY <1>1, <2>1 DEF ConsumerInv, ConsumerTypes, Free, OfName, OfChannel
  <2> HIDE DEF m
  <2>4. m \in HubMessages /\ inbox' = Append(inbox, m)
    BY <1>1, <1>2 DEF m
  <2> QED
    BY <1>1, <2>1, <2>2, <2>3, <2>4, SentOnTheWay
<1>7. DeliveredOnce'
  BY <1>1 DEF ConsumerInv, ConsumerTypes, AskedOnce, DeliveredOnce
<1> QED
  BY <1>3, <1>4, <1>5, <1>6, <1>7 DEF ConsumerInv

LEMMA HubUnadvertisesHolds ==
    ASSUME ConsumerInv, NEW i \in ChannelIds, HubUnadvertises(i)
    PROVE  ConsumerInv'
<1> DEFINE m == [op |-> "unadvertise", id |-> 0, name |-> hubName[i]]
<1>1. /\ hubName[i] \in ChannelNames
      /\ hubName' = [hubName EXCEPT ![i] = "gone"] /\ inbox' = Append(inbox, m)
      /\ UNCHANGED <<hubSubs, byId, nameToId, subscribed, at, routed>>
  BY DEF HubUnadvertises
<1>2. m \in HubMessages /\ m.op = "unadvertise" /\ m.name = hubName[i]
  BY <1>1, ConsumerAssumption DEF HubMessages
<1>3. ConsumerTypes'
  <2>1. \A p \in 1 .. Len(inbox') : inbox'[p].op # "unadvertise" => inbox'[p].id \in ChannelIds
    BY <1>1, <1>2, Sent DEF ConsumerInv, ConsumerTypes
  <2> QED
    BY <1>1, <1>2, <2>1, Sent DEF ConsumerInv, ConsumerTypes
<1>4. NamesUnique'
  BY <1>1, ConsumerAssumption DEF ConsumerInv, ConsumerTypes, NamesUnique
<1>5. AskedOnce'
  BY <1>1 DEF ConsumerInv, ConsumerTypes, AskedOnce
<1>6. OnTheWay'
  <2>1. \A j \in ChannelIds : hubName[j] = "gone" => hubName'[j] = "gone"
    BY <1>1 DEF ConsumerInv, ConsumerTypes
  <2>2. \A j \in ChannelIds : hubName'[j] \in ChannelNames =>
            hubName[j] = hubName'[j] /\ ~OfName(m, hubName[j]) /\ ~OfChannel(m, j)
    BY <1>1, <1>2, ConsumerAssumption
    DEF ConsumerInv, ConsumerTypes, NamesUnique, OfName, OfChannel
  <2>3. \E j \in ChannelIds : hubName[j] = m.name /\ hubName'[j] = "gone"
    BY <1>1, <1>2 DEF ConsumerInv, ConsumerTypes
  <2> HIDE DEF m
  <2> QED
    BY <1>1, <1>2, <2>1, <2>2, <2>3, SentOnTheWay
<1>7. DeliveredOnce'
  BY <1>1, ConsumerAssumption DEF ConsumerInv, ConsumerTypes, DeliveredOnce
<1> QED
  BY <1>3, <1>4, <1>5, <1>6, <1>7 DEF ConsumerInv

LEMMA HubSendsHolds ==
    ASSUME ConsumerInv, NEW i \in ChannelIds, HubSends(i)
    PROVE  ConsumerInv'
<1> DEFINE m == [op |-> "message", id |-> i, name |-> hubName[i]]
<1>1. /\ hubName[i] \in ChannelNames /\ inbox' = Append(inbox, m)
      /\ UNCHANGED <<hubName, hubSubs, byId, nameToId, subscribed, at, routed>>
  BY DEF HubSends
<1>2. m \in HubMessages /\ m.op = "message" /\ m.name = hubName[i] /\ m.id = i
  BY <1>1 DEF HubMessages, ChannelIds
<1>3. ConsumerTypes'
  <2>1. \A p \in 1 .. Len(inbox') : inbox'[p].op # "unadvertise" => inbox'[p].id \in ChannelIds
    BY <1>1, <1>2, Sent DEF ConsumerInv, ConsumerTypes
  <2> QED
    BY <1>1, <1>2, <2>1, Sent DEF ConsumerInv, ConsumerTypes
<1>4. NamesUnique' /\ AskedOnce' /\ DeliveredOnce'
  BY <1>1 DEF ConsumerInv, NamesUnique, AskedOnce, DeliveredOnce
<1>5. OnTheWay'
  <2>1. \A j \in ChannelIds : ~OfName(m, hubName[j]) /\ ~OfChannel(m, j)
    BY <1>2 DEF OfName, OfChannel
  <2> HIDE DEF m
  <2> QED
    BY <1>1, <1>2, <2>1, SentOnTheWay
<1> QED
  BY <1>3, <1>4, <1>5 DEF ConsumerInv

-----------------------------------------------------------------------------
(* The threads *)

\* A step that leaves the names and the queue alone.
LEMMA QueueKept ==
    ASSUME ConsumerInv, UNCHANGED <<hubName, inbox, byId, nameToId>>
    PROVE  NamesUnique' /\ OnTheWay'
<1>1. NamesUnique /\ OnTheWay
  BY DEF ConsumerInv
<1>2. NamesUnique'
  BY <1>1 DEF NamesUnique
<1>3. \A n, p, i : HolderThen(n, p, i)' = HolderThen(n, p, i) /\ NameThen(i, p, n)' = NameThen(i, p, n)
  BY DEF HolderThen, NameThen
<1>4. OnTheWay'
  BY <1>1, <1>3 DEF OnTheWay
<1> QED
  BY <1>2, <1>4

LEMMA SubscribeNameHolds ==
    ASSUME ConsumerInv, NEW n \in ChannelNames, SubscribeName(n)
    PROVE  ConsumerInv'
<1> DEFINE next == IF n \in DOMAIN nameToId THEN AboutTo("ensure", nameToId[n]) ELSE Idle
<1>1. /\ at["caller"] = Idle /\ at' = [at EXCEPT !["caller"] = next]
      /\ UNCHANGED <<hubName, hubSubs, inbox, byId, nameToId, subscribed, routed>>
  BY DEF SubscribeName
<1>2. /\ next \in [do : {"idle", "ensure", "send"}, id : 0..MaxChannels] /\ next.do # "send"
      /\ next.do # "idle" => next.id \in ChannelIds
  BY ConsumerAssumption DEF ConsumerInv, ConsumerTypes, AboutTo, Idle, ChannelIds
<1> HIDE DEF next
<1>3. ConsumerTypes'
  BY <1>1, <1>2 DEF ConsumerInv, ConsumerTypes, Threads
<1>4. \A t \in Threads, i \in ChannelIds :
          at'[t] = AboutTo("send", i) => at[t] = AboutTo("send", i)
  BY <1>1, <1>2 DEF ConsumerInv, ConsumerTypes, AboutTo
<1>5. AskedOnce'
  BY <1>1, <1>4 DEF ConsumerInv, AskedOnce, Threads
<1>6. DeliveredOnce'
  BY <1>1 DEF ConsumerInv, DeliveredOnce
<1> QED
  BY <1>1, <1>3, <1>5, <1>6, QueueKept DEF ConsumerInv

LEMMA EnsureSubscribedHolds ==
    ASSUME ConsumerInv, NEW t \in Threads, EnsureSubscribed(t)
    PROVE  ConsumerInv'
<1> DEFINE i == at[t].id
<1>1. /\ at[t].do = "ensure" /\ i \in ChannelIds
      /\ UNCHANGED <<hubName, hubSubs, inbox, byId, nameToId, routed>>
  BY DEF EnsureSubscribed, ConsumerInv, ConsumerTypes
<1>2. NamesUnique' /\ OnTheWay' /\ DeliveredOnce'
  BY <1>1, QueueKept DEF ConsumerInv, DeliveredOnce
<1>3. CASE i \in subscribed
  <2>1. at' = [at EXCEPT ![t] = Idle] /\ UNCHANGED subscribed
    BY <1>3 DEF EnsureSubscribed
  <2>2. ConsumerTypes'
    BY <1>1, <2>1, ConsumerAssumption DEF ConsumerInv, ConsumerTypes, Idle
  <2>3. \A u \in Threads, j \in ChannelIds :
            at'[u] = AboutTo("send", j) => at[u] = AboutTo("send", j)
    BY <2>1 DEF ConsumerInv, ConsumerTypes, AboutTo, Idle
  <2>4. AskedOnce'
    BY <1>1, <2>1, <2>3 DEF ConsumerInv, AskedOnce, Threads
  <2> QED
    BY <1>2, <2>2, <2>4 DEF ConsumerInv
<1>4. CASE i \notin subscribed
  <2>1. at' = [at EXCEPT ![t] = AboutTo("send", i)] /\ subscribed' = subscribed \cup {i}
    BY <1>4 DEF EnsureSubscribed
  <2>2. ConsumerTypes'
    BY <1>1, <2>1 DEF ConsumerInv, ConsumerTypes, AboutTo, ChannelIds
  <2>3. \A u \in Threads, j \in ChannelIds :
            /\ u = t /\ j # i => at'[u] # AboutTo("send", j)
            /\ u # t => at'[u] = at[u]
    BY <2>1 DEF ConsumerInv, ConsumerTypes, AboutTo
  <2>4. hubName[i] # "gone" =>
            hubSubs[i] = 0 /\ \A u \in Threads : at[u] # AboutTo("send", i)
    BY <1>1, <1>4 DEF ConsumerInv, AskedOnce
  <2>5. AskedOnce'
    <3> SUFFICES ASSUME NEW j \in ChannelIds, hubName[j] # "gone"
                 PROVE  /\ hubSubs[j] <= 1
                        /\ j \notin subscribed' => hubSubs[j] = 0
                        /\ \A u \in Threads : at'[u] = AboutTo("send", j) =>
                              j \in subscribed' /\ hubSubs[j] = 0
                        /\ at'["caller"] = AboutTo("send", j) => at'["reader"] # AboutTo("send", j)
      BY <1>1 DEF AskedOnce
    <3>1. /\ hubSubs[j] <= 1
          /\ j \notin subscribed => hubSubs[j] = 0
          /\ \A u \in Threads : at[u] = AboutTo("send", j) => j \in subscribed /\ hubSubs[j] = 0
          /\ at["caller"] = AboutTo("send", j) => at["reader"] # AboutTo("send", j)
      BY DEF ConsumerInv, AskedOnce
    <3>2. CASE j = i
      BY <2>1, <2>3, <2>4, <3>1, <3>2 DEF Threads
    <3>3. CASE j # i
      BY <2>1, <2>3, <3>1, <3>3 DEF Threads
    <3> QED
      BY <3>2, <3>3
  <2> QED
    BY <1>2, <2>2, <2>5 DEF ConsumerInv
<1> QED
  BY <1>3, <1>4

LEMMA SendSubscribeHolds ==
    ASSUME ConsumerInv, NEW t \in Threads, SendSubscribe(t)
    PROVE  ConsumerInv'
<1> DEFINE i == at[t].id
<1>1. /\ at[t].do = "send" /\ i \in ChannelIds
      /\ hubSubs' = [hubSubs EXCEPT ![i] = @ + 1] /\ at' = [at EXCEPT ![t] = Idle]
      /\ UNCHANGED <<hubName, inbox, byId, nameToId, subscribed, routed>>
  BY DEF SendSubscribe, ConsumerInv, ConsumerTypes
<1>2. NamesUnique' /\ OnTheWay'
  BY <1>1, QueueKept DEF ConsumerInv
<1>3. ConsumerTypes'
  BY <1>1, ConsumerAssumption DEF ConsumerInv, ConsumerTypes, Idle
<1>4. at[t] = AboutTo("send", i)
  BY <1>1 DEF ConsumerInv, ConsumerTypes, AboutTo
<1>5. \A u \in Threads, j \in ChannelIds :
          /\ at'[u] = AboutTo("send", j) => u # t /\ at[u] = AboutTo("send", j)
  BY <1>1 DEF ConsumerInv, ConsumerTypes, AboutTo, Idle
<1>6. AskedOnce'
  <2> SUFFICES ASSUME NEW j \in ChannelIds, hubName[j] # "gone"
               PROVE  /\ hubSubs'[j] <= 1
                      /\ j \notin subscribed => hubSubs'[j] = 0
                      /\ \A u \in Threads : at'[u] = AboutTo("send", j) =>
                            j \in subscribed /\ hubSubs'[j] = 0
                      /\ at'["caller"] = AboutTo("send", j) => at'["reader"] # AboutTo("send", j)
    BY <1>1 DEF AskedOnce
  <2>1. /\ hubSubs[j] <= 1
        /\ j \notin subscribed => hubSubs[j] = 0
        /\ \A u \in Threads : at[u] = AboutTo("send", j) => j \in subscribed /\ hubSubs[j] = 0
        /\ at["caller"] = AboutTo("send", j) => at["reader"] # AboutTo("send", j)
    BY DEF ConsumerInv, AskedOnce
  <2>2. CASE j = i
    <3>1. hubSubs[j] = 0 /\ j \in subscribed /\ hubSubs'[j] = 1
      BY <1>1, <1>4, <2>1, <2>2 DEF ConsumerInv, ConsumerTypes
    <3>2. \A u \in Threads : at'[u] # AboutTo("send", j)
      BY <1>4, <1>5, <2>1, <2>2 DEF Threads
    <3> QED
      BY <3>1, <3>2 DEF Threads
  <2>3. CASE j # i
    <3>1. hubSubs'[j] = hubSubs[j]
      BY <1>1, <2>3 DEF ConsumerInv, ConsumerTypes
    <3> QED
      BY <1>5, <2>1, <3>1 DEF Threads
  <2> QED
    BY <2>2, <2>3
<1>7. DeliveredOnce'
  BY <1>1, <1>6, ConsumerAssumption DEF ConsumerInv, DeliveredOnce, AskedOnce
<1> QED
  BY <1>2, <1>3, <1>6, <1>7 DEF ConsumerInv

\* The reader's tables follow the message it takes.
LEMMA TakenOnTheWay ==
    ASSUME ConsumerInv, NEW op, Reads(op), UNCHANGED hubName,
           \A n \in ChannelNames, i \in ChannelIds : Head(inbox) = Adv(i, n) =>
               /\ n \in DOMAIN nameToId' /\ nameToId'[n] = i
               /\ i \in DOMAIN byId' => byId'[i] = n,
           \A n \in ChannelNames : ~OfName(Head(inbox), n) /\ n \in DOMAIN nameToId =>
               n \in DOMAIN nameToId' /\ nameToId'[n] = nameToId[n],
           \A i \in ChannelIds : ~OfChannel(Head(inbox), i) /\ i \in DOMAIN byId' =>
               i \in DOMAIN byId /\ byId'[i] = byId[i]
    PROVE  OnTheWay'
<1>1. /\ Len(inbox) \in Nat \ {0} /\ Len(inbox') = Len(inbox) - 1
      /\ \A p \in 1 .. Len(inbox') : inbox'[p] = inbox[p + 1]
  BY Taken DEF ConsumerInv
<1> SUFFICES ASSUME NEW p \in 0 .. Len(inbox'), NEW n \in ChannelNames
             PROVE  /\ p = Len(inbox') =>
                         \A i \in ChannelIds : hubName'[i] = n =>
                             HolderThen(n, p, i)' /\ NameThen(i, p, n)'
                    /\ p < Len(inbox') /\ inbox'[p + 1].op = "unadvertise"
                       /\ inbox'[p + 1].name = n =>
                         \E i \in ChannelIds : hubName'[i] = "gone" /\ HolderThen(n, p, i)'
                    /\ p < Len(inbox') /\ inbox'[p + 1].op = "message" /\ inbox'[p + 1].name = n =>
                         \A i \in ChannelIds : inbox'[p + 1].id = i => NameThen(i, p, n)'
  BY DEF OnTheWay
<1> DEFINE q == p + 1
<1>2. q \in 1 .. Len(inbox) /\ p = q - 1 /\ q \in 0 .. Len(inbox)
  BY <1>1
<1> HIDE DEF q
<1>3. ASSUME NEW i \in ChannelIds, HolderThen(n, q, i) PROVE HolderThen(n, p, i)'
  <2>1. HolderThen(n, q - 1, i)'
    BY <1>2, <1>3, TakenHolder DEF ConsumerInv
  <2> QED
    BY <1>2, <2>1
<1>4. ASSUME NEW i \in ChannelIds, NameThen(i, q, n) PROVE NameThen(i, p, n)'
  <2>1. NameThen(i, q - 1, n)'
    BY <1>2, <1>4, TakenName DEF ConsumerInv
  <2> QED
    BY <1>2, <2>1
<1>5. p = Len(inbox') => q = Len(inbox)
  BY <1>1, <1>2
<1>6. p < Len(inbox') => q < Len(inbox) /\ inbox'[p + 1] = inbox[q + 1]
  BY <1>1, <1>2
<1>7. /\ q = Len(inbox) =>
            \A i \in ChannelIds : hubName[i] = n => HolderThen(n, q, i) /\ NameThen(i, q, n)
      /\ q < Len(inbox) /\ inbox[q + 1].op = "unadvertise" /\ inbox[q + 1].name = n =>
            \E i \in ChannelIds : hubName[i] = "gone" /\ HolderThen(n, q, i)
      /\ q < Len(inbox) /\ inbox[q + 1].op = "message" /\ inbox[q + 1].name = n =>
            \A i \in ChannelIds : inbox[q + 1].id = i => NameThen(i, q, n)
  BY <1>2 DEF ConsumerInv, OnTheWay
<1>8. p = Len(inbox') =>
          \A i \in ChannelIds : hubName'[i] = n => HolderThen(n, p, i)' /\ NameThen(i, p, n)'
  BY <1>3, <1>4, <1>5, <1>7
<1>9. p < Len(inbox') /\ inbox'[p + 1].op = "unadvertise" /\ inbox'[p + 1].name = n =>
          \E i \in ChannelIds : hubName'[i] = "gone" /\ HolderThen(n, p, i)'
  BY <1>3, <1>6, <1>7
<1>10. p < Len(inbox') /\ inbox'[p + 1].op = "message" /\ inbox'[p + 1].name = n =>
          \A i \in ChannelIds : inbox'[p + 1].id = i => NameThen(i, p, n)'
  BY <1>4, <1>6, <1>7
<1> QED
  BY <1>8, <1>9, <1>10

\* Ids and names of what the reader takes.
LEMMA TakenTypes ==
    ASSUME ConsumerTypes, NEW op, Reads(op)
    PROVE  /\ \A p \in 1 .. Len(inbox') :
                 inbox'[p].op # "unadvertise" => inbox'[p].id \in ChannelIds
           /\ op # "unadvertise" => Head(inbox).id \in ChannelIds
<1>1. /\ Len(inbox) \in Nat \ {0} /\ Len(inbox') = Len(inbox) - 1
      /\ \A p \in 1 .. Len(inbox') : inbox'[p] = inbox[p + 1]
      /\ Head(inbox) = inbox[1] /\ inbox[1].op = op
  BY Taken
<1>2. \A p \in 1 .. Len(inbox') : p + 1 \in 1 .. Len(inbox)
  BY <1>1
<1> QED
  BY <1>1, <1>2 DEF ConsumerTypes

LEMMA RegisterHolds ==
    ASSUME ConsumerInv, Register PROVE ConsumerInv'
<1> DEFINE m == Head(inbox)
<1> DEFINE next == IF m.name \in wanted THEN AboutTo("ensure", m.id) ELSE Idle
<1>1. /\ Reads("advertise") /\ at["reader"] = Idle /\ at' = [at EXCEPT !["reader"] = next]
      /\ byId' = MapSet(byId, m.id, m.name) /\ nameToId' = MapSet(nameToId, m.name, m.id)
      /\ UNCHANGED <<hubName, hubSubs, subscribed, routed>>
  BY DEF Register, Reads
<1>2. m \in HubMessages /\ m.id \in ChannelIds /\ m.op = "advertise"
  BY <1>1, Taken, TakenTypes DEF ConsumerInv
<1>3. /\ next \in [do : {"idle", "ensure", "send"}, id : 0..MaxChannels] /\ next.do # "send"
      /\ next.do # "idle" => next.id \in ChannelIds
  BY <1>2, ConsumerAssumption DEF AboutTo, Idle, ChannelIds
<1> HIDE DEF next
<1>4. ConsumerTypes'
  <2>1. \A n \in DOMAIN nameToId' : nameToId'[n] \in ChannelIds
    BY <1>1, <1>2 DEF ConsumerInv, ConsumerTypes, MapSet
  <2>2. /\ inbox' \in Seq(HubMessages)
        /\ \A p \in 1 .. Len(inbox') : inbox'[p].op # "unadvertise" => inbox'[p].id \in ChannelIds
    BY <1>1, Taken, TakenTypes DEF ConsumerInv
  <2> QED
    BY <1>1, <1>3, <2>1, <2>2 DEF ConsumerInv, ConsumerTypes, Threads
<1>5. NamesUnique' /\ DeliveredOnce'
  BY <1>1 DEF ConsumerInv, NamesUnique, DeliveredOnce
<1>6. \A t \in Threads, i \in ChannelIds :
          at'[t] = AboutTo("send", i) => at[t] = AboutTo("send", i)
  BY <1>1, <1>3 DEF ConsumerInv, ConsumerTypes, AboutTo
<1>7. AskedOnce'
  BY <1>1, <1>6 DEF ConsumerInv, AskedOnce, Threads
<1>8. OnTheWay'
  <2>1. \A n \in ChannelNames, i \in ChannelIds : m = Adv(i, n) =>
            /\ n \in DOMAIN nameToId' /\ nameToId'[n] = i
            /\ i \in DOMAIN byId' => byId'[i] = n
    BY <1>1 DEF Adv, MapSet
  <2>2. \A n \in ChannelNames : ~OfName(m, n) /\ n \in DOMAIN nameToId =>
            n \in DOMAIN nameToId' /\ nameToId'[n] = nameToId[n]
    BY <1>1, <1>2 DEF OfName, MapSet
  <2>3. \A i \in ChannelIds : ~OfChannel(m, i) /\ i \in DOMAIN byId' =>
            i \in DOMAIN byId /\ byId'[i] = byId[i]
    BY <1>1, <1>2 DEF OfChannel, MapSet
  <2> QED
    BY <1>1, <2>1, <2>2, <2>3, TakenOnTheWay
<1> QED
  BY <1>4, <1>5, <1>7, <1>8 DEF ConsumerInv

\* The channel whose name ends has ended, whoever the reader knows under it.
LEMMA UnregisterHolds ==
    ASSUME ConsumerInv, Unregister PROVE ConsumerInv'
<1> DEFINE m == Head(inbox)
<1> DEFINE ids == IF m.name \in DOMAIN nameToId THEN {nameToId[m.name]} ELSE {}
<1>1. /\ Reads("unadvertise")
      /\ nameToId' = MapDelete(nameToId, {m.name}) /\ byId' = MapDelete(byId, ids)
      /\ subscribed' = subscribed \ ids
      /\ UNCHANGED <<hubName, hubSubs, at, routed>>
  BY DEF Unregister
<1>2. /\ m \in HubMessages /\ m.op = "unadvertise" /\ m = inbox[0 + 1]
      /\ 0 \in 0 .. Len(inbox) /\ 0 < Len(inbox)
  BY <1>1, Taken DEF ConsumerInv
<1>3. \A i \in ids : hubName[i] = "gone"
  <2>1. m.name \in ChannelNames
    BY <1>2 DEF HubMessages
  <2>2. PICK i \in ChannelIds : hubName[i] = "gone" /\ HolderThen(m.name, 0, i)
    BY <1>2, <2>1 DEF ConsumerInv, OnTheWay
  <2>3. m.name \in DOMAIN nameToId /\ nameToId[m.name] = i
    BY <2>2 DEF HolderThen
  <2> QED
    BY <2>2, <2>3
<1> HIDE DEF ids
<1>4. ConsumerTypes'
  <2>1. \A n \in DOMAIN nameToId' : nameToId'[n] \in ChannelIds
    BY <1>1 DEF ConsumerInv, ConsumerTypes, MapDelete
  <2>2. /\ inbox' \in Seq(HubMessages)
        /\ \A p \in 1 .. Len(inbox') : inbox'[p].op # "unadvertise" => inbox'[p].id \in ChannelIds
    BY <1>1, Taken, TakenTypes DEF ConsumerInv
  <2> QED
    BY <1>1, <2>1, <2>2 DEF ConsumerInv, ConsumerTypes
<1>5. NamesUnique' /\ DeliveredOnce'
  BY <1>1 DEF ConsumerInv, NamesUnique, DeliveredOnce
<1>6. AskedOnce'
  BY <1>1, <1>3 DEF ConsumerInv, AskedOnce
<1>7. OnTheWay'
  <2>1. \A n, i : m # Adv(i, n)
    BY <1>2 DEF Adv
  <2>2. \A n \in ChannelNames : ~OfName(m, n) /\ n \in DOMAIN nameToId =>
            n \in DOMAIN nameToId' /\ nameToId'[n] = nameToId[n]
    BY <1>1, <1>2 DEF OfName, MapDelete
  <2>3. \A i \in ChannelIds : i \in DOMAIN byId' => i \in DOMAIN byId /\ byId'[i] = byId[i]
    BY <1>1 DEF MapDelete
  <2> QED
    BY <1>1, <2>1, <2>2, <2>3, TakenOnTheWay
<1> QED
  BY <1>4, <1>5, <1>6, <1>7 DEF ConsumerInv

LEMMA RouteMessageHolds ==
    ASSUME ConsumerInv, RouteMessage PROVE ConsumerInv'
<1> DEFINE m == Head(inbox)
<1>1. /\ Reads("message")
      /\ routed' = IF m.id \in DOMAIN byId /\ byId[m.id] \in wanted
                   THEN routed \cup {[sent |-> m.name, to |-> byId[m.id]]} ELSE routed
      /\ UNCHANGED <<hubName, hubSubs, byId, nameToId, subscribed, at>>
  BY DEF RouteMessage
<1>2. /\ m \in HubMessages /\ m.op = "message" /\ m = inbox[0 + 1] /\ m.id \in ChannelIds
      /\ 0 \in 0 .. Len(inbox) /\ 0 < Len(inbox)
  BY <1>1, Taken, TakenTypes DEF ConsumerInv
<1>3. m.id \in DOMAIN byId => byId[m.id] = m.name
  <2>1. m.name \in ChannelNames
    BY <1>2 DEF HubMessages
  <2>2. NameThen(m.id, 0, m.name)
    BY <1>2, <2>1 DEF ConsumerInv, OnTheWay
  <2> QED
    BY <2>2 DEF NameThen
<1>4. ConsumerTypes'
  <2>1. /\ inbox' \in Seq(HubMessages)
        /\ \A p \in 1 .. Len(inbox') : inbox'[p].op # "unadvertise" => inbox'[p].id \in ChannelIds
    BY <1>1, Taken, TakenTypes DEF ConsumerInv
  <2> QED
    BY <1>1, <2>1 DEF ConsumerInv, ConsumerTypes
<1>5. NamesUnique' /\ AskedOnce'
  BY <1>1 DEF ConsumerInv, NamesUnique, AskedOnce
<1>6. DeliveredOnce'
  BY <1>1, <1>3 DEF ConsumerInv, DeliveredOnce
<1>7. OnTheWay'
  <2>1. (\A n, i : m # Adv(i, n)) /\ \A n : ~OfName(m, n)
    BY <1>2 DEF Adv, OfName
  <2> QED
    BY <1>1, <2>1, TakenOnTheWay
<1> QED
  BY <1>4, <1>5, <1>6, <1>7 DEF ConsumerInv

LEMMA ConsumerStepHolds == ConsumerInv /\ [ConsumerNext]_consumerVars => ConsumerInv'
<1> SUFFICES ASSUME ConsumerInv, [ConsumerNext]_consumerVars PROVE ConsumerInv'
  OBVIOUS
<1>1. ASSUME NEW i \in ChannelIds, NEW n \in ChannelNames,
             HubAdvertises(i, n) \/ HubRenames(i, n)
      PROVE  ConsumerInv'
  BY <1>1, NamedHolds
<1>2. ASSUME NEW i \in ChannelIds, HubUnadvertises(i) \/ HubSends(i) PROVE ConsumerInv'
  BY <1>2, HubUnadvertisesHolds, HubSendsHolds
<1>3. ASSUME NEW n \in ChannelNames, SubscribeName(n) PROVE ConsumerInv'
  BY <1>3, SubscribeNameHolds
<1>4. ASSUME NEW t \in Threads, EnsureSubscribed(t) \/ SendSubscribe(t) PROVE ConsumerInv'
  BY <1>4, EnsureSubscribedHolds, SendSubscribeHolds
<1>5. CASE Register \/ Unregister \/ RouteMessage
  BY <1>5, RegisterHolds, UnregisterHolds, RouteMessageHolds
<1>6. CASE UNCHANGED consumerVars
  <2>1. UNCHANGED <<hubName, hubSubs, inbox, byId, nameToId, subscribed, at, routed>>
    BY <1>6 DEF consumerVars
  <2>2. ConsumerTypes' /\ AskedOnce' /\ DeliveredOnce'
    BY <2>1 DEF ConsumerInv, ConsumerTypes, AskedOnce, DeliveredOnce
  <2> QED
    BY <2>1, <2>2, QueueKept DEF ConsumerInv
<1> QED
  BY <1>1, <1>2, <1>3, <1>4, <1>5, <1>6 DEF ConsumerNext

(***************************************************************************)
(* However the caller and the reader interleave, and whatever the hub      *)
(* names, renames and ends meanwhile, a living channel is asked for at     *)
(* most once and a frame goes to the callback of the name it was sent      *)
(* under (client.py, _ensure_subscribed, _register, _unregister, _handle). *)
(***************************************************************************)
THEOREM DeliveredOnceHolds == ConsumerSpec => []DeliveredOnce
<1>1. ConsumerInv => DeliveredOnce
  BY DEF ConsumerInv
<1> QED
  BY <1>1, ConsumerInitHolds, ConsumerStepHolds, PTL DEF ConsumerSpec

-----------------------------------------------------------------------------
(***************************************************************************)
(* Commands of the controller                                              *)
(***************************************************************************)

\* The keepalive of the native backend has something to assert, which is what
\* was sent last; only the in-app channel reaches the executor.
Asserting ==
    /\ beating /\ ik = "native" => lastSent = committed /\ committed \in Configs
    /\ lastSent \in {Nothing, committed}
    /\ ~ikLocal => lastGoal = Nothing
    /\ anim # NoAnim => anim.to \in Configs

JogInv == JogTypeOK /\ Asserting /\ HeldUntilSent
-----------------------------------------------------------------------------
LEMMA InitHolds == JogInit => JogInv
<1> SUFFICES ASSUME JogInit PROVE JogInv
  OBVIOUS
<1>1. anim = NoAnim /\ anim \in [to : Configs \cup {Nothing}, age : 0..MoveTime]
  BY DEF JogInit, NoAnim, MoveTime
<1>2. ikLocal \in BOOLEAN /\ rateOpen \in BOOLEAN /\ beating \in BOOLEAN /\ solverUp \in BOOLEAN
  BY ZenonT(30) DEF JogInit
<1>3. JogTypeOK
  BY <1>1, <1>2 DEF JogInit, JogTypeOK
<1> QED
  BY <1>1, <1>3 DEF JogInit, JogInv, Asserting, HeldUntilSent

\* A goal of the user's that reaches the executor keeps its variables in shape
\* and is what it plays.
LEMMA GoalHeld ==
    ASSUME JogInv, NEW q \in Configs,
           NEW moving \in [to : Configs \cup {Nothing}, age : 0..MoveTime],
           moving # NoAnim => moving.to \in Configs,
           SendHeld(q, moving)
    PROVE  /\ command' = q
           /\ lastGoal' \in {lastGoal, q}
           /\ ~ikLocal => lastGoal' = lastGoal
           /\ anim' \in [to : Configs \cup {Nothing}, age : 0..MoveTime]
           /\ anim' # NoAnim => anim'.to \in Configs
           /\ feedback' = feedback
BY DEF SendHeld, OnGoal, MoveTime

\* Half a second more of an animation.
Aged == IF anim.age < MoveTime /\ anim # NoAnim THEN [anim EXCEPT !.age = @ + 1] ELSE anim

LEMMA AgedFacts ==
    ASSUME JogInv
    PROVE  /\ Aged \in [to : Configs \cup {Nothing}, age : 0..MoveTime]
           /\ Aged # NoAnim => Aged.to \in Configs
BY DEF JogInv, JogTypeOK, Asserting, Aged, MoveTime, NoAnim

LEMMA BeatHolds ==
    ASSUME JogInv, Beat
    PROVE  JogInv'
<1>1. /\ UNCHANGED <<ik, ikLocal, gizmo, preview, lastSent, beating, solverUp, answers, committed>>
      /\ rateOpen' \in BOOLEAN
  BY DEF Beat
<1>2. CASE beating /\ ik = "native" /\ SendHeld(Reasserted, Aged) /\ UNCHANGED heard
  <2>1. lastSent \in Configs /\ lastSent = committed
    BY <1>2 DEF JogInv, Asserting
  <2>2. /\ command' = committed' /\ lastGoal' \in {Nothing, committed'}
        /\ ~ikLocal => lastGoal' = Nothing
        /\ anim' \in [to : Configs \cup {Nothing}, age : 0..MoveTime]
        /\ anim' # NoAnim => anim'.to \in Configs
        /\ UNCHANGED <<feedback, heard>>
    <3>1. SendHeld(lastSent, Aged)
      BY <1>2 DEF Reasserted
    <3>2. lastGoal \in {Nothing, committed} /\ (~ikLocal => lastGoal = Nothing)
      BY DEF JogInv, Asserting, HeldUntilSent
    <3> QED
      BY <1>1, <1>2, <2>1, <3>1, <3>2, AgedFacts, GoalHeld
  <2> QED
    BY <1>1, <2>1, <2>2 DEF JogInv, JogTypeOK, Asserting, HeldUntilSent
<1>3. CASE /\ beating /\ ik = "external" /\ SendLive(gizmo)
           /\ anim' = Aged /\ UNCHANGED <<lastGoal, feedback>>
  BY <1>1, <1>3, AgedFacts DEF JogInv, JogTypeOK, Asserting, HeldUntilSent, SendLive
<1>4. CASE anim' = Aged /\ UNCHANGED <<lastGoal, feedback, command, heard>>
  BY <1>1, <1>4, AgedFacts DEF JogInv, JogTypeOK, Asserting, HeldUntilSent
<1> QED
  BY <1>2, <1>3, <1>4 DEF Beat, Aged

LEMMA SendHolds ==
    ASSUME JogInv, SendTarget
    PROVE  JogInv'
<1>1. anim \in [to : Configs \cup {Nothing}, age : 0..MoveTime]
      /\ (anim # NoAnim => anim.to \in Configs) /\ preview \in Configs
  BY DEF JogInv, JogTypeOK, Asserting
<1>2. /\ ik = "native" /\ lastSent' = preview /\ committed' = preview /\ beating' = TRUE
      /\ SendHeld(preview, anim)
      /\ UNCHANGED <<ik, ikLocal, gizmo, preview, rateOpen, solverVars>>
  BY DEF SendTarget
<1>3. lastGoal' \in {Nothing, preview}
  BY <1>2 DEF SendHeld, OnGoal, JogInv, Asserting
<1> QED
  BY <1>1, <1>2, <1>3, GoalHeld
     DEF JogInv, JogTypeOK, Asserting, HeldUntilSent, solverVars

\* Every step of the user, the page, the executor and the solver.
LEMMA StepHolds ==
    ASSUME JogInv, [JogNext]_jogLoopVars
    PROVE  JogInv'
<1> USE DEF JogInv, JogTypeOK, Asserting, HeldUntilSent
<1>1. ASSUME NEW b \in {"native", "external"}, EnterIk(b)
      PROVE  JogInv'
  BY <1>1 DEF EnterIk, SolverIdle, executorVars, SendLive
<1>2. ASSUME NEW q \in Configs, MoveGizmo(q)
      PROVE  JogInv'
  BY <1>2 DEF MoveGizmo, SolverIdle, executorVars, PublishTarget, SendLive
<1>3. ASSUME NEW q \in Configs, SetIkJoint(q)
      PROVE  JogInv'
  BY <1>3 DEF SetIkJoint, SolverIdle, executorVars, PublishTarget, SendLive
<1>4. ASSUME NEW q \in Configs, StartExecutor(q)
      PROVE  JogInv'
  BY <1>4 DEF StartExecutor, ikVars, solverVars, NoAnim, MoveTime
<1>5. CASE LeaveIk
  BY <1>5 DEF LeaveIk, SolverIdle, executorVars
<1>6. CASE DragEnd
  BY <1>6 DEF DragEnd, SolverIdle, executorVars, PublishTarget, SendLive
<1>7. CASE SendTarget
  BY <1>7, SendHolds
<1>8. CASE RateOpens
  BY <1>8 DEF RateOpens, solverVars, executorVars
<1>9. CASE Beat
  BY <1>9, BeatHolds
<1>10. CASE Tick
  BY <1>10 DEF Tick, ikVars, solverVars, NoAnim, MoveTime
<1>11. CASE Solver
  <2>1. UNCHANGED <<ikVars, command, executorVars, committed>>
    BY <1>11 DEF Solver
  <2>2. solverUp' \in BOOLEAN /\ heard' \in Configs \cup {Nothing}
    BY <1>11 DEF Solver, SolverStarts, SolverStops, SolverSolves
  <2>3. answers' \in Seq(Configs)
    BY <1>11 DEF Solver, SolverStarts, SolverStops, SolverSolves
  <2> QED
    BY <2>1, <2>2, <2>3 DEF ikVars, executorVars
<1>12. CASE Solution
  BY <1>12 DEF Solution, executorVars
<1>13. CASE UNCHANGED jogLoopVars
  BY <1>13 DEF jogLoopVars, ikVars, solverVars, executorVars
<1> QED
  BY <1>1, <1>2, <1>3, <1>4, <1>5, <1>6, <1>7, <1>8, <1>9, <1>10, <1>11, <1>12, <1>13
     DEF JogNext

LEMMA InvHolds == JogSpec => []JogInv
BY InitHolds, StepHolds, PTL DEF JogSpec
-----------------------------------------------------------------------------
(***************************************************************************)
(* What the gizmo, the joints, the wire and the executor hold are          *)
(* configurations, where there is anything.                                *)
(***************************************************************************)
THEOREM JogTypes == JogSpec => []JogTypeOK
BY InvHolds, PTL DEF JogInv

(***************************************************************************)
(* Whatever is dragged after a send, the robot is commanded only what was  *)
(* sent, and the executor plays nothing else (RobotIkController.ts 94-99,  *)
(* 243-260), with any number of sends, keepalives, entries and demo runs.  *)
(***************************************************************************)
THEOREM OnlySentIsCommanded == JogSpec => []HeldUntilSent
BY InvHolds, PTL DEF JogInv
=============================================================================
