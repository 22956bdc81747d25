-------------------------- MODULE SyncWindowProofs --------------------------
(***************************************************************************)
(* The sync window never reorders a channel, keeps the stream monotone     *)
(* within its window, and serves late panels, for every set of channels,   *)
(* stamps, windows and panels and every number of frames.                  *)
(***************************************************************************)
EXTENDS SyncWindow, WellFoundedInduction, TLAPS

\* Frames are numbered without repetition.
NumberedInv ==
    /\ \A f \in held : f.t <= maxSeenT
    /\ \A f \in Received : f.n <= arrived
    /\ \A f, g \in held : f.n = g.n => f = g
    /\ \A f \in held, g \in out : f.n # g.n

\* Nothing held has been overtaken by a frame that did not have to go first.
OrderInv ==
    /\ \A f \in out : f.round <= rounds
    /\ \A f \in out, g \in held : g.n < f.n => f.t < g.t
    /\ OvertakesOnlyOlder

\* What has been let go lies below the horizon, what is held above it.
HorizonInv ==
    /\ \A f \in out : f.forced \/ f.t <= horizon
    /\ \A g \in held : g.late \/ g.t > horizon
    /\ MonotoneStream

\* The mirror names the newest frame of each latched channel.
MirrorInv ==
    /\ \A c \in Latched : \A f \in Received : f.ch = c => f.n <= latchedLast[c]
    /\ \A c \in Latched : latchedLast[c] # NoFrame =>
          \E f \in Received : f.ch = c /\ f.n = latchedLast[c]

PanelsInv ==
    /\ \A p \in Panels \ handlers : shown[p] = NoFrame
    /\ \A p \in replays : Watches[p] \in Latched
    /\ LatePanelsCurrent

SyncInv == SyncTypeOK /\ NumberedInv /\ OrderInv /\ HorizonInv /\ MirrorInv /\ PanelsInv

-----------------------------------------------------------------------------
\* The types of what the arithmetic below compares.
LEMMA SyncTypes ==
    ASSUME SyncTypeOK
    PROVE  /\ \A f \in held : f.n \in Nat /\ f.t \in Nat /\ f.ch \in Channels
                              /\ f.n > 0
           /\ \A f \in out : f.n \in Nat /\ f.t \in Nat /\ f.ch \in Channels
                             /\ f.n > 0 /\ f.round \in Nat
           /\ maxSeenT \in Nat /\ window \in Nat /\ arrived \in Nat
           /\ expired \in Nat /\ expired <= arrived /\ Threshold \in Int
           /\ horizon \in Nat /\ rounds \in Nat
           /\ \A c \in Latched : latchedLast[c] \in Nat
<1>1. MaxFrames \in Nat /\ Stamps \subseteq Nat /\ Windows \subseteq Nat
  BY SyncAssumption
<1>2. \A f \in held : f.n \in Nat /\ f.t \in Nat /\ f.ch \in Channels
                      /\ f.n > 0
  <2> SUFFICES ASSUME NEW f \in held
               PROVE  f.n \in Nat /\ f.t \in Nat /\ f.ch \in Channels
                      /\ f.n > 0
    OBVIOUS
  <2>1. f \in Frames
    BY DEF SyncTypeOK
  <2>2. f.n \in 1..MaxFrames /\ f.t \in Stamps /\ f.ch \in Channels
    BY <2>1 DEF Frames
  <2>3. f.n \in Nat /\ f.n > 0
    BY <1>1, <2>2
  <2>4. f.t \in Nat
    BY <1>1, <2>2
  <2> QED
    BY <2>2, <2>3, <2>4
<1>3. \A f \in out : f.n \in Nat /\ f.t \in Nat /\ f.ch \in Channels
                     /\ f.n > 0 /\ f.round \in Nat
  <2> SUFFICES ASSUME NEW f \in out
               PROVE  f.n \in Nat /\ f.t \in Nat /\ f.ch \in Channels
                      /\ f.n > 0 /\ f.round \in Nat
    OBVIOUS
  <2>1. f \in Dispatched
    BY DEF SyncTypeOK
  <2>2. f.n \in 1..MaxFrames /\ f.t \in Stamps /\ f.ch \in Channels /\ f.round \in Nat
    BY <2>1 DEF Dispatched
  <2>3. f.n \in Nat /\ f.n > 0
    BY <1>1, <2>2
  <2>4. f.t \in Nat
    BY <1>1, <2>2
  <2> QED
    BY <2>2, <2>3, <2>4
<1>4. maxSeenT \in Nat /\ window \in Nat /\ arrived \in Nat /\ expired \in Nat
      /\ expired <= arrived /\ horizon \in Nat /\ rounds \in Nat
  BY <1>1 DEF SyncTypeOK
<1>5. Threshold \in Int
  BY <1>4 DEF Threshold
<1> QED
  BY <1>2, <1>3, <1>4, <1>5 DEF SyncTypeOK

\* A frame a flush adds to the history comes from a due frame, with its fields.
LEMMA FlushedFrames ==
    /\ \A g \in Flushed : \E f \in DueFrames :
          /\ g.n = f.n /\ g.ch = f.ch /\ g.t = f.t /\ g.late = f.late
          /\ g.forced = Forced(f) /\ g.round = rounds + 1
    /\ \A f \in DueFrames : \E g \in Flushed : g.n = f.n /\ g.ch = f.ch /\ g.t = f.t
<1> DEFINE Sent(f) == [n |-> f.n, ch |-> f.ch, t |-> f.t, late |-> f.late,
                       forced |-> Forced(f), round |-> rounds + 1]
<1>1. Flushed = {Sent(f) : f \in DueFrames}
  BY DEF Flushed
<1>2. \A f : /\ Sent(f).n = f.n /\ Sent(f).ch = f.ch /\ Sent(f).t = f.t
             /\ Sent(f).late = f.late /\ Sent(f).forced = Forced(f)
             /\ Sent(f).round = rounds + 1
  OBVIOUS
<1> HIDE DEF Sent
<1> QED
  BY <1>1, <1>2

\* A window that has received nothing.
LEMMA SyncInitInv == SyncInit => SyncInv
<1> SUFFICES ASSUME SyncInit PROVE SyncInv
  OBVIOUS
<1>1. held = {} /\ out = {} /\ handlers = {} /\ replays = {}
      /\ arrived = 0 /\ expired = 0 /\ rounds = 0 /\ horizon = 0 /\ maxSeenT = 0
      /\ window \in Windows /\ ticking = FALSE
      /\ latchedLast = [c \in Latched |-> 0] /\ shown = [p \in Panels |-> 0]
  BY DEF SyncInit, NoFrame
<1>2. SyncTypeOK
  <2>1. MaxFrames \in Nat /\ 0 \in 0..MaxFrames /\ 0 \in 0..0
    BY SyncAssumption
  <2>2. latchedLast \in [Latched -> 0..0] /\ shown \in [Panels -> 0..0]
    BY <1>1, <2>1
  <2> QED
    BY <1>1, <2>1, <2>2 DEF SyncTypeOK
<1> QED
  BY <1>1, <1>2
     DEF SyncInv, NumberedInv, OrderInv, HorizonInv, MirrorInv, PanelsInv, Received,
         OvertakesOnlyOlder, MonotoneStream, LatePanelsCurrent, NoFrame

-----------------------------------------------------------------------------
\* An arrival: the new frame has the highest number.
LEMMA ArriveInv ==
    ASSUME SyncInv, NEW c \in Channels, NEW t \in Stamps, Arrive(c, t)
    PROVE  SyncInv'
<1> DEFINE new == [n |-> arrived + 1, ch |-> c, t |-> t, late |-> t <= horizon]
<1>1. /\ held' = held \cup {new} /\ out' = out /\ rounds' = rounds
      /\ arrived' = arrived + 1 /\ arrived + 1 \in 1..MaxFrames
      /\ UNCHANGED <<window, expired, handlers, replays, shown, horizon>>
      /\ replays = {}
  BY SyncAssumption DEF Arrive, TaskMayRun, SyncInv, SyncTypeOK
<1>2. /\ new \in Frames /\ new.n = arrived + 1 /\ new.t = t /\ new.ch = c
      /\ new.late = (t <= horizon) /\ t \in Nat
  BY <1>1, SyncAssumption DEF Frames
<1> HIDE DEF new
<1>3. latchedLast' = [l \in Latched |-> IF l = c THEN arrived + 1 ELSE latchedLast[l]]
  BY DEF Arrive
<1>4. SyncTypeOK'
  <2>1. maxSeenT' \in Stamps \cup {0} /\ ticking' \in BOOLEAN
    BY DEF Arrive, SyncInv, SyncTypeOK
  <2>2. latchedLast' \in [Latched -> 0..arrived']
    BY <1>1, <1>3, SyncTypes DEF SyncInv, SyncTypeOK
  <2>3. expired \in 0..arrived' /\ shown \in [Panels -> 0..arrived']
        /\ arrived' \in 0..MaxFrames
    BY <1>1, SyncAssumption DEF SyncInv, SyncTypeOK
  <2> QED
    BY <1>1, <1>2, <2>1, <2>2, <2>3 DEF SyncInv, SyncTypeOK
<1>5. \A f \in Received : f.n \in Nat /\ f.n <= arrived
  BY SyncTypes DEF SyncInv, NumberedInv, Received
<1>6. NumberedInv'
  <2>1. maxSeenT' \in Nat /\ maxSeenT' >= maxSeenT /\ maxSeenT' >= t
    BY <1>2, SyncTypes DEF Arrive, SyncInv
  <2>2. \A f \in held' : f.t <= maxSeenT'
    BY <1>1, <1>2, <2>1, SyncTypes DEF SyncInv, NumberedInv
  <2> QED
    BY <1>1, <1>2, <1>5, <2>2, SyncTypes DEF SyncInv, NumberedInv, Received
<1>7. OrderInv'
  BY <1>1, <1>2, <1>5, SyncTypes
     DEF SyncInv, OrderInv, Received, OvertakesOnlyOlder, DispatchedBefore, Before
<1>8. HorizonInv'
  <2>1. new.late \/ new.t > horizon
    <3>1. CASE t <= horizon
      BY <1>2, <3>1, Zenon
    <3>2. CASE ~(t <= horizon)
      BY <1>2, <3>2, SyncTypes DEF SyncInv
    <3> QED
      BY <3>1, <3>2
  <2>2. MonotoneStream'
    BY <1>1 DEF SyncInv, HorizonInv, MonotoneStream, DispatchedBefore, Before
  <2> QED
    BY <1>1, <2>1, <2>2 DEF SyncInv, HorizonInv
<1>9. MirrorInv'
  <2>1. Received' = Received \cup {new}
    BY <1>1 DEF Received
  <2>2. ASSUME NEW l \in Latched, NEW f \in Received', f.ch = l
        PROVE  f.n <= latchedLast'[l]
    BY <1>2, <1>3, <1>5, <2>1, <2>2, SyncTypes DEF SyncInv, MirrorInv
  <2>3. ASSUME NEW l \in Latched, latchedLast'[l] # NoFrame
        PROVE  \E f \in Received' : f.ch = l /\ f.n = latchedLast'[l]
    BY <1>2, <1>3, <2>1, <2>3 DEF SyncInv, MirrorInv
  <2> QED
    BY <2>2, <2>3 DEF MirrorInv
<1>10. LatePanelsCurrent'
  <2> SUFFICES ASSUME NEW p \in handlers, Watches[p] \in Latched,
                      StampsInOrder(Watches[p])'
               PROVE  \/ shown[p] = latchedLast'[Watches[p]]
                      \/ \E f \in held' : f.n = latchedLast'[Watches[p]]
    BY <1>1 DEF LatePanelsCurrent
  <2>1. CASE Watches[p] = c
    BY <1>1, <1>2, <1>3, <2>1
  <2>2. CASE Watches[p] # c
    <3>1. StampsInOrder(Watches[p])
      BY <1>1 DEF StampsInOrder, Received
    <3> QED
      BY <1>1, <1>3, <2>2, <3>1 DEF SyncInv, PanelsInv, LatePanelsCurrent
  <2> QED
    BY <2>1, <2>2
<1> QED
  BY <1>1, <1>4, <1>6, <1>7, <1>8, <1>9, <1>10 DEF SyncInv, PanelsInv

-----------------------------------------------------------------------------
\* The due frames include every frame of theirs that is older and not younger.
LEMMA DueFirst ==
    ASSUME SyncTypeOK, NEW f \in DueFrames, NEW g \in held \ DueFrames, g.n < f.n
    PROVE  f.t < g.t
<1>1. f \in held /\ g \in held /\ Due(f) /\ ~Due(g)
  BY DEF DueFrames
<1>2. ~(g.t <= Threshold) /\ ~(g.n <= expired) /\ (f.t <= Threshold \/ f.n <= expired)
  BY <1>1 DEF Due
<1>3. f.n \in Nat /\ f.t \in Nat /\ g.n \in Nat /\ g.t \in Nat
      /\ expired \in Nat /\ Threshold \in Int
  BY <1>1, SyncTypes
<1> QED
  BY <1>2, <1>3

\* If the newest frame of a channel whose stamps do not go back is due, it is
\* the last frame of the channel that the flush dispatches.
LEMMA NewestIsLast ==
    ASSUME SyncInv, NEW p \in handlers, NEW f \in DueFrames,
           Watches[p] \in Latched, f.ch = Watches[p],
           f.n = latchedLast[Watches[p]], StampsInOrder(Watches[p])
    PROVE  ShownAfter(p) = f.n
<1> DEFINE mine == {g \in DueFrames : g.ch = Watches[p]}
<1>1. \A g \in mine : g \in held /\ g \in Received /\ g.ch = Watches[p]
  BY DEF DueFrames, Received
<1>2. f \in mine
  OBVIOUS
<1>3. ASSUME NEW g \in mine, g # f PROVE Before(g, f)
  <2>1. g.n <= f.n
    BY <1>1, <1>3 DEF SyncInv, MirrorInv
  <2>2. g.n # f.n
    BY <1>1, <1>2, <1>3 DEF SyncInv, NumberedInv
  <2>3. /\ f.n \in Nat /\ f.t \in Nat /\ g.n \in Nat /\ g.t \in Nat
    BY <1>1, <1>2, <1>3, SyncTypes DEF SyncInv
  <2>4. g.t <= f.t
    BY <1>1, <1>2, <1>3, <2>1, <2>2, <2>3 DEF StampsInOrder
  <2> QED
    BY <2>1, <2>2, <2>3, <2>4 DEF Before
<1>4. ASSUME NEW h \in mine, \A g \in mine : g = h \/ Before(g, h)
      PROVE  h = f
  <2>1. CASE h # f
    <3>1. Before(f, h) /\ Before(h, f)
      BY <1>2, <1>3, <1>4, <2>1
    <3>2. f.n \in Nat /\ f.t \in Nat /\ h.n \in Nat /\ h.t \in Nat
      BY <1>1, <1>2, <1>4, SyncTypes DEF SyncInv
    <3> QED
      BY <3>1, <3>2 DEF Before
  <2> QED
    BY <2>1
<1>5. LastOf(mine) = f
  <2> HIDE DEF mine
  <2> QED
    BY <1>2, <1>3, <1>4 DEF LastOf
<1> QED
  BY <1>2, <1>5 DEF ShownAfter

\* Without due frames on its channel a panel keeps what it shows.
LEMMA NothingForPanel ==
    ASSUME NEW p, \A f \in DueFrames : f.ch # Watches[p]
    PROVE  ShownAfter(p) = shown[p]
<1>1. {f \in DueFrames : f.ch = Watches[p]} = {}
  OBVIOUS
<1> QED
  BY <1>1 DEF ShownAfter

-----------------------------------------------------------------------------
\* Every non-empty set of numbers has a least element.
LEMMA LeastNumber ==
    ASSUME NEW S \in SUBSET Nat, S # {}
    PROVE  \E m \in S : \A k \in S : m <= k
<1>1. PICK m \in S : \A k \in S : ~(<<k, m>> \in OpToRel(<, Nat))
  BY WFMin, NatLessThanWellFounded, Zenon
<1>2. ASSUME NEW k \in S PROVE ~(k < m)
  BY <1>1 DEF OpToRel
<1> QED
  BY <1>2

\* Any frames that are held have a last one in dispatch order.
LEMMA LastExists ==
    ASSUME SyncTypeOK, NumberedInv, NEW frames \in SUBSET held, frames # {}
    PROVE  \E f \in frames : \A g \in frames : g = f \/ Before(g, f)
<1>1. \A f \in frames : /\ f.n \in Nat /\ f.t \in Nat /\ f.t <= maxSeenT
                        /\ f \in held /\ f.n <= arrived
  BY SyncTypes DEF NumberedInv, Received
<1>2. maxSeenT \in Nat /\ arrived \in Nat
  BY SyncTypes
<1> DEFINE S == {maxSeenT - f.t : f \in frames}
<1>3. S \in SUBSET Nat /\ S # {}
  BY <1>1, <1>2
<1>4. PICK m \in S : \A k \in S : m <= k
  BY <1>3, LeastNumber
<1>5. PICK top \in frames : m = maxSeenT - top.t
  OBVIOUS
<1>6. ASSUME NEW g \in frames PROVE g.t <= top.t
  <2>1. maxSeenT - g.t \in S
    OBVIOUS
  <2>2. m <= maxSeenT - g.t
    BY <1>4, <2>1
  <2> QED
    BY <1>1, <1>2, <1>5, <2>2
<1> DEFINE R == {arrived - f.n : f \in {g \in frames : g.t = top.t}}
<1>7. R \in SUBSET Nat /\ R # {}
  BY <1>1, <1>2
<1>8. PICK r \in R : \A k \in R : r <= k
  BY <1>7, LeastNumber
<1>9. PICK f \in frames : f.t = top.t /\ r = arrived - f.n
  OBVIOUS
<1>10. ASSUME NEW g \in frames, g # f PROVE Before(g, f)
  <2>1. g.n # f.n
    BY <1>1, <1>10 DEF NumberedInv
  <2>2. CASE g.t = top.t
    <3>1. arrived - g.n \in R
      BY <2>2
    <3>2. r <= arrived - g.n
      BY <1>8, <3>1
    <3> QED
      BY <1>1, <1>2, <1>9, <2>1, <2>2, <3>2 DEF Before
  <2>3. CASE g.t # top.t
    BY <1>1, <1>6, <1>9, <2>3 DEF Before
  <2> QED
    BY <2>2, <2>3
<1> QED
  BY <1>10

\* What a panel shows after a flush is a frame that has arrived.
LEMMA ShownTyped ==
    ASSUME SyncTypeOK, NumberedInv, NEW p \in Panels
    PROVE  ShownAfter(p) \in 0..arrived
<1> DEFINE mine == {f \in DueFrames : f.ch = Watches[p]}
<1>1. mine \in SUBSET held
  BY DEF DueFrames
<1>2. shown[p] \in 0..arrived
  BY DEF SyncTypeOK
<1>3. CASE mine # {}
  <2>1. LastOf(mine) \in mine
    <3> HIDE DEF mine
    <3> QED
      BY <1>1, <1>3, LastExists DEF LastOf
  <2>2. LastOf(mine) \in held
    BY <1>1, <2>1
  <2>3. LastOf(mine).n \in 0..arrived
    BY <2>2, SyncTypes DEF NumberedInv, Received
  <2> QED
    BY <1>2, <2>3 DEF ShownAfter
<1>4. CASE mine = {}
  BY <1>2, <1>4 DEF ShownAfter
<1> QED
  BY <1>3, <1>4

-----------------------------------------------------------------------------
\* A flush, conjunct by conjunct: what it dispatches was held.
LEMMA FlushSends ==
    ASSUME SyncInv, Flush
    PROVE  /\ held' = held \ DueFrames /\ DueFrames \subseteq held
           /\ out' = out \cup Flushed
           /\ \A g \in Received' : \E f \in Received : g.n = f.n /\ g.ch = f.ch /\ g.t = f.t
           /\ \A f \in Received : \E g \in Received' : g.n = f.n /\ g.ch = f.ch /\ g.t = f.t
           /\ UNCHANGED <<window, maxSeenT, arrived, expired, latchedLast, handlers, replays>>
<1>1. held' = held \ DueFrames /\ out' = out \cup Flushed /\ DueFrames \subseteq held
  BY DEF Flush, DueFrames
<1>2. Received = (held \ DueFrames) \cup DueFrames \cup out
  BY <1>1 DEF Received
<1>3. Received' = (held \ DueFrames) \cup Flushed \cup out
  BY <1>1 DEF Received
<1> QED
  BY <1>1, <1>2, <1>3, FlushedFrames DEF Flush

\* A flush keeps the types.
LEMMA FlushTypes ==
    ASSUME SyncInv, Flush
    PROVE  SyncTypeOK'
<1>1. \A p \in Panels : ShownAfter(p) \in 0..arrived
  BY ShownTyped DEF SyncInv
<1>2. shown' = [p \in Panels |-> ShownAfter(p)]
  BY DEF Flush
<1>3. Flushed \subseteq Dispatched
  <2> SUFFICES ASSUME NEW f \in DueFrames
               PROVE  [n |-> f.n, ch |-> f.ch, t |-> f.t, late |-> f.late,
                       forced |-> Forced(f), round |-> rounds + 1] \in Dispatched
    BY DEF Flushed
  <2>1. f \in Frames
    BY DEF DueFrames, SyncInv, SyncTypeOK
  <2>2. f.n \in 1..MaxFrames /\ f.ch \in Channels /\ f.t \in Stamps /\ f.late \in BOOLEAN
    BY <2>1 DEF Frames
  <2>3. Forced(f) \in BOOLEAN
    BY DEF Forced
  <2>4. rounds + 1 \in Nat
    BY DEF SyncInv, SyncTypeOK
  <2> QED
    BY <2>2, <2>3, <2>4 DEF Dispatched
<1>4. rounds' \in Nat
  BY DEF Flush, SyncInv, SyncTypeOK
<1>5. horizon' \in Nat
  <2>1. horizon \in Nat /\ Threshold \in Int
    BY SyncTypes DEF SyncInv
  <2> QED
    BY <2>1 DEF Flush
<1>6. ticking' \in BOOLEAN
  BY DEF Flush
<1>7. shown' \in [Panels -> 0..arrived]
  BY <1>1, <1>2
<1> QED
  BY <1>3, <1>4, <1>5, <1>6, <1>7, FlushSends DEF SyncInv, SyncTypeOK

\* Numbers stay unique: what is dispatched is no longer held.
LEMMA FlushNumbered ==
    ASSUME SyncInv, Flush
    PROVE  NumberedInv'
<1>1. \A f \in held' : f.t <= maxSeenT' 
  BY FlushSends DEF SyncInv, NumberedInv
<1>2. \A f \in Received' : f.n <= arrived'
  BY FlushSends DEF SyncInv, NumberedInv
<1>3. \A f, g \in held' : f.n = g.n => f = g
  BY FlushSends DEF SyncInv, NumberedInv
<1>4. ASSUME NEW f \in held', NEW g \in out' PROVE f.n # g.n
  <2>1. f \in held /\ f \notin DueFrames
    BY FlushSends
  <2>2. CASE g \in out
    BY <2>1, <2>2 DEF SyncInv, NumberedInv
  <2>3. CASE g \in Flushed
    <3>1. PICK h \in DueFrames : g.n = h.n
      BY <2>3, FlushedFrames
    <3> QED
      BY <2>1, <3>1, FlushSends DEF SyncInv, NumberedInv
  <2> QED
    BY <2>2, <2>3, FlushSends
<1> QED
  BY <1>1, <1>2, <1>3, <1>4 DEF NumberedInv

\* The due frames go out in order, and no held one had to go before them.
LEMMA FlushOrder ==
    ASSUME SyncInv, Flush
    PROVE  OrderInv'
<1>1. rounds \in Nat /\ rounds' \in Nat /\ (Flushed # {} => rounds' = rounds + 1)
      /\ rounds <= rounds'
  <2>1. rounds \in Nat
    BY DEF SyncInv, SyncTypeOK
  <2>2. Flushed # {} => DueFrames # {}
    BY FlushedFrames
  <2> QED
    BY <2>1, <2>2 DEF Flush
<1>2. \A f \in out : f.round \in Nat /\ f.round <= rounds /\ f.n \in Nat /\ f.t \in Nat
  BY SyncTypes DEF SyncInv, OrderInv
<1>3. \A g \in Flushed : \E h \in DueFrames :
        g.n = h.n /\ g.t = h.t /\ g.round = rounds + 1 /\ h.n \in Nat /\ h.t \in Nat
        /\ h \in held
  BY FlushedFrames, SyncTypes, FlushSends DEF SyncInv
<1>4. \A f \in out' : f.round <= rounds'
  BY <1>1, <1>2, <1>3, FlushSends
<1>5. ASSUME NEW f \in out', NEW g \in held', g.n < f.n PROVE f.t < g.t
  <2>1. g \in held /\ g \in held \ DueFrames
    BY FlushSends
  <2>2. CASE f \in out
    BY <1>5, <2>1, <2>2 DEF SyncInv, OrderInv
  <2>3. CASE f \in Flushed
    <3>1. PICK h \in DueFrames : f.n = h.n /\ f.t = h.t
      BY <2>3, <1>3
    <3> QED
      BY <1>5, <2>1, <3>1, DueFirst DEF SyncInv
  <2> QED
    BY <2>2, <2>3, FlushSends
<1>6. OvertakesOnlyOlder'
  <2> SUFFICES ASSUME NEW f \in out', NEW g \in out',
                      DispatchedBefore(f, g), f.n > g.n
               PROVE  f.t < g.t
    BY DEF OvertakesOnlyOlder, DispatchedBefore, Before
  <2>1. CASE f \in out /\ g \in out
    BY <2>1 DEF SyncInv, OrderInv, OvertakesOnlyOlder
  <2>2. CASE f \in out /\ g \in Flushed
    <3>1. PICK h \in DueFrames : g.n = h.n /\ g.t = h.t /\ h \in held
      BY <2>2, <1>3
    <3>2. h.n < f.n
      BY <3>1, <1>2, <2>2, SyncTypes DEF SyncInv
    <3> QED
      BY <2>2, <3>1, <3>2 DEF SyncInv, OrderInv
  <2>3. CASE f \in Flushed /\ g \in out
    <3>1. f.round = rounds + 1
      BY <2>3, <1>3
    <3> QED
      BY <1>1, <1>2, <2>3, <3>1 DEF DispatchedBefore
  <2>4. CASE f \in Flushed /\ g \in Flushed
    <3>1. f.round = g.round /\ f.round \in Nat /\ f.n \in Nat /\ g.n \in Nat
          /\ f.t \in Nat /\ g.t \in Nat
      BY <2>4, <1>1, <1>3
    <3> QED
      BY <3>1 DEF DispatchedBefore, Before
  <2> QED
    BY <2>1, <2>2, <2>3, <2>4, FlushSends
<1> QED
  BY <1>4, <1>5, <1>6 DEF OrderInv

\* What a flush lets go is below its threshold, or forced; what it keeps is above.
LEMMA FlushHorizon ==
    ASSUME SyncInv, Flush
    PROVE  HorizonInv'
<1>1. /\ horizon \in Nat /\ horizon' \in Nat /\ horizon <= horizon'
      /\ Threshold \in Int /\ Threshold <= horizon'
      /\ (horizon' = horizon \/ horizon' = Threshold)
  <2>1. horizon \in Nat /\ Threshold \in Int
    BY SyncTypes DEF SyncInv
  <2>2. horizon' = IF Threshold > horizon THEN Threshold ELSE horizon
    BY DEF Flush
  <2> QED
    BY <2>1, <2>2
<1>2. \A g \in Flushed : g.t \in Nat /\ (g.forced \/ g.t <= Threshold)
  <2> SUFFICES ASSUME NEW g \in Flushed PROVE g.t \in Nat /\ (g.forced \/ g.t <= Threshold)
    OBVIOUS
  <2>1. PICK h \in DueFrames : g.t = h.t /\ g.forced = Forced(h)
    BY FlushedFrames
  <2>2. h.t \in Nat
    BY FlushSends, SyncTypes DEF SyncInv
  <2>3. Forced(h) \/ h.t <= Threshold
    BY <2>2, <1>1 DEF Forced
  <2>4. g.forced \/ h.t <= Threshold
    BY <2>1, <2>3, Zenon
  <2> QED
    BY <2>1, <2>2, <2>4
<1>3. \A f \in out : f.t \in Nat /\ (f.forced \/ f.t <= horizon)
  BY SyncTypes DEF SyncInv, HorizonInv
<1>4. \A f \in out' : f.t \in Nat /\ (f.forced \/ f.t <= horizon')
  BY <1>1, <1>2, <1>3, FlushSends
<1>5. ASSUME NEW g \in held' PROVE g.late \/ g.t > horizon'
  <2>1. g \in held /\ ~Due(g)
    BY FlushSends DEF DueFrames
  <2>2. g.t \in Nat /\ ~(g.t <= Threshold)
    BY <2>1, SyncTypes DEF SyncInv, Due
  <2>3. g.late \/ g.t > horizon
    BY <2>1 DEF SyncInv, HorizonInv
  <2> QED
    BY <1>1, <2>2, <2>3
<1>6. MonotoneStream'
  <2> SUFFICES ASSUME NEW f \in out', NEW g \in out',
                      DispatchedBefore(f, g), f.t > g.t
               PROVE  f.forced \/ g.late
    BY DEF MonotoneStream, DispatchedBefore, Before
  <2>1. CASE f \in out /\ g \in out
    BY <2>1 DEF SyncInv, HorizonInv, MonotoneStream
  <2>2. CASE f \in out /\ g \in Flushed
    <3>1. PICK h \in DueFrames : g.t = h.t /\ g.late = h.late
      BY <2>2, FlushedFrames
    <3>2. h.late \/ h.t > horizon
      BY FlushSends DEF SyncInv, HorizonInv
    <3>3. h.t \in Nat
      BY FlushSends, SyncTypes DEF SyncInv
    <3>4. f.forced \/ f.t <= horizon
      BY <1>3, <2>2
    <3>5. CASE h.late
      BY <3>1, <3>5, Zenon
    <3>6. CASE h.t > horizon
      BY <1>1, <1>3, <2>2, <3>1, <3>3, <3>4, <3>6
    <3> QED
      BY <3>2, <3>5, <3>6
  <2>3. CASE f \in Flushed
    <3>1. f.round = rounds + 1
      BY <2>3, FlushedFrames
    <3>2. f.t \in Nat /\ g.t \in Nat /\ rounds \in Nat
      BY <1>4, SyncTypes DEF SyncInv
    <3>3. g \in out => g.round \in Nat /\ g.round <= rounds
      BY SyncTypes DEF SyncInv, OrderInv
    <3>4. g \in Flushed => g.round = rounds + 1
      BY FlushedFrames
    <3> QED
      BY <3>1, <3>2, <3>3, <3>4, FlushSends DEF DispatchedBefore, Before
  <2> QED
    BY <2>1, <2>2, <2>3, FlushSends
<1>7. \A f \in out' : f.forced \/ f.t <= horizon'
  BY <1>4
<1> QED
  BY <1>5, <1>6, <1>7 DEF HorizonInv

\* A flush moves frames, it loses none: the mirror still names received ones.
LEMMA FlushMirror ==
    ASSUME SyncInv, Flush
    PROVE  MirrorInv'
<1>1. ASSUME NEW c \in Latched, NEW g \in Received', g.ch = c
      PROVE  g.n <= latchedLast'[c]
  <2>1. PICK f \in Received : g.n = f.n /\ g.ch = f.ch
    BY FlushSends
  <2> QED
    BY <1>1, <2>1, FlushSends DEF SyncInv, MirrorInv
<1>2. ASSUME NEW c \in Latched, latchedLast'[c] # NoFrame
      PROVE  \E g \in Received' : g.ch = c /\ g.n = latchedLast'[c]
  <2>1. PICK f \in Received : f.ch = c /\ f.n = latchedLast[c]
    BY <1>2, FlushSends DEF SyncInv, MirrorInv
  <2> QED
    BY <2>1, FlushSends
<1> QED
  BY <1>1, <1>2 DEF MirrorInv

\* A flush shows each panel the newest frame of its channel, or one it awaits.
LEMMA FlushPanels ==
    ASSUME SyncInv, Flush
    PROVE  PanelsInv'
<1>1. shown' = [p \in Panels |-> ShownAfter(p)]
  BY DEF Flush
<1>2. \A p \in Panels \ handlers' : shown'[p] = NoFrame
  BY <1>1, FlushSends DEF ShownAfter, SyncInv, PanelsInv
<1>3. LatePanelsCurrent'
  <2> SUFFICES ASSUME NEW p \in handlers, p \notin replays, Watches[p] \in Latched,
                      StampsInOrder(Watches[p])'
               PROVE  \/ shown'[p] = latchedLast[Watches[p]]
                      \/ \E f \in held' : f.n = latchedLast[Watches[p]]
    BY FlushSends DEF LatePanelsCurrent
  <2>1. StampsInOrder(Watches[p])
    <3> SUFFICES ASSUME NEW f \in Received, NEW g \in Received,
                        f.ch = Watches[p], g.ch = Watches[p], f.n < g.n
                 PROVE  f.t <= g.t
      BY DEF StampsInOrder
    <3>1. PICK f1 \in Received' : f1.n = f.n /\ f1.ch = f.ch /\ f1.t = f.t
      BY FlushSends
    <3>2. PICK g1 \in Received' : g1.n = g.n /\ g1.ch = g.ch /\ g1.t = g.t
      BY FlushSends
    <3> QED
      BY <3>1, <3>2 DEF StampsInOrder
  <2>2. p \in Panels /\ shown'[p] = ShownAfter(p)
    BY <1>1 DEF SyncInv, SyncTypeOK
  <2>3. \/ shown[p] = latchedLast[Watches[p]]
        \/ \E f \in held : f.n = latchedLast[Watches[p]]
    BY <2>1 DEF SyncInv, PanelsInv, LatePanelsCurrent
  <2>4. CASE \E f \in held : f.n = latchedLast[Watches[p]]
    <3>1. PICK f \in held : f.n = latchedLast[Watches[p]]
      BY <2>4
    <3>2. f.n # NoFrame
      BY SyncTypes DEF SyncInv, NoFrame
    <3>3. f.ch = Watches[p]
      <4>1. PICK g \in Received : g.ch = Watches[p] /\ g.n = latchedLast[Watches[p]]
        BY <3>1, <3>2 DEF SyncInv, MirrorInv
      <4>2. g = f
        BY <3>1, <4>1 DEF SyncInv, NumberedInv, Received
      <4> QED
        BY <4>1, <4>2
    <3>4. CASE f \in DueFrames
      BY <2>1, <2>2, <3>1, <3>3, <3>4, NewestIsLast
    <3>5. CASE f \notin DueFrames
      BY <3>1, <3>5, FlushSends
    <3> QED
      BY <3>4, <3>5
  <2>5. CASE /\ shown[p] = latchedLast[Watches[p]]
             /\ ~ \E f \in held : f.n = latchedLast[Watches[p]]
    <3>1. ASSUME NEW f \in DueFrames PROVE f.ch # Watches[p]
      <4> SUFFICES ASSUME f.ch = Watches[p] PROVE FALSE
        OBVIOUS
      <4>1. f \in held /\ f \in Received /\ f.n \in Nat /\ f.t \in Nat /\ f.n > 0
        BY FlushSends, SyncTypes DEF SyncInv, Received
      <4>2. f.n <= latchedLast[Watches[p]] /\ latchedLast[Watches[p]] \in Nat
        BY <4>1, SyncTypes DEF SyncInv, MirrorInv
      <4>3. latchedLast[Watches[p]] # NoFrame
        BY <4>1, <4>2 DEF NoFrame
      <4>4. PICK g \in Received : g.ch = Watches[p] /\ g.n = latchedLast[Watches[p]]
        BY <4>3 DEF SyncInv, MirrorInv
      <4>5. g \in out
        BY <2>5, <4>4 DEF Received
      <4>6. f.n < g.n
        BY <2>5, <4>1, <4>2, <4>4
      <4>7. g.t < f.t
        BY <4>1, <4>5, <4>6 DEF SyncInv, OrderInv
      <4>8. f.t <= g.t
        BY <2>1, <4>1, <4>4, <4>6 DEF StampsInOrder
      <4>9. g.t \in Nat
        BY <4>5, SyncTypes DEF SyncInv
      <4> QED
        BY <4>1, <4>7, <4>8, <4>9
    <3> QED
      BY <2>2, <2>5, <3>1, NothingForPanel
  <2> QED
    BY <2>3, <2>4, <2>5
<1> QED
  BY <1>2, <1>3, FlushSends DEF SyncInv, PanelsInv

-----------------------------------------------------------------------------
\* Steps that leave the frames alone.
LEMMA FramesKept ==
    ASSUME SyncInv,
           UNCHANGED <<held, maxSeenT, arrived, latchedLast, out, rounds, horizon>>
    PROVE  NumberedInv' /\ OrderInv' /\ HorizonInv' /\ MirrorInv'
<1>1. NumberedInv' /\ MirrorInv'
  BY DEF SyncInv, NumberedInv, MirrorInv, Received
<1>2. OrderInv'
  BY DEF SyncInv, OrderInv, OvertakesOnlyOlder, DispatchedBefore, Before
<1>3. HorizonInv'
  BY DEF SyncInv, HorizonInv, MonotoneStream, DispatchedBefore, Before
<1> QED
  BY <1>1, <1>2, <1>3

\* Steps that leave the panels alone as well.
LEMMA PanelsKept ==
    ASSUME SyncInv, UNCHANGED <<held, latchedLast, out, handlers, replays, shown>>
    PROVE  PanelsInv'
BY DEF SyncInv, PanelsInv, LatePanelsCurrent, StampsInOrder, Received

\* Time passing and the user's setting.
LEMMA ClockAndSettingInv ==
    ASSUME SyncInv, (\E k \in 1..MaxFrames : HoldExpires(k)) \/ (\E w \in Windows : SetSyncWindow(w))
    PROVE  SyncInv'
<1>1. UNCHANGED <<held, maxSeenT, ticking, arrived, latchedLast, handlers, replays,
                  shown, out, rounds, horizon>>
  BY DEF HoldExpires, SetSyncWindow
<1>2. expired' \in 0..arrived /\ window' \in Windows
  <2>1. CASE \E k \in 1..MaxFrames : HoldExpires(k)
    BY <2>1, SyncTypes DEF HoldExpires, SyncInv, SyncTypeOK
  <2>2. CASE \E w \in Windows : SetSyncWindow(w)
    BY <2>2 DEF SetSyncWindow, SyncInv, SyncTypeOK
  <2> QED
    BY <2>1, <2>2
<1>3. SyncTypeOK'
  BY <1>1, <1>2 DEF SyncInv, SyncTypeOK
<1> QED
  BY <1>1, <1>3, FramesKept, PanelsKept DEF SyncInv

\* Panels come, go, and are served by their microtasks.
LEMMA PanelStepInv ==
    ASSUME SyncInv, NEW p \in Panels,
           PanelSubscribes(p) \/ PanelUnsubscribes(p) \/ Replay(p)
    PROVE  SyncInv'
<1>1. UNCHANGED <<held, window, maxSeenT, ticking, arrived, expired, latchedLast,
                  out, rounds, horizon>>
  BY DEF PanelSubscribes, PanelUnsubscribes, Replay
<1>2. replays \subseteq handlers /\ handlers \subseteq Panels
      /\ shown \in [Panels -> 0..arrived] /\ NoFrame \in 0..arrived
  BY SyncTypes DEF SyncInv, SyncTypeOK, NoFrame
<1>3. \A c : StampsInOrder(c)' <=> StampsInOrder(c)
  BY <1>1 DEF StampsInOrder, Received
<1>4. CASE PanelSubscribes(p)
  <2>1. handlers' = handlers \cup {p} /\ p \notin handlers /\ shown' = shown
        /\ replays' = IF HasMirror(p) THEN replays \cup {p} ELSE replays
    BY <1>4 DEF PanelSubscribes
  <2>2. SyncTypeOK'
    BY <1>1, <1>2, <2>1 DEF SyncInv, SyncTypeOK
  <2>3. \A q \in Panels \ handlers' : shown'[q] = NoFrame
    BY <2>1 DEF SyncInv, PanelsInv
  <2>4. \A q \in replays' : Watches[q] \in Latched
    BY <2>1 DEF HasMirror, SyncInv, PanelsInv
  <2>5. LatePanelsCurrent'
    <3> SUFFICES ASSUME NEW q \in handlers', q \notin replays', Watches[q] \in Latched,
                        StampsInOrder(Watches[q])
                 PROVE  \/ shown[q] = latchedLast[Watches[q]]
                        \/ \E f \in held : f.n = latchedLast[Watches[q]]
      BY <1>1, <1>3, <2>1 DEF LatePanelsCurrent
    <3>1. CASE q = p
      BY <2>1, <3>1 DEF HasMirror, SyncInv, PanelsInv
    <3>2. CASE q # p
      BY <2>1, <3>2 DEF SyncInv, PanelsInv, LatePanelsCurrent
    <3> QED
      BY <3>1, <3>2
  <2> QED
    BY <1>1, <2>2, <2>3, <2>4, <2>5, FramesKept DEF SyncInv, PanelsInv
<1>5. CASE PanelUnsubscribes(p)
  <2>1. handlers' = handlers \ {p} /\ replays' = replays \ {p}
        /\ shown' = [shown EXCEPT ![p] = NoFrame]
    BY <1>5 DEF PanelUnsubscribes
  <2>2. SyncTypeOK'
    BY <1>1, <1>2, <2>1 DEF SyncInv, SyncTypeOK
  <2>3. \A q \in Panels : shown'[q] = IF q = p THEN NoFrame ELSE shown[q]
    BY <1>2, <2>1
  <2>4. PanelsInv'
    BY <1>1, <1>2, <1>3, <2>1, <2>3 DEF SyncInv, PanelsInv, LatePanelsCurrent
  <2> QED
    BY <1>1, <2>2, <2>4, FramesKept DEF SyncInv
<1>6. CASE Replay(p)
  <2>1. p \in replays /\ replays' = replays \ {p} /\ handlers' = handlers
        /\ shown' = [shown EXCEPT ![p] = latchedLast[Watches[p]]]
    BY <1>6 DEF Replay
  <2>2. latchedLast[Watches[p]] \in 0..arrived
    BY <2>1 DEF SyncInv, SyncTypeOK, PanelsInv
  <2>3. SyncTypeOK'
    BY <1>1, <1>2, <2>1, <2>2 DEF SyncInv, SyncTypeOK
  <2>4. \A q \in Panels : shown'[q] = IF q = p THEN latchedLast[Watches[p]] ELSE shown[q]
    BY <1>2, <2>1
  <2>5. PanelsInv'
    BY <1>1, <1>2, <1>3, <2>1, <2>4 DEF SyncInv, PanelsInv, LatePanelsCurrent
  <2> QED
    BY <1>1, <2>3, <2>5, FramesKept DEF SyncInv
<1> QED
  BY <1>4, <1>5, <1>6

-----------------------------------------------------------------------------
\* Every step keeps the invariant.
LEMMA SyncStepInv == SyncInv /\ [SyncNext]_syncVars => SyncInv'
<1> SUFFICES ASSUME SyncInv, [SyncNext]_syncVars PROVE SyncInv'
  OBVIOUS
<1>1. ASSUME NEW c \in Channels, NEW t \in Stamps, Arrive(c, t) PROVE SyncInv'
  BY <1>1, ArriveInv
<1>2. CASE \E k \in 1..MaxFrames : HoldExpires(k)
  BY <1>2, ClockAndSettingInv
<1>3. CASE Flush
  BY <1>3, FlushTypes, FlushNumbered, FlushOrder, FlushHorizon, FlushMirror, FlushPanels
     DEF SyncInv
<1>4. CASE \E w \in Windows : SetSyncWindow(w)
  BY <1>4, ClockAndSettingInv
<1>5. ASSUME NEW p \in Panels, PanelSubscribes(p) \/ PanelUnsubscribes(p) \/ Replay(p)
      PROVE  SyncInv'
  BY <1>5, PanelStepInv
<1>6. CASE UNCHANGED syncVars
  <2>1. SyncTypeOK'
    BY <1>6 DEF syncVars, SyncInv, SyncTypeOK
  <2> QED
    BY <1>6, <2>1, FramesKept, PanelsKept DEF syncVars, SyncInv
<1> QED
  BY <1>1, <1>2, <1>3, <1>4, <1>5, <1>6 DEF SyncNext

\* The inductive invariant of the window (TimeManager.ts, HubClient.ts 183-214).
THEOREM SyncInvariant == SyncSpec => []SyncInv
BY SyncInitInv, SyncStepInv, PTL DEF SyncSpec

(***************************************************************************)
(* The buffer, the timer, the mirror and the panels keep their shapes, and *)
(* no microtask is left behind for a panel that is gone                    *)
(* (TimeManager.ts 24-28, HubClient.ts 187-194).                           *)
(***************************************************************************)
THEOREM SyncTypeCorrect == SyncSpec => []SyncTypeOK
<1>1. SyncInv => SyncTypeOK
  BY DEF SyncInv
<1> QED
  BY <1>1, SyncInvariant, PTL

(***************************************************************************)
(* A frame overtakes one that arrived before it only with a strictly       *)
(* earlier stamp, over any number of flushes and changes of the window     *)
(* (TimeManager.ts 46-66).                                                 *)
(***************************************************************************)
THEOREM SyncKeepsOrder == SyncSpec => []OvertakesOnlyOlder
<1>1. SyncInv => OvertakesOnlyOlder
  BY DEF SyncInv, OrderInv
<1> QED
  BY <1>1, SyncInvariant, PTL

(***************************************************************************)
(* The dispatched stream goes back in time only for frames that came later *)
(* than the window allows, or behind one that maxHold let out early        *)
(* (TimeManager.ts 52-62).                                                 *)
(***************************************************************************)
THEOREM SyncMonotone == SyncSpec => []MonotoneStream
<1>1. SyncInv => MonotoneStream
  BY DEF SyncInv, HorizonInv
<1> QED
  BY <1>1, SyncInvariant, PTL

(***************************************************************************)
(* A panel on a latched channel in stamp order shows its newest frame,     *)
(* unless that frame is held or about to be replayed                       *)
(* (HubClient.ts 183-195).                                                 *)
(***************************************************************************)
THEOREM SyncServesLatePanels == SyncSpec => []LatePanelsCurrent
<1>1. SyncInv => LatePanelsCurrent
  BY DEF SyncInv, PanelsInv
<1> QED
  BY <1>1, SyncInvariant, PTL

=============================================================================
