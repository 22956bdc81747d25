--------------------------- MODULE DeliveryProofs ---------------------------
(***************************************************************************)
(* Proofs about the delivery of one channel to one client, for any number  *)
(* of frames, any high-water mark and any number of re-subscriptions.      *)
(***************************************************************************)
EXTENDS Delivery, SequenceTheorems, TLAPS

USE DEF NoFrame, Frames

\* A subscription neither parks nor has written a frame it was not offered.
OnlyOffered == top <= offered /\ sub.pending <= offered

DeliveryInv ==
    /\ DeliveryTypeOK
    /\ ParkedIffTimer
    /\ OnlyOffered
    /\ NothingLostSilently
    /\ NeverParkedAndSent

\* A replaced subscription is as good as new: clearSub leaves nothing behind.
LEMMA RenewedIsNew ==
    ASSUME NEW s \in SubStates(Frames), NEW hz \in BOOLEAN
    PROVE  /\ Renewed(s, hz) = NewSub(hz)
           /\ Renewed(s, hz) \in SubStates(Frames)
           /\ Renewed(s, hz).pending = 0
           /\ Renewed(s, hz).timer = "off"
<1>1. ClearSub(s).pending = 0 /\ ClearSub(s).timer = "off"
  BY DEF SubStates, ClearSub
<1>2. Renewed(s, hz) = NewSub(hz)
  BY <1>1 DEF Renewed, NewSub
<1>3. /\ NewSub(hz) \in SubStates(Frames)
      /\ NewSub(hz).pending = 0
      /\ NewSub(hz).timer = "off"
  BY DEF NewSub, SubStates
<1> QED BY <1>2, <1>3

\* A new subscription satisfies the invariant.
LEMMA InitInv == Init => DeliveryInv
<1> SUFFICES ASSUME Init PROVE DeliveryInv
  OBVIOUS
<1>1. PICK hz \in BOOLEAN : sub = NewSub(hz)
  BY DEF Init
<1>2. /\ sub.pending = 0 /\ sub.timer = "off"
      /\ sub \in SubStates(Frames)
  BY <1>1 DEF NewSub, SubStates
<1>3. <<>> \in Seq(Frames)
  OBVIOUS
<1>4. DeliveryTypeOK
  <2>1. wire \in Seq(Frames)
    BY <1>3 DEF Init
  <2>2. /\ published \in 0..MaxFrames /\ received \in 0..MaxFrames
        /\ resubs \in 0..MaxResubscribes
        /\ offered \in 0..published /\ top \in 0..published
    BY DeliveryAssumption DEF Init
  <2>3. shed \in BOOLEAN /\ latched \in BOOLEAN /\ punctualTimers \in BOOLEAN
    BY ZenonT(30) DEF Init
  <2> QED BY <1>2, <2>1, <2>2, <2>3 DEF DeliveryTypeOK
<1>5. ParkedIffTimer /\ OnlyOffered /\ NothingLostSilently /\ NeverParkedAndSent
  BY <1>2 DEF Init, ParkedIffTimer, OnlyOffered, NothingLostSilently,
              NeverParkedAndSent
<1> QED BY <1>4, <1>5 DEF DeliveryInv

(***************************************************************************)
(* trySend: s is the subscription as its caller leaves it, t the newest    *)
(* frame it had written.  Either the frame is shed and nothing else moves, *)
(* or it is written and the subscription is stamped.                       *)
(***************************************************************************)
LEMMA TrySendEffect ==
    ASSUME NEW s \in SubStates(Frames), NEW f \in Frames, NEW t \in 0..MaxFrames,
           wire \in Seq(Frames), shed \in BOOLEAN, TrySend(s, f, t)
    PROVE  /\ sub' \in SubStates(Frames)
           /\ wire' \in Seq(Frames)
           /\ shed' \in BOOLEAN
           /\ sub'.maxHz = s.maxHz
           /\ sub'.pending = s.pending
           /\ sub'.timer = s.timer
           /\ \/ shed' /\ top' = t /\ wire' = wire /\ sub' = s
              \/ /\ shed' = shed
                 /\ top' = (IF f > t THEN f ELSE t)
                 /\ wire' = Append(wire, f)
                 /\ sub' = Stamped(s)
<1>1. CASE BackedUp
  BY <1>1 DEF TrySend, SubStates
<1>2. CASE ~BackedUp
  <2>1. /\ sub' = Stamped(s) /\ wire' = Append(wire, f) /\ shed' = shed
        /\ top' = (IF f > t THEN f ELSE t)
    BY <1>2 DEF TrySend
  <2>2. sub' \in SubStates(Frames)
    BY <2>1 DEF Stamped, SubStates
  <2>3. sub'.maxHz = s.maxHz /\ sub'.pending = s.pending /\ sub'.timer = s.timer
    BY <2>1 DEF Stamped, SubStates
  <2> QED BY <2>1, <2>2, <2>3
<1> QED BY <1>1, <1>2

\* deliver(), whichever branch it takes, preserves the invariant.
LEMMA PublishInv == DeliveryInv /\ Publish => DeliveryInv'
<1> SUFFICES ASSUME DeliveryInv, Publish
             PROVE  DeliveryInv'
  OBVIOUS
<1> DEFINE f == published + 1
<1>1. /\ sub \in SubStates(Frames) /\ wire \in Seq(Frames) /\ shed \in BOOLEAN
      /\ published \in 0..MaxFrames /\ f \in Frames
      /\ top \in 0..MaxFrames /\ top < f /\ offered < f /\ sub.pending < f
      /\ sub.pending \in 0..MaxFrames
  BY DeliveryAssumption
     DEF DeliveryInv, DeliveryTypeOK, OnlyOffered, Publish, SubStates
<1>2. /\ published' = f /\ offered' = f
      /\ received' = received /\ resubs' = resubs
      /\ published' \in 0..MaxFrames
      /\ UNCHANGED <<latched, punctualTimers>>
  BY <1>1, DeliveryAssumption DEF Publish, rigid
<1>3. CASE MustWait(sub) /\ sub' = Park(sub, f) /\ UNCHANGED <<wire, top, shed>>
  <2>1. /\ sub' \in SubStates(Frames)
        /\ sub'.pending = f /\ sub'.timer # "off"
        /\ sub'.maxHz = sub.maxHz /\ sub'.recent = sub.recent
    BY <1>1, <1>3 DEF Park, SubStates
  <2>2. DeliveryTypeOK'
    BY <1>1, <1>2, <1>3, <2>1 DEF DeliveryInv, DeliveryTypeOK
  <2>3. ParkedIffTimer'
    <3>1. MustWait(sub)'
      BY <1>3, <2>1, Zenon DEF MustWait
    <3> QED BY <1>1, <2>1, <3>1 DEF ParkedIffTimer
  <2>4. OnlyOffered' /\ NothingLostSilently' /\ NeverParkedAndSent'
    BY <1>1, <1>2, <1>3, <2>1
       DEF OnlyOffered, NothingLostSilently, NeverParkedAndSent
  <2> QED BY <2>2, <2>3, <2>4 DEF DeliveryInv
<1>4. CASE ~MustWait(sub) /\ TrySend(sub, f, top)
  <2>1. /\ sub' \in SubStates(Frames) /\ wire' \in Seq(Frames) /\ shed' \in BOOLEAN
        /\ sub'.pending = sub.pending /\ sub'.timer = sub.timer
        /\ \/ shed' /\ top' = top
           \/ top' = f
    BY <1>1, <1>4, TrySendEffect
  <2>2. DeliveryTypeOK'
    BY <1>1, <1>2, <2>1 DEF DeliveryInv, DeliveryTypeOK
  <2>3. sub.timer # "armed"
    BY <1>4 DEF DeliveryInv, ParkedIffTimer
  <2>4. ParkedIffTimer'
    BY <2>1, <2>3 DEF DeliveryInv, ParkedIffTimer
  <2>5. OnlyOffered' /\ NothingLostSilently' /\ NeverParkedAndSent'
    BY <1>1, <1>2, <2>1
       DEF DeliveryInv, OnlyOffered, NothingLostSilently, NeverParkedAndSent
  <2> QED BY <2>2, <2>4, <2>5 DEF DeliveryInv
<1> QED BY <1>3, <1>4 DEF Publish

\* The end of the throttle interval preserves the invariant.
LEMMA IntervalInv == DeliveryInv /\ IntervalElapses => DeliveryInv'
<1> SUFFICES ASSUME DeliveryInv, IntervalElapses
             PROVE  DeliveryInv'
  OBVIOUS
<1>1. sub \in SubStates(Frames)
  BY DEF DeliveryInv, DeliveryTypeOK
<1>2. /\ sub' \in SubStates(Frames)
      /\ sub'.pending = sub.pending
      /\ sub'.timer # "armed" /\ (sub'.timer = "off" <=> sub.timer = "off")
  BY <1>1 DEF IntervalElapses, Elapsed, SubStates
<1>3. UNCHANGED <<wire, published, received, resubs, latched, punctualTimers, offered, top, shed>>
  BY DEF IntervalElapses, rigid
<1>4. DeliveryTypeOK'
  BY <1>2, <1>3 DEF DeliveryInv, DeliveryTypeOK
<1> QED BY <1>2, <1>3, <1>4
        DEF DeliveryInv, ParkedIffTimer, OnlyOffered, NothingLostSilently,
            NeverParkedAndSent

\* The timer callback preserves the invariant, whether the send is shed or not.
LEMMA TimerInv == DeliveryInv /\ TimerFires => DeliveryInv'
<1> SUFFICES ASSUME DeliveryInv, TimerFires
             PROVE  DeliveryInv'
  OBVIOUS
<1>1. /\ sub \in SubStates(Frames) /\ wire \in Seq(Frames) /\ shed \in BOOLEAN
      /\ published \in 0..MaxFrames
      /\ top \in 0..MaxFrames /\ offered \in 0..published /\ top <= offered
      /\ sub.pending \in Frames /\ sub.pending <= offered
  BY DeliveryAssumption
     DEF DeliveryInv, DeliveryTypeOK, OnlyOffered, ParkedIffTimer, TimerFires,
         SubStates
<1>2. /\ Unparked(sub) \in SubStates(Frames)
      /\ Unparked(sub).pending = 0 /\ Unparked(sub).timer = "off"
  BY <1>1 DEF Unparked, SubStates
<1>3. TrySend(Unparked(sub), sub.pending, top)
      /\ UNCHANGED <<published, received, resubs, latched, punctualTimers, offered>>
  BY <1>1 DEF TimerFires, rigid
<1>4. /\ sub' \in SubStates(Frames) /\ wire' \in Seq(Frames) /\ shed' \in BOOLEAN
      /\ sub'.pending = 0 /\ sub'.timer = "off"
      /\ \/ shed' /\ top' = top
         \/ shed' = shed /\ top' = IF sub.pending > top THEN sub.pending ELSE top
  BY <1>1, <1>2, <1>3, TrySendEffect
<1>5. top' \in 0..published /\ top' <= offered
  BY <1>1, <1>4
<1>6. DeliveryTypeOK'
  BY <1>1, <1>3, <1>4, <1>5 DEF DeliveryInv, DeliveryTypeOK
<1>7. NothingLostSilently'
  BY <1>1, <1>3, <1>4 DEF DeliveryInv, NothingLostSilently
<1>8. ParkedIffTimer' /\ OnlyOffered' /\ NeverParkedAndSent'
  BY <1>1, <1>3, <1>4, <1>5 DEF ParkedIffTimer, OnlyOffered, NeverParkedAndSent
<1> QED BY <1>6, <1>7, <1>8 DEF DeliveryInv

\* onSubscribe, replay included, preserves the invariant.
LEMMA ResubscribeInv == DeliveryInv /\ Resubscribe => DeliveryInv'
<1> SUFFICES ASSUME DeliveryInv, NEW hz \in BOOLEAN,
                    resubs < MaxResubscribes, resubs' = resubs + 1,
                    UNCHANGED <<published, received, latched, punctualTimers>>,
                    IF latched /\ published # 0
                    THEN /\ offered' = published
                         /\ TrySend(Renewed(sub, hz), published, NoFrame)
                    ELSE /\ offered' = NoFrame
                         /\ sub' = Renewed(sub, hz)
                         /\ top' = NoFrame
                         /\ shed' = FALSE
                         /\ UNCHANGED wire
             PROVE  DeliveryInv'
  BY DEF Resubscribe, rigid
<1>1. /\ sub \in SubStates(Frames) /\ wire \in Seq(Frames) /\ shed \in BOOLEAN
      /\ published \in 0..MaxFrames /\ received \in 0..MaxFrames
      /\ resubs' \in 0..MaxResubscribes
  BY DeliveryAssumption DEF DeliveryInv, DeliveryTypeOK
<1>2. /\ Renewed(sub, hz) \in SubStates(Frames)
      /\ Renewed(sub, hz).pending = 0 /\ Renewed(sub, hz).timer = "off"
  BY <1>1, RenewedIsNew
<1>3. /\ sub' \in SubStates(Frames) /\ wire' \in Seq(Frames) /\ shed' \in BOOLEAN
      /\ sub'.pending = 0 /\ sub'.timer = "off"
      /\ offered' \in 0..published /\ top' \in 0..published
      /\ top' <= offered'
      /\ offered' = top' \/ shed'
  <2>1. CASE latched /\ published # 0
    <3>1. published \in Frames /\ 0 \in 0..MaxFrames
      BY <1>1, <2>1, DeliveryAssumption
    <3>2. /\ TrySend(Renewed(sub, hz), published, 0)
          /\ offered' = published
      BY <2>1
    <3>3. /\ sub' \in SubStates(Frames) /\ wire' \in Seq(Frames) /\ shed' \in BOOLEAN
          /\ sub'.pending = 0 /\ sub'.timer = "off"
          /\ \/ shed' /\ top' = 0
             \/ top' = (IF published > 0 THEN published ELSE 0)
      BY <1>1, <1>2, <3>1, <3>2, TrySendEffect
    <3>4. top' \in {0, published}
      BY <3>3
    <3>5. published \in 0..published /\ 0 \in 0..published
      BY <1>1
    <3>6. offered' = top' \/ shed'
      BY <3>1, <3>2, <3>3
    <3> QED BY <3>2, <3>3, <3>4, <3>5, <3>6
  <2>2. CASE ~(latched /\ published # 0)
    <3>1. /\ offered' = 0 /\ top' = 0 /\ shed' = FALSE /\ wire' = wire
          /\ sub' = Renewed(sub, hz)
      BY <2>2
    <3>2. offered' \in 0..published /\ top' \in 0..published /\ top' <= offered'
      BY <1>1, <3>1
    <3> QED BY <1>1, <1>2, <3>1, <3>2
  <2> QED BY <2>1, <2>2
<1>4. DeliveryTypeOK'
  <2>1. latched' \in BOOLEAN /\ punctualTimers' \in BOOLEAN
    BY DEF DeliveryInv, DeliveryTypeOK
  <2> QED BY <1>1, <1>3, <2>1 DEF DeliveryTypeOK
<1> QED BY <1>3, <1>4
        DEF DeliveryInv, ParkedIffTimer, OnlyOffered, NothingLostSilently,
            NeverParkedAndSent

\* Reading the socket preserves the invariant.
LEMMA ReadInv == DeliveryInv /\ Read => DeliveryInv'
<1> SUFFICES ASSUME DeliveryInv, Read
             PROVE  DeliveryInv'
  OBVIOUS
<1>1. wire \in Seq(Frames) /\ wire # <<>>
  BY DEF DeliveryInv, DeliveryTypeOK, Read
<1>2. wire' \in Seq(Frames) /\ received' \in 0..MaxFrames
  <2>1. Head(wire) \in Frames /\ Tail(wire) \in Seq(Frames)
    BY <1>1, HeadTailProperties
  <2> QED BY <2>1, DeliveryAssumption DEF Read
<1>3. UNCHANGED <<sub, published, resubs, latched, punctualTimers, offered, top, shed>>
  BY DEF Read, rigid
<1>4. DeliveryTypeOK'
  BY <1>2, <1>3 DEF DeliveryInv, DeliveryTypeOK
<1> QED BY <1>3, <1>4
        DEF DeliveryInv, ParkedIffTimer, OnlyOffered, NothingLostSilently,
            NeverParkedAndSent

\* Every step preserves the invariant.
LEMMA StepInv == DeliveryInv /\ [Next]_vars => DeliveryInv'
<1>1. DeliveryInv /\ UNCHANGED vars => DeliveryInv'
  BY DEF vars, rigid, DeliveryInv, DeliveryTypeOK, ParkedIffTimer, OnlyOffered,
         NothingLostSilently, NeverParkedAndSent
<1> QED BY <1>1, PublishInv, IntervalInv, TimerInv, ResubscribeInv, ReadInv
        DEF Next

(***************************************************************************)
(* The invariant of a subscription: well typed, parked frames and timers   *)
(* go together, and nothing is lost silently.                              *)
(***************************************************************************)
THEOREM DeliveryInvariant == Spec => []DeliveryInv
BY InitInv, StepInv, PTL DEF Spec

(***************************************************************************)
(* The newest frame offered to a subscription was written to the socket,   *)
(* or is parked, or something was shed to backpressure: late timers alone  *)
(* never lose the final value, they only let it be overtaken.              *)
(***************************************************************************)
THEOREM DeliveryNothingLost == Spec => []NothingLostSilently
<1>1. DeliveryInv => NothingLostSilently
  BY DEF DeliveryInv
<1> QED BY <1>1, DeliveryInvariant, PTL

\* A parked frame always has a timer that will take it, and conversely.
THEOREM DeliveryParkedIffTimer == Spec => []ParkedIffTimer
<1>1. DeliveryInv => ParkedIffTimer
  BY DEF DeliveryInv
<1> QED BY <1>1, DeliveryInvariant, PTL

-----------------------------------------------------------------------------
(***************************************************************************)
(* With punctual timers a due timer is never overtaken by another send, so *)
(* it fires outside the interval.                                          *)
(***************************************************************************)
DueNotRecent == sub.timer = "due" => ~sub.recent

\* Every step preserves it: a send while the timer is due is ruled out.
LEMMA DueNotRecentStep ==
    ASSUME punctualTimers, DeliveryInv, DueNotRecent, [Next]_vars
    PROVE  DueNotRecent'
<1>1. sub \in SubStates(Frames)
  BY DEF DeliveryInv, DeliveryTypeOK
<1>2. ASSUME NEW s, NEW f, NEW t, s.timer # "due", s \in SubStates(Frames),
             TrySend(s, f, t)
      PROVE  sub'.timer # "due"
  BY <1>2 DEF TrySend, Stamped, SubStates
<1>3. CASE Publish
  <2>1. sub.timer # "due"
    BY <1>3 DEF Publish
  <2>2. CASE sub' = Park(sub, published + 1)
    BY <1>1, <2>1, <2>2 DEF Park, SubStates, DueNotRecent
  <2>3. CASE TrySend(sub, published + 1, top)
    BY <1>1, <1>2, <2>1, <2>3 DEF DueNotRecent
  <2> QED BY <1>3, <2>2, <2>3 DEF Publish
<1>4. CASE IntervalElapses
  BY <1>1, <1>4 DEF IntervalElapses, Elapsed, SubStates, DueNotRecent
<1>5. CASE TimerFires
  <2>1. Unparked(sub) \in SubStates(Frames) /\ Unparked(sub).timer = "off"
    BY <1>1 DEF Unparked, SubStates
  <2>2. \/ TrySend(Unparked(sub), sub.pending, top)
        \/ sub' = Unparked(sub)
    BY <1>5 DEF TimerFires
  <2> QED BY <1>2, <2>1, <2>2 DEF DueNotRecent
<1>6. CASE Resubscribe
  <2>1. PICK hz \in BOOLEAN : \/ TrySend(Renewed(sub, hz), published, NoFrame)
                              \/ sub' = Renewed(sub, hz)
    BY <1>6 DEF Resubscribe
  <2>2. Renewed(sub, hz) \in SubStates(Frames) /\ Renewed(sub, hz).timer = "off"
    BY <1>1, RenewedIsNew
  <2> QED BY <1>2, <2>1, <2>2 DEF DueNotRecent
<1>7. CASE Read \/ UNCHANGED vars
  BY <1>7 DEF Read, vars, DueNotRecent
<1> QED BY <1>3, <1>4, <1>5, <1>6, <1>7 DEF Next

\* Whether timers are punctual does not change.
LEMMA StaysPunctual == [Next]_vars => punctualTimers' = punctualTimers
BY DEF Next, Publish, IntervalElapses, TimerFires, Resubscribe, Read, vars, rigid

\* With punctual timers, a due timer never meets a fresh interval.
LEMMA DueNotRecentInvariant ==
    Spec => [](DeliveryInv /\ (punctualTimers => DueNotRecent))
<1>1. Init => DueNotRecent
  BY DEF Init, DueNotRecent, NewSub
<1>2. DeliveryInv /\ (punctualTimers => DueNotRecent) /\ [Next]_vars
        => (punctualTimers => DueNotRecent)'
  BY StaysPunctual, DueNotRecentStep
<1> QED BY <1>1, <1>2, InitInv, StepInv, PTL DEF Spec

(***************************************************************************)
(* max_hz is enforced (broker.ts:4), for any backpressure, as long as      *)
(* timers are punctual.  The premise is needed: a late timer callback does *)
(* not look at the time of the last write again.                           *)
(***************************************************************************)
THEOREM DeliveryRateLimited == Spec => RateLimited
<1>1. ASSUME DeliveryInv, punctualTimers => DueNotRecent, [Next]_vars
      PROVE  [punctualTimers /\ Len(wire') > Len(wire) /\ UNCHANGED resubs
                  => ~(sub.maxHz /\ sub.recent)]_vars
  <2>1. CASE Publish
    BY <2>1 DEF Publish, MustWait
  <2>2. CASE IntervalElapses
    BY <2>2, <1>1 DEF IntervalElapses, DeliveryInv, DeliveryTypeOK
  <2>3. CASE TimerFires
    BY <2>3, <1>1 DEF TimerFires, DueNotRecent
  <2>4. CASE Resubscribe
    <3>1. resubs' = resubs + 1 /\ resubs \in Nat
      BY <2>4, <1>1, DeliveryAssumption DEF Resubscribe, DeliveryInv, DeliveryTypeOK
    <3> QED BY <3>1
  <2>5. CASE Read
    <3>1. wire \in Seq(Frames) /\ wire # <<>> /\ wire' = Tail(wire)
      BY <2>5, <1>1 DEF Read, DeliveryInv, DeliveryTypeOK
    <3>2. Len(wire') = Len(wire) - 1 /\ Len(wire) \in Nat
      BY <3>1, HeadTailProperties, LenProperties
    <3> QED BY <3>2
  <2> QED BY <1>1, <2>1, <2>2, <2>3, <2>4, <2>5 DEF Next
<1> QED BY <1>1, DueNotRecentInvariant, PTL DEF Spec, RateLimited

-----------------------------------------------------------------------------
(***************************************************************************)
(* The order the viewer sees: what is on the socket is in publication      *)
(* order, behind what was read, and a parked frame is behind all of it.    *)
(***************************************************************************)
Ordered ==
    /\ \A i, j \in 1..Len(wire) : i <= j => wire[i] <= wire[j]
    /\ \A i \in 1..Len(wire) :
          /\ received <= wire[i] /\ wire[i] <= published
          /\ sub.pending # 0 => wire[i] <= sub.pending
    /\ received <= published
    /\ sub.pending # 0 => received <= sub.pending

\* Appending a frame that nothing on the socket exceeds keeps the order.
LEMMA AppendOrdered ==
    ASSUME DeliveryInv, Ordered, NEW f \in Frames,
           \A i \in 1..Len(wire) : wire[i] <= f,
           received <= f, f <= published', sub'.pending = 0,
           published <= published', published' \in Nat,
           received' = received, wire' = Append(wire, f)
    PROVE  Ordered'
<1>1. /\ wire \in Seq(Frames) /\ received \in Nat /\ published \in Nat
      /\ Len(wire) \in Nat
  BY LenProperties DEF DeliveryInv, DeliveryTypeOK
<1>2. /\ Len(wire') = Len(wire) + 1
      /\ \A i \in 1..Len(wire) : wire'[i] = wire[i]
      /\ wire'[Len(wire) + 1] = f
  BY <1>1, AppendProperties
<1>3. \A i \in 1..Len(wire) : wire[i] \in Nat
  <2>1. \A i \in 1..Len(wire) : wire[i] \in Frames
    BY <1>1, ElementOfSeq
  <2> QED BY <2>1
<1>4. \A i, j \in 1..Len(wire') : i <= j => wire'[i] <= wire'[j]
  <2> SUFFICES ASSUME NEW i \in 1..Len(wire'), NEW j \in 1..Len(wire'), i <= j
               PROVE  wire'[i] <= wire'[j]
    OBVIOUS
  <2>1. CASE j = Len(wire) + 1 /\ i = j
    BY <2>1, <1>2
  <2>2. CASE j = Len(wire) + 1 /\ i # j
    <3>1. i \in 1..Len(wire)
      BY <2>2, <1>1, <1>2
    <3> QED BY <2>2, <3>1, <1>2
  <2>3. CASE j # Len(wire) + 1
    <3>1. i \in 1..Len(wire) /\ j \in 1..Len(wire)
      BY <2>3, <1>1, <1>2
    <3> QED BY <3>1, <1>2 DEF Ordered
  <2> QED BY <2>1, <2>2, <2>3
<1>5. \A i \in 1..Len(wire') : received <= wire'[i] /\ wire'[i] <= published'
  <2> SUFFICES ASSUME NEW i \in 1..Len(wire')
               PROVE  received <= wire'[i] /\ wire'[i] <= published'
    OBVIOUS
  <2>1. CASE i = Len(wire) + 1
    BY <2>1, <1>2
  <2>2. CASE i # Len(wire) + 1
    <3>1. i \in 1..Len(wire)
      BY <2>2, <1>1, <1>2
    <3> QED BY <3>1, <1>1, <1>2, <1>3 DEF Ordered
  <2> QED BY <2>1, <2>2
<1> QED BY <1>1, <1>4, <1>5 DEF Ordered

\* Every step keeps the socket, the parked frame and the viewer in order.
LEMMA OrderedStep ==
    ASSUME punctualTimers, DeliveryInv, DueNotRecent, Ordered, [Next]_vars
    PROVE  Ordered'
<1>1. /\ sub \in SubStates(Frames) /\ wire \in Seq(Frames) /\ Len(wire) \in Nat
      /\ published \in 0..MaxFrames /\ received \in Nat
      /\ sub.pending \in 0..published
  BY LenProperties, DeliveryAssumption
     DEF DeliveryInv, DeliveryTypeOK, OnlyOffered, SubStates
<1>2. CASE Publish
  <2> DEFINE f == published + 1
  <2>1. /\ f \in Frames /\ published' = f /\ received' = received
        /\ received <= f
        /\ \A i \in 1..Len(wire) : wire[i] <= f
    BY <1>1, <1>2, DeliveryAssumption DEF Publish, Ordered
  <2>2. CASE sub' = Park(sub, f) /\ wire' = wire
    <3>1. sub'.pending = f
      BY <1>1, <2>2 DEF Park, SubStates
    <3> QED BY <1>1, <2>1, <2>2, <3>1 DEF Ordered
  <2>3. CASE ~MustWait(sub) /\ TrySend(sub, f, top)
    <3>1. sub.pending = 0
      BY <1>1, <1>2, <2>3 DEF Publish, DeliveryInv, ParkedIffTimer, SubStates
    <3>2. CASE wire' = wire /\ sub' = sub
      BY <1>1, <2>1, <3>1, <3>2 DEF Ordered
    <3>3. CASE wire' = Append(wire, f) /\ sub' = Stamped(sub)
      <4>1. sub'.pending = 0
        BY <1>1, <3>1, <3>3 DEF Stamped, SubStates
      <4> QED BY <1>1, <2>1, <3>3, <4>1, AppendOrdered
    <3> QED BY <2>3, <3>2, <3>3 DEF TrySend
  <2> QED BY <1>2, <2>2, <2>3 DEF Publish
<1>3. CASE IntervalElapses
  <2>1. sub'.pending = sub.pending
    BY <1>1, <1>3 DEF IntervalElapses, Elapsed, SubStates
  <2> QED BY <1>3, <2>1 DEF IntervalElapses, Ordered
<1>4. CASE TimerFires
  <2>1. sub.pending # 0
    BY <1>4 DEF TimerFires, DeliveryInv, ParkedIffTimer
  <2>2. TrySend(Unparked(sub), sub.pending, top)
        /\ UNCHANGED <<published, received>>
    BY <1>4, <2>1 DEF TimerFires
  <2>3. Unparked(sub) \in SubStates(Frames) /\ Unparked(sub).pending = 0
    BY <1>1 DEF Unparked, SubStates
  <2>4. CASE wire' = wire /\ sub' = Unparked(sub)
    BY <1>1, <2>2, <2>3, <2>4 DEF Ordered
  <2>5. CASE wire' = Append(wire, sub.pending) /\ sub' = Stamped(Unparked(sub))
    <3>1. sub'.pending = 0
      BY <2>3, <2>5 DEF Stamped, SubStates
    <3>2. sub.pending \in Frames /\ received <= sub.pending
          /\ \A i \in 1..Len(wire) : wire[i] <= sub.pending
      BY <1>1, <2>1, DeliveryAssumption DEF Ordered
    <3> QED BY <1>1, <2>2, <2>5, <3>1, <3>2, AppendOrdered
  <2> QED BY <2>2, <2>4, <2>5 DEF TrySend
<1>5. CASE Resubscribe
  <2>1. PICK hz \in BOOLEAN :
           \/ published # 0 /\ TrySend(Renewed(sub, hz), published, NoFrame)
           \/ sub' = Renewed(sub, hz) /\ wire' = wire
    BY <1>5 DEF Resubscribe
  <2>2. UNCHANGED <<published, received>>
    BY <1>5 DEF Resubscribe
  <2>3. Renewed(sub, hz) \in SubStates(Frames) /\ Renewed(sub, hz).pending = 0
    BY <1>1, RenewedIsNew
  <2>4. CASE wire' = wire /\ sub' = Renewed(sub, hz)
    BY <1>1, <2>2, <2>3, <2>4 DEF Ordered
  <2>5. CASE /\ published # 0
             /\ wire' = Append(wire, published) /\ sub' = Stamped(Renewed(sub, hz))
    <3>1. sub'.pending = 0
      BY <2>3, <2>5 DEF Stamped, SubStates
    <3>2. published \in Frames /\ received <= published
          /\ \A i \in 1..Len(wire) : wire[i] <= published
      BY <1>1, <2>5, DeliveryAssumption DEF Ordered
    <3> QED BY <1>1, <2>2, <2>5, <3>1, <3>2, AppendOrdered
  <2> QED BY <2>1, <2>4, <2>5 DEF TrySend
<1>6. CASE Read
  <2>1. /\ wire # <<>> /\ wire' = Tail(wire) /\ received' = Head(wire)
        /\ UNCHANGED <<sub, published>>
    BY <1>6 DEF Read
  <2>2. /\ Len(wire') = Len(wire) - 1
        /\ \A i \in 1..Len(wire') : wire'[i] = wire[i + 1]
    BY <1>1, <2>1, HeadTailProperties
  <2>3. received' = wire[1] /\ 1 \in 1..Len(wire)
    BY <1>1, <2>1
  <2>4. \A i \in 1..Len(wire') : i + 1 \in 1..Len(wire)
    BY <1>1, <2>2
  <2> QED BY <1>1, <2>1, <2>2, <2>3, <2>4 DEF Ordered
<1>7. CASE UNCHANGED vars
  BY <1>7 DEF vars, Ordered
<1> QED BY <1>2, <1>3, <1>4, <1>5, <1>6, <1>7 DEF Next

(***************************************************************************)
(* With punctual timers the viewer never moves back to an older value,     *)
(* whatever is shed and however often it re-subscribes: Delivery           *)
(* implements the safety part of LatestValue.                              *)
(***************************************************************************)
THEOREM DeliveryNeverMovesBack == Spec => NeverMovesBack
<1>1. Init => LV!LVInit /\ Ordered
  <2> SUFFICES ASSUME Init PROVE LV!LVInit /\ Ordered
    OBVIOUS
  <2>1. wire = <<>> /\ published = 0 /\ received = 0 /\ sub.pending = 0
    BY DEF Init, NewSub
  <2>2. Len(wire) = 0
    BY <2>1
  <2> QED BY <2>1, <2>2 DEF LV!LVInit, If, Ordered
<1>2. ASSUME DeliveryInv, punctualTimers => Ordered, [Next]_vars
      PROVE  [LV!LVNext]_(LV!lvVars)
  <2>1. CASE ~punctualTimers
    BY <1>2, <2>1, StaysPunctual DEF LV!lvVars, If
  <2>2. CASE punctualTimers /\ Publish
    BY <1>2, <2>2, StaysPunctual DEF Publish, LV!LVNext, LV!PublishNext, If
  <2>3. CASE punctualTimers /\ Read
    <3>1. /\ wire \in Seq(Frames) /\ wire # <<>> /\ Len(wire) \in Nat
          /\ published \in Nat /\ received \in Nat
      BY <1>2, <2>3, LenProperties DEF Read, DeliveryInv, DeliveryTypeOK
    <3>2. received' = wire[1] /\ 1 \in 1..Len(wire) /\ published' = published
      BY <2>3, <3>1 DEF Read
    <3>3. received' \in Frames
      BY <3>1, <3>2, ElementOfSeq
    <3>4. received <= received' /\ received' <= published
      BY <1>2, <2>3, <3>2 DEF Ordered
    <3>5. /\ If(punctualTimers, published) = published
          /\ If(punctualTimers, published)' = published
          /\ If(punctualTimers, received) = received
          /\ If(punctualTimers, received)' = received'
      BY <1>2, <2>3, <3>2, StaysPunctual DEF If
    <3>6. received' = received \/ received' \in (received + 1)..published
      BY <3>1, <3>3, <3>4
    <3> QED BY <3>5, <3>6 DEF LV!LVNext, LV!ShowNewer, LV!lvVars
  <2>4. CASE IntervalElapses \/ TimerFires \/ Resubscribe \/ UNCHANGED vars
    <3>1. published' = published /\ received' = received
      BY <2>4 DEF IntervalElapses, TimerFires, Resubscribe, vars
    <3> QED BY <1>2, <3>1, StaysPunctual DEF LV!lvVars, If
  <2> QED BY <1>2, <2>1, <2>2, <2>3, <2>4 DEF Next
<1>3. DeliveryInv /\ (punctualTimers => DueNotRecent) /\ (punctualTimers => Ordered) /\ [Next]_vars
        => (punctualTimers => Ordered)'
  BY StaysPunctual, OrderedStep
<1>4. Spec => [](punctualTimers => Ordered)
  BY <1>1, <1>3, DueNotRecentInvariant, PTL DEF Spec
<1> QED BY <1>1, <1>2, <1>4, DeliveryInvariant, PTL
        DEF Spec, NeverMovesBack, LV!LVSafety
=============================================================================
