------------------------------ MODULE Delivery ------------------------------
(***************************************************************************)
(* One channel fanned out to one subscribed client: the max_hz throttle    *)
(* with its trailing-edge timer, the backpressure drop, re-subscription,   *)
(* and the client's socket (packages/hub/src/broker.ts, 269-351).          *)
(***************************************************************************)
EXTENDS Subscription, Sequences

CONSTANTS
    MaxFrames,        \* bound: frames published in one behaviour
    HighWater,        \* MAX_BUFFERED_BYTES, counted in queued frames
    MaxResubscribes   \* bound: times the client re-issues `subscribe`

ASSUME DeliveryAssumption ==
    /\ MaxFrames \in Nat
    /\ HighWater \in Nat
    /\ MaxResubscribes \in Nat

VARIABLES
    sub,         \* the Subscription record of the client's conn
    wire,        \* frames written to the socket and not yet read
    published,   \* frames published so far
    received,    \* the last frame the client has read
    resubs,      \* re-subscriptions so far
    latched,     \* rigid: the channel is latched
    punctualTimers,  \* rigid: a due timer runs before the next frame is handled
    offered,     \* history: newest frame offered to this Subscription
    top,         \* history: newest frame this Subscription wrote to the socket
    shed         \* history: did this Subscription drop a frame to backpressure?

rigid == <<latched, punctualTimers>>
vars == <<sub, wire, published, received, resubs, rigid, offered, top, shed>>

Frames == 1..MaxFrames

Init ==
    /\ sub \in {NewSub(hz) : hz \in BOOLEAN}
    /\ wire = <<>>
    /\ published = 0
    /\ received = NoFrame
    /\ resubs = 0
    /\ latched \in BOOLEAN /\ punctualTimers \in BOOLEAN
    /\ offered = NoFrame
    /\ top = NoFrame
    /\ shed = FALSE

BackedUp == Len(wire) > HighWater

\* trySend(conn, s, f): s is the subscription as the caller leaves it, t the
\* newest frame s had written before.
TrySend(s, f, t) ==
    IF BackedUp
    THEN /\ sub' = s
         /\ shed' = TRUE
         /\ top' = t
         /\ UNCHANGED wire
    ELSE /\ sub' = Stamped(s)
         /\ wire' = Append(wire, f)
         /\ top' = IF f > t THEN f ELSE t
         /\ UNCHANGED shed

\* The source publishes: fanout, deliver.
Publish ==
    /\ published < MaxFrames
    /\ punctualTimers => sub.timer # "due"
    /\ published' = published + 1
    /\ offered' = published + 1
    /\ \/ /\ MustWait(sub)
          /\ sub' = Park(sub, published + 1)
          /\ UNCHANGED <<wire, top, shed>>
       \/ /\ ~MustWait(sub)
          /\ TrySend(sub, published + 1, top)
    /\ UNCHANGED <<received, resubs, rigid>>

IntervalElapses ==
    /\ sub.recent
    /\ sub' = Elapsed(sub)
    /\ UNCHANGED <<wire, published, received, resubs, rigid, offered, top, shed>>

\* The trailing-edge callback: take the parked frame and send it.
TimerFires ==
    /\ sub.timer = "due"
    /\ IF sub.pending # NoFrame
       THEN TrySend(Unparked(sub), sub.pending, top)
       ELSE sub' = Unparked(sub) /\ UNCHANGED <<wire, top, shed>>
    /\ UNCHANGED <<published, received, resubs, rigid, offered>>

\* A second `subscribe` for the same channel (HubClient re-issues it whenever
\* the fastest max_hz among its panels changes): clearSub, a fresh entry, and
\* the replay of a latched channel's cached frame.
Resubscribe ==
    /\ resubs < MaxResubscribes
    /\ resubs' = resubs + 1
    /\ \E hz \in BOOLEAN :
          IF latched /\ published # 0
          THEN /\ offered' = published
               /\ TrySend(Renewed(sub, hz), published, NoFrame)
          ELSE /\ offered' = NoFrame
               /\ sub' = Renewed(sub, hz)
               /\ top' = NoFrame
               /\ shed' = FALSE
               /\ UNCHANGED wire
    /\ UNCHANGED <<published, received, rigid>>

\* The client reads its socket.
Read ==
    /\ wire # <<>>
    /\ received' = Head(wire)
    /\ wire' = Tail(wire)
    /\ UNCHANGED <<sub, published, resubs, rigid, offered, top, shed>>

Next == Publish \/ IntervalElapses \/ TimerFires \/ Resubscribe \/ Read

Spec == Init /\ [][Next]_vars

\* Timers come due and run, and a connected client reads its socket.  Nothing
\* obliges the source to publish or the client to re-subscribe.
Fairness == WF_vars(IntervalElapses) /\ WF_vars(TimerFires) /\ WF_vars(Read)

FairSpec == Spec /\ Fairness
-----------------------------------------------------------------------------
DeliveryTypeOK ==
    /\ sub \in SubStates(Frames)
    /\ wire \in Seq(Frames)
    /\ published \in 0..MaxFrames
    /\ received \in 0..MaxFrames
    /\ resubs \in 0..MaxResubscribes
    /\ offered \in 0..published
    /\ top \in 0..published
    /\ shed \in BOOLEAN
    /\ latched \in BOOLEAN /\ punctualTimers \in BOOLEAN

(***************************************************************************)
(* A parked frame always has a timer that will take it, and no timer is    *)
(* left running with nothing to send (deliver, 325-342; clearSub).         *)
(***************************************************************************)
ParkedIffTimer ==
    /\ sub.pending # NoFrame <=> sub.timer # "off"
    /\ sub.timer = "armed" => MustWait(sub)

(***************************************************************************)
(* "The channel's final value always reaches the client" (321-324), as far *)
(* as the code goes: the newest frame offered to a subscription has been   *)
(* written to the socket, or is parked with its timer running, or some     *)
(* frame was shed to backpressure.                                         *)
(***************************************************************************)
NothingLostSilently == offered \in {top, sub.pending} \/ shed

(***************************************************************************)
(* No frame is both parked and already written: the direct send and the    *)
(* trailing edge never deliver the same frame twice (deliver, 325-342).    *)
(***************************************************************************)
NeverParkedAndSent == sub.pending # NoFrame => sub.pending # top

\* A parked frame does not stay parked (the trailing edge comes).
FlushedEventually == sub.pending # NoFrame ~> sub.pending = NoFrame

(***************************************************************************)
(* "enforcing per-(channel, client) max_hz" (broker.ts:4): with punctual   *)
(* timers nothing is written to the socket within the interval since the   *)
(* last write.  A re-subscription starts afresh: its replay is not held    *)
(* back.                                                                   *)
(***************************************************************************)
RateLimited ==
    [][ punctualTimers /\ Len(wire') > Len(wire) /\ UNCHANGED resubs
            => ~(sub.maxHz /\ sub.recent) ]_vars

(***************************************************************************)
(* "A throttled channel settles on its final value instead of freezing on  *)
(* a stale one" (27-30).                                                   *)
(***************************************************************************)
SettlesOnFinal == <>[](received = published)

(***************************************************************************)
(* What the viewer is promised holds under premises (an action formula can *)
(* have none, so where a premise fails the abstract link carries nothing): *)
(* that it never moves back needs punctual timers; that it ends up with    *)
(* the last value needs a latched channel too where the client subscribes  *)
(* again, because that loses what was parked.                              *)
(***************************************************************************)
If(premise, n) == IF premise THEN n ELSE 0

LV == INSTANCE LatestValue
          WITH latest <- If(punctualTimers, published),
               shown <- If(punctualTimers, received),
               excused <- shed \/ (~latched /\ resubs # 0)

\* The viewer's promise, with its liveness; and what it never does.
ViewerPromise == LV!LVSpec
NeverMovesBack == LV!LVSafety
=============================================================================
