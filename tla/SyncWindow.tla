----------------------------- MODULE SyncWindow -----------------------------
(***************************************************************************)
(* What happens to a data frame inside a window of the app, from its       *)
(* socket to the panels: TimeManager holds it for the sync window and      *)
(* flushes in stamp order, MessageRouter calls the handlers, and the       *)
(* mirror of latched channels serves panels that come late                 *)
(* (packages/app/src/core/TimeManager.ts, protocol/MessageRouter.ts,       *)
(* protocol/HubClient.ts 183-214 and 322-337).                             *)
(*                                                                         *)
(* Frames are numbered by arrival.  Stamps come from the sources' clocks   *)
(* and are arbitrary; the wall clock only decides which frames have been   *)
(* held for maxHold, and those are always the first to have arrived.       *)
(***************************************************************************)
EXTENDS Integers

CONSTANTS
    Channels,    \* channels this window receives
    Latched,     \* those of them that are latched
    Panels,      \* handlers that may be registered, each on one channel
    Watches,     \* Watches[p]: the channel of panel p
    Stamps,      \* source timestamps that occur
    Windows,     \* sync windows the user may set
    MaxFrames    \* bound: frames that arrive

ASSUME SyncAssumption ==
    /\ Latched \subseteq Channels
    /\ Panels \subseteq DOMAIN Watches /\ \A p \in Panels : Watches[p] \in Channels
    /\ Stamps \subseteq Nat \ {0} /\ Windows \subseteq Nat
    /\ MaxFrames \in Nat

VARIABLES
    held,         \* frames waiting
    window,       \* syncWindowSec
    maxSeenT,
    ticking,      \* timer # null
    arrived,      \* frames that have arrived so far
    expired,      \* of those, how many arrived maxHold ago or earlier
    latchedLast,  \* newest frame of each latched channel, 0 for none
    handlers,     \* panels registered with the router
    replays,      \* microtasks: panels about to be given latchedLast
    shown,        \* number of the frame each panel was last called with
    out,          \* history: the frames dispatched, each with its flush
    rounds,       \* history: flushes that dispatched something
    horizon       \* history: highest stamp up to which frames were let go

syncVars == <<held, window, maxSeenT, ticking, arrived, expired, latchedLast,
          handlers, replays, shown, out, rounds, horizon>>

NoFrame == 0

\* `late`: it arrived when frames with later stamps had already been let go.
Frames == [n : 1..MaxFrames, ch : Channels, t : Stamps, late : BOOLEAN]

\* A dispatched frame also has its flush, and whether only maxHold made it due.
Dispatched == [n : 1..MaxFrames, ch : Channels, t : Stamps, late : BOOLEAN,
               forced : BOOLEAN, round : Nat]

SyncInit ==
    /\ held = {}
    /\ window \in Windows
    /\ maxSeenT = 0
    /\ ticking = FALSE
    /\ arrived = 0 /\ expired = 0
    /\ latchedLast = [c \in Latched |-> NoFrame]
    /\ handlers = {} /\ replays = {}
    /\ shown = [p \in Panels |-> NoFrame]
    /\ out = {} /\ rounds = 0
    /\ horizon = 0

\* Microtasks run before the next callback does.
TaskMayRun == replays = {}

-----------------------------------------------------------------------------
\* onMessage of a data frame, and enqueue.
Arrive(c, t) ==
    /\ TaskMayRun
    /\ arrived < MaxFrames
    /\ arrived' = arrived + 1
    /\ held' = held \cup {[n |-> arrived + 1, ch |-> c, t |-> t, late |-> t <= horizon]}
    /\ maxSeenT' = IF t > maxSeenT THEN t ELSE maxSeenT
    /\ ticking' = TRUE
    /\ latchedLast' = [l \in Latched |-> IF l = c THEN arrived + 1 ELSE latchedLast[l]]
    /\ UNCHANGED <<window, expired, handlers, replays, shown, out, rounds, horizon>>

\* Time passes: maxHold is over for every frame up to the k-th.
HoldExpires(k) ==
    /\ k \in (expired + 1)..arrived
    /\ expired' = k
    /\ UNCHANGED <<held, window, maxSeenT, ticking, arrived, latchedLast,
                   handlers, replays, shown, out, rounds, horizon>>

-----------------------------------------------------------------------------
(* flush *)

\* Mutant: newest first among frames of one stamp.
Mut_BeforeUnstable(f, g) == f.t < g.t \/ (f.t = g.t /\ f.n > g.n)

\* Mutant: no sort.
Mut_BeforeUnsorted(f, g) == f.n < g.n

\* The sort is stable: frames of one stamp keep the order of arrival.
Before(f, g) == f.t < g.t \/ (f.t = g.t /\ f.n < g.n)

Threshold == maxSeenT - window
Forced(f) == f.t > Threshold

Due(f) == f.t <= Threshold \/ f.n <= expired

DueFrames == {f \in held : Due(f)}

\* What a flush adds to the history.
Flushed == {[n |-> f.n, ch |-> f.ch, t |-> f.t, late |-> f.late,
             forced |-> Forced(f), round |-> rounds + 1] : f \in DueFrames}

\* router.dispatch for each due frame, in order: what a handler that is called
\* is called with last.
LastOf(frames) == CHOOSE f \in frames : \A g \in frames : g = f \/ Before(g, f)

ShownAfter(p) ==
    LET mine == {f \in DueFrames : f.ch = Watches[p]}
    IN  IF p \in handlers /\ mine # {} THEN LastOf(mine).n ELSE shown[p]

\* Mutant: the timer is stopped after any flush.
Mut_FlushStops ==
    /\ TaskMayRun
    /\ ticking
    /\ held' = held \ DueFrames
    /\ out' = out \cup Flushed
    /\ rounds' = IF DueFrames = {} THEN rounds ELSE rounds + 1
    /\ shown' = [p \in Panels |-> ShownAfter(p)]
    /\ horizon' = IF Threshold > horizon THEN Threshold ELSE horizon
    /\ ticking' = FALSE
    /\ UNCHANGED <<window, maxSeenT, arrived, expired, latchedLast, handlers, replays>>

Flush ==
    /\ TaskMayRun
    /\ ticking
    /\ held' = held \ DueFrames
    /\ out' = out \cup Flushed
    /\ rounds' = IF DueFrames = {} THEN rounds ELSE rounds + 1
    /\ shown' = [p \in Panels |-> ShownAfter(p)]
    /\ horizon' = IF Threshold > horizon THEN Threshold ELSE horizon
    /\ ticking' = (held' # {})
    /\ UNCHANGED <<window, maxSeenT, arrived, expired, latchedLast, handlers, replays>>

SetSyncWindow(w) ==
    /\ TaskMayRun
    /\ w # window
    /\ window' = w
    /\ UNCHANGED <<held, maxSeenT, ticking, arrived, expired, latchedLast,
                   handlers, replays, shown, out, rounds, horizon>>

-----------------------------------------------------------------------------
(* Panels; several may come and go within one task, before its microtasks. *)

HasMirror(p) ==
    Watches[p] \in Latched /\ latchedLast[Watches[p]] # NoFrame

\* Mutant: only the hub's own replay.
Mut_SubscribesUnserved(p) ==
    /\ p \notin handlers
    /\ handlers' = handlers \cup {p}
    /\ UNCHANGED <<held, window, maxSeenT, ticking, arrived, expired,
                   latchedLast, replays, shown, out, rounds, horizon>>

\* subscribe: the channel is known, so it is registered at once.
PanelSubscribes(p) ==
    /\ p \notin handlers
    /\ handlers' = handlers \cup {p}
    /\ replays' = IF HasMirror(p) THEN replays \cup {p} ELSE replays
    /\ UNCHANGED <<held, window, maxSeenT, ticking, arrived, expired,
                   latchedLast, shown, out, rounds, horizon>>

\* Its microtask will find the entry gone.
PanelUnsubscribes(p) ==
    /\ p \in handlers
    /\ handlers' = handlers \ {p}
    /\ replays' = replays \ {p}
    /\ shown' = [shown EXCEPT ![p] = NoFrame]
    /\ UNCHANGED <<held, window, maxSeenT, ticking, arrived, expired,
                   latchedLast, out, rounds, horizon>>

Replay(p) ==
    /\ p \in replays
    /\ replays' = replays \ {p}
    /\ shown' = [shown EXCEPT ![p] = latchedLast[Watches[p]]]
    /\ UNCHANGED <<held, window, maxSeenT, ticking, arrived, expired,
                   latchedLast, handlers, out, rounds, horizon>>

SyncNext ==
    \/ \E c \in Channels, t \in Stamps : Arrive(c, t)
    \/ \E k \in 1..MaxFrames : HoldExpires(k)
    \/ Flush
    \/ \E w \in Windows : SetSyncWindow(w)
    \/ \E p \in Panels : PanelSubscribes(p) \/ PanelUnsubscribes(p) \/ Replay(p)

SyncSpec == SyncInit /\ [][SyncNext]_syncVars

\* setInterval ticks between tasks while it is set, however often panels come
\* and go in theirs; the clock goes on; microtasks run.
SyncFairness ==
    /\ SF_syncVars(Flush)
    /\ WF_syncVars(HoldExpires(arrived))
    /\ \A p \in Panels : WF_syncVars(Replay(p))
-----------------------------------------------------------------------------
SyncTypeOK ==
    /\ held \subseteq Frames
    /\ window \in Windows
    /\ maxSeenT \in Stamps \cup {0}
    /\ ticking \in BOOLEAN
    /\ arrived \in 0..MaxFrames
    /\ expired \in 0..arrived
    /\ latchedLast \in [Latched -> 0..arrived]
    /\ handlers \subseteq Panels
    /\ replays \subseteq handlers
    /\ shown \in [Panels -> 0..arrived]
    /\ out \subseteq Dispatched
    /\ rounds \in Nat
    /\ horizon \in Nat

\* The order in which frames were dispatched.
DispatchedBefore(f, g) == f.round < g.round \/ (f.round = g.round /\ Before(f, g))

(***************************************************************************)
(* The buffer reorders only to put an earlier stamp first: a frame that    *)
(* overtakes one that arrived before it has a strictly earlier stamp,      *)
(* whatever the window is set to, the clock does and the timer misses.  So *)
(* frames of one channel whose stamps do not go back stay in order, and a  *)
(* transform sent before a frame of the same stamp is dispatched before it *)
(* (TimeManager.ts 1-14, 46-66).                                           *)
(***************************************************************************)
OvertakesOnlyOlder ==
    \A f, g \in out : DispatchedBefore(f, g) /\ f.n > g.n => f.t < g.t

(***************************************************************************)
(* "Dispatch in timestamp order so consumers see a monotonic stream"       *)
(* (TimeManager.ts 54), over all flushes: stamps go back only for a frame  *)
(* that arrived when its time had been let go, or behind a frame that was  *)
(* flushed because of maxHold.                                             *)
(***************************************************************************)
MonotoneStream ==
    \A f, g \in out : DispatchedBefore(f, g) /\ f.t > g.t => f.forced \/ g.late

(***************************************************************************)
(* A panel on a latched channel whose stamps do not go back has been given *)
(* its newest frame, or that frame is held or about to be replayed, however*)
(* late the panel came (HubClient.ts 88-95, 183-195).                      *)
(***************************************************************************)
Received == held \cup out

StampsInOrder(c) ==
    \A f, g \in Received : f.ch = c /\ g.ch = c /\ f.n < g.n => f.t <= g.t

LatePanelsCurrent ==
    \A p \in handlers \ replays : Watches[p] \in Latched /\ StampsInOrder(Watches[p]) =>
        \/ shown[p] = latchedLast[Watches[p]]
        \/ \E f \in held : f.n = latchedLast[Watches[p]]

\* No frame waits for ever: "a frame that's been buffered too long is flushed".
AllDispatched ==
    \A n \in 1..MaxFrames : (arrived >= n) ~> (\E f \in out : f.n = n)
=============================================================================
