---------------------------- MODULE Subscription ----------------------------
(***************************************************************************)
(* The state the broker keeps per (client, channel) subscription and what  *)
(* its helpers do to it (packages/hub/src/broker.ts, 24-32 and 271-351).   *)
(* Shared by Delivery.tla (one subscription, with its socket) and          *)
(* Broker.tla (all of them).                                               *)
(*                                                                         *)
(* Time is abstracted to what the code compares.  `recent` says that less  *)
(* than 1000/max_hz ms passed since lastSentMs (`wait > 0`).  A trailing   *)
(* timer is armed with exactly the remaining wait and a direct send needs  *)
(* the wait to be over, so an armed timer comes due when `recent` ends; it *)
(* then stays "due" until the event loop gets round to its callback, which *)
(* may be after other socket callbacks have run.  Date.now() and the timer *)
(* clock are taken to agree.                                               *)
(***************************************************************************)
EXTENDS Naturals

\* Frames of a channel are numbered from 1 in the order they are published.
NoFrame == 0

SubStates(frames) ==
    [maxHz : BOOLEAN,                    \* is there a positive max_hz?
     recent : BOOLEAN,
     pending : frames \cup {NoFrame},
     timer : {"off", "armed", "due"}]

\* onSubscribe: { maxHz, lastSentMs: 0 }
NewSub(hz) == [maxHz |-> hz, recent |-> FALSE, pending |-> NoFrame, timer |-> "off"]

\* clearSub: cancel the trailing timer and forget the parked frame.
ClearSub(s) == [s EXCEPT !.pending = NoFrame, !.timer = "off"]

\* onSubscribe on an existing entry: clearSub, then a fresh entry in its place.
Renewed(s, hz) ==
    [maxHz |-> hz, recent |-> FALSE,
     pending |-> ClearSub(s).pending, timer |-> ClearSub(s).timer]

\* Mutant: only one frame per interval is held back.
Mut_WaitUnlessTimer(s) == s.maxHz /\ s.recent /\ s.timer = "off"

\* deliver: the frame falls inside the throttle interval.
MustWait(s) == s.maxHz /\ s.recent

\* Mutant: the first parked frame wins.
Mut_ParkFirst(s, f) ==
    IF s.pending # NoFrame THEN s ELSE [s EXCEPT !.pending = f, !.timer = "armed"]

\* Mutant: the throttled frame is parked without a timer to take it.
Mut_ParkUntimed(s, f) == [s EXCEPT !.pending = f]

\* deliver: park the frame (latest wins), arm the timer unless there is one.
Park(s, f) ==
    [s EXCEPT !.pending = f, !.timer = IF @ = "off" THEN "armed" ELSE @]

\* The throttle interval runs out.
Elapsed(s) ==
    [s EXCEPT !.recent = FALSE, !.timer = IF @ = "armed" THEN "due" ELSE @]

\* The timer callback, before its send.
Unparked(s) == [s EXCEPT !.timer = "off", !.pending = NoFrame]

\* trySend stamps lastSentMs; without a max_hz nobody reads it.
Stamped(s) == [s EXCEPT !.recent = s.maxHz]
=============================================================================
