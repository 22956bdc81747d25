------------------------------ MODULE TFTree ------------------------------
(***************************************************************************)
(* The tree of coordinate frames all panels share (packages/app/src/core/  *)
(* TFManager.ts), which places every display.                              *)
(*                                                                         *)
(* Translations and rotations are those of a line: a pose mirrors or does  *)
(* not, and shifts.  They compose without commuting, as those of space do, *)
(* and exactly; a pose half way is left out.  Every caller asks for the    *)
(* latest transform; lookups at a time are only tested.  The channel each  *)
(* frame came from, by which the tree is filtered for show, is left out.   *)
(***************************************************************************)
EXTENDS Integers, SequencesExt

CONSTANTS
    Frames,       \* names of frames
    TfChannels,   \* channels with transforms
    Shifts,       \* translations
    TfTimes,      \* timestamps
    BufferTime,   \* BUFFER_SECONDS
    MaxTransforms \* bound: transforms received

NoFrameId == "undefined"

ASSUME TfAssumption ==
    /\ IsFiniteSet(Frames) /\ NoFrameId \notin Frames
    /\ Shifts \subseteq Int /\ TfTimes \subseteq Nat
    /\ BufferTime \in Nat /\ MaxTransforms \in Nat

VARIABLES
    buffers,      \* the samples of each frame that has some
    subscribedTf, \* channels followed; never given up
    fixedFrame,
    transforms

tfVars == <<buffers, subscribedTf, fixedFrame, transforms>>

Hidden == [s |-> 0, x |-> 0]
Identity == [s |-> 1, x |-> 0]
Poses == [s : {1, -1}, x : Shifts]
AnyPose == [s : {1, -1}, x : Int]

\* p, a pose in the frame whose own pose is q
Times(q, p) == [s |-> q.s * p.s, x |-> q.x + q.s * p.x]
InverseOf(q) == [s |-> q.s, x |-> -(q.s * q.x)]

TfInit ==
    /\ buffers = <<>> /\ subscribedTf = {}
    /\ fixedFrame \in Frames
    /\ transforms = 0

-----------------------------------------------------------------------------
(* The buffers *)

\* A late sample goes behind what is not newer.
PlaceOf(buf, t) == Max({0} \cup {i \in DOMAIN buf : buf[i].t <= t}) + 1

\* What is older than the window goes.
FirstKept(buf) == Min({i \in DOMAIN buf : buf[i].t >= buf[Len(buf)].t - BufferTime})
WithinWindow(buf) == SubSeq(buf, FirstKept(buf), Len(buf))

\* Mutant: a late sample stays where it came.
Mut_WithSampleUnsorted(buf, sample) == WithinWindow(Append(buf, sample))

\* addSample
WithSample(buf, sample) == WithinWindow(InsertAt(buf, PlaceOf(buf, sample.t), sample))

SamplesOf(f) == IF f \in DOMAIN buffers THEN buffers[f] ELSE <<>>

Ingest(ch, f, sample) ==
    /\ ch \in subscribedTf
    /\ transforms < MaxTransforms /\ transforms' = transforms + 1
    /\ buffers' = [g \in DOMAIN buffers \cup {f} |->
                      IF g = f THEN WithSample(SamplesOf(f), sample) ELSE buffers[g]]
    /\ UNCHANGED <<subscribedTf, fixedFrame>>

\* The list of channels has one more of them.
SyncTfSubscriptions(ch) ==
    /\ subscribedTf' = subscribedTf \cup {ch}
    /\ UNCHANGED <<buffers, fixedFrame, transforms>>

SetFixedFrame(f) ==
    /\ fixedFrame' = f
    /\ UNCHANGED <<buffers, subscribedTf, transforms>>

-----------------------------------------------------------------------------
(* Lookups *)

NoSample == [t |-> -1, parent |-> NoFrameId, pose |-> Identity]
Latest(f) == IF f \in DOMAIN buffers THEN buffers[f][Len(buffers[f])] ELSE NoSample

NoPose == [top |-> NoFrameId, pose |-> Hidden]

\* A walk up the tree, and a step of it.
Walks == [visited : SUBSET Frames, at : Frames, pose : AnyPose]
Climbed(w) ==
    [visited |-> w.visited \cup {w.at},
     at |-> Latest(w.at).parent,
     pose |-> Times(Latest(w.at).pose, w.pose)]

\* composeUp: the pose of f in the topmost frame of its chain, or in stopAt.
ComposeUp(f, stopAt) ==
    LET up[w \in Walks] ==
            IF w.at = stopAt THEN [top |-> w.at, pose |-> w.pose]
            ELSE IF w.at \in w.visited THEN NoPose
            ELSE IF Latest(w.at) = NoSample THEN [top |-> w.at, pose |-> w.pose]
            ELSE up[Climbed(w)]
    IN  up[[visited |-> {}, at |-> f, pose |-> Identity]]

\* Mutant: the inverse of the shift is not turned.
Mut_ResolveUnturned(f) ==
    LET frame == ComposeUp(f, fixedFrame)
        fixed == ComposeUp(fixedFrame, NoFrameId)
    IN  IF frame = NoPose THEN Hidden
        ELSE IF frame.top = fixedFrame THEN frame.pose
        ELSE IF fixed.top # frame.top THEN Hidden
        ELSE Times([s |-> fixed.pose.s, x |-> -fixed.pose.x], frame.pose)

ResolveToFixed(f) ==
    LET frame == ComposeUp(f, fixedFrame)
        fixed == ComposeUp(fixedFrame, NoFrameId)
    IN  IF frame = NoPose THEN Hidden
        ELSE IF frame.top = fixedFrame THEN frame.pose
        ELSE IF fixed.top # frame.top THEN Hidden
        ELSE Times(InverseOf(fixed.pose), frame.pose)

\* Mutant: a step too far.
Mut_NarrowedSkips(buf, time, b) ==
    LET mid == (b.lo + b.hi) \div 2
    IN  IF buf[mid].t <= time THEN [b EXCEPT !.lo = mid + 1] ELSE [b EXCEPT !.hi = mid]

\* One step of the search.
Narrowed(buf, time, b) ==
    LET mid == (b.lo + b.hi) \div 2
    IN  IF buf[mid].t <= time THEN [b EXCEPT !.lo = mid] ELSE [b EXCEPT !.hi = mid]

\* The samples interpolate works between, for a time within the buffer.
Bracket(buf, time) ==
    LET search[b \in [lo : DOMAIN buf, hi : DOMAIN buf]] ==
            IF b.hi - b.lo <= 1 THEN b ELSE search[Narrowed(buf, time, b)]
    IN  search[[lo |-> 1, hi |-> Len(buf)]]

-----------------------------------------------------------------------------
TfNext ==
    \/ \E ch \in TfChannels : SyncTfSubscriptions(ch)
    \/ \E ch \in TfChannels, f, parent \in Frames, t \in TfTimes, pose \in Poses :
          Ingest(ch, f, [t |-> t, parent |-> parent, pose |-> pose])
    \/ \E f \in Frames : SetFixedFrame(f)

TfSpec == TfInit /\ [][TfNext]_tfVars
-----------------------------------------------------------------------------
(***************************************************************************)
(* Where samples come late, or two channels publish a frame on clocks of   *)
(* their own, each buffer is in order and no longer than the window, and a *)
(* lookup at a time finds the two samples it lies between                  *)
(* (TFManager.ts 84-90, 205-212).                                          *)
(***************************************************************************)
BuffersSound ==
    \A f \in DOMAIN buffers :
        LET buf == buffers[f]
        IN  /\ buf # <<>> /\ buf[Len(buf)].t - buf[1].t <= BufferTime
            /\ \A i \in 1..Len(buf) - 1 : buf[i].t <= buf[i + 1].t
            /\ Len(buf) > 1 =>
                  \A time \in buf[1].t + 1 .. buf[Len(buf)].t - 1 :
                      LET b == Bracket(buf, time)
                      IN  b.hi = b.lo + 1 /\ buf[b.lo].t <= time /\ time <= buf[b.hi].t

(***************************************************************************)
(* While the frames form a forest, every frame that is connected with the  *)
(* fixed frame has a pose, no other has, and each is that of its parent    *)
(* with its own transform (TFManager.ts 162-170).                          *)
(***************************************************************************)
ParentOf(f) == Latest(f).parent
Closed(S) == \A g \in S \cap DOMAIN buffers : ParentOf(g) \in S
Ancestors(f) == {a \in Frames : \A S \in SUBSET Frames : f \in S /\ Closed(S) => a \in S}
Forest ==
    \A f \in DOMAIN buffers : f \notin Ancestors(ParentOf(f))

PosesAgree ==
    Forest =>
        /\ ResolveToFixed(fixedFrame) = Identity
        /\ \A f \in Frames :
              /\ (ResolveToFixed(f) # Hidden) <=>
                     (Ancestors(f) \cap Ancestors(fixedFrame) # {})
              /\ f \in DOMAIN buffers /\ ResolveToFixed(f) # Hidden =>
                     ResolveToFixed(f) = Times(ResolveToFixed(ParentOf(f)), Latest(f).pose)
=============================================================================
