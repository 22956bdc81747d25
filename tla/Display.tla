------------------------------ MODULE Display ------------------------------
(***************************************************************************)
(* A display in a 3D panel that follows a channel, and the scene it is     *)
(* drawn in: plugins/LaserScanPlugin.ts, PathPlugin.ts,                    *)
(* OccupancyGridPlugin.ts, PosePlugin.ts and PointCloudPlugin.ts, with     *)
(* core/SceneManager.ts and the part of tabs/ThreeDTab.tsx that runs them. *)
(*                                                                         *)
(* A scene is drawn on an animation frame, and only when something has     *)
(* asked for it since the last.  A message is its points, each known by    *)
(* the number of the message; where the display is placed is known by the  *)
(* state of the frame tree, 0 while its frame cannot be resolved.          *)
(***************************************************************************)
EXTENDS Naturals, Sequences

CONSTANTS
    DisplayChannels,  \* channels of the display's schema
    LatchedDisplays,  \* the latched ones of them
    MaxPoints,        \* bound: points in a message
    MaxDisplayed,     \* bound: messages
    MaxEdits          \* bound: what the user does, and changes of the frame tree

ASSUME DisplayAssumption ==
    LatchedDisplays \subseteq DisplayChannels /\ {MaxPoints, MaxDisplayed, MaxEdits} \subseteq Nat

Kinds == {"scan", "path", "grid", "pose", "cloud"}
NoMessage == [n |-> 0, points |-> 0]
Blank == [points |-> <<>>, at |-> 0]

VARIABLES
    kind,
    listed,           \* channels in the channel list
    chosen, followed, \* the setting, and the subscription; "" for none
    displayMirror,    \* the mirror of HubClient
    enabled, removed,
    buffer, range,    \* the geometry, and how much of it is drawn
    lastShown,        \* history: the message shown last
    decoding,         \* messages at the worker
    inScene, visible, placedAt,  \* the object
    tree,             \* the frame tree as the display's frame sees it
    started, dirty, screen, \* the scene's loop; what the user sees
    displayed, edits

displayVars == <<kind, listed, chosen, followed, displayMirror, enabled, removed, buffer, range,
                 lastShown, decoding, inScene, visible, placedAt, tree, started, dirty, screen,
                 displayed, edits>>
settingVars == <<chosen, followed>>
geometryVars == <<buffer, range, lastShown>>
objectVars == <<inScene, visible, placedAt>>

\* Before its first message a grid is a plane of one square and a pose an
\* arrow, both where the panel's origin is.
Unset == IF kind \in {"grid", "pose"} THEN <<0>> ELSE <<>>

DisplayInit ==
    /\ kind \in Kinds
    /\ listed = {} /\ chosen = "" /\ followed = ""
    /\ displayMirror = [ch \in LatchedDisplays |-> NoMessage]
    /\ enabled \in BOOLEAN /\ removed = FALSE
    /\ buffer = Unset /\ range = Len(Unset) /\ lastShown = NoMessage /\ decoding = <<>>
    /\ inScene = (kind # "cloud") /\ visible = enabled /\ placedAt = 0
    /\ tree = 0
    /\ started = FALSE /\ dirty = TRUE /\ screen = Blank
    /\ displayed = 0 /\ edits = 0

-----------------------------------------------------------------------------
(* What a message does *)

PointsOf(m) == [i \in 1..m.points |-> m.n]

\* Mutant: what a longer message has left is drawn.
Mut_OverwriteAll(m) ==
    /\ buffer' = PointsOf(m) \o SubSeq(buffer, m.points + 1, Len(buffer))
    /\ range' = Len(buffer')

\* The buffer only grows; a shorter message leaves the rest of the longer one in it.
Overwrite(m) ==
    /\ buffer' = PointsOf(m) \o SubSeq(buffer, m.points + 1, Len(buffer))
    /\ range' = m.points

Replace(m) == buffer' = PointsOf(m) /\ range' = m.points

\* update of each plugin: the valid ranges of a scan, the points of a path,
\* a new texture and plane, an arrow, a decoded cloud.
ScanUpdate(m) == kind = "scan" /\ Overwrite(m)
PathUpdate(m) == kind = "path" /\ Overwrite(m)
GridUpdate(m) == kind = "grid" /\ Replace(m)
PoseUpdate(m) == kind = "pose" /\ Replace(m)
CloudUpdate(m) == kind = "cloud" /\ Replace(m)

Geometry(m) ==
    /\ lastShown' = m
    /\ ScanUpdate(m) \/ PathUpdate(m) \/ GridUpdate(m) \/ PoseUpdate(m) \/ CloudUpdate(m)

\* The handler: a cloud goes to the worker, the rest is shown.
Handle(m) ==
    IF kind = "cloud"
    THEN decoding' = Append(decoding, m) /\ UNCHANGED <<geometryVars, dirty>>
    ELSE Geometry(m) /\ dirty' = TRUE /\ UNCHANGED decoding

DisplayMessage(ch, points) ==
    /\ displayed < MaxDisplayed /\ displayed' = displayed + 1
    /\ kind = "pose" => points = 1
    /\ LET m == [n |-> displayed', points |-> points]
       IN  /\ displayMirror' = IF ch \in LatchedDisplays /\ followed = ch
                             THEN [displayMirror EXCEPT ![ch] = m] ELSE displayMirror
           /\ IF followed = ch /\ ch \in listed THEN Handle(m)
              ELSE UNCHANGED <<geometryVars, decoding, dirty>>
    /\ UNCHANGED <<kind, listed, settingVars, enabled, removed, objectVars, tree, started,
                   screen, edits>>

\* Mutant: a decoded cloud does not ask for a frame.
Mut_OnDecodedQuiet ==
    /\ decoding # <<>> /\ decoding' = Tail(decoding)
    /\ Geometry(Head(decoding))
    /\ inScene' = TRUE /\ visible' = (visible \/ ~inScene)
    /\ dirty' = (dirty \/ ~inScene)
    /\ UNCHANGED <<kind, listed, settingVars, displayMirror, enabled, removed, placedAt, tree,
                   started, screen, displayed, edits>>

\* The worker has decoded a cloud; the first one makes the object, visible.
OnDecoded ==
    /\ decoding # <<>> /\ decoding' = Tail(decoding)
    /\ Geometry(Head(decoding))
    /\ inScene' = TRUE /\ visible' = (visible \/ ~inScene)
    /\ dirty' = TRUE
    /\ UNCHANGED <<kind, listed, settingVars, displayMirror, enabled, removed, placedAt, tree,
                   started, screen, displayed, edits>>

-----------------------------------------------------------------------------
(* Binding *)

\* bind: a new subscription, to which a latched channel's last frame comes at once.
Bind(ch) ==
    /\ chosen' = ch /\ followed' = ch
    /\ IF ch \in LatchedDisplays /\ displayMirror[ch] # NoMessage
       THEN Handle(displayMirror[ch]) ELSE UNCHANGED <<geometryVars, decoding, dirty>>

\* The channel list changes: syncSubscription takes any of the channels if
\* none is set, and binds.
ChannelList(channels) ==
    /\ ~removed /\ listed # channels
    /\ edits < MaxEdits /\ edits' = edits + 1
    /\ listed' = channels
    /\ \E ch \in IF chosen # "" THEN {chosen} ELSE IF channels # {} THEN channels ELSE {""} :
          Bind(ch)
    /\ UNCHANGED <<kind, displayMirror, enabled, removed, objectVars, tree, started, screen,
                   displayed>>

Edits == ~removed /\ edits < MaxEdits /\ edits' = edits + 1

\* Another channel; what the old one has shown stays.
SwitchChannel(ch) ==
    /\ Edits /\ ch # chosen
    /\ chosen' = ch /\ followed' = ch
    /\ dirty' = TRUE
    /\ IF ch \in LatchedDisplays /\ displayMirror[ch] # NoMessage
       THEN IF kind = "cloud"
            THEN decoding' = Append(decoding, displayMirror[ch]) /\ UNCHANGED geometryVars
            ELSE Geometry(displayMirror[ch]) /\ UNCHANGED decoding
       ELSE UNCHANGED <<geometryVars, decoding>>
    /\ UNCHANGED <<kind, listed, displayMirror, enabled, removed, objectVars, tree, started,
                   screen, displayed>>

-----------------------------------------------------------------------------
(* The scene *)

\* Mutant: without a frame.
Mut_SetObjectVisibleQuiet(v) == visible' = (IF inScene THEN v ELSE visible) /\ UNCHANGED dirty

SetObjectVisible(v) ==
    IF inScene /\ visible # v THEN visible' = v /\ dirty' = TRUE
    ELSE UNCHANGED <<visible, dirty>>

ToggleEnabled ==
    /\ Edits
    /\ enabled' = ~enabled
    /\ SetObjectVisible(enabled')
    /\ UNCHANGED <<kind, listed, settingVars, displayMirror, removed, geometryVars, decoding,
                   inScene, placedAt, tree, started, screen, displayed>>

\* destroy, with removeObject
RemoveDisplay ==
    /\ Edits
    /\ removed' = TRUE /\ followed' = "" /\ decoding' = <<>>
    /\ inScene' = FALSE /\ visible' = FALSE /\ dirty' = (dirty \/ inScene)
    /\ UNCHANGED <<kind, listed, chosen, displayMirror, enabled, geometryVars, placedAt, tree,
                   started, screen, displayed>>

\* A transform comes, or another fixed frame: notify reaches the scene.
TreeChanges(v) ==
    /\ edits < MaxEdits /\ edits' = edits + 1
    /\ tree' = v /\ dirty' = TRUE
    /\ UNCHANGED <<kind, listed, settingVars, displayMirror, enabled, removed, geometryVars,
                   decoding, objectVars, started, screen, displayed>>

\* The displays of the panel are made; the loop starts.
StartScene ==
    /\ ~started /\ started' = TRUE
    /\ UNCHANGED <<kind, listed, settingVars, displayMirror, enabled, removed, geometryVars,
                   decoding, objectVars, tree, dirty, screen, displayed, edits>>

\* onRender of the display: hidden while its frame is not known.
Placed ==
    IF enabled /\ inScene
    THEN /\ visible' = (lastShown = NoMessage \/ tree # 0)
         /\ placedAt' = (IF lastShown # NoMessage /\ tree # 0 THEN tree ELSE placedAt)
    ELSE UNCHANGED <<visible, placedAt>>

\* An animation frame; the camera may be moving.
SceneFrame(moving) ==
    /\ started
    /\ Placed
    /\ screen' = IF dirty \/ moving
                 THEN IF inScene /\ visible' /\ range > 0
                      THEN [points |-> SubSeq(buffer, 1, range), at |-> placedAt'] ELSE Blank
                 ELSE screen
    /\ dirty' = FALSE
    /\ UNCHANGED <<kind, listed, settingVars, displayMirror, enabled, removed, geometryVars,
                   decoding, inScene, tree, started, displayed, edits>>

DisplayNext ==
    \/ \E ch \in DisplayChannels, points \in 0..MaxPoints : DisplayMessage(ch, points)
    \/ OnDecoded
    \/ \E channels \in SUBSET DisplayChannels : ChannelList(channels)
    \/ \E ch \in DisplayChannels : SwitchChannel(ch)
    \/ ToggleEnabled \/ RemoveDisplay \/ StartScene
    \/ \E moving \in BOOLEAN : SceneFrame(moving)
    \/ \E v \in 0..2 : TreeChanges(v)

-----------------------------------------------------------------------------
(***************************************************************************)
(* Whatever changes - a message, a decoded cloud, the channel, the frame   *)
(* tree, the check mark - is on the screen in the end, with nothing left   *)
(* of what was longer, hidden or elsewhere: each change asks for a frame   *)
(* (SceneManager.ts 337-379).  Left out are behaviours where a cloud gets  *)
(* its object while it is disabled: that shows it (PointCloudPlugin.ts     *)
(* 147-155).                                                               *)
(***************************************************************************)
Wanted ==
    CASE removed \/ ~enabled -> Blank
      [] lastShown = NoMessage /\ Unset # <<>> -> [points |-> Unset, at |-> 0]
      [] lastShown.points > 0 /\ tree # 0 -> [points |-> PointsOf(lastShown), at |-> tree]
      [] OTHER -> Blank

ScreenUpToDate == [](visible => enabled) => <>[](screen = Wanted)
=============================================================================
