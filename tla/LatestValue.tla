---------------------------- MODULE LatestValue ----------------------------
(***************************************************************************)
(* What a viewer of one live channel is promised: it may miss values, but  *)
(* what it shows never moves back to an older value, and once the source   *)
(* falls silent it ends up showing the last value published, unless the    *)
(* link is excused because the viewer could not keep up.                   *)
(***************************************************************************)
EXTENDS Naturals

VARIABLES
    latest,   \* number of the newest value published
    shown,    \* number of the value the viewer shows, 0 for none
    excused   \* has the link given up a value because of the viewer?

lvVars == <<latest, shown>>

LVInit == latest = 0 /\ shown = 0

PublishNext == latest' = latest + 1 /\ UNCHANGED shown

ShowNewer ==
    /\ shown' \in (shown + 1)..latest
    /\ UNCHANGED latest

LVNext == PublishNext \/ ShowNewer

\* The viewer catches up with the newest value.
CatchUp == ~excused /\ ShowNewer /\ shown' = latest

LVSafety == LVInit /\ [][LVNext]_lvVars

LVSpec == LVSafety /\ WF_lvVars(CatchUp)
=============================================================================
