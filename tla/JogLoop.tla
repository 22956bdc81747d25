------------------------------ MODULE JogLoop ------------------------------
(***************************************************************************)
(* From the gizmo to the robot: the controller that owns the gizmo         *)
(* (packages/app/src/plugins/RobotIkController.ts, core/poseGizmo.ts) and, *)
(* at the other end of the wire, the executor that plays the robot in demo *)
(* mode (core/demoExecutor.ts) or a solver of the user's behind the hub.   *)
(*                                                                         *)
(* A pose of the gizmo and a joint configuration that reaches it are one   *)
(* value of Configs; which configuration the iterations of the solver end  *)
(* in is left open.  Time is counted in keepalive periods of 500 ms; a     *)
(* move of the executor takes two of them (800 ms).                        *)
(***************************************************************************)
EXTENDS Naturals, Sequences

CONSTANTS
    Configs,
    MaxMoves,     \* bound: changes of the gizmo
    MaxCommits,   \* bound: presses of "Send to robot"
    MaxEntries,   \* bound: times jogging is entered
    MaxStops      \* bound: times the solver stops

ASSUME JogAssumption ==
    /\ Configs # {} /\ {MaxMoves, MaxCommits, MaxEntries, MaxStops} \subseteq Nat

Nothing == "nothing"
MoveTime == 2

VARIABLES
    ik,          \* the controller: "off", "native" or "external"
    ikLocal,     \* its transport is the in-app channel
    gizmo, preview,    \* the target, and where the shadow's joints have it
    rateOpen,    \* 1/30 s has passed since the last publish
    lastSent,    \* lastSentPose with lastSentJoints
    beating,     \* the keepalive is armed
    command,     \* the last frame on the wire, as a robot on it sees it
    solverUp, heard, answers,   \* external: solver; its target; its solutions
    lastGoal, anim, feedback,   \* the executor
    committed,   \* history: what the user pressed Send for
    moves, commits, entries, stops

ikVars == <<ik, ikLocal, gizmo, preview, rateOpen, lastSent, beating>>
solverVars == <<solverUp, heard, answers>>
executorVars == <<lastGoal, anim, feedback>>
jogCounts == <<moves, commits, entries, stops>>
jogLoopVars == <<ikVars, command, solverVars, executorVars, committed, jogCounts>>

NoAnim == [to |-> Nothing, age |-> 0]

JogInit ==
    /\ ik = "off" /\ ikLocal \in BOOLEAN
    /\ gizmo \in Configs /\ preview = gizmo
    /\ rateOpen = TRUE /\ lastSent = Nothing /\ beating = FALSE
    /\ command = Nothing /\ committed = Nothing
    /\ solverUp = FALSE /\ heard = Nothing /\ answers = <<>>
    /\ lastGoal = Nothing /\ anim = NoAnim /\ feedback = gizmo
    /\ moves = 0 /\ commits = 0 /\ entries = 0 /\ stops = 0

-----------------------------------------------------------------------------
(* The executor *)

\* Mutant: a goal that is asserted again is executed again.
Mut_OnGoalAlways(q, moving) ==
    /\ lastGoal' = q /\ anim' = [to |-> q, age |-> 0]
    /\ UNCHANGED feedback

\* onGoal with its first tick, which does not move yet; `moving` is the
\* animation so far.
OnGoal(q, moving) ==
    IF q = lastGoal
    THEN anim' = moving /\ UNCHANGED <<lastGoal, feedback>>
    ELSE lastGoal' = q /\ anim' = [to |-> q, age |-> 0] /\ UNCHANGED feedback

\* A frame of the animation; after 800 ms the last.
Tick ==
    /\ anim # NoAnim
    /\ \/ /\ anim.age > 0
          /\ feedback' = anim.to /\ anim' = NoAnim
       \/ /\ anim.age < MoveTime
          /\ feedback' = "between" /\ UNCHANGED anim
    /\ UNCHANGED <<ikVars, command, solverVars, lastGoal, committed, jogCounts>>

-----------------------------------------------------------------------------
(* What goes onto the wire *)

\* A target for the solver: lost unless one is listening.
SendLive(q) ==
    /\ command' = q
    /\ heard' = IF solverUp /\ ~ikLocal THEN q ELSE heard

\* A pose with its joints, for the robot or the executor in its place.
SendHeld(q, moving) ==
    /\ command' = q
    /\ IF ikLocal THEN OnGoal(q, moving)
       ELSE anim' = moving /\ UNCHANGED <<lastGoal, feedback>>

PublishTarget(q, force) ==
    IF force \/ rateOpen
    THEN SendLive(q) /\ rateOpen' = FALSE
    ELSE UNCHANGED <<command, heard, rateOpen>>

\* Mutant: the preview of now, not that of the last send.
Mut_ReassertedLive == preview

\* What the keepalive of the native backend sends.
Reasserted == lastSent

\* Half a second passes; the keepalive fires, if it is armed.
Beat ==
    /\ ik # "off" \/ anim # NoAnim
    /\ LET aged == IF anim.age < MoveTime /\ anim # NoAnim
                   THEN [anim EXCEPT !.age = @ + 1] ELSE anim
       IN  \/ /\ beating /\ ik = "native"
              /\ SendHeld(Reasserted, aged) /\ UNCHANGED heard
           \/ /\ beating /\ ik = "external"
              /\ SendLive(gizmo)
              /\ anim' = aged /\ UNCHANGED <<lastGoal, feedback>>
           \/ /\ ~beating
              /\ anim' = aged /\ UNCHANGED <<lastGoal, feedback, command, heard>>
    /\ rateOpen' = (ik # "external")
    /\ UNCHANGED <<ik, ikLocal, gizmo, preview, lastSent, beating, solverUp, answers,
                   committed, jogCounts>>

\* 1/30 s since the last publish
RateOpens ==
    /\ ~rateOpen /\ rateOpen' = TRUE
    /\ UNCHANGED <<ik, ikLocal, gizmo, preview, lastSent, beating, command, solverVars,
                   executorVars, committed, jogCounts>>

-----------------------------------------------------------------------------
(* The user *)

SolverIdle == UNCHANGED <<solverUp, answers, executorVars>>

\* Mutant: the target is not kept alive.
Mut_EnterIkNoKeepalive(backend) ==
    /\ entries < MaxEntries /\ entries' = entries + 1
    /\ ik' = backend
    /\ gizmo' \in IF ikLocal /\ feedback \in Configs THEN {feedback} ELSE Configs
    /\ preview' = gizmo'
    /\ lastSent' = Nothing /\ beating' = FALSE
    /\ IF backend = "external" THEN SendLive(gizmo') /\ rateOpen' = FALSE
       ELSE command' = Nothing /\ UNCHANGED <<heard, rateOpen>>
    /\ SolverIdle /\ UNCHANGED <<ikLocal, committed, moves, commits, stops>>

\* The constructor, after dispose of the one before: the gizmo is where the
\* robot is, which in demo mode is where the executor has it.
EnterIk(backend) ==
    /\ entries < MaxEntries /\ entries' = entries + 1
    /\ ik' = backend
    /\ gizmo' \in IF ikLocal /\ feedback \in Configs THEN {feedback} ELSE Configs
    /\ preview' = gizmo'
    /\ lastSent' = Nothing /\ beating' = (backend = "external")
    /\ IF backend = "external" THEN SendLive(gizmo') /\ rateOpen' = FALSE
       ELSE command' = Nothing /\ UNCHANGED <<heard, rateOpen>>
    /\ SolverIdle /\ UNCHANGED <<ikLocal, committed, moves, commits, stops>>

\* dispose
LeaveIk ==
    /\ ik # "off" /\ ik' = "off"
    /\ lastSent' = Nothing /\ beating' = FALSE /\ command' = Nothing
    /\ SolverIdle /\ UNCHANGED <<ikLocal, gizmo, preview, rateOpen, heard, committed, jogCounts>>

Moves == moves < MaxMoves /\ moves' = moves + 1

\* A step of a drag, or a nudge: setTcpPose.
MoveGizmo(q) ==
    /\ Moves /\ ik # "off" /\ gizmo # q
    /\ gizmo' = q
    /\ IF ik = "native"
       THEN preview' \in Configs /\ UNCHANGED <<command, heard, rateOpen>>
       ELSE PublishTarget(q, FALSE) /\ UNCHANGED preview
    /\ SolverIdle
    /\ UNCHANGED <<ik, ikLocal, lastSent, beating, committed, commits, entries, stops>>

DragEnd ==
    /\ ik = "external"
    /\ PublishTarget(gizmo, TRUE)
    /\ SolverIdle
    /\ UNCHANGED <<ik, ikLocal, gizmo, preview, lastSent, beating, committed, jogCounts>>

\* setIkJoint with reseed: a joint slider, and the gizmo snaps to it.
SetIkJoint(q) ==
    /\ Moves /\ ik # "off"
    /\ preview' = q /\ gizmo' = q
    /\ IF ik = "external" THEN PublishTarget(q, TRUE)
       ELSE UNCHANGED <<command, heard, rateOpen>>
    /\ SolverIdle
    /\ UNCHANGED <<ik, ikLocal, lastSent, beating, committed, commits, entries, stops>>

\* "Send to robot", which the panel offers for the native backend.
SendTarget ==
    /\ commits < MaxCommits /\ commits' = commits + 1
    /\ ik = "native"
    /\ lastSent' = preview /\ committed' = preview /\ beating' = TRUE
    /\ SendHeld(preview, anim)
    /\ UNCHANGED <<ik, ikLocal, gizmo, preview, rateOpen, solverVars, moves, entries, stops>>

\* A robot is loaded in demo mode: start of the executor; jogging, if it was
\* on, has been entered again before (RobotModelPlugin.setRobot).
StartExecutor(q) ==
    /\ ikLocal /\ lastSent = Nothing
    /\ lastGoal' = Nothing /\ anim' = NoAnim /\ feedback' = q
    /\ UNCHANGED <<ikVars, command, solverVars, committed, jogCounts>>

-----------------------------------------------------------------------------
(* A solver of the user's behind the hub; external.  It solves for the     *)
(* target it heard last, and every target is within its reach.             *)

SolverStarts == ~solverUp /\ solverUp' = TRUE /\ heard' = Nothing /\ UNCHANGED <<answers, stops>>
SolverStops ==
    /\ solverUp /\ stops < MaxStops
    /\ solverUp' = FALSE /\ stops' = stops + 1 /\ UNCHANGED <<heard, answers>>
SolverSolves ==
    /\ solverUp /\ heard # Nothing /\ Len(answers) < 2
    /\ answers' = Append(answers, heard) /\ heard' = Nothing
    /\ UNCHANGED <<solverUp, stops>>

Solver ==
    /\ ~ikLocal
    /\ SolverStarts \/ SolverStops \/ SolverSolves
    /\ UNCHANGED <<ikVars, command, executorVars, committed, moves, commits, entries>>

\* A solution comes: applyExternalJoints, while somebody listens.
Solution ==
    /\ answers # <<>> /\ answers' = Tail(answers)
    /\ preview' = IF ik = "external" THEN Head(answers) ELSE preview
    /\ UNCHANGED <<ik, ikLocal, gizmo, rateOpen, lastSent, beating, command, solverUp, heard,
                   executorVars, committed, jogCounts>>

JogNext ==
    \/ \E b \in {"native", "external"} : EnterIk(b)
    \/ \E q \in Configs : MoveGizmo(q) \/ SetIkJoint(q) \/ StartExecutor(q)
    \/ LeaveIk \/ DragEnd \/ SendTarget
    \/ RateOpens \/ Beat \/ Tick \/ Solver \/ Solution

JogSpec == JogInit /\ [][JogNext]_jogLoopVars
-----------------------------------------------------------------------------
JogTypeOK ==
    /\ ik \in {"off", "native", "external"}
    /\ ikLocal \in BOOLEAN /\ rateOpen \in BOOLEAN /\ beating \in BOOLEAN /\ solverUp \in BOOLEAN
    /\ {gizmo, preview} \subseteq Configs
    /\ {lastSent, command, heard, lastGoal, committed} \subseteq Configs \cup {Nothing}
    /\ anim \in [to : Configs \cup {Nothing}, age : 0..MoveTime]
    /\ feedback \in Configs \cup {"between"}
    /\ answers \in Seq(Configs)

(***************************************************************************)
(* Whatever the user drags after a send, the robot is commanded only what  *)
(* was sent, however often it is asserted again (RobotIkController.ts      *)
(* 94-99, 243-260).                                                        *)
(***************************************************************************)
HeldUntilSent ==
    /\ ik = "native" => command \in {Nothing, committed}
    /\ lastGoal \in {Nothing, committed}

(***************************************************************************)
(* The shadow comes to where the gizmo was left, though the rate cap drops *)
(* targets and the solver starts late or starts again, because the target  *)
(* is kept alive (RobotIkController.ts 195-205); and in demo mode a goal   *)
(* is reached, though it is asserted again more often than a move takes    *)
(* (demoExecutor.ts 40-48, 111-116).                                       *)
(***************************************************************************)
JogSettles ==
    /\ <>[](ik = "external" /\ ~ikLocal => preview = gizmo)
    /\ <>[](lastGoal = Nothing \/ feedback = lastGoal)
=============================================================================
