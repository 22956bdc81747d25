---------------------------- MODULE RobotModel ----------------------------
(***************************************************************************)
(* A robot in a 3D panel (packages/app/src/plugins/RobotModelPlugin.ts),   *)
(* with its demo mode (RobotDemoController.ts) and what its properties     *)
(* panel lets the user do (tabs/RobotModelProperties.tsx).                 *)
(*                                                                         *)
(* A robot comes from a channel, a URL or local files; loading takes time, *)
(* and its meshes are fetched from where `meshBase` says when the file has *)
(* come.  Jogging clones the robot into a shadow that takes commands.  The *)
(* kinematics, materials and mesh files are left out; of a model it        *)
(* matters which links it has, and whether it is an arm.                   *)
(***************************************************************************)
EXTENDS Integers

CONSTANTS
    Models,
    LinksOf,       \* the links of each model
    Arms,          \* models that are arm-like (ikFeasible), with joints
    Online,        \* models whose URL on the channel is absolute
    MaxRobotLoads  \* bound: calls that load

ASSUME RobotAssumption ==
    /\ Arms \subseteq Models /\ Online \subseteq Models /\ MaxRobotLoads \in Nat
    /\ \A m \in Models : LinksOf[m] # {}

NoModel == [from |-> "none", model |-> "none"]
NoRobot == [model |-> "none", meshes |-> "none", n |-> 0]

VARIABLES
    urdfSource,   \* settings.urdf_source
    reading,      \* local files whose text is being read
    loading,      \* the request whose robot is being made
    meshBase,     \* remoteUrdfBase: a model's repository, or "hub" for null
    robot,        \* with where its meshes come from, and its number
    loadedKey,
    reported,     \* report.loaded, without which the panel offers no jogging
    jog, shadow, tcp,  \* jog mode; number of the cloned robot; link to drag
    transport,    \* where the shadow's commands go: "hub" or "local"
    demoMode, demo,    \* the setting, as the plugin knows it; the executor lives
    jointChannel, latestJoints,  \* "none", "live" or "demo"; a sample came
    destroyed,
    asked, overlapped, \* history: the last request, and whether it was made while
                       \* another was under way
    cut,               \* history: something else came into the last load
    robotLoads

historyVars == <<asked, overlapped, cut, robotLoads>>
loadVars == <<urdfSource, reading, loading, meshBase, historyVars>>
jogVars == <<jog, shadow, tcp, transport>>
demoVars == <<demoMode, demo, jointChannel, latestJoints>>
robotVars == <<loadVars, robot, loadedKey, reported,
                   jogVars, demoVars, destroyed>>

RobotInit ==
    /\ urdfSource = "channel" /\ meshBase = "hub"
    /\ reading = {} /\ loading = NoModel /\ loadedKey = NoModel
    /\ robot = NoRobot /\ reported = FALSE
    /\ jog = FALSE /\ shadow = 0 /\ tcp = "none" /\ transport = "hub"
    /\ demoMode \in BOOLEAN /\ demo = FALSE
    /\ jointChannel = "none" /\ latestJoints = FALSE
    /\ destroyed = FALSE
    /\ asked = NoModel /\ overlapped = FALSE /\ cut = FALSE /\ robotLoads = 0

-----------------------------------------------------------------------------
(* Loading *)

\* A call that loads, within the bound.
Calls(q) ==
    /\ ~destroyed
    /\ robotLoads < MaxRobotLoads
    /\ robotLoads' = robotLoads + 1
    /\ asked' = q
    /\ overlapped' = (loading # NoModel \/ reading # {})
    /\ UNCHANGED <<robot, jogVars, demoVars, destroyed, loadedKey>>

\* The beginning of loadRobot; while another is loading that is all.
LoadRobot(q) ==
    IF loading = NoModel
    THEN loading' = q /\ reported' = FALSE
    ELSE UNCHANGED <<loading, reported>>

\* A load begins with nothing cut.
NotesCut(on) == cut' = ((cut /\ loading' = loading) \/ on)

From(source, m) == [from |-> source, model |-> m]

LoadFromUrl(m) ==
    /\ Calls(From("url", m))
    /\ urdfSource' = "local" /\ meshBase' = m
    /\ LoadRobot(From("url", m))
    /\ NotesCut(loading \notin {NoModel, From("url", m)})
    /\ UNCHANGED reading

\* reloadLocal up to its await; without a .urdf among the files it ends there.
ReloadLocal(m) ==
    /\ Calls(From("files", m))
    /\ urdfSource' = "local" /\ meshBase' = "hub"
    /\ \/ reading' = reading \cup {m} /\ UNCHANGED reported
       \/ reported' = FALSE /\ UNCHANGED reading
    /\ UNCHANGED loading
    /\ NotesCut(loading \notin {NoModel, From("files", m)})

\* The rest of it, even when the panel has gone.
FilesRead(m) ==
    /\ m \in reading
    /\ reading' = reading \ {m}
    /\ LoadRobot(From("files", m))
    /\ NotesCut(FALSE)
    /\ UNCHANGED <<urdfSource, meshBase, asked, overlapped, robotLoads, robot, loadedKey,
                   jogVars, demoVars, destroyed>>

\* Mutant: the mesh base of an earlier load stays.
Mut_LoadFromChannelKeepsBase(m) ==
    /\ urdfSource = "channel"
    /\ Calls(From("channel", m))
    /\ meshBase' = IF m \in Online THEN m ELSE meshBase
    /\ IF loadedKey = From("channel", m)
       THEN UNCHANGED <<loading, reported>> ELSE LoadRobot(From("channel", m))
    /\ NotesCut(loading \notin {NoModel, From("channel", m)})
    /\ UNCHANGED <<urdfSource, reading>>

\* A message on the model channel, or its replay.
LoadFromChannel(m) ==
    /\ urdfSource = "channel"
    /\ Calls(From("channel", m))
    /\ meshBase' = IF m \in Online THEN m ELSE "hub"
    /\ IF loadedKey = From("channel", m)
       THEN UNCHANGED <<loading, reported>> ELSE LoadRobot(From("channel", m))
    /\ NotesCut(loading \notin {NoModel, From("channel", m)})
    /\ UNCHANGED <<urdfSource, reading>>

\* A message that names no URL: it loads nothing, but the mesh base is reset.
ChannelWithoutUrl ==
    /\ urdfSource = "channel" /\ ~destroyed
    /\ meshBase' = "hub"
    /\ UNCHANGED loading
    /\ NotesCut(loading # NoModel)
    /\ UNCHANGED <<urdfSource, reading, asked, overlapped, robotLoads, robot, loadedKey,
                   reported, jogVars, demoVars, destroyed>>

\* The user picks where the model comes from.
SetUrdfSource(source) ==
    /\ ~destroyed
    /\ urdfSource # source
    /\ urdfSource' = source
    /\ UNCHANGED <<reading, loading, meshBase, historyVars, robot, loadedKey, reported,
                   jogVars, demoVars, destroyed>>

-----------------------------------------------------------------------------
(* Jogging *)

ExitJog == shadow' = 0 /\ UNCHANGED <<tcp, transport>>

\* Mutant: the link of the last robot is kept.
Mut_EnterJogKeepsLink(r, link) ==
    /\ shadow' = r.n
    /\ tcp' = IF link = "none" THEN CHOOSE l \in LinksOf[r.model] : TRUE ELSE link
    /\ transport' = IF demo THEN "local" ELSE "hub"

\* enterJog for robot r, an arm; demo mode is as it was before.
EnterJog(r, link) ==
    /\ shadow' = r.n
    /\ tcp' = IF link \in LinksOf[r.model] THEN link ELSE CHOOSE l \in LinksOf[r.model] : TRUE
    /\ transport' = IF demo THEN "local" ELSE "hub"

\* The panel offers jogging for a robot that is reported loaded and is an arm.
JogOffered == ~destroyed /\ reported /\ robot.model \in Arms

SetJog(on) ==
    /\ JogOffered
    /\ jog' = on
    /\ IF on THEN EnterJog(robot, tcp) ELSE ExitJog
    /\ UNCHANGED <<loadVars, robot, loadedKey, reported, demoVars, destroyed>>

\* Another link, solver or channel while jogging: all of it is made again.
Rewire(link) ==
    /\ JogOffered /\ jog
    /\ link \in LinksOf[robot.model]
    /\ EnterJog(robot, link)
    /\ UNCHANGED <<jog, loadVars, robot, loadedKey, reported, demoVars, destroyed>>

-----------------------------------------------------------------------------
(* The end of loading: setRobot, with onRobotLoaded of the demo controller *)

RobotLoaded ==
    /\ loading # NoModel
    /\ loading' = NoModel
    /\ LET r == [model |-> loading.model, n |-> robotLoads,
                 meshes |-> IF loading.from = "files" THEN "files" ELSE meshBase]
       IN  /\ robot' = r
           /\ jog' = (jog /\ r.model \in Arms)
           /\ IF jog' THEN EnterJog(r, tcp) ELSE ExitJog
    /\ loadedKey' = loading
    /\ reported' = TRUE
    /\ demo' = (demo \/ demoMode)
    /\ IF demo' THEN jointChannel' = "demo" /\ latestJoints' = TRUE
                ELSE UNCHANGED <<jointChannel, latestJoints>>
    /\ UNCHANGED <<urdfSource, reading, meshBase, historyVars, demoMode, destroyed>>

\* What is shown stays, but is not reported any more.
LoadFails ==
    /\ loading # NoModel
    /\ loading' = NoModel
    /\ UNCHANGED <<urdfSource, reading, meshBase, historyVars, robot, loadedKey, reported,
                   jogVars, demoVars, destroyed>>

-----------------------------------------------------------------------------
(* Live state, demo mode, and the end of the panel *)

\* The channel that is chosen, or found where none was.
BindJoints(channel) ==
    /\ ~destroyed
    /\ channel = "demo" => demo
    /\ jointChannel # channel
    /\ jointChannel' = channel
    /\ UNCHANGED <<loadVars, robot, loadedKey, reported, jogVars, demoMode, demo,
                   latestJoints, destroyed>>

JointSample ==
    /\ ~destroyed
    /\ jointChannel = "live" \/ (jointChannel = "demo" /\ demo)
    /\ latestJoints' = TRUE
    /\ UNCHANGED <<loadVars, robot, loadedKey, reported, jogVars, demoMode, demo,
                   jointChannel, destroyed>>

\* Mutant: jogging goes on without the robot.
Mut_StopKeepsJog ==
    /\ demo' = FALSE
    /\ robot' = NoRobot /\ loadedKey' = NoModel /\ reported' = FALSE
    /\ meshBase' = "hub" /\ latestJoints' = FALSE /\ jointChannel' = "none"
    /\ UNCHANGED jogVars

\* stop, with disableJog and clearRobot
Stop ==
    /\ demo' = FALSE
    /\ jog' = FALSE /\ ExitJog
    /\ robot' = NoRobot /\ loadedKey' = NoModel /\ reported' = FALSE
    /\ meshBase' = "hub" /\ latestJoints' = FALSE /\ jointChannel' = "none"

DemoOff ==
    /\ ~destroyed
    /\ demoMode /\ demoMode' = FALSE
    /\ IF demo THEN Stop
       ELSE UNCHANGED <<demo, jogVars, robot, loadedKey, reported, meshBase,
                        latestJoints, jointChannel>>
    /\ UNCHANGED loading
    /\ NotesCut(demo /\ loading # NoModel)
    /\ UNCHANGED <<urdfSource, reading, asked, overlapped, robotLoads, destroyed>>

\* The panel closes; turning demo mode on closes all panels in the same task.
Destroy ==
    /\ ~destroyed
    /\ destroyed' = TRUE
    /\ demoMode' \in {demoMode, TRUE}
    /\ demo' = FALSE /\ ExitJog
    /\ robot' = NoRobot
    /\ UNCHANGED <<loadVars, loadedKey, reported, jog, jointChannel, latestJoints>>

RobotNext ==
    \/ \E m \in Models : LoadFromUrl(m) \/ ReloadLocal(m) \/ FilesRead(m) \/ LoadFromChannel(m)
    \/ ChannelWithoutUrl
    \/ \E source \in {"channel", "local"} : SetUrdfSource(source)
    \/ RobotLoaded \/ LoadFails
    \/ \E on \in BOOLEAN : SetJog(on)
    \/ \E link \in UNION {LinksOf[m] : m \in Models} : Rewire(link)
    \/ \E channel \in {"none", "live", "demo"} : BindJoints(channel)
    \/ JointSample
    \/ DemoOff
    \/ Destroy

RobotSpec == RobotInit /\ [][RobotNext]_robotVars
-----------------------------------------------------------------------------
\* What a robot may have been asked for.
Requests == {From(s, m) : s \in {"channel", "url", "files"}, m \in Models}

RobotTypeOK ==
    /\ urdfSource \in {"channel", "local"} /\ meshBase \in Models \cup {"hub"}
    /\ reading \subseteq Models
    /\ loading \in {NoModel} \cup Requests /\ loadedKey \in {NoModel} \cup Requests
    /\ asked \in {NoModel} \cup Requests
    /\ robot \in [model : Models \cup {"none"}, meshes : Models \cup {"hub", "files", "none"},
                  n : 0..MaxRobotLoads]
    /\ shadow \in 0..MaxRobotLoads /\ robotLoads \in 0..MaxRobotLoads
    /\ jointChannel \in {"none", "live", "demo"} /\ transport \in {"hub", "local"}
    /\ jog \in BOOLEAN /\ demo \in BOOLEAN /\ demoMode \in BOOLEAN
    /\ reported \in BOOLEAN /\ destroyed \in BOOLEAN
    /\ overlapped \in BOOLEAN /\ cut \in BOOLEAN

(***************************************************************************)
(* The shadow that takes commands is of the robot on display and dragged   *)
(* by one of its links, over reloads, demo mode and failures; its commands *)
(* stay in the browser exactly when there is a demo executor to take them  *)
(* (RobotModelPlugin.ts 723-725, 590-599).                                 *)
(***************************************************************************)
JogFollowsRobot ==
    /\ shadow # 0 /\ ~destroyed =>
          /\ jog /\ robot.model \in Arms /\ shadow = robot.n
          /\ tcp \in LinksOf[robot.model]
          /\ transport = IF demo THEN "local" ELSE "hub"
    /\ demo => robot # NoRobot

(***************************************************************************)
(* The robot reported is the one asked for last, unless that was asked     *)
(* while another was under way; it is always the one whose key is kept     *)
(* (a message for that key loads nothing); and its meshes are from its own *)
(* place unless, while it was loading, something else was asked for, a     *)
(* message came without URL or a demo ended (RobotModelPlugin.ts 480-512). *)
(***************************************************************************)
MeshesOf(q) ==
    IF q.from = "files" THEN "files"
    ELSE IF q.from = "url" \/ q.model \in Online THEN q.model ELSE "hub"

ModelAsAsked ==
    reported /\ ~destroyed =>
        /\ reading = {} /\ ~overlapped => robot.model = asked.model
        /\ robot.model = loadedKey.model
        /\ ~cut \/ loadedKey.from = "files" => robot.meshes = MeshesOf(loadedKey)
=============================================================================
