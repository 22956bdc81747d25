----------------------------- MODULE PanelProofs ----------------------------
(***************************************************************************)
(* What panels of the app show, for any models, markers, channels and      *)
(* messages: the robot on display is the one asked for and the one that is *)
(* jogged, the markers are those published, image, log, inspector and map  *)
(* show what their channels brought, and a plot draws all of it that is in *)
(* the time on view.  And what a recording has, for any number of frames.  *)
(***************************************************************************)
EXTENDS RobotModel, Markers, Viewers, Plot, Recorder, SequenceTheorems,
        WellFoundedInduction, TLAPS

-----------------------------------------------------------------------------
(***************************************************************************)
(* The robot of a 3D panel                                                 *)
(***************************************************************************)

\* A robot has the number of the load it came with, and as long as there is one
\* the executor lives exactly when the panel is in demo mode; the shadow is there
\* exactly while the user jogs.
Loads ==
    /\ loading # NoModel \/ reading # {} => robotLoads >= 1
    /\ ~destroyed /\ reported => robot.n >= 1
    /\ ~destroyed /\ robot.n >= 1 /\ demoMode => demo
    /\ ~destroyed => (jog <=> shadow # 0)

\* What was asked while nothing else was under way is read, loaded and shown.
LastAsked ==
    ~overlapped =>
        /\ reading # {} => reading = {asked.model} /\ asked.from = "files" /\ loading = NoModel
        /\ loading # NoModel => loading = asked /\ reading = {}
        /\ reported /\ reading = {} => loadedKey = asked

\* A load into which nothing came has its own mesh base.
OwnMeshes ==
    /\ loading # NoModel => ~reported
    /\ loading # NoModel /\ ~cut /\ loading.from # "files" => meshBase = MeshesOf(loading)
    /\ reported => loadedKey # NoModel
    /\ loadedKey # NoModel => robot.model = loadedKey.model
    /\ reported /\ (~cut \/ loadedKey.from = "files") => robot.meshes = MeshesOf(loadedKey)

AsAsked == ~destroyed => LastAsked /\ OwnMeshes

RobotInv == RobotTypeOK /\ Loads /\ JogFollowsRobot
-----------------------------------------------------------------------------
LEMMA InitHolds == RobotInit => RobotInv /\ AsAsked
<1> SUFFICES ASSUME RobotInit PROVE RobotInv /\ AsAsked
  OBVIOUS
<1>1. /\ jog \in BOOLEAN /\ demo \in BOOLEAN /\ demoMode \in BOOLEAN
      /\ reported \in BOOLEAN /\ destroyed \in BOOLEAN /\ overlapped \in BOOLEAN /\ cut \in BOOLEAN
  BY DEF RobotInit
<1>2. robot \in [model : Models \cup {"none"}, meshes : Models \cup {"hub", "files", "none"},
                n : 0..MaxRobotLoads]
  BY RobotAssumption DEF RobotInit, NoRobot
<1>3. RobotTypeOK
  BY <1>1, <1>2, RobotAssumption DEF RobotInit, RobotTypeOK
<1>4. Loads /\ JogFollowsRobot
  BY DEF RobotInit, NoRobot, Loads, JogFollowsRobot
<1>5. AsAsked
  BY DEF RobotInit, AsAsked, LastAsked, OwnMeshes
<1> QED
  BY <1>3, <1>4, <1>5 DEF RobotInv

\* A request has one of three sources, and is not "no model".
LEMMA RequestFacts ==
    ASSUME NEW m \in Models, NEW s \in {"channel", "url", "files"}
    PROVE  From(s, m) \in Requests /\ From(s, m) # NoModel
BY DEF From, Requests, NoModel

LEMMA RequestParts ==
    ASSUME NEW q \in Requests
    PROVE  q.model \in Models /\ q.from \in {"channel", "url", "files"} /\ q # NoModel
BY DEF From, Requests, NoModel

\* Entering jog mode with an arm.
LEMMA Entered ==
    ASSUME NEW r \in [model : Models \cup {"none"}, meshes : Models \cup {"hub", "files", "none"},
                      n : 0..MaxRobotLoads],
           r.model \in Arms, NEW link, EnterJog(r, link)
    PROVE  /\ shadow' = r.n /\ tcp' \in LinksOf[r.model]
           /\ transport' = IF demo THEN "local" ELSE "hub"
<1>1. LinksOf[r.model] # {}
  BY RobotAssumption
<1>2. (CHOOSE l \in LinksOf[r.model] : TRUE) \in LinksOf[r.model]
  BY <1>1
<1> QED
  BY <1>2 DEF EnterJog
-----------------------------------------------------------------------------
\* Calls that begin to load touch neither the robot nor jogging.
LEMMA CallHolds ==
    ASSUME RobotInv, NEW m \in Models, NEW q \in Requests, Calls(q),
           urdfSource' \in {"channel", "local"}, meshBase' \in Models \cup {"hub"},
           reading' \subseteq Models,
           loading' \in {loading, q}, reported' \in {reported, FALSE}, cut' \in BOOLEAN
    PROVE  RobotInv'
<1>1. robotLoads' \in 1..MaxRobotLoads
  BY RobotAssumption DEF Calls, RobotInv, RobotTypeOK
<1>2. asked' = q /\ UNCHANGED <<robot, jog, shadow, tcp, transport, demoMode, demo, jointChannel,
                                latestJoints, destroyed, loadedKey>>
  BY DEF Calls, jogVars, demoVars
<1>3. overlapped' \in BOOLEAN /\ reported' \in BOOLEAN
  BY DEF Calls, RobotInv, RobotTypeOK
<1>4. RobotTypeOK'
  BY <1>1, <1>2, <1>3 DEF RobotInv, RobotTypeOK
<1>5. reported' => reported
  BY DEF RobotInv, RobotTypeOK
<1>6. Loads'
  BY <1>1, <1>2, <1>5 DEF RobotInv, RobotTypeOK, Loads
<1>7. JogFollowsRobot'
  BY <1>2 DEF RobotInv, JogFollowsRobot
<1> QED
  BY <1>4, <1>6, <1>7 DEF RobotInv

LEMMA LoadedHolds ==
    ASSUME RobotInv, RobotLoaded
    PROVE  RobotInv'
<1> DEFINE r == [model |-> loading.model, n |-> robotLoads,
                 meshes |-> IF loading.from = "files" THEN "files" ELSE meshBase]
<1>1. /\ loading' = NoModel /\ robot' = r /\ jog' = (jog /\ r.model \in Arms)
      /\ IF jog' THEN EnterJog(r, tcp) ELSE ExitJog
      /\ loadedKey' = loading /\ reported' = TRUE /\ demo' = (demo \/ demoMode)
      /\ jointChannel' \in {jointChannel, "demo"}
      /\ UNCHANGED <<urdfSource, reading, meshBase, asked, robotLoads, demoMode, destroyed>>
  BY DEF RobotLoaded, historyVars
<1>2. loading \in Requests /\ robotLoads \in 1..MaxRobotLoads
  BY RobotAssumption DEF RobotLoaded, RobotInv, RobotTypeOK, Loads
<1>3. r \in [model : Models \cup {"none"}, meshes : Models \cup {"hub", "files", "none"},
             n : 0..MaxRobotLoads]
  BY <1>2, RequestParts DEF RobotInv, RobotTypeOK
<1>4. /\ jog' => /\ r.model \in Arms /\ shadow' = r.n /\ tcp' \in LinksOf[r.model]
                 /\ transport' = IF demo THEN "local" ELSE "hub"
      /\ ~jog' => shadow' = 0 /\ transport' = transport
  BY <1>1, <1>3, Entered DEF ExitJog
<1>5. ~destroyed /\ jog => demo' = demo
  BY <1>1 DEF RobotInv, RobotTypeOK, Loads, JogFollowsRobot
<1>6. RobotTypeOK'
  <2>1. /\ jog' \in BOOLEAN /\ demo' \in BOOLEAN /\ demoMode' \in BOOLEAN
        /\ reported' \in BOOLEAN /\ destroyed' \in BOOLEAN
        /\ overlapped' \in BOOLEAN /\ cut' \in BOOLEAN
    BY <1>1 DEF RobotLoaded, RobotInv, RobotTypeOK, historyVars
  <2>2. shadow' \in 0..MaxRobotLoads /\ transport' \in {"hub", "local"}
    <3>1. 0 \in 0..MaxRobotLoads /\ r.n \in 0..MaxRobotLoads /\ transport \in {"hub", "local"}
      BY <1>2, RobotAssumption DEF RobotInv, RobotTypeOK
    <3>2. CASE jog'
      BY <1>4, <3>1, <3>2
    <3>3. CASE ~jog'
      BY <1>4, <3>1, <3>3
    <3> QED
      BY <3>2, <3>3
  <2>3. robot' \in [model : Models \cup {"none"}, meshes : Models \cup {"hub", "files", "none"},
                   n : 0..MaxRobotLoads]
    BY <1>1, <1>3
  <2> QED
    BY <1>1, <2>1, <2>2, <2>3 DEF RobotInv, RobotTypeOK
<1>7. Loads'
  BY <1>1, <1>2, <1>4 DEF RobotInv, RobotTypeOK, Loads
<1>8. JogFollowsRobot'
  <2>1. robot' # NoRobot
    BY <1>1, <1>2 DEF NoRobot
  <2>2. shadow' # 0 => jog' /\ jog
    BY <1>1, <1>4 DEF RobotInv, RobotTypeOK
  <2> QED
    BY <1>1, <1>4, <1>5, <2>1, <2>2 DEF JogFollowsRobot
<1> QED
  BY <1>6, <1>7, <1>8 DEF RobotInv

\* Turning jog mode on or off, or making it again.
LEMMA JogHolds ==
    ASSUME RobotInv, JogOffered, NEW link, NEW on \in BOOLEAN, jog' = on,
           IF on THEN EnterJog(robot, link) ELSE ExitJog,
           UNCHANGED <<loadVars, robot, loadedKey, reported, demoVars, destroyed>>
    PROVE  RobotInv'
<1>1. robot \in [model : Models \cup {"none"}, meshes : Models \cup {"hub", "files", "none"},
                 n : 0..MaxRobotLoads]
      /\ robot.model \in Arms /\ robot.n >= 1 /\ ~destroyed
  BY DEF RobotInv, RobotTypeOK, Loads, JogOffered
<1>2. /\ jog' => /\ shadow' = robot.n /\ tcp' \in LinksOf[robot.model]
                 /\ transport' = IF demo THEN "local" ELSE "hub"
      /\ ~jog' => shadow' = 0 /\ transport' = transport
  BY <1>1, Entered DEF ExitJog
<1>3. RobotTypeOK'
  <2>1. shadow' \in 0..MaxRobotLoads /\ transport' \in {"hub", "local"}
    <3>1. 0 \in 0..MaxRobotLoads /\ robot.n \in 0..MaxRobotLoads /\ transport \in {"hub", "local"}
      BY RobotAssumption DEF RobotInv, RobotTypeOK
    <3>2. CASE jog'
      BY <1>2, <3>1, <3>2
    <3>3. CASE ~jog'
      BY <1>2, <3>1, <3>3
    <3> QED
      BY <3>2, <3>3
  <2> QED
    BY <2>1 DEF RobotInv, RobotTypeOK, loadVars, historyVars, demoVars
<1>4. Loads'
  BY <1>1, <1>2 DEF RobotInv, RobotTypeOK, Loads, loadVars, historyVars, demoVars
<1>5. JogFollowsRobot'
  BY <1>1, <1>2 DEF RobotInv, JogFollowsRobot, loadVars, demoVars
<1> QED
  BY <1>3, <1>4, <1>5 DEF RobotInv

LEMMA DemoOffHolds ==
    ASSUME RobotInv, DemoOff
    PROVE  RobotInv'
<1>1. CASE demo
  <2>1. /\ demo' = FALSE /\ demoMode' = FALSE /\ jog' = FALSE /\ reported' = FALSE /\ shadow' = 0
        /\ robot' = NoRobot /\ loadedKey' = NoModel /\ meshBase' = "hub" /\ jointChannel' = "none"
        /\ UNCHANGED <<tcp, transport, urdfSource, reading, loading, asked, robotLoads, destroyed>>
    BY <1>1 DEF DemoOff, Stop, ExitJog
  <2>2. overlapped' \in BOOLEAN /\ cut' \in BOOLEAN
    BY DEF DemoOff, NotesCut, RobotInv, RobotTypeOK
  <2>3. NoRobot \in [model : Models \cup {"none"}, meshes : Models \cup {"hub", "files", "none"},
                    n : 0..MaxRobotLoads] /\ 0 \in 0..MaxRobotLoads
    BY RobotAssumption DEF NoRobot
  <2>4. RobotTypeOK'
    BY <2>1, <2>2, <2>3 DEF RobotInv, RobotTypeOK
  <2>5. Loads' /\ JogFollowsRobot'
    BY <2>1 DEF RobotInv, Loads, JogFollowsRobot
  <2> QED
    BY <2>4, <2>5 DEF RobotInv
<1>2. CASE ~demo
  BY <1>2 DEF DemoOff, NotesCut, jogVars, RobotInv, RobotTypeOK, Loads, JogFollowsRobot
<1> QED
  BY <1>1, <1>2

LEMMA StepHolds ==
    ASSUME RobotInv, [RobotNext]_robotVars
    PROVE  RobotInv'
<1>1. ASSUME NEW m \in Models, LoadFromUrl(m)
      PROVE  RobotInv'
  <2>1. From("url", m) \in Requests
    BY RequestFacts
  <2> QED
    BY <1>1, <2>1, CallHolds DEF LoadFromUrl, LoadRobot, NotesCut, RobotInv, RobotTypeOK
<1>2. ASSUME NEW m \in Models, ReloadLocal(m)
      PROVE  RobotInv'
  <2>1. From("files", m) \in Requests
    BY RequestFacts
  <2> QED
    BY <1>2, <2>1, CallHolds DEF ReloadLocal, NotesCut, RobotInv, RobotTypeOK
<1>3. ASSUME NEW m \in Models, LoadFromChannel(m)
      PROVE  RobotInv'
  <2>1. From("channel", m) \in Requests
    BY RequestFacts
  <2> QED
    BY <1>3, <2>1, CallHolds DEF LoadFromChannel, LoadRobot, NotesCut, RobotInv, RobotTypeOK
<1>4. ASSUME NEW m \in Models, FilesRead(m)
      PROVE  RobotInv'
  <2>1. From("files", m) \in Requests
    BY RequestFacts
  <2> QED
    <3>1. /\ loading' \in {NoModel} \cup Requests
          /\ reading' \subseteq reading /\ robotLoads >= 1
      BY <1>4, <2>1 DEF FilesRead, LoadRobot, RobotInv, RobotTypeOK, Loads
    <3>2. UNCHANGED <<urdfSource, meshBase, asked, overlapped, robotLoads, robot, loadedKey, jog,
                      shadow, tcp, transport, demoMode, demo, jointChannel, destroyed>>
      BY <1>4 DEF FilesRead, jogVars, demoVars
    <3>3. reported' = reported \/ reported' = FALSE
      BY <1>4 DEF FilesRead, LoadRobot
    <3>4. reported \in BOOLEAN
      BY DEF RobotInv, RobotTypeOK
    <3>5. reported' \in BOOLEAN /\ (reported' => reported)
      <4>1. CASE reported' = reported
        BY <3>4, <4>1
      <4>2. CASE reported' = FALSE
        BY <4>2
      <4> QED
        BY <3>3, <4>1, <4>2
    <3>6. cut' \in BOOLEAN
      BY <1>4 DEF FilesRead, NotesCut, RobotInv, RobotTypeOK
    <3> QED
      BY <3>1, <3>2, <3>5, <3>6 DEF RobotInv, RobotTypeOK, Loads, JogFollowsRobot
<1>5. ASSUME NEW source \in {"channel", "local"}, SetUrdfSource(source)
      PROVE  RobotInv'
  BY <1>5
  DEF SetUrdfSource, historyVars, jogVars, demoVars, RobotInv, RobotTypeOK, Loads, JogFollowsRobot
<1>6. CASE RobotLoaded
  BY <1>6, LoadedHolds
<1>7. CASE LoadFails
  BY <1>7
  DEF LoadFails, historyVars, jogVars, demoVars, RobotInv, RobotTypeOK, Loads, JogFollowsRobot
<1>8. ASSUME NEW on \in BOOLEAN, SetJog(on)
      PROVE  RobotInv'
  BY <1>8, JogHolds DEF SetJog
<1>9. ASSUME NEW link, Rewire(link)
      PROVE  RobotInv'
  <2>1. jog' = TRUE
    BY <1>9 DEF Rewire, RobotInv, RobotTypeOK
  <2> QED
    BY <1>9, <2>1, JogHolds DEF Rewire
<1>10. ASSUME NEW channel \in {"none", "live", "demo"}, BindJoints(channel)
       PROVE  RobotInv'
  BY <1>10
  DEF BindJoints, loadVars, historyVars, jogVars, RobotInv, RobotTypeOK, Loads, JogFollowsRobot
<1>11. CASE JointSample
  BY <1>11
  DEF JointSample, loadVars, historyVars, jogVars, RobotInv, RobotTypeOK, Loads, JogFollowsRobot
<1>12. CASE DemoOff
  BY <1>12, DemoOffHolds
<1>13. CASE Destroy
  <2>1. /\ destroyed' = TRUE /\ demo' = FALSE /\ shadow' = 0 /\ robot' = NoRobot
        /\ UNCHANGED <<tcp, transport, loadVars, loadedKey, reported, jog, jointChannel>>
    BY <1>13 DEF Destroy, ExitJog
  <2>2. demoMode' \in BOOLEAN
    BY <1>13 DEF Destroy, RobotInv, RobotTypeOK
  <2>3. NoRobot \in [model : Models \cup {"none"}, meshes : Models \cup {"hub", "files", "none"},
                    n : 0..MaxRobotLoads] /\ 0 \in 0..MaxRobotLoads
    BY RobotAssumption DEF NoRobot
  <2>4. RobotTypeOK'
    <3>1. UNCHANGED <<urdfSource, reading, loading, meshBase, asked, overlapped, cut, robotLoads>>
      BY <2>1 DEF loadVars, historyVars
    <3>2. destroyed' \in BOOLEAN /\ demo' \in BOOLEAN
      BY <2>1
    <3> QED
      BY <2>1, <2>2, <2>3, <3>1, <3>2 DEF RobotInv, RobotTypeOK
  <2>5. Loads' /\ JogFollowsRobot'
    BY <2>1 DEF loadVars, historyVars, RobotInv, Loads, JogFollowsRobot
  <2> QED
    BY <2>4, <2>5 DEF RobotInv
<1>14. CASE ChannelWithoutUrl
  BY <1>14 DEF ChannelWithoutUrl, NotesCut, jogVars, demoVars, RobotInv, RobotTypeOK, Loads,
               JogFollowsRobot
<1>15. CASE UNCHANGED robotVars
  BY <1>15 DEF robotVars, loadVars, historyVars, jogVars, demoVars, RobotInv, RobotTypeOK, Loads,
               JogFollowsRobot
<1> QED
  BY <1>1, <1>2, <1>3, <1>4, <1>5, <1>6, <1>7, <1>8, <1>9, <1>10, <1>11, <1>12, <1>13, <1>14,
     <1>15
     DEF RobotNext
-----------------------------------------------------------------------------
\* Steps that load nothing and change no robot keep what was asked for.
LEMMA RestAsAsked ==
    ASSUME AsAsked,
           UNCHANGED <<reading, loading, meshBase, asked, overlapped, cut, robot, loadedKey,
                       reported>>,
           ~destroyed' => ~destroyed
    PROVE  AsAsked'
BY DEF AsAsked, LastAsked, OwnMeshes, MeshesOf

\* A call that begins to load unless something else does.
LEMMA CallAsAsked ==
    ASSUME RobotInv, AsAsked, NEW q \in Requests, Calls(q), reading' = reading,
           NotesCut(loading \notin {NoModel, q}),
           q.from # "files", meshBase' = MeshesOf(q),
           LoadRobot(q) \/ (loadedKey = q /\ UNCHANGED <<loading, reported>>)
    PROVE  AsAsked'
<1> SUFFICES ASSUME ~destroyed' PROVE LastAsked' /\ OwnMeshes'
  BY DEF AsAsked
<1>1. /\ asked' = q /\ robot' = robot /\ loadedKey' = loadedKey
      /\ overlapped' = (loading # NoModel \/ reading # {})
      /\ LastAsked /\ OwnMeshes
  BY DEF Calls, AsAsked
<1>2. q # NoModel
  BY RequestParts
<1>3. MeshesOf(q)' = MeshesOf(q) /\ MeshesOf(loading)' = MeshesOf(loading')
      /\ MeshesOf(loadedKey)' = MeshesOf(loadedKey)
  BY <1>1 DEF MeshesOf
<1>4. CASE LoadRobot(q)
  <2>1. CASE loading = NoModel
    <3>1. loading' = q /\ reported' = FALSE /\ cut' = FALSE
      BY <1>2, <1>4, <2>1 DEF LoadRobot, NotesCut
    <3> QED
      BY <1>1, <1>2, <1>3, <3>1 DEF LastAsked, OwnMeshes
  <2>2. CASE loading # NoModel
    <3>1. UNCHANGED <<loading, reported>> /\ cut' = (cut \/ loading # q)
      BY <1>4, <2>2 DEF LoadRobot, NotesCut
    <3>2. overlapped' /\ ~reported
      BY <1>1, <2>2 DEF OwnMeshes
    <3> QED
      BY <1>1, <1>3, <3>1, <3>2 DEF LastAsked, OwnMeshes
  <2> QED
    BY <2>1, <2>2
<1>5. CASE loadedKey = q /\ UNCHANGED <<loading, reported>>
  <2>1. cut' = (cut \/ loading \notin {NoModel, q})
    BY <1>5 DEF NotesCut
  <2> QED
    BY <1>1, <1>2, <1>3, <1>5, <2>1 DEF LastAsked, OwnMeshes
<1> QED
  BY <1>4, <1>5

\* Local files are read, and then loaded.
LEMMA FilesAsAsked ==
    ASSUME RobotInv, AsAsked, NEW m \in Models, ReloadLocal(m) \/ FilesRead(m)
    PROVE  AsAsked'
<1> DEFINE q == From("files", m)
<1> SUFFICES ASSUME ~destroyed' PROVE LastAsked' /\ OwnMeshes'
  BY DEF AsAsked
<1>1. q # NoModel /\ q.from = "files" /\ q.model = m
  BY RequestFacts DEF From
<1> HIDE DEF q
<1>2. CASE ReloadLocal(m)
  <2>1. /\ LastAsked /\ OwnMeshes
        /\ asked' = q /\ UNCHANGED <<robot, loadedKey, loading>> /\ meshBase' = "hub"
        /\ overlapped' = (loading # NoModel \/ reading # {})
        /\ cut' = (cut \/ loading \notin {NoModel, q})
    BY <1>2 DEF ReloadLocal, Calls, NotesCut, AsAsked, q
  <2>2. \/ reading' = reading \cup {m} /\ reported' = reported
        \/ ~reported' /\ reading' = reading
    BY <1>2 DEF ReloadLocal
  <2>3. LastAsked'
    <3>1. ~overlapped' => loading' = NoModel /\ (reading' = {m} \/ (~reported' /\ reading' = {}))
      BY <2>1, <2>2
    <3> QED
      BY <1>1, <2>1, <3>1 DEF LastAsked
  <2>4. OwnMeshes'
    <3>1. loading # NoModel /\ ~cut' => ~cut /\ loading.from = "files"
      BY <1>1, <2>1
    <3>2. reported' => reported
      BY <2>2
    <3>3. ~cut' => ~cut
      BY <2>1
    <3> QED
      BY <2>1, <3>1, <3>2, <3>3 DEF OwnMeshes, MeshesOf
  <2> QED
    BY <2>3, <2>4
<1>3. CASE FilesRead(m)
  <2>1. /\ LastAsked /\ OwnMeshes /\ m \in reading /\ reading' = reading \ {m}
        /\ UNCHANGED <<asked, overlapped, meshBase, robot, loadedKey>>
    BY <1>3 DEF FilesRead, AsAsked
  <2>2. CASE loading = NoModel
    <3>1. loading' = q /\ reported' = FALSE /\ cut' = FALSE
      BY <1>1, <1>3, <2>2 DEF FilesRead, LoadRobot, NotesCut, q
    <3>2. ~overlapped => asked = q /\ reading' = {}
      <4>1. ASSUME ~overlapped PROVE asked.from = "files" /\ asked.model = m /\ reading = {m}
        BY <2>1, <4>1 DEF LastAsked
      <4>2. ASSUME ~overlapped PROVE asked \in Requests
        BY <4>1, <4>2 DEF RobotInv, RobotTypeOK, NoModel
      <4> QED
        BY <2>1, <4>1, <4>2 DEF Requests, From, q
    <3> QED
      BY <1>1, <2>1, <3>1, <3>2 DEF LastAsked, OwnMeshes, MeshesOf
  <2>3. CASE loading # NoModel
    <3>1. UNCHANGED <<loading, reported>> /\ cut' = cut
      BY <1>3, <2>3 DEF FilesRead, LoadRobot, NotesCut, RobotInv, RobotTypeOK
    <3>2. overlapped
      BY <2>1, <2>3 DEF LastAsked
    <3> QED
      BY <2>1, <3>1, <3>2 DEF LastAsked, OwnMeshes, MeshesOf
  <2> QED
    BY <2>2, <2>3
<1> QED
  BY <1>2, <1>3

LEMMA LoadedAsAsked ==
    ASSUME RobotInv, AsAsked, RobotLoaded
    PROVE  AsAsked'
<1> SUFFICES ASSUME ~destroyed' PROVE LastAsked' /\ OwnMeshes'
  BY DEF AsAsked
<1>1. /\ LastAsked /\ OwnMeshes /\ loading # NoModel
      /\ robot'.model = loading.model
      /\ robot'.meshes = IF loading.from = "files" THEN "files" ELSE meshBase
      /\ loading' = NoModel /\ loadedKey' = loading
      /\ UNCHANGED <<reading, meshBase, asked, overlapped, cut>>
  BY DEF RobotLoaded, AsAsked, historyVars
<1>2. ~cut \/ loading.from = "files" => robot'.meshes = MeshesOf(loading)
  BY <1>1 DEF OwnMeshes, MeshesOf
<1> QED
  BY <1>1, <1>2 DEF LastAsked, OwnMeshes, MeshesOf

\* The mesh base is reset by a message without a URL, and with the robot when a
\* demo ends.
LEMMA ResetAsAsked ==
    ASSUME RobotInv, AsAsked, ChannelWithoutUrl \/ DemoOff
    PROVE  AsAsked'
<1> SUFFICES ASSUME ~destroyed' PROVE LastAsked' /\ OwnMeshes'
  BY DEF AsAsked
<1>1. /\ LastAsked /\ OwnMeshes /\ cut \in BOOLEAN /\ demo \in BOOLEAN
      /\ UNCHANGED <<reading, loading, asked, overlapped>>
  BY DEF ChannelWithoutUrl, DemoOff, AsAsked, RobotInv, RobotTypeOK
<1>2. CASE ChannelWithoutUrl
  <2>1. /\ UNCHANGED <<robot, loadedKey, reported>>
        /\ cut' = (cut \/ loading # NoModel)
    BY <1>2 DEF ChannelWithoutUrl, NotesCut
  <2> QED
    BY <1>1, <2>1 DEF LastAsked, OwnMeshes, MeshesOf
<1>3. CASE DemoOff /\ demo
  <2>1. /\ loadedKey' = NoModel /\ reported' = FALSE
        /\ cut' = (cut \/ loading # NoModel)
    BY <1>1, <1>3 DEF DemoOff, Stop, NotesCut
  <2> QED
    BY <1>1, <2>1 DEF LastAsked, OwnMeshes
<1>4. CASE DemoOff /\ ~demo
  <2>1. UNCHANGED <<robot, loadedKey, reported, meshBase, cut>>
    BY <1>1, <1>4 DEF DemoOff, NotesCut
  <2> QED
    BY <1>1, <2>1 DEF LastAsked, OwnMeshes, MeshesOf
<1> QED
  BY <1>1, <1>2, <1>3, <1>4

LEMMA StepAsAsked ==
    ASSUME RobotInv, AsAsked, [RobotNext]_robotVars
    PROVE  AsAsked'
<1>1. ASSUME NEW m \in Models, LoadFromUrl(m)
      PROVE  AsAsked'
  <2>1. /\ From("url", m) \in Requests /\ From("url", m).from # "files"
        /\ MeshesOf(From("url", m)) = m
    BY RequestFacts DEF MeshesOf, From
  <2> QED
    BY <1>1, <2>1, CallAsAsked DEF LoadFromUrl
<1>2. ASSUME NEW m \in Models, LoadFromChannel(m)
      PROVE  AsAsked'
  <2>1. /\ From("channel", m) \in Requests /\ From("channel", m).from # "files"
        /\ MeshesOf(From("channel", m)) = IF m \in Online THEN m ELSE "hub"
    BY RequestFacts DEF MeshesOf, From
  <2> QED
    BY <1>2, <2>1, CallAsAsked DEF LoadFromChannel
<1>3. ASSUME NEW m \in Models, ReloadLocal(m) \/ FilesRead(m)
      PROVE  AsAsked'
  BY <1>3, FilesAsAsked
<1>4. ASSUME NEW source \in {"channel", "local"}, SetUrdfSource(source)
      PROVE  AsAsked'
  BY <1>4, RestAsAsked DEF SetUrdfSource, historyVars
<1>5. CASE RobotLoaded
  BY <1>5, LoadedAsAsked
<1>6. CASE LoadFails
  BY <1>6 DEF LoadFails, historyVars, AsAsked, LastAsked, OwnMeshes, MeshesOf
<1>7. ASSUME NEW on \in BOOLEAN, SetJog(on)
      PROVE  AsAsked'
  BY <1>7, RestAsAsked DEF SetJog, loadVars, historyVars
<1>8. ASSUME NEW link, Rewire(link)
      PROVE  AsAsked'
  BY <1>8, RestAsAsked DEF Rewire, loadVars, historyVars
<1>9. ASSUME NEW channel \in {"none", "live", "demo"}, BindJoints(channel)
      PROVE  AsAsked'
  BY <1>9, RestAsAsked DEF BindJoints, loadVars, historyVars
<1>10. CASE JointSample
  BY <1>10, RestAsAsked DEF JointSample, loadVars, historyVars
<1>11. CASE ChannelWithoutUrl \/ DemoOff
  BY <1>11, ResetAsAsked
<1>12. CASE Destroy
  BY <1>12 DEF Destroy, AsAsked
<1>13. CASE UNCHANGED robotVars
  BY <1>13, RestAsAsked DEF robotVars, loadVars, historyVars
<1> QED
  BY <1>1, <1>2, <1>3, <1>4, <1>5, <1>6, <1>7, <1>8, <1>9, <1>10, <1>11, <1>12, <1>13
     DEF RobotNext

LEMMA InvHolds == RobotSpec => [](RobotInv /\ AsAsked)
<1>1. RobotInv /\ AsAsked /\ [RobotNext]_robotVars => RobotInv' /\ AsAsked'
  BY StepHolds, StepAsAsked
<1> QED
  BY <1>1, InitHolds, PTL DEF RobotSpec
-----------------------------------------------------------------------------
(***************************************************************************)
(* Requests, robots and channels are what they can be, over reloads, demo  *)
(* mode, failures and the end of the panel.                                *)
(***************************************************************************)
THEOREM RobotTypes == RobotSpec => []RobotTypeOK
BY InvHolds, PTL DEF RobotInv

(***************************************************************************)
(* The shadow that takes commands is of the robot on display and dragged   *)
(* by one of its links, and its commands stay in the browser exactly in    *)
(* demo mode (RobotModelPlugin.ts 723-725, 590-599), for any catalogue.    *)
(***************************************************************************)
THEOREM ShadowOfTheRobot == RobotSpec => []JogFollowsRobot
BY InvHolds, PTL DEF RobotInv

(***************************************************************************)
(* The robot reported is the one asked for last, unless that was asked     *)
(* while another was under way; it is always the one whose key is kept;    *)
(* and its meshes are from its own place unless, while it was loading,     *)
(* something else was asked for, a message came without URL or a demo      *)
(* ended (RobotModelPlugin.ts 480-512), for any catalogue and any loads.   *)
(***************************************************************************)
THEOREM AskedIsShown == RobotSpec => []ModelAsAsked
<1>1. RobotInv /\ AsAsked => ModelAsAsked
  BY DEF AsAsked, LastAsked, OwnMeshes, ModelAsAsked
<1> QED
  BY <1>1, InvHolds, PTL

-----------------------------------------------------------------------------
(***************************************************************************)
(* Markers                                                                 *)
(***************************************************************************)

MarkerSpec == MarkerInit /\ [][MarkerNext]_markerVars

Refs == {"shape", "nothing"} \cup Meshes
MarkerMsgs ==
    {m \in [n : Nat, action : {"add", "delete", "delete_namespace", "delete_all"},
            key : MarkerKeys, ref : Refs, mortal : BOOLEAN] :
        m.action # "add" => m.ref = "nothing"}
Entries == [made : Nat, ref : Refs, drawn : Refs, pose : Nat, expires : Nat]
Said == [m : MarkerMsgs, at : Nat]

\* Which of what was said is the last about a marker.
LastOn(sd, k, i) == About(sd[i], k) /\ \A j \in 1..Len(sd) : About(sd[j], k) => j <= i

ExpiresAt(s) == IF s.m.mortal THEN s.at + 1 ELSE Never

\* What is displayed for key k if s was last said about it.
Fits(s, k, mk, clock) ==
    IF s.m.action = "add" /\ s.m.ref # "nothing"
    THEN IF k \in DOMAIN mk
         THEN /\ mk[k].ref = s.m.ref /\ mk[k].expires = ExpiresAt(s)
              /\ mk[k].drawn \in {s.m.ref, "nothing"}
              /\ s.m.ref = "shape" => mk[k].pose = s.m.n
         ELSE clock >= ExpiresAt(s)
    ELSE k \notin DOMAIN mk

Published(sd, mk, clock) ==
    /\ DOMAIN mk \subseteq MarkerKeys
    /\ \A k \in MarkerKeys, i \in 1..Len(sd) : LastOn(sd, k, i) => Fits(sd[i], k, mk, clock)
    /\ \A k \in DOMAIN mk : \E i \in 1..Len(sd) : About(sd[i], k)

\* Entries are known by their number; a mesh under way for one is the one it
\* refers to.
Numbered(mk, loads, n) ==
    /\ \A k \in DOMAIN mk : /\ mk[k] \in Entries /\ mk[k].made <= n
                            /\ mk[k].drawn \in {mk[k].ref, "nothing"}
    /\ loads \subseteq [key : MarkerKeys, made : Nat, ref : Meshes, pose : Nat]
    /\ \A l \in loads : /\ l.made <= n
                        /\ l.key \in DOMAIN mk /\ mk[l.key].made = l.made =>
                               mk[l.key].ref = l.ref

MarkerInv ==
    /\ handled \in Nat /\ markerClock \in Nat /\ said \in Seq(Said)
    /\ markerMirror \in [LatchedMarkers -> MarkerMsgs \cup {NoMarker}]
    /\ Numbered(markers, meshLoads, handled)
    /\ Published(said, markers, markerClock)
-----------------------------------------------------------------------------
LEMMA MessageFacts ==
    ASSUME NEW n \in Nat, NEW m \in MarkerMessages(n)
    PROVE  m \in MarkerMsgs
BY DEF MarkerMessages, MarkerMsgs, Refs

LEMMA LeastThereIs ==
    ASSUME NEW S \in SUBSET Nat, S # {}
    PROVE  \E d \in S : \A y \in S : ~(<<y, d>> \in OpToRel(<, Nat))
BY NatLessThanWellFounded, WFMin, Zenon

\* There is a last one.
LEMMA LastExists ==
    ASSUME NEW sd \in Seq(Said), NEW k, NEW e \in 1..Len(sd), About(sd[e], k)
    PROVE  \E i \in 1..Len(sd) : LastOn(sd, k, i)
<1> DEFINE L == Len(sd)
<1> DEFINE Left == {n \in Nat : n \in 0..L /\ L - n \in 1..L /\ About(sd[L - n], k)}
<1>0. L \in Nat
  OBVIOUS
<1> HIDE DEF L
<1>1. L - e \in Left
  BY <1>0 DEF L
<1>2. PICK d \in Left : \A y \in Left : ~(<<y, d>> \in OpToRel(<, Nat))
  <2>1. Left \subseteq Nat /\ Left # {}
    BY <1>1
  <2> QED
    BY <2>1, LeastThereIs, Zenon
<1>3. ASSUME NEW j \in 1..L, About(sd[j], k) PROVE j <= L - d
  <2>1. L - (L - j) = j
    BY <1>0
  <2>2. L - j \in Left
    BY <1>0, <1>3, <2>1
  <2>3. ~(<<L - j, d>> \in OpToRel(<, Nat))
    BY <1>2, <2>2
  <2>4. ~(L - j < d)
    BY <2>2, <2>3 DEF OpToRel
  <2> QED
    BY <1>0, <2>4
<1> QED
  BY <1>2, <1>3 DEF L, LastOn

LEMMA LastIsIt ==
    ASSUME NEW i \in 1..Len(said), NEW k, LastOn(said, k, i), said \in Seq(Said)
    PROVE  LastAbout(k) = i
<1> DEFINE at == {j \in 1..Len(said) : About(said[j], k)}
<1>1. i \in at /\ \A j \in at : j <= i
  BY DEF LastOn
<1>2. \A a \in at : (\A j \in at : j <= a) => a = i
  <2>1. at \subseteq Nat
    OBVIOUS
  <2> QED
    BY <1>1, <2>1
<1>3. (CHOOSE a \in at : \A j \in at : j <= a) = i
  <2> HIDE DEF at
  <2> QED
    BY <1>1, <1>2
<1> QED
  BY <1>3 DEF LastAbout

LEMMA PublishedIs ==
    ASSUME MarkerInv
    PROVE  MarkersAsPublished
<1>1. said \in Seq(Said) /\ Published(said, markers, markerClock)
  BY DEF MarkerInv
<1>2. ASSUME NEW k \in MarkerKeys, NEW e \in 1..Len(said), About(said[e], k)
      PROVE  /\ LastAbout(k) \in 1..Len(said)
             /\ Fits(said[LastAbout(k)], k, markers, markerClock)
  <2>1. PICK i \in 1..Len(said) : LastOn(said, k, i)
    BY <1>1, <1>2, LastExists
  <2>2. LastAbout(k) = i
    BY <1>1, <2>1, LastIsIt
  <2> QED
    BY <1>1, <2>1, <2>2 DEF Published
<1>3. DOMAIN markers \subseteq Asked
  <2>1. ASSUME NEW k \in DOMAIN markers PROVE k \in Asked
    <3>1. k \in MarkerKeys /\ \E i \in 1..Len(said) : About(said[i], k)
      BY <1>1 DEF Published
    <3>2. Fits(said[LastAbout(k)], k, markers, markerClock)
      BY <1>2, <3>1
    <3> QED
      BY <3>1, <3>2 DEF Asked, Fits
  <2> QED
    BY <2>1
<1>4. ASSUME NEW k \in Asked, NEW s, s = said[LastAbout(k)]
      PROVE  IF k \in DOMAIN markers
             THEN /\ markers[k].ref = s.m.ref /\ markers[k].expires = ExpiresAt(s)
                  /\ markers[k].drawn \in {s.m.ref, "nothing"}
                  /\ s.m.ref = "shape" => markers[k].pose = s.m.n
             ELSE markerClock >= ExpiresAt(s)
  <2>1. /\ k \in MarkerKeys /\ \E i \in 1..Len(said) : About(said[i], k)
        /\ s.m.action = "add" /\ s.m.ref # "nothing"
    BY <1>4 DEF Asked
  <2>2. Fits(s, k, markers, markerClock)
    BY <1>2, <1>4, <2>1
  <2> QED
    BY <2>1, <2>2 DEF Fits
<1> QED
  BY <1>3, <1>4 DEF MarkersAsPublished, ExpiresAt

-----------------------------------------------------------------------------
\* One more message: what it is about fits it, all else is as before.
LEMMA OneMoreSaid ==
    ASSUME NEW sd \in Seq(Said), NEW mk, NEW clock \in Nat, Published(sd, mk, clock),
           NEW s \in Said, NEW new, DOMAIN new \subseteq MarkerKeys,
           \A k \in MarkerKeys : About(s, k) => Fits(s, k, new, clock),
           \A k \in MarkerKeys : ~About(s, k) =>
               /\ k \in DOMAIN new <=> k \in DOMAIN mk
               /\ k \in DOMAIN mk => new[k] = mk[k]
    PROVE  Published(Append(sd, s), new, clock) /\ Append(sd, s) \in Seq(Said)
<1> DEFINE L == Len(sd)
<1> DEFINE sx == Append(sd, s)
<1>1. /\ L \in Nat /\ sx \in Seq(Said) /\ Len(sx) = L + 1 /\ sx[L + 1] = s
      /\ \A i \in 1..L : sx[i] = sd[i]
  OBVIOUS
<1> HIDE DEF L, sx
<1>2. ASSUME NEW k \in MarkerKeys, NEW i \in 1 .. Len(sx), LastOn(sx, k, i)
      PROVE  Fits(sx[i], k, new, clock)
  <2>1. CASE i = L + 1
    BY <1>1, <1>2, <2>1 DEF LastOn
  <2>2. CASE i # L + 1
    <3>1. i \in 1..L
      BY <1>1, <2>2
    <3>2. ~About(s, k)
      <4>1. L + 1 \in 1..Len(sx) /\ ~(L + 1 <= i)
        BY <1>1, <3>1
      <4> QED
        BY <1>1, <1>2, <4>1 DEF LastOn
    <3>3. LastOn(sd, k, i)
      BY <1>1, <1>2, <3>1 DEF LastOn, L
    <3>4. Fits(sd[i], k, mk, clock)
      BY <3>1, <3>3 DEF Published, L
    <3>5. Fits(sd[i], k, new, clock)
      BY <3>2, <3>4 DEF Fits
    <3> QED
      BY <1>1, <3>1, <3>5
  <2> QED
    BY <2>1, <2>2
<1>3. ASSUME NEW k \in DOMAIN new PROVE \E i \in 1..Len(sx) : About(sx[i], k)
  <2>1. CASE About(s, k)
    BY <1>1, <2>1
  <2>2. CASE ~About(s, k)
    <3>1. k \in DOMAIN mk
      BY <2>2
    <3>2. PICK i \in 1..L : About(sd[i], k)
      BY <3>1 DEF Published, L
    <3> QED
      BY <1>1, <3>2
  <2> QED
    BY <2>1, <2>2
<1>4. Published(sx, new, clock)
  BY <1>2, <1>3 DEF Published
<1> QED
  BY <1>1, <1>4 DEF sx

\* When the markers are cleared, nothing was said; loads go on.
LEMMA NothingSaid ==
    ASSUME NEW clock \in Nat, NEW mk, NEW loads, NEW n \in Nat, Numbered(mk, loads, n)
    PROVE  /\ Published(<<>>, <<>>, clock) /\ <<>> \in Seq(Said)
           /\ Numbered(<<>>, loads, n) /\ DOMAIN <<>> = {}
<1>1. DOMAIN <<>> = {} /\ Len(<<>>) = 0 /\ <<>> \in Seq(Said)
  OBVIOUS
<1>2. Published(<<>>, <<>>, clock)
  BY <1>1 DEF Published
<1> QED
  BY <1>1, <1>2 DEF Numbered

-----------------------------------------------------------------------------
(* What a message does *)

\* Said of a marker added now.
LEMMA AddedFits ==
    ASSUME NEW m \in MarkerMsgs, markerClock \in Nat, NEW s, s = [m |-> m, at |-> markerClock]
    PROVE  s \in Said /\ ExpiresAt(s) = ExpiryOf(m) /\ ExpiryOf(m) \in Nat
<1>1. Never \in Nat
  BY MarkerAssumption DEF Never
<1>2. m.mortal \in BOOLEAN
  BY DEF MarkerMsgs
<1> QED
  BY <1>1, <1>2 DEF Said, ExpiresAt, ExpiryOf

\* One entry is set, or changed without another number and reference; a load may
\* begin for the former.
SetsOne(mk, n, new, k) ==
    /\ DOMAIN new \subseteq DOMAIN mk \cup {k}
    /\ \A j \in DOMAIN new : j # k => new[j] = mk[j]
    /\ k \in DOMAIN new =>
          /\ new[k] \in Entries /\ new[k].drawn \in {new[k].ref, "nothing"}
          /\ \/ new[k].made = n + 1
             \/ k \in DOMAIN mk /\ new[k].made = mk[k].made /\ new[k].ref = mk[k].ref

LoadsFor(n, new, k, more) ==
    \A l \in more : /\ l \in [key : MarkerKeys, made : Nat, ref : Meshes, pose : Nat]
                    /\ l.key = k /\ l.made = n + 1
                    /\ k \in DOMAIN new /\ l.ref = new[k].ref

LEMMA NumberedMore ==
    ASSUME NEW mk, NEW loads, NEW n \in Nat, Numbered(mk, loads, n), NEW new, NEW k,
           SetsOne(mk, n, new, k), NEW more, LoadsFor(n, new, k, more)
    PROVE  Numbered(new, loads \cup more, n + 1)
<1>1. ASSUME NEW j \in DOMAIN new
      PROVE  new[j] \in Entries /\ new[j].made <= n + 1 /\ new[j].drawn \in {new[j].ref, "nothing"}
  <2>1. CASE j = k
    <3>1. new[k] \in Entries /\ new[k].drawn \in {new[k].ref, "nothing"}
      BY <2>1 DEF SetsOne
    <3>2. new[k].made <= n + 1
      <4>1. CASE new[k].made = n + 1
        BY <4>1
      <4>2. CASE k \in DOMAIN mk /\ new[k].made = mk[k].made
        <5>1. mk[k].made \in Nat /\ mk[k].made <= n
          BY <4>2 DEF Numbered, Entries
        <5> QED
          BY <4>2, <5>1
      <4> QED
        BY <2>1, <4>1, <4>2 DEF SetsOne
    <3> QED
      BY <2>1, <3>1, <3>2
  <2>2. CASE j # k
    <3>1. j \in DOMAIN mk /\ new[j] = mk[j]
      BY <2>2 DEF SetsOne
    <3>2. mk[j] \in Entries /\ mk[j].made <= n /\ mk[j].drawn \in {mk[j].ref, "nothing"}
      BY <3>1 DEF Numbered
    <3>3. mk[j].made \in Nat
      BY <3>2 DEF Entries
    <3> QED
      BY <3>1, <3>2, <3>3
  <2> QED
    BY <2>1, <2>2
<1>2. loads \cup more \subseteq [key : MarkerKeys, made : Nat, ref : Meshes, pose : Nat]
  BY DEF Numbered, LoadsFor
<1>3. ASSUME NEW l \in loads
      PROVE  /\ l.made <= n + 1
             /\ l.key \in DOMAIN new /\ new[l.key].made = l.made => new[l.key].ref = l.ref
  <2>1. /\ l.made \in Nat /\ l.made <= n
        /\ l.key \in DOMAIN mk /\ mk[l.key].made = l.made => mk[l.key].ref = l.ref
    BY DEF Numbered
  <2>2. l.made # n + 1 /\ l.made <= n + 1
    BY <2>1
  <2>3. CASE l.key = k
    BY <2>1, <2>2, <2>3 DEF SetsOne
  <2>4. CASE l.key # k
    BY <2>1, <2>2, <2>4 DEF SetsOne
  <2> QED
    BY <2>3, <2>4
<1>4. ASSUME NEW l \in more
      PROVE  /\ l.made <= n + 1
             /\ l.key \in DOMAIN new /\ new[l.key].made = l.made => new[l.key].ref = l.ref
  BY <1>4 DEF LoadsFor
<1> QED
  BY <1>1, <1>2, <1>3, <1>4 DEF Numbered

\* Taking entries away.
LEMMA NumberedLess ==
    ASSUME NEW n \in Nat, Numbered(markers, meshLoads, n), NEW S
    PROVE  Numbered(MarkersWithout(S), meshLoads, n)
BY DEF Numbered, MarkersWithout

LEMMA NumberedLater ==
    ASSUME NEW n \in Nat, NEW mk, NEW loads, Numbered(mk, loads, n)
    PROVE  Numbered(mk, loads, n + 1)
<1>1. \A k \in DOMAIN mk : mk[k].made \in Nat
  BY DEF Numbered, Entries
<1> QED
  BY <1>1 DEF Numbered

LEMMA NewEntry ==
    ASSUME NEW m \in MarkerMsgs, NEW drawn \in Refs, handled \in Nat, markerClock \in Nat
    PROVE  /\ MakeEntry(m, drawn) \in Entries
           /\ [MakeEntry(m, drawn) EXCEPT !.pose = 0]
                = [made |-> handled + 1, ref |-> m.ref, drawn |-> drawn, pose |-> 0,
                   expires |-> ExpiryOf(m)]
           /\ [MakeEntry(m, drawn) EXCEPT !.pose = 0] \in Entries
<1>1. ExpiryOf(m) \in Nat /\ m.ref \in Refs /\ m.n \in Nat
  BY AddedFits DEF MarkerMsgs
<1>2. [MakeEntry(m, drawn) EXCEPT !.pose = 0]
        = [made |-> handled + 1, ref |-> m.ref, drawn |-> drawn, pose |-> 0,
           expires |-> ExpiryOf(m)]
  BY DEF MakeEntry
<1> QED
  BY <1>1, <1>2 DEF MakeEntry, Entries

LEMMA UpsertMeshDoes ==
    ASSUME NEW m \in MarkerMsgs, m.action = "add", m.ref \in Meshes,
           handled \in Nat, markerClock \in Nat,
           Numbered(markers, meshLoads, handled), UpsertMesh(m)
    PROVE  /\ DOMAIN markers' = DOMAIN markers \cup {m.key}
           /\ \A j \in DOMAIN markers : j # m.key => markers'[j] = markers[j]
           /\ markers'[m.key].ref = m.ref /\ markers'[m.key].expires = ExpiryOf(m)
           /\ markers'[m.key].drawn \in {m.ref, "nothing"}
           /\ Numbered(markers', meshLoads', handled + 1)
<1>k. PICK k : k = m.key
  OBVIOUS
<1>0. k \in MarkerKeys /\ m.n \in Nat /\ ExpiryOf(m) \in Nat
  BY <1>k, AddedFits DEF MarkerMsgs
<1>1. CASE k \in DOMAIN markers /\ markers[k].ref = m.ref
  <2>1. PICK pose : pose = IF markers[k].pose = 0 THEN 0 ELSE m.n
    OBVIOUS
  <2>2. markers[k] \in Entries /\ pose \in Nat /\ markers[k].drawn \in {m.ref, "nothing"}
    BY <1>0, <1>1, <2>1 DEF Numbered
  <2>3. markers' = [markers EXCEPT ![k].expires = ExpiryOf(m), ![k].pose = pose]
        /\ meshLoads' = meshLoads
    BY <1>k, <1>1, <2>1 DEF UpsertMesh
  <2>4. /\ DOMAIN markers' = DOMAIN markers
        /\ \A j \in DOMAIN markers : j # k => markers'[j] = markers[j]
    BY <2>3
  <2>5. markers'[k] = [[markers[k] EXCEPT !.expires = ExpiryOf(m)] EXCEPT !.pose = pose]
    BY <1>1, <2>3
  <2>6. [markers[k] EXCEPT !.expires = ExpiryOf(m)]
          = [made |-> markers[k].made, ref |-> m.ref, drawn |-> markers[k].drawn,
             pose |-> markers[k].pose, expires |-> ExpiryOf(m)]
    BY <1>1, <2>2 DEF Entries
  <2>7. markers'[k] = [made |-> markers[k].made, ref |-> m.ref, drawn |-> markers[k].drawn,
                       pose |-> pose, expires |-> ExpiryOf(m)]
    BY <2>5, <2>6
  <2>8. markers'[k] \in Entries
    BY <1>0, <2>2, <2>7 DEF Entries, MarkerMsgs
  <2>9. Numbered(markers', meshLoads \cup {}, handled + 1)
    <3>1. PICK new : new = markers'
      OBVIOUS
    <3>2. SetsOne(markers, handled, new, k) /\ LoadsFor(handled, new, k, {})
      BY <1>1, <2>2, <2>4, <2>7, <2>8, <3>1 DEF SetsOne, LoadsFor
    <3>3. Numbered(new, meshLoads \cup {}, handled + 1)
      BY <3>2, NumberedMore
    <3> QED
      BY <3>1, <3>3
  <2>10. meshLoads' = meshLoads \cup {}
    BY <2>3
  <2>11. DOMAIN markers' = DOMAIN markers \cup {k}
    BY <1>1, <2>4
  <2>12. /\ markers'[k].ref = m.ref /\ markers'[k].expires = ExpiryOf(m)
         /\ markers'[k].drawn \in {m.ref, "nothing"}
    BY <2>2, <2>7
  <2>13. Numbered(markers', meshLoads', handled + 1)
    BY <2>9, <2>10, Zenon
  <2> QED
    BY <1>k, <2>4, <2>11, <2>12, <2>13
<1>2. CASE ~(k \in DOMAIN markers /\ markers[k].ref = m.ref)
  <2>1. PICK entry : entry = [MakeEntry(m, "nothing") EXCEPT !.pose = 0]
    OBVIOUS
  <2>2. "nothing" \in Refs
    BY DEF Refs
  <2>3. /\ entry = [made |-> handled + 1, ref |-> m.ref, drawn |-> "nothing", pose |-> 0,
                    expires |-> ExpiryOf(m)]
        /\ entry \in Entries
    BY <2>1, <2>2, NewEntry
  <2>4. /\ markers' = WithMarker(k, entry)
        /\ meshLoads' = meshLoads \cup {[key |-> k, made |-> entry.made, ref |-> m.ref,
                                         pose |-> m.n]}
    BY <1>k, <1>2, <2>1 DEF UpsertMesh
  <2>5. /\ DOMAIN markers' = DOMAIN markers \cup {k} /\ markers'[k] = entry
        /\ \A j \in DOMAIN markers : j # k => markers'[j] = markers[j]
    BY <2>4 DEF WithMarker
  <2>7. Numbered(markers', meshLoads', handled + 1)
    <3>1. PICK new, more : /\ new = markers'
                           /\ more = {[key |-> k, made |-> entry.made, ref |-> m.ref,
                                       pose |-> m.n]}
      OBVIOUS
    <3>2. SetsOne(markers, handled, new, k)
      BY <2>3, <2>5, <3>1 DEF SetsOne
    <3>3. LoadsFor(handled, new, k, more)
      BY <1>0, <2>3, <2>5, <3>1 DEF LoadsFor
    <3>4. Numbered(new, meshLoads \cup more, handled + 1)
      BY <3>2, <3>3, NumberedMore
    <3> QED
      BY <2>4, <3>1, <3>4
  <2> QED
    BY <1>k, <2>3, <2>4, <2>5, <2>7
<1> QED
  BY <1>1, <1>2

LEMMA HandleMarkerDoes ==
    ASSUME MarkerInv, NEW m \in MarkerMsgs, HandleMarker(m),
           NEW s, s = [m |-> m, at |-> markerClock]
    PROVE  /\ Published(Append(said, s), markers', markerClock) /\ Append(said, s) \in Seq(Said)
           /\ Numbered(markers', meshLoads', handled') /\ handled' = handled + 1
<1>1. PICK k : k = m.key
  OBVIOUS
<1>2. /\ handled \in Nat /\ markerClock \in Nat /\ said \in Seq(Said) /\ k \in MarkerKeys
      /\ Numbered(markers, meshLoads, handled) /\ Published(said, markers, markerClock)
      /\ handled' = handled + 1 /\ m.ref \in Refs /\ s.m = m /\ m.n \in Nat
      /\ DOMAIN markers \subseteq MarkerKeys
  BY <1>1 DEF MarkerInv, HandleMarker, MarkerMsgs, Published
<1>3. s \in Said /\ ExpiresAt(s) = ExpiryOf(m) /\ ExpiryOf(m) \in Nat
  BY <1>2, AddedFits
<1>4. PICK new : new = markers'
  OBVIOUS
<1> DEFINE Right == /\ DOMAIN new \subseteq MarkerKeys
                    /\ \A j \in MarkerKeys : About(s, j) => Fits(s, j, new, markerClock)
                    /\ \A j \in MarkerKeys : ~About(s, j) =>
                          /\ j \in DOMAIN new <=> j \in DOMAIN markers
                          /\ j \in DOMAIN markers => new[j] = markers[j]
<1>5. ASSUME m.action = "add" /\ m.ref \in Meshes
      PROVE  Right /\ Numbered(markers', meshLoads', handled + 1)
  <2>1. UpsertMesh(m)
    BY <1>5 DEF HandleMarker, Upsert
  <2>2. /\ DOMAIN new = DOMAIN markers \cup {k}
        /\ \A j \in DOMAIN markers : j # k => new[j] = markers[j]
        /\ new[k].ref = m.ref /\ new[k].expires = ExpiryOf(m)
        /\ new[k].drawn \in {m.ref, "nothing"}
        /\ Numbered(markers', meshLoads', handled + 1)
    BY <1>1, <1>2, <1>4, <1>5, <2>1, UpsertMeshDoes
  <2>3. \A j : About(s, j) <=> j = k
    BY <1>1, <1>2, <1>5 DEF About
  <2>4. Fits(s, k, new, markerClock)
    BY <1>2, <1>3, <1>5, <2>2, MarkerAssumption DEF Fits
  <2>5. Right
    BY <1>2, <2>2, <2>3, <2>4
  <2> QED
    BY <1>2, <2>2, <2>5
<1>6. ASSUME m.action = "add" /\ m.ref = "nothing"
      PROVE  Right /\ Numbered(markers', meshLoads', handled + 1)
  <2>1. markers' = MarkersWithout({k}) /\ meshLoads' = meshLoads
    BY <1>1, <1>6, MarkerAssumption DEF HandleMarker, Upsert
  <2>2. Numbered(markers', meshLoads', handled + 1)
    BY <1>2, <2>1, NumberedLess, NumberedLater
  <2>3. \A j : About(s, j) <=> j = k
    BY <1>1, <1>2, <1>6 DEF About
  <2>4. Right
    BY <1>2, <1>4, <1>6, <2>1, <2>3 DEF MarkersWithout, Fits
  <2> QED
    BY <1>2, <2>2, <2>4
<1>7. ASSUME m.action = "add" /\ m.ref = "shape"
      PROVE  Right /\ Numbered(markers', meshLoads', handled + 1)
  <2>1. PICK e : e = MakeEntry(m, "shape")
    OBVIOUS
  <2>2. markers' = WithMarker(k, e) /\ meshLoads' = meshLoads
    BY <1>1, <1>7, <2>1, MarkerAssumption DEF HandleMarker, Upsert
  <2>3. /\ DOMAIN new = DOMAIN markers \cup {k} /\ new[k] = e
        /\ \A j \in DOMAIN markers : j # k => new[j] = markers[j]
    BY <1>4, <2>2 DEF WithMarker
  <2>4. e \in Entries
    BY <1>2, <2>1, NewEntry DEF Refs
  <2>5. /\ e.made = handled + 1 /\ e.ref = "shape" /\ e.drawn = "shape" /\ e.pose = m.n
        /\ e.expires = ExpiryOf(m)
    BY <1>7, <2>1 DEF MakeEntry
  <2>6. SetsOne(markers, handled, new, k) /\ LoadsFor(handled, new, k, {})
    BY <2>3, <2>4, <2>5 DEF SetsOne, LoadsFor
  <2>7. Numbered(new, meshLoads \cup {}, handled + 1)
    BY <1>2, <2>6, NumberedMore
  <2>8. \A j : About(s, j) <=> j = k
    BY <1>1, <1>2, <1>7 DEF About
  <2>9. Fits(s, k, new, markerClock)
    BY <1>2, <1>3, <1>7, <2>3, <2>5 DEF Fits
  <2>10. Right
    BY <1>2, <2>3, <2>8, <2>9
  <2>11. meshLoads' = meshLoads \cup {}
    BY <2>2
  <2> QED
    BY <1>2, <1>4, <2>7, <2>10, <2>11
<1>8. ASSUME m.action # "add"
      PROVE  Right /\ Numbered(markers', meshLoads', handled + 1)
  <2>1. PICK S : S = {j \in DOMAIN markers : Deletes(m, j)}
    OBVIOUS
  <2>2. markers' = MarkersWithout(S) /\ meshLoads' = meshLoads
    BY <1>8, <2>1 DEF HandleMarker
  <2>3. Numbered(markers', meshLoads', handled + 1)
    BY <1>2, <2>2, NumberedLess, NumberedLater
  <2>4. \A j : About(s, j) <=> Deletes(m, j)
    BY <1>2, <1>8 DEF About
  <2>5. Right
    BY <1>2, <1>4, <1>8, <2>1, <2>2, <2>4 DEF MarkersWithout, Fits
  <2> QED
    BY <1>2, <2>3, <2>5
<1>9. Right /\ Numbered(markers', meshLoads', handled + 1)
  <2> HIDE DEF Right
  <2> QED
    BY <1>2, <1>5, <1>6, <1>7, <1>8 DEF Refs
<1>10. Published(Append(said, s), new, markerClock) /\ Append(said, s) \in Seq(Said)
  BY <1>2, <1>3, <1>9, OneMoreSaid
<1> QED
  BY <1>2, <1>4, <1>9, <1>10

-----------------------------------------------------------------------------
(* The invariant *)

LEMMA MarkerStarts == MarkerInit => MarkerInv
<1> SUFFICES ASSUME MarkerInit PROVE MarkerInv
  OBVIOUS
<1>1. /\ markers = <<>> /\ meshLoads = {} /\ said = <<>> /\ markerClock = 0 /\ handled = 0
      /\ markerMirror = [ch \in LatchedMarkers |-> NoMarker]
  BY DEF MarkerInit
<1>2. Numbered(<<>>, {}, 0)
  BY DEF Numbered
<1> QED
  BY <1>1, <1>2, NothingSaid DEF MarkerInv

LEMMA MarkerMessageHolds ==
    ASSUME MarkerInv, NEW ch \in MarkerChannels, MarkerMessage(ch)
    PROVE  MarkerInv'
<1>1. PICK m \in MarkerMessages(handled + 1) :
          /\ HandleMarker(m)
          /\ markerMirror' = IF ch \in LatchedMarkers THEN [markerMirror EXCEPT ![ch] = m]
                             ELSE markerMirror
          /\ said' = Append(said, [m |-> m, at |-> markerClock])
          /\ UNCHANGED markerClock
  BY DEF MarkerMessage
<1>2. handled \in Nat /\ markerClock \in Nat
      /\ markerMirror \in [LatchedMarkers -> MarkerMsgs \cup {NoMarker}]
  BY DEF MarkerInv
<1>3. m \in MarkerMsgs
  BY <1>2, MessageFacts
<1>4. PICK s : s = [m |-> m, at |-> markerClock]
  OBVIOUS
<1>5. /\ Published(Append(said, s), markers', markerClock) /\ Append(said, s) \in Seq(Said)
      /\ Numbered(markers', meshLoads', handled') /\ handled' = handled + 1
  BY <1>1, <1>3, <1>4, HandleMarkerDoes
<1>6. markerMirror' \in [LatchedMarkers -> MarkerMsgs \cup {NoMarker}]
  BY <1>1, <1>2, <1>3
<1> QED
  BY <1>1, <1>2, <1>4, <1>5, <1>6 DEF MarkerInv

LEMMA RebindMarkersHolds ==
    ASSUME MarkerInv, RebindMarkers
    PROVE  MarkerInv'
<1>1. PICK m : m = markerMirror[markerChannel]
  OBVIOUS
<1>2. /\ markerChannel \in LatchedMarkers /\ m # NoMarker /\ HandleMarker(m)
      /\ said' = Append(said, [m |-> m, at |-> markerClock])
      /\ UNCHANGED <<markerMirror, markerClock>>
  BY <1>1 DEF RebindMarkers
<1>3. handled \in Nat /\ markerClock \in Nat
      /\ markerMirror \in [LatchedMarkers -> MarkerMsgs \cup {NoMarker}]
  BY DEF MarkerInv
<1>4. m \in MarkerMsgs
  BY <1>1, <1>2, <1>3
<1>5. PICK s : s = [m |-> m, at |-> markerClock]
  OBVIOUS
<1>6. /\ Published(Append(said, s), markers', markerClock) /\ Append(said, s) \in Seq(Said)
      /\ Numbered(markers', meshLoads', handled') /\ handled' = handled + 1
  BY <1>2, <1>4, <1>5, HandleMarkerDoes
<1> QED
  BY <1>2, <1>3, <1>5, <1>6 DEF MarkerInv

LEMMA SwitchMarkersHolds ==
    ASSUME MarkerInv, NEW ch \in MarkerChannels, SwitchMarkers(ch)
    PROVE  MarkerInv'
<1>1. /\ handled \in Nat /\ markerClock \in Nat /\ Numbered(markers, meshLoads, handled)
      /\ markerMirror \in [LatchedMarkers -> MarkerMsgs \cup {NoMarker}]
      /\ UNCHANGED <<markerMirror, markerClock>>
  BY DEF MarkerInv, SwitchMarkers
<1>2. /\ Published(<<>>, <<>>, markerClock) /\ <<>> \in Seq(Said)
      /\ Numbered(<<>>, meshLoads, handled) /\ DOMAIN <<>> = {}
  BY <1>1, NothingSaid
<1>3. CASE ~(ch \in LatchedMarkers /\ markerMirror[ch] # NoMarker)
  <2>1. markers' = <<>> /\ said' = <<>> /\ meshLoads' = meshLoads /\ handled' = handled
    BY <1>3 DEF SwitchMarkers
  <2> QED
    BY <1>1, <1>2, <2>1 DEF MarkerInv
<1>4. CASE ch \in LatchedMarkers /\ markerMirror[ch] # NoMarker
  <2>1. PICK m, k : m = markerMirror[ch] /\ k = m.key
    OBVIOUS
  <2>2. m \in MarkerMsgs
    BY <1>1, <1>4, <2>1
  <2>3. PICK drawn : drawn = IF m.ref \in Meshes THEN "nothing" ELSE m.ref
    OBVIOUS
  <2>4. PICK e : e = IF m.ref \in Meshes THEN [MakeEntry(m, drawn) EXCEPT !.pose = 0]
                     ELSE MakeEntry(m, drawn)
    OBVIOUS
  <2>5. PICK more : more = {[key |-> m.key, made |-> handled + 1, ref |-> r, pose |-> m.n] :
                               r \in {m.ref} \cap Meshes}
    OBVIOUS
  <2>6. PICK s : s = [m |-> m, at |-> markerClock]
    OBVIOUS
  <2>7. PICK new : new = [j \in {j \in {m.key} : m.action = "add" /\ m.ref # "nothing"} |-> e]
    OBVIOUS
  <2>8. /\ handled' = handled + 1 /\ said' = <<s>>
        /\ markers' = new /\ meshLoads' = meshLoads \cup more
    <3>1. MakeEntry(m, drawn).made = handled + 1
      BY DEF MakeEntry
    <3>2. /\ handled' = handled + 1 /\ said' = <<s>>
          /\ meshLoads' = meshLoads \cup more
      BY <1>4, <2>1, <2>3, <2>5, <2>6, <3>1 DEF SwitchMarkers
    <3>3. markers' = [j \in {j \in {m.key} : m.action = "add" /\ m.ref # "nothing"} |->
                         IF m.ref \in Meshes THEN [MakeEntry(m, drawn) EXCEPT !.pose = 0]
                         ELSE MakeEntry(m, drawn)]
      BY <1>4, <2>1, <2>3 DEF SwitchMarkers
    <3> QED
      BY <2>4, <2>7, <3>2, <3>3
  <2>9. /\ k \in MarkerKeys /\ m.ref \in Refs /\ drawn \in Refs /\ m.n \in Nat
        /\ m.action # "add" => m.ref = "nothing"
        /\ s.m = m /\ ExpiryOf(m) \in Nat
    BY <1>1, <2>1, <2>2, <2>3, <2>6, AddedFits DEF MarkerMsgs, Refs
  <2>10. /\ e \in Entries /\ e.made = handled + 1 /\ e.ref = m.ref
         /\ e.drawn = drawn /\ e.expires = ExpiryOf(m)
         /\ m.ref \notin Meshes => e.pose = m.n
    <3>1. /\ MakeEntry(m, drawn) \in Entries
          /\ [MakeEntry(m, drawn) EXCEPT !.pose = 0]
               = [made |-> handled + 1, ref |-> m.ref, drawn |-> drawn, pose |-> 0,
                  expires |-> ExpiryOf(m)]
          /\ [MakeEntry(m, drawn) EXCEPT !.pose = 0] \in Entries
      BY <1>1, <2>2, <2>9, NewEntry
    <3>2. CASE m.ref \in Meshes
      BY <2>4, <3>1, <3>2
    <3>3. CASE m.ref \notin Meshes
      BY <2>4, <3>1, <3>3 DEF MakeEntry
    <3> QED
      BY <3>2, <3>3
  <2>11. /\ DOMAIN new = {j \in {k} : m.action = "add" /\ m.ref # "nothing"}
         /\ \A j \in DOMAIN new : new[j] = e
    BY <2>1, <2>7
  <2>12. SetsOne(<<>>, handled, new, k)
    BY <1>2, <2>3, <2>10, <2>11 DEF SetsOne
  <2>13. LoadsFor(handled, new, k, more)
    <3>1. ASSUME NEW l \in more
          PROVE  /\ l \in [key : MarkerKeys, made : Nat, ref : Meshes, pose : Nat]
                 /\ l.key = k /\ l.made = handled + 1
                 /\ k \in DOMAIN new /\ l.ref = new[k].ref
      <4>1. /\ l = [key |-> m.key, made |-> handled + 1, ref |-> m.ref, pose |-> m.n]
            /\ m.ref \in Meshes
        BY <2>5
      <4>2. m.ref # "nothing"
        BY <4>1, MarkerAssumption
      <4>3. k \in DOMAIN new /\ new[k] = e
        BY <2>9, <2>11, <4>2
      <4> QED
        BY <1>1, <2>1, <2>9, <2>10, <4>1, <4>3
    <3> QED
      BY <3>1 DEF LoadsFor
  <2>14. Numbered(new, meshLoads \cup more, handled + 1)
    BY <1>1, <1>2, <2>12, <2>13, NumberedMore
  <2>15. s \in Said /\ ExpiresAt(s) = ExpiryOf(m)
    BY <1>1, <2>2, <2>6, AddedFits
  <2>16. Published(Append(<<>>, s), new, markerClock) /\ Append(<<>>, s) \in Seq(Said)
    <3>1. DOMAIN new \subseteq MarkerKeys
      BY <2>9, <2>11
    <3>2. ASSUME NEW j \in MarkerKeys, About(s, j) PROVE Fits(s, j, new, markerClock)
      <4>1. CASE m.action = "add" /\ m.ref # "nothing"
        <5>1. j = k
          BY <2>1, <2>9, <3>2, <4>1 DEF About
        <5>2. k \in DOMAIN new /\ new[k] = e
          BY <2>11, <4>1
        <5>3. m.ref = "shape" => e.pose = m.n
          BY <2>10, MarkerAssumption
        <5> QED
          BY <2>3, <2>9, <2>10, <2>15, <4>1, <5>1, <5>2, <5>3 DEF Fits
      <4>2. CASE ~(m.action = "add" /\ m.ref # "nothing")
        BY <2>9, <2>11, <4>2 DEF Fits
      <4> QED
        BY <4>1, <4>2
    <3>3. ASSUME NEW j \in MarkerKeys, ~About(s, j) PROVE j \notin DOMAIN new
      BY <2>1, <2>9, <2>11, <3>3 DEF About
    <3> QED
      BY <1>1, <1>2, <2>15, <3>1, <3>2, <3>3, OneMoreSaid
  <2>17. Append(<<>>, s) = <<s>>
    OBVIOUS
  <2> QED
    BY <1>1, <2>8, <2>14, <2>16, <2>17 DEF MarkerInv
<1> QED
  BY <1>3, <1>4

LEMMA MeshLoadedHolds ==
    ASSUME MarkerInv, NEW l \in meshLoads, MeshLoaded(l)
    PROVE  MarkerInv'
<1>1. /\ handled \in Nat /\ markerClock \in Nat /\ said \in Seq(Said)
      /\ markerMirror \in [LatchedMarkers -> MarkerMsgs \cup {NoMarker}]
      /\ Numbered(markers, meshLoads, handled) /\ Published(said, markers, markerClock)
  BY DEF MarkerInv
<1>2. UNCHANGED <<markerMirror, markerClock, handled, said>> /\ meshLoads' = meshLoads \ {l}
  BY DEF MeshLoaded
<1>3. l \in [key : MarkerKeys, made : Nat, ref : Meshes, pose : Nat]
  BY <1>1 DEF Numbered
<1>4. CASE ~(l.key \in DOMAIN markers /\ markers[l.key].made = l.made)
  <2>1. markers' = markers
    BY <1>4 DEF MeshLoaded
  <2>2. Numbered(markers, meshLoads \ {l}, handled)
    BY <1>1 DEF Numbered
  <2> QED
    BY <1>1, <1>2, <2>1, <2>2 DEF MarkerInv
<1>5. CASE l.key \in DOMAIN markers /\ markers[l.key].made = l.made
  <2>1. PICK k, e : k = l.key /\ e = markers[k]
    OBVIOUS
  <2>2. PICK new : new = markers'
    OBVIOUS
  <2>3. new = [markers EXCEPT ![k].drawn = l.ref, ![k].pose = l.pose]
    BY <1>5, <2>1, <2>2 DEF MeshLoaded
  <2>4. e \in Entries /\ e.ref = l.ref /\ e.made = l.made /\ e.made <= handled
    BY <1>1, <1>5, <2>1 DEF Numbered
  <2>5. /\ DOMAIN new = DOMAIN markers
        /\ \A j \in DOMAIN markers : j # k => new[j] = markers[j]
        /\ new[k] = [[e EXCEPT !.drawn = l.ref] EXCEPT !.pose = l.pose]
    BY <1>5, <2>1, <2>3
  <2>6. [e EXCEPT !.drawn = l.ref]
          = [made |-> e.made, ref |-> e.ref, drawn |-> l.ref, pose |-> e.pose,
             expires |-> e.expires]
    BY <2>4 DEF Entries
  <2>7. new[k] = [made |-> e.made, ref |-> e.ref, drawn |-> l.ref, pose |-> l.pose,
                  expires |-> e.expires]
    BY <2>5, <2>6
  <2>8. new[k] \in Entries /\ new[k].drawn \in {new[k].ref, "nothing"}
    BY <1>3, <2>4, <2>7 DEF Entries, Refs
  <2>9. Numbered(new, meshLoads \ {l}, handled)
    <3>1. \A j \in DOMAIN new : new[j].made = markers[j].made /\ new[j].ref = markers[j].ref
      BY <2>1, <2>5, <2>7
    <3>2. ASSUME NEW j \in DOMAIN new
          PROVE  /\ new[j] \in Entries /\ new[j].made <= handled
                 /\ new[j].drawn \in {new[j].ref, "nothing"}
      <4>1. CASE j = k
        BY <2>4, <2>7, <2>8, <4>1
      <4>2. CASE j # k
        BY <1>1, <2>5, <4>2 DEF Numbered
      <4> QED
        BY <4>1, <4>2
    <3> QED
      BY <1>1, <2>5, <3>1, <3>2 DEF Numbered
  <2>10. Published(said, new, markerClock)
    <3>1. ASSUME NEW j \in MarkerKeys, NEW i \in 1..Len(said), LastOn(said, j, i)
          PROVE  Fits(said[i], j, new, markerClock)
      <4>1. Fits(said[i], j, markers, markerClock)
        BY <1>1, <3>1 DEF Published
      <4>2. CASE j = k
        <5>1. k \in DOMAIN markers /\ e.ref \in Meshes /\ e.ref # "shape"
          BY <1>3, <1>5, <2>1, <2>4, MarkerAssumption
        <5> QED
          BY <2>1, <2>4, <2>5, <2>7, <4>1, <4>2, <5>1 DEF Fits
      <4>3. CASE j # k
        BY <2>5, <4>1, <4>3 DEF Fits
      <4> QED
        BY <4>2, <4>3
    <3> QED
      BY <1>1, <2>5, <3>1 DEF Published
  <2> QED
    BY <1>1, <1>2, <2>2, <2>9, <2>10 DEF MarkerInv
<1> QED
  BY <1>4, <1>5

LEMMA MeshFailedHolds ==
    ASSUME MarkerInv, NEW l \in meshLoads, MeshFailed(l)
    PROVE  MarkerInv'
<1>1. /\ UNCHANGED <<markers, markerMirror, markerClock, handled, said>>
      /\ meshLoads' = meshLoads \ {l}
  BY DEF MeshFailed
<1>2. Numbered(markers, meshLoads \ {l}, handled)
  BY DEF MarkerInv, Numbered
<1> QED
  BY <1>1, <1>2 DEF MarkerInv

\* Time passes, and frames take away what has outlived it.
LEMMA MarkerTimeHolds ==
    ASSUME MarkerInv, MarkerTick \/ MarkerFrame
    PROVE  MarkerInv'
<1>1. /\ handled \in Nat /\ markerClock \in Nat /\ said \in Seq(Said)
      /\ Numbered(markers, meshLoads, handled) /\ Published(said, markers, markerClock)
  BY DEF MarkerInv
<1>2. UNCHANGED <<markerMirror, meshLoads, handled, said>>
  BY DEF MarkerTick, MarkerFrame
<1>3. \A s \in Said : ExpiresAt(s) \in Nat
  <2>1. Never \in Nat
    BY MarkerAssumption DEF Never
  <2> QED
    BY <2>1 DEF ExpiresAt, Said
<1>4. \A i \in 1..Len(said) : said[i] \in Said
  BY <1>1, ElementOfSeq
<1>5. CASE MarkerTick
  <2>1. markerClock' = markerClock + 1 /\ markers' = markers
    BY <1>5 DEF MarkerTick
  <2>2. ASSUME NEW j \in MarkerKeys, NEW i \in 1..Len(said), LastOn(said, j, i)
        PROVE  Fits(said[i], j, markers, markerClock + 1)
    <3>1. Fits(said[i], j, markers, markerClock)
      BY <1>1, <2>2 DEF Published
    <3>2. ExpiresAt(said[i]) \in Nat
      BY <1>3, <1>4
    <3>3. markerClock >= ExpiresAt(said[i]) => markerClock + 1 >= ExpiresAt(said[i])
      BY <1>1, <3>2
    <3> QED
      BY <3>1, <3>3 DEF Fits
  <2>3. Published(said, markers, markerClock + 1)
    BY <1>1, <2>2 DEF Published
  <2> QED
    BY <1>1, <1>2, <2>1, <2>3 DEF MarkerInv
<1>6. CASE MarkerFrame
  <2>1. PICK S : S = {k \in DOMAIN markers : markerClock >= markers[k].expires}
    OBVIOUS
  <2>2. markers' = MarkersWithout(S) /\ markerClock' = markerClock
    BY <1>6, <2>1 DEF MarkerFrame
  <2>3. Numbered(MarkersWithout(S), meshLoads, handled)
    BY <1>1, NumberedLess
  <2>4. ASSUME NEW j \in MarkerKeys, NEW i \in 1..Len(said), LastOn(said, j, i)
        PROVE  Fits(said[i], j, MarkersWithout(S), markerClock)
    <3>1. Fits(said[i], j, markers, markerClock)
      BY <1>1, <2>4 DEF Published
    <3>2. DOMAIN MarkersWithout(S) = DOMAIN markers \ S
          /\ \A k \in DOMAIN markers \ S : MarkersWithout(S)[k] = markers[k]
      BY DEF MarkersWithout
    <3> QED
      BY <2>1, <3>1, <3>2 DEF Fits
  <2>5. Published(said, MarkersWithout(S), markerClock)
    BY <1>1, <2>4 DEF Published, MarkersWithout
  <2> QED
    BY <1>1, <1>2, <2>2, <2>3, <2>5 DEF MarkerInv
<1> QED
  BY <1>5, <1>6

LEMMA MarkerInvHolds == MarkerSpec => []MarkerInv
<1>1. MarkerInit => MarkerInv
  BY MarkerStarts
<1>2. MarkerInv /\ [MarkerNext]_markerVars => MarkerInv'
  <2> SUFFICES ASSUME MarkerInv, [MarkerNext]_markerVars PROVE MarkerInv'
    OBVIOUS
  <2>1. CASE MarkerNext
    BY <2>1, MarkerMessageHolds, SwitchMarkersHolds, RebindMarkersHolds, MeshLoadedHolds,
       MeshFailedHolds, MarkerTimeHolds DEF MarkerNext
  <2>2. CASE UNCHANGED markerVars
    BY <2>2 DEF markerVars, MarkerInv
  <2> QED
    BY <2>1, <2>2
<1> QED
  BY <1>1, <1>2, PTL DEF MarkerSpec

\* What is on the display is what has been asked for since it was cleared, in
\* whatever order the meshes come in and whatever was deleted, replaced or has
\* expired meanwhile (MarkerPlugin.ts 140-184).
THEOREM MarkersAsPublishedHolds == MarkerSpec => []MarkersAsPublished
<1>1. MarkerInv => MarkersAsPublished
  BY PublishedIs
<1> QED
  BY <1>1, MarkerInvHolds, PTL

-----------------------------------------------------------------------------
(***************************************************************************)
(* Image, log, inspector and map                                           *)
(***************************************************************************)

ViewerSpec == ViewerInit /\ [][ViewerNext]_viewerVars

Frames == [ch : ViewChannels \cup {Unset}, n : Nat]

\* A decode whose canvas is still there.
Current(d) == d.mount = mounts[d.cell]

\* The cells show frames of their channels; the one decode that may be under
\* way for a cell brings a frame of its channel that is newer than its picture.
ImageInv ==
    /\ grid \in [layout : Layouts, cells : Seq(ViewChannels \cup {Unset})]
    /\ canvas \in [Layouts -> Frames] /\ mounts \in [Layouts -> Nat]
    /\ decodes \subseteq [cell : Layouts, mount : Nat, frame : Frames]
    /\ \A i \in Layouts : canvas[i].n <= viewed
    /\ \A d \in decodes : d.mount <= mounts[d.cell] /\ d.frame.n <= viewed
    /\ \A d \in decodes : Current(d) =>
          /\ d.cell \in 1..grid.layout /\ d.frame.ch = Cells(grid)[d.cell]
          /\ d.frame.n >= canvas[d.cell].n
          /\ \A e \in decodes : e.cell = d.cell /\ Current(e) => e = d
    /\ \A i \in 1..grid.layout : canvas[i] # Empty => canvas[i].ch = Cells(grid)[i]

LogEntries == [n : Nat, level : Levels]

\* The buffer is the end of what was logged; what is rendered is a view of
\* what the buffer once was.
LogInv ==
    /\ logged \in Seq(LogEntries) /\ entries = LastOf(logged, MaxEntries)
    /\ \E k \in 0..Len(logged) :
          logShown = LogView(LastOf(SubSeq(logged, 1, k), MaxEntries), levels)

InspectorInv == snapshot # Empty => snapshot.ch = selected

\* A map not seen yet is newer than what is drawn, and the view is to be
\* fitted to it.
MapInv ==
    /\ mapGrid \in Frames /\ mapDrawn \in Frames /\ mapView \in Frames
    /\ needsFit \in BOOLEAN /\ unseen \in BOOLEAN
    /\ mapDrawn.n <= viewed /\ mapGrid.n <= viewed
    /\ mapGrid # Empty => mapGrid.n > 0
    /\ mapChannel = Unset => mapGrid = Empty
    /\ unseen => needsFit \/ mapChannel = Unset
    /\ unseen /\ mapGrid # Empty => mapDrawn.n < mapGrid.n

ViewerInv == viewed \in Nat /\ ImageInv /\ LogInv /\ InspectorInv /\ MapInv

-----------------------------------------------------------------------------
(* Image *)

ImageActs ==
    \/ \E ch \in ViewChannels, raw \in BOOLEAN : ImageFrame(ch, raw)
    \/ \E d \in decodes, ok \in BOOLEAN : ImageDecoded(d, ok)
    \/ \E layout \in Layouts : SetLayout(layout)
    \/ \E i \in Layouts, ch \in ViewChannels \cup {Unset} : BindCell(i, ch)

LEMMA CellsOfLayout ==
    ASSUME NEW g \in [layout : Layouts, cells : Seq(ViewChannels \cup {Unset})]
    PROVE  /\ 1..g.layout \subseteq Layouts
           /\ Cells(g) \in Seq(ViewChannels \cup {Unset}) /\ Len(Cells(g)) = g.layout
<1>1. g.layout \in 1..2 /\ g.layout \in Nat
  BY DEF Layouts
<1>2. 1..g.layout \subseteq Layouts
  BY <1>1 DEF Layouts
<1>3. Cells(g) \in [1..g.layout -> ViewChannels \cup {Unset}]
  <2>1. \A i \in 1..Len(g.cells) : g.cells[i] \in ViewChannels \cup {Unset}
    BY ElementOfSeq
  <2> QED
    BY <1>1, <2>1 DEF Cells
<1>4. Cells(g) \in Seq(ViewChannels \cup {Unset}) /\ Len(Cells(g)) = g.layout
  BY <1>1, <1>3
<1> QED
  BY <1>2, <1>4

LEMMA ImageFrameHolds ==
    ASSUME viewed \in Nat, ImageInv, NEW ch \in ViewChannels, NEW raw \in BOOLEAN,
           ImageFrame(ch, raw)
    PROVE  ImageInv'
<1>1. PICK frame : frame = [ch |-> ch, n |-> viewed']
  OBVIOUS
<1>2. /\ viewed' = viewed + 1 /\ viewed' \in Nat
      /\ UNCHANGED <<grid, mounts>>
  BY DEF ImageFrame, ViewMessage
<1>3. /\ frame \in Frames /\ frame.n = viewed + 1 /\ frame.ch = ch
  BY <1>1, <1>2 DEF Frames
<1>4. PICK T : T = Takes(ch)
  OBVIOUS
<1>5. /\ T \subseteq 1..grid.layout /\ T \subseteq Layouts
      /\ \A i \in T : Cells(grid)[i] = ch
      /\ \A i \in T : \A d \in decodes : ~(d.cell = i /\ Current(d))
  BY <1>4, CellsOfLayout DEF Takes, Decoding, ImageInv, Current
<1>6. CASE raw
  <2>1. /\ canvas' = [i \in Layouts |-> IF i \in T THEN frame ELSE canvas[i]]
        /\ decodes' = decodes
    BY <1>1, <1>4, <1>6 DEF ImageFrame
  <2>2. canvas' \in [Layouts -> Frames] /\ \A i \in Layouts : canvas'[i].n <= viewed'
    BY <1>2, <1>3, <2>1 DEF ImageInv, Frames
  <2>3. ASSUME NEW d \in decodes, Current(d)
        PROVE  d.frame.n >= canvas'[d.cell].n
    BY <1>5, <2>1, <2>3 DEF ImageInv
  <2>4. \A i \in 1..grid.layout : canvas'[i] # Empty => canvas'[i].ch = Cells(grid)[i]
    <3>1. 1..grid.layout \subseteq Layouts
      BY CellsOfLayout DEF ImageInv
    <3> QED
      BY <1>3, <1>5, <2>1, <3>1 DEF ImageInv
  <2>5. \A d \in decodes : d.mount <= mounts[d.cell] /\ d.frame.n <= viewed'
    BY <1>2 DEF ImageInv, Frames
  <2> QED
    BY <1>2, <2>1, <2>2, <2>3, <2>4, <2>5 DEF ImageInv, Current
<1>7. CASE ~raw
  <2>1. PICK more : more = {[cell |-> i, mount |-> mounts[i], frame |-> frame] : i \in T}
    OBVIOUS
  <2>2. canvas' = canvas /\ decodes' = decodes \cup more
    BY <1>1, <1>4, <1>7, <2>1 DEF ImageFrame
  <2>3. /\ more \subseteq [cell : Layouts, mount : Nat, frame : Frames]
        /\ \A d \in more : d.cell \in T /\ d.mount = mounts[d.cell] /\ d.frame = frame
    <3>1. \A i \in T : i \in Layouts /\ mounts[i] \in Nat
      BY <1>5 DEF ImageInv
    <3> QED
      BY <1>3, <2>1, <3>1
  <2>4. \A d, e \in more : d.cell = e.cell => d = e
    BY <2>1
  <2>5. \A d \in decodes \cup more : d.mount <= mounts[d.cell] /\ d.frame.n <= viewed'
    <3>1. \A d \in more : mounts[d.cell] \in Nat
      BY <2>3 DEF ImageInv
    <3> QED
      BY <1>2, <1>3, <2>3, <3>1 DEF ImageInv, Frames
  <2>6. \A i \in Layouts : canvas[i].n <= viewed'
    BY <1>2 DEF ImageInv, Frames
  <2>7. ASSUME NEW d \in decodes \cup more, Current(d)
        PROVE  /\ d.cell \in 1..grid.layout /\ d.frame.ch = Cells(grid)[d.cell]
               /\ d.frame.n >= canvas[d.cell].n
               /\ \A e \in decodes \cup more : e.cell = d.cell /\ Current(e) => e = d
    <3>1. CASE d \in more
      <4>1. d.cell \in T /\ d.frame = frame
        BY <2>3, <3>1
      <4>2. \A e \in decodes \cup more : e.cell = d.cell /\ Current(e) => e = d
        BY <1>5, <2>4, <3>1, <4>1
      <4>3. d.frame.n >= canvas[d.cell].n
        <5>1. canvas[d.cell].n \in Nat /\ canvas[d.cell].n <= viewed
          BY <1>5, <4>1 DEF ImageInv, Frames
        <5> QED
          BY <1>3, <4>1, <5>1
      <4> QED
        BY <1>3, <1>5, <4>1, <4>2, <4>3
    <3>2. CASE d \in decodes
      <4>1. \A e \in more : e.cell # d.cell
        BY <1>5, <2>3, <2>7, <3>2
      <4> QED
        BY <2>7, <3>2, <4>1 DEF ImageInv
    <3> QED
      BY <3>1, <3>2
  <2> QED
    BY <1>2, <2>2, <2>3, <2>5, <2>6, <2>7 DEF ImageInv, Current
<1> QED
  BY <1>6, <1>7

LEMMA ImageDecodedHolds ==
    ASSUME viewed \in Nat, ImageInv, NEW d \in decodes, NEW ok \in BOOLEAN,
           ImageDecoded(d, ok)
    PROVE  /\ ImageInv'
           /\ \A i \in Layouts : canvas'[i].n >= canvas[i].n
<1>1. UNCHANGED <<grid, mounts, viewed>> /\ decodes' = decodes \ {d}
  BY DEF ImageDecoded
<1>2. \A i \in Layouts : canvas[i].n \in Nat
  BY DEF ImageInv, Frames
<1>3. CASE ok /\ Current(d)
  <2>1. canvas' = [canvas EXCEPT ![d.cell] = d.frame]
    BY <1>3 DEF ImageDecoded, Current
  <2>2. /\ d.cell \in Layouts /\ d.frame \in Frames /\ d.frame.n >= canvas[d.cell].n
        /\ d.frame.n <= viewed /\ d.frame.ch = Cells(grid)[d.cell]
    BY <1>3 DEF ImageInv
  <2>3. canvas' \in [Layouts -> Frames] /\ canvas'[d.cell] = d.frame
        /\ \A i \in Layouts : i # d.cell => canvas'[i] = canvas[i]
    BY <2>1, <2>2 DEF ImageInv
  <2>4. \A e \in decodes \ {d} : Current(e) => e.cell # d.cell
    BY <1>3 DEF ImageInv
  <2>5. \A e \in decodes \ {d} : Current(e) => e.frame.n >= canvas'[e.cell].n
    BY <2>3, <2>4 DEF ImageInv
  <2>6. \A i \in Layouts : canvas'[i].n <= viewed /\ canvas'[i].n >= canvas[i].n
    <3>1. \A i \in Layouts : canvas[i].n <= viewed
      BY DEF ImageInv
    <3> QED
      BY <1>2, <2>2, <2>3, <3>1
  <2>7. \A i \in 1..grid.layout : canvas'[i] # Empty => canvas'[i].ch = Cells(grid)[i]
    <3>1. 1..grid.layout \subseteq Layouts
      BY CellsOfLayout DEF ImageInv
    <3> QED
      BY <2>2, <2>3, <3>1 DEF ImageInv
  <2> QED
    BY <1>1, <2>3, <2>5, <2>6, <2>7 DEF ImageInv, Current
<1>4. CASE ~(ok /\ Current(d))
  <2>1. canvas' = canvas
    BY <1>4 DEF ImageDecoded, Current
  <2> QED
    BY <1>1, <1>2, <2>1 DEF ImageInv, Current
<1> QED
  BY <1>3, <1>4

LEMMA SetGridHolds ==
    ASSUME viewed \in Nat, ImageInv, SetGrid(grid'),
           grid' \in [layout : Layouts, cells : Seq(ViewChannels \cup {Unset})]
    PROVE  ImageInv'
<1>1. PICK g : g = grid'
  OBVIOUS
<1>2. PICK R : R = Remounted(g)
  OBVIOUS
<1>3. /\ g \in [layout : Layouts, cells : Seq(ViewChannels \cup {Unset})]
      /\ canvas' = [i \in Layouts |-> IF i \in R THEN Empty ELSE canvas[i]]
      /\ mounts' = [i \in Layouts |-> IF i \in R THEN mounts[i] + 1 ELSE mounts[i]]
      /\ UNCHANGED <<decodes, viewed>>
  BY <1>1, <1>2 DEF SetGrid, ViewEdit
<1>4. g.layout \in {1, 2} /\ grid.layout \in {1, 2}
  BY <1>3 DEF ImageInv, Layouts
<1>5. 1..g.layout \subseteq Layouts
  BY <1>3, CellsOfLayout
<1>6. \A i \in Layouts \ R : /\ i \in 1..g.layout <=> i \in 1..grid.layout
                             /\ i \in 1..g.layout => Cells(g)[i] = Cells(grid)[i]
  BY <1>2, <1>4 DEF Remounted, Layouts
<1>7. Empty \in Frames /\ Empty.n = 0
  BY DEF Empty, Frames
<1>8. canvas' \in [Layouts -> Frames] /\ \A i \in Layouts : canvas'[i].n <= viewed
  BY <1>3, <1>7 DEF ImageInv
<1>9. mounts' \in [Layouts -> Nat] /\ \A i \in Layouts : mounts'[i] >= mounts[i]
  BY <1>3 DEF ImageInv
<1>10. ASSUME NEW d \in decodes
       PROVE  /\ d.cell \in Layouts /\ d.mount <= mounts'[d.cell]
              /\ d.mount = mounts'[d.cell] => d.cell \notin R /\ Current(d)
  <2>1. d.cell \in Layouts /\ d.mount \in Nat /\ mounts[d.cell] \in Nat
        /\ d.mount <= mounts[d.cell]
    BY DEF ImageInv
  <2>2. mounts'[d.cell] = IF d.cell \in R THEN mounts[d.cell] + 1 ELSE mounts[d.cell]
    BY <1>3, <2>1
  <2> QED
    BY <2>1, <2>2 DEF Current
<1>11. ASSUME NEW d \in decodes, d.mount = mounts'[d.cell]
       PROVE  /\ d.cell \in 1..g.layout /\ d.frame.ch = Cells(g)[d.cell]
              /\ d.frame.n >= canvas'[d.cell].n
              /\ \A e \in decodes : e.cell = d.cell /\ e.mount = mounts'[e.cell] => e = d
  <2>1. d.cell \in Layouts /\ d.cell \notin R /\ Current(d)
    BY <1>10, <1>11
  <2>2. canvas'[d.cell] = canvas[d.cell]
    BY <1>3, <2>1
  <2>3. \A e \in decodes : e.cell = d.cell /\ e.mount = mounts'[e.cell] => e = d
    BY <1>10, <2>1 DEF ImageInv
  <2> QED
    BY <1>6, <2>1, <2>2, <2>3 DEF ImageInv
<1>12. \A i \in 1..g.layout : canvas'[i] # Empty => canvas'[i].ch = Cells(g)[i]
  <2> SUFFICES ASSUME NEW i \in 1..g.layout, canvas'[i] # Empty
               PROVE  canvas'[i].ch = Cells(g)[i]
    OBVIOUS
  <2>1. i \in Layouts /\ i \notin R /\ canvas'[i] = canvas[i]
    BY <1>3, <1>5
  <2> QED
    BY <1>6, <2>1 DEF ImageInv
<1>13. \A d \in decodes : d.frame.n <= viewed
  BY DEF ImageInv
<1> QED
  BY <1>1, <1>3, <1>8, <1>9, <1>10, <1>11, <1>12, <1>13 DEF ImageInv, Current

LEMMA GridsAreGrids ==
    ASSUME ImageInv,
           \/ \E layout \in Layouts : SetLayout(layout)
           \/ \E i \in Layouts, ch \in ViewChannels \cup {Unset} : BindCell(i, ch)
    PROVE  SetGrid(grid') /\ grid' \in [layout : Layouts, cells : Seq(ViewChannels \cup {Unset})]
<1>1. /\ grid \in [layout : Layouts, cells : Seq(ViewChannels \cup {Unset})]
      /\ Cells(grid) \in Seq(ViewChannels \cup {Unset}) /\ Len(Cells(grid)) = grid.layout
  BY CellsOfLayout DEF ImageInv
<1>2. ASSUME NEW layout \in Layouts, SetLayout(layout)
      PROVE  SetGrid(grid') /\ grid' \in [layout : Layouts, cells : Seq(ViewChannels \cup {Unset})]
  <2>1. PICK g : g = [layout |-> layout, cells |-> Cells(grid)]
    OBVIOUS
  <2>2. SetGrid(g) /\ grid' = g
    BY <1>2, <2>1 DEF SetLayout, SetGrid
  <2> QED
    BY <1>1, <2>1, <2>2
<1>3. ASSUME NEW i \in Layouts, NEW ch \in ViewChannels \cup {Unset}, BindCell(i, ch)
      PROVE  SetGrid(grid') /\ grid' \in [layout : Layouts, cells : Seq(ViewChannels \cup {Unset})]
  <2>1. PICK cells : cells = [Cells(grid) EXCEPT ![i] = ch]
    OBVIOUS
  <2>2. cells \in Seq(ViewChannels \cup {Unset})
    BY <1>1, <2>1, <1>3, ExceptSeq DEF BindCell
  <2>3. PICK g : g = [grid EXCEPT !.cells = cells]
    OBVIOUS
  <2>4. SetGrid(g) /\ grid' = g
    BY <1>3, <2>1, <2>3 DEF BindCell, SetGrid
  <2> QED
    BY <1>1, <2>2, <2>3, <2>4
<1> QED
  BY <1>2, <1>3

LEMMA ImageActsHold == viewed \in Nat /\ ImageInv /\ ImageActs => ImageInv'
  BY ImageFrameHolds, ImageDecodedHolds, SetGridHolds, GridsAreGrids DEF ImageActs

LEMMA ImageRests ==
    ASSUME viewed \in Nat, ImageInv, UNCHANGED imageVars, viewed' \in {viewed, viewed + 1}
    PROVE  ImageInv'
<1>1. UNCHANGED <<grid, canvas, decodes, mounts>>
  BY DEF imageVars
<1>2. (\A i \in Layouts : canvas[i].n <= viewed') /\ (\A d \in decodes : d.frame.n <= viewed')
  BY DEF ImageInv, Frames
<1> QED
  BY <1>1, <1>2 DEF ImageInv, Current

-----------------------------------------------------------------------------
(* Log *)

LogActs ==
    \/ \E level \in Levels : LogMessage(level)
    \/ \E lv \in SUBSET Levels : SetLevel(lv)
    \/ LogFlush \/ PauseLog \/ ClearLog \/ ChannelsChange

\* What k entries were rendered as.
ShownUpTo(lg, k, lv) == LogView(LastOf(SubSeq(lg, 1, k), MaxEntries), lv)

LEMMA LastOfIs ==
    ASSUME NEW S, NEW s \in Seq(S), NEW n \in Nat
    PROVE  /\ LastOf(s, n) \in Seq(S)
           /\ Len(LastOf(s, n)) = IF Len(s) > n THEN n ELSE Len(s)
           /\ \A i \in 1..Len(LastOf(s, n)) :
                 LastOf(s, n)[i] = s[i + (IF Len(s) > n THEN Len(s) - n ELSE 0)]
<1>1. PICK m : m = (IF Len(s) > n THEN Len(s) - n ELSE 0) + 1
  OBVIOUS
<1>2. LastOf(s, n) = SubSeq(s, m, Len(s))
  BY <1>1 DEF LastOf
<1>3. m \in 1..(Len(s) + 1)
  BY <1>1
<1>4. /\ SubSeq(s, m, Len(s)) \in Seq(S)
      /\ Len(SubSeq(s, m, Len(s))) = Len(s) - m + 1
      /\ \A i \in 1..(Len(s) - m + 1) : SubSeq(s, m, Len(s))[i] = s[m + i - 1]
  BY <1>3
<1>5. ASSUME NEW i \in 1..(Len(s) - m + 1)
      PROVE  SubSeq(s, m, Len(s))[i] = s[i + (IF Len(s) > n THEN Len(s) - n ELSE 0)]
  <2>1. m + i - 1 = i + (IF Len(s) > n THEN Len(s) - n ELSE 0)
    BY <1>1
  <2> QED
    BY <1>4, <2>1
<1>6. Len(s) - m + 1 = IF Len(s) > n THEN n ELSE Len(s)
  BY <1>1
<1> QED
  BY <1>2, <1>4, <1>5, <1>6

\* The end of a sequence that has grown is that of its end.
LEMMA LastOfAppend ==
    ASSUME NEW S, NEW s \in Seq(S), NEW e \in S, NEW n \in Nat
    PROVE  LastOf(Append(LastOf(s, n), e), n) = LastOf(Append(s, e), n)
<1>1. PICK u, v : u = Append(LastOf(s, n), e) /\ v = Append(s, e)
  OBVIOUS
<1>2. /\ LastOf(s, n) \in Seq(S) /\ u \in Seq(S) /\ v \in Seq(S)
      /\ Len(u) = Len(LastOf(s, n)) + 1 /\ Len(v) = Len(s) + 1
  BY <1>1, LastOfIs
<1>3. /\ \A i \in 1..Len(s) : v[i] = s[i]
      /\ v[Len(s) + 1] = e
      /\ \A i \in 1..Len(LastOf(s, n)) : u[i] = LastOf(s, n)[i]
      /\ u[Len(LastOf(s, n)) + 1] = e
  BY <1>1, <1>2
<1>4. Len(LastOf(u, n)) = Len(LastOf(v, n))
  BY <1>2, LastOfIs
<1>5. ASSUME NEW i \in 1..Len(LastOf(u, n))
      PROVE  LastOf(u, n)[i] = LastOf(v, n)[i]
  <2>1. PICK a : a = i + (IF Len(u) > n THEN Len(u) - n ELSE 0)
    OBVIOUS
  <2>2. PICK b : b = i + (IF Len(v) > n THEN Len(v) - n ELSE 0)
    OBVIOUS
  <2>3. LastOf(u, n)[i] = u[a] /\ LastOf(v, n)[i] = v[b]
    BY <1>2, <1>4, <2>1, <2>2, LastOfIs
  <2>4. Len(LastOf(u, n)) = IF Len(u) > n THEN n ELSE Len(u)
    BY <1>2, LastOfIs
  <2>5. Len(LastOf(s, n)) = IF Len(s) > n THEN n ELSE Len(s)
    BY LastOfIs
  <2>6. a \in 1..Len(u) /\ b \in 1..Len(v)
        /\ b = a + (IF Len(s) > n THEN Len(s) - n ELSE 0)
    <3>1. i \in 1..(IF Len(u) > n THEN n ELSE Len(u)) /\ Len(s) \in Nat
      BY <2>4
    <3>2. Len(u) = (IF Len(s) > n THEN n ELSE Len(s)) + 1
      BY <1>2, <2>5
    <3>3. CASE Len(s) >= n
      <4>1. Len(u) = n + 1 /\ Len(v) > n /\ i \in 1..n
        BY <1>2, <3>1, <3>2, <3>3
      <4>2. a = i + 1 /\ b = i + (Len(s) + 1 - n)
        BY <1>2, <2>1, <2>2, <3>1, <4>1
      <4> QED
        <5>1. Len(v) = Len(s) + 1
          BY <1>2
        <5>2. a \in 1..Len(u) /\ b \in 1..Len(v)
          BY <3>1, <3>3, <4>1, <4>2, <5>1
        <5>3. (IF Len(s) > n THEN Len(s) - n ELSE 0) = Len(s) - n
          BY <3>1, <3>3
        <5>4. b = a + (Len(s) - n)
          BY <3>1, <4>1, <4>2
        <5> QED
          BY <5>2, <5>3, <5>4
    <3>4. CASE Len(s) < n
      <4>1. Len(u) = Len(s) + 1 /\ ~(Len(u) > n) /\ ~(Len(v) > n) /\ ~(Len(s) > n)
        BY <1>2, <3>1, <3>2, <3>4
      <4> QED
        BY <1>2, <2>1, <2>2, <3>1, <4>1
    <3> QED
      BY <3>1, <3>3, <3>4
  <2>7. CASE a = Len(u)
    <3>1. Len(u) = (IF Len(s) > n THEN n ELSE Len(s)) + 1 /\ Len(s) \in Nat
      BY <1>2, <2>5
    <3>2. Len(u) = Len(LastOf(s, n)) + 1 /\ Len(v) = Len(s) + 1
      BY <1>2
    <3>3. b = Len(v)
      BY <2>6, <2>7, <3>1, <3>2
    <3> QED
      BY <1>3, <2>3, <2>7, <3>2, <3>3
  <2>8. CASE a # Len(u)
    <3>1. a \in 1..Len(LastOf(s, n)) /\ b \in 1..Len(s)
      BY <1>2, <2>5, <2>6, <2>8
    <3>2. u[a] = LastOf(s, n)[a] /\ v[b] = s[b]
      BY <1>3, <3>1
    <3>3. LastOf(s, n)[a] = s[b]
      BY <2>6, <3>1, LastOfIs
    <3> QED
      BY <2>3, <3>2, <3>3
  <2> QED
    BY <2>7, <2>8
<1>6. LastOf(u, n) \in Seq(S) /\ LastOf(v, n) \in Seq(S)
  BY <1>2, LastOfIs
<1> QED
  BY <1>1, <1>4, <1>5, <1>6, SeqEqual

LEMMA LogMessageHolds ==
    ASSUME viewed \in Nat, LogInv, NEW level \in Levels, LogMessage(level)
    PROVE  LogInv'
<1>1. PICK e : e = [n |-> viewed', level |-> level]
  OBVIOUS
<1>2. /\ viewed' = viewed + 1 /\ entries' = LogTaken(e) /\ logged' = Append(logged, e)
      /\ UNCHANGED <<logShown, levels>>
  BY <1>1 DEF LogMessage, ViewMessage
<1>3. e \in LogEntries /\ logged \in Seq(LogEntries) /\ MaxEntries \in Nat
  BY <1>1, <1>2, ViewerAssumption DEF LogEntries, LogInv
<1>4. logged' \in Seq(LogEntries) /\ Len(logged') = Len(logged) + 1
  BY <1>2, <1>3
<1>5. entries' = LastOf(logged', MaxEntries)
  BY <1>2, <1>3, LastOfAppend DEF LogTaken, LogInv
<1>6. PICK k \in 0..Len(logged) : logShown = ShownUpTo(logged, k, levels)
  BY DEF LogInv, ShownUpTo
<1>7. SubSeq(Append(logged, e), 1, k) = SubSeq(logged, 1, k)
  BY <1>3, <1>6
<1>8. k \in 0..Len(logged') /\ logShown' = ShownUpTo(logged', k, levels')
  <2>1. k \in 0..Len(logged')
    BY <1>3, <1>4, <1>6
  <2> QED
    BY <1>2, <1>6, <1>7, <2>1 DEF ShownUpTo
<1> QED
  BY <1>4, <1>5, <1>8 DEF LogInv, ShownUpTo

\* Whatever renders the panel renders the buffer as it is.
LEMMA LogRenderHolds ==
    ASSUME LogInv, NEW lv, UNCHANGED <<entries, logged>>,
           levels' = lv, logShown' = LogView(entries, lv)
    PROVE  LogInv'
<1>1. logged \in Seq(LogEntries) /\ Len(logged) \in 0..Len(logged)
  BY DEF LogInv
<1>2. SubSeq(logged, 1, Len(logged)) = logged
  BY <1>1
<1>3. logShown' = ShownUpTo(logged, Len(logged), lv)
  BY <1>2 DEF LogInv, ShownUpTo
<1> QED
  BY <1>1, <1>3 DEF LogInv, ShownUpTo

LEMMA ClearedHolds ==
    ASSUME NEW lv, entries' = <<>>, logged' = <<>>, levels' = lv,
           logShown' = LogView(<<>>, lv)
    PROVE  LogInv'
<1>1. LastOf(<<>>, MaxEntries) = <<>>
  BY ViewerAssumption DEF LastOf
<1>2. /\ <<>> \in Seq(LogEntries) /\ 0 \in 0..Len(<<>>) /\ SubSeq(<<>>, 1, 0) = <<>>
  OBVIOUS
<1> QED
  BY <1>1, <1>2 DEF LogInv

LEMMA LogActsHold ==
    ASSUME viewed \in Nat, LogInv, LogActs
    PROVE  LogInv'
<1>1. CASE \E level \in Levels : LogMessage(level)
  BY <1>1, LogMessageHolds
<1>2. CASE \E lv \in SUBSET Levels : SetLevel(lv)
  BY <1>2, LogRenderHolds DEF SetLevel
<1>3. CASE LogFlush \/ PauseLog \/ ChannelsChange
  BY <1>3, LogRenderHolds DEF LogFlush, PauseLog, ChannelsChange
<1>4. CASE ClearLog
  BY <1>4, ClearedHolds DEF ClearLog
<1> QED
  BY <1>1, <1>2, <1>3, <1>4 DEF LogActs

LEMMA LogRests == LogInv /\ UNCHANGED logVars => LogInv'
  BY DEF LogInv, logVars

-----------------------------------------------------------------------------
(* Inspector and map *)

InspectorActs ==
    \/ \E ch \in ViewChannels : InspectorMessage(ch) \/ SelectChannel(ch)
    \/ PauseInspector

LEMMA InspectorActsHold == InspectorInv /\ InspectorActs => InspectorInv'
  BY DEF InspectorInv, InspectorActs, InspectorMessage, SelectChannel, Select, PauseInspector,
         inspectorVars

LEMMA InspectorRests == InspectorInv /\ UNCHANGED inspectorVars => InspectorInv'
  BY DEF InspectorInv, inspectorVars

MapActs ==
    \/ \E ch \in ViewChannels : MapMessage(ch)
    \/ \E ch \in ViewChannels \cup {Unset} : PickMap(ch)
    \/ MoveMap \/ FitMap
    \/ \E known \in BOOLEAN : DrawMap(known)

LEMMA EmptyIs == Empty \in Frames /\ Empty.n = 0
  BY DEF Empty, Frames

LEMMA MapMessageHolds ==
    ASSUME viewed \in Nat, MapInv, NEW ch \in ViewChannels, MapMessage(ch)
    PROVE  MapInv'
<1>1. PICK map : map = [ch |-> ch, n |-> viewed']
  OBVIOUS
<1>2. /\ viewed' = viewed + 1 /\ mapGrid' = IF ch = mapChannel THEN map ELSE mapGrid
      /\ UNCHANGED <<mapChannel, needsFit, mapView, mapDrawn, unseen>>
  BY <1>1 DEF MapMessage, ViewMessage
<1>3. map \in Frames /\ map.n = viewed + 1 /\ mapDrawn.n \in Nat
  BY <1>1, <1>2 DEF Frames, MapInv
<1>4. ch # Unset
  BY ViewerAssumption
<1>5. mapGrid' \in Frames /\ mapDrawn.n <= viewed' /\ mapGrid'.n <= viewed'
  BY <1>2, <1>3 DEF MapInv, Frames
<1>6. CASE ch = mapChannel
  <2>1. mapGrid' = map /\ map.n > 0 /\ mapDrawn.n < map.n
    BY <1>2, <1>3, <1>6 DEF MapInv
  <2> QED
    BY <1>2, <1>4, <1>5, <1>6, <2>1 DEF MapInv
<1>7. CASE ch # mapChannel
  BY <1>2, <1>5, <1>7 DEF MapInv
<1> QED
  BY <1>6, <1>7

LEMMA DrawMapHolds ==
    ASSUME viewed \in Nat, MapInv, NEW known \in BOOLEAN, DrawMap(known)
    PROVE  MapInv'
<1>1. /\ UNCHANGED <<viewed, mapChannel, mapGrid>>
      /\ mapDrawn' \in {mapGrid, Empty} /\ mapView' \in {mapGrid, mapView}
      /\ needsFit' = (needsFit /\ ~(needsFit /\ mapDrawn' # Empty))
      /\ unseen' = (unseen /\ mapDrawn' = Empty)
  BY DEF DrawMap
<1>2. mapDrawn' \in Frames /\ mapView' \in Frames /\ mapDrawn'.n <= viewed
  BY <1>1, EmptyIs DEF MapInv
<1>3. needsFit' \in BOOLEAN /\ unseen' \in BOOLEAN
  BY <1>1, Zenon
<1>4. unseen' => unseen /\ mapDrawn' = Empty /\ needsFit' = needsFit
  BY <1>1 DEF MapInv
<1>5. unseen' /\ mapGrid # Empty => mapDrawn'.n < mapGrid.n
  BY <1>4, EmptyIs DEF MapInv, Frames
<1> QED
  BY <1>1, <1>2, <1>3, <1>4, <1>5 DEF MapInv

LEMMA MapActsHold ==
    ASSUME viewed \in Nat, MapInv, MapActs
    PROVE  MapInv'
<1>1. CASE \E ch \in ViewChannels : MapMessage(ch)
  BY <1>1, MapMessageHolds
<1>2. CASE \E known \in BOOLEAN : DrawMap(known)
  BY <1>2, DrawMapHolds
<1>3. ASSUME NEW ch \in ViewChannels \cup {Unset}, PickMap(ch)
      PROVE  MapInv'
  <2>1. /\ mapChannel' = ch /\ mapGrid' = IF ch = Unset THEN Empty ELSE mapGrid
        /\ needsFit' = (needsFit \/ ch # Unset) /\ unseen' = (mapGrid' = Empty)
        /\ UNCHANGED <<mapView, mapDrawn, viewed>>
    BY <1>3 DEF PickMap, ViewEdit
  <2>2. needsFit' \in BOOLEAN /\ unseen' \in BOOLEAN
    BY <2>1, Zenon
  <2>3. mapGrid' \in Frames /\ mapGrid'.n <= viewed
    BY <2>1, EmptyIs DEF MapInv
  <2> QED
    BY <2>1, <2>2, <2>3 DEF MapInv
<1>4. CASE MoveMap
  <2>1. /\ needsFit' = FALSE /\ unseen' = FALSE /\ mapView' = Empty
        /\ UNCHANGED <<mapChannel, mapGrid, mapDrawn, viewed>>
    BY <1>4 DEF MoveMap, ViewEdit
  <2> QED
    BY <2>1, EmptyIs DEF MapInv
<1>5. CASE FitMap
  <2>1. needsFit' = TRUE /\ UNCHANGED <<mapChannel, mapGrid, mapView, mapDrawn, unseen, viewed>>
    BY <1>5 DEF FitMap, ViewEdit
  <2> QED
    BY <2>1 DEF MapInv
<1> QED
  BY <1>1, <1>2, <1>3, <1>4, <1>5 DEF MapActs

LEMMA MapRests ==
    ASSUME viewed \in Nat, MapInv, UNCHANGED mapVars, viewed' \in {viewed, viewed + 1}
    PROVE  MapInv'
<1>1. UNCHANGED <<mapChannel, mapGrid, needsFit, mapView, mapDrawn, unseen>>
  BY DEF mapVars
<1>2. mapDrawn.n <= viewed' /\ mapGrid.n <= viewed'
  BY DEF MapInv, Frames
<1> QED
  BY <1>1, <1>2 DEF MapInv

-----------------------------------------------------------------------------
(* The panels *)

LEMMA ViewerStarts == ViewerInit => ViewerInv
<1> SUFFICES ASSUME ViewerInit PROVE ViewerInv
  OBVIOUS
<1>1. PICK g : g = grid
  OBVIOUS
<1>2. g = [layout |-> 2, cells |-> <<>>] /\ viewed = 0
  BY <1>1 DEF ViewerInit
<1>3. g \in [layout : Layouts, cells : Seq(ViewChannels \cup {Unset})]
  BY <1>2 DEF Layouts
<1>4. 1..g.layout \subseteq Layouts
  BY <1>3, CellsOfLayout
<1>5. ImageInv
  <2>1. canvas = [i \in Layouts |-> Empty] /\ mounts = [i \in Layouts |-> 0] /\ decodes = {}
    BY DEF ViewerInit
  <2> QED
    BY <1>1, <1>2, <1>3, <1>4, <2>1, EmptyIs DEF ImageInv
<1>6. LogInv
  <2>1. logged = <<>> /\ entries = <<>> /\ logShown = LogView(<<>>, levels)
    BY DEF ViewerInit
  <2>2. LastOf(<<>>, MaxEntries) = <<>>
    BY ViewerAssumption DEF LastOf
  <2>3. /\ <<>> \in Seq(LogEntries) /\ 0 \in 0..Len(<<>>) /\ SubSeq(<<>>, 1, 0) = <<>>
    OBVIOUS
  <2> QED
    BY <2>1, <2>2, <2>3 DEF LogInv
<1>7. InspectorInv
  BY DEF ViewerInit, InspectorInv
<1>8. MapInv
  BY <1>2, EmptyIs DEF ViewerInit, MapInv
<1> QED
  BY <1>2, <1>5, <1>6, <1>7, <1>8 DEF ViewerInv

\* An action of one panel leaves the others as they are.
LEMMA OnePanelActs ==
    ASSUME ViewerNext
    PROVE  \/ ImageActs /\ UNCHANGED <<logVars, inspectorVars, mapVars>>
           \/ LogActs /\ UNCHANGED <<imageVars, inspectorVars, mapVars>>
           \/ InspectorActs /\ UNCHANGED <<imageVars, logVars, mapVars>>
           \/ MapActs /\ UNCHANGED <<imageVars, logVars, inspectorVars>>
<1>1. ImageActs => UNCHANGED <<logVars, inspectorVars, mapVars>>
  BY DEF ImageActs, ImageFrame, ImageDecoded, SetLayout, BindCell, SetGrid
<1>2. LogActs => UNCHANGED <<imageVars, inspectorVars, mapVars>>
  BY DEF LogActs, LogMessage, SetLevel, LogFlush, PauseLog, ClearLog, ChannelsChange, LogRest
<1>3. InspectorActs => UNCHANGED <<imageVars, logVars, mapVars>>
  BY DEF InspectorActs, InspectorMessage, SelectChannel, PauseInspector, InspectorRest
<1>4. MapActs => UNCHANGED <<imageVars, logVars, inspectorVars>>
  BY DEF MapActs, MapMessage, PickMap, MoveMap, FitMap, DrawMap, MapRest
<1>5. ImageActs \/ LogActs \/ InspectorActs \/ MapActs
  BY DEF ViewerNext, ImageActs, LogActs, InspectorActs, MapActs
<1> QED
  BY <1>1, <1>2, <1>3, <1>4, <1>5

LEMMA ViewedCounts ==
    ASSUME viewed \in Nat, ViewerNext
    PROVE  viewed' \in {viewed, viewed + 1} /\ viewed' \in Nat
<1>1. ImageActs => viewed' \in {viewed, viewed + 1}
  BY DEF ImageActs, ImageFrame, ImageDecoded, SetLayout, BindCell, SetGrid, ViewMessage, ViewEdit
<1>2. LogActs => viewed' \in {viewed, viewed + 1}
  BY DEF LogActs, LogMessage, SetLevel, LogFlush, PauseLog, ClearLog, ChannelsChange, LogRest,
         ViewMessage, ViewEdit
<1>3. InspectorActs => viewed' \in {viewed, viewed + 1}
  BY DEF InspectorActs, InspectorMessage, SelectChannel, PauseInspector, ViewMessage, ViewEdit
<1>4. MapActs => viewed' \in {viewed, viewed + 1}
  BY DEF MapActs, MapMessage, PickMap, MoveMap, FitMap, DrawMap, ViewMessage, ViewEdit
<1> QED
  BY <1>1, <1>2, <1>3, <1>4, OnePanelActs

LEMMA ViewerInvKept == ViewerInv /\ [ViewerNext]_viewerVars => ViewerInv'
<1> SUFFICES ASSUME ViewerInv, [ViewerNext]_viewerVars PROVE ViewerInv'
  OBVIOUS
<1>1. viewed \in Nat /\ ImageInv /\ LogInv /\ InspectorInv /\ MapInv
  BY DEF ViewerInv
<1>2. CASE ViewerNext
  <2>1. viewed' \in {viewed, viewed + 1} /\ viewed' \in Nat
    BY <1>1, <1>2, ViewedCounts
  <2>2. ImageInv'
    BY <1>1, <1>2, <2>1, OnePanelActs, ImageActsHold, ImageRests
  <2>3. LogInv'
    BY <1>1, <1>2, <2>1, OnePanelActs, LogActsHold, LogRests
  <2>4. InspectorInv'
    BY <1>1, <1>2, <2>1, OnePanelActs, InspectorActsHold, InspectorRests
  <2>5. MapInv'
    BY <1>1, <1>2, <2>1, OnePanelActs, MapActsHold, MapRests
  <2> QED
    BY <2>1, <2>2, <2>3, <2>4, <2>5 DEF ViewerInv
<1>3. CASE UNCHANGED viewerVars
  <2>1. UNCHANGED <<imageVars, logVars, inspectorVars, mapVars, viewed>>
    BY <1>3 DEF viewerVars
  <2> QED
    BY <1>1, <2>1, ImageRests, LogRests, InspectorRests, MapRests DEF ViewerInv
<1> QED
  BY <1>2, <1>3

LEMMA ViewerInvHolds == ViewerSpec => []ViewerInv
  BY ViewerStarts, ViewerInvKept, PTL DEF ViewerSpec

\* What a panel shows came on the channel it is set to, also when that has
\* just changed or a decode comes late (ImageTab.tsx 88, InspectorTab.tsx
\* 55-56), and the log shows the end of what was logged up to some moment,
\* through its filter (LogTab.tsx 84-91).
THEOREM ShownIsBoundHolds == ViewerSpec => []ShownIsBound
<1>1. ViewerInv => ShownIsBound
  BY DEF ViewerInv, ImageInv, LogInv, InspectorInv, ShownIsBound
<1> QED
  BY <1>1, ViewerInvHolds, PTL

LEMMA ImageStep ==
    ASSUME viewed \in Nat, ImageInv, ImageActs
    PROVE  \A i \in Layouts : mounts'[i] = mounts[i] => canvas'[i].n >= canvas[i].n
<1>1. \A i \in Layouts : canvas[i].n \in Nat /\ canvas[i].n <= viewed /\ mounts[i] \in Nat
  BY DEF ImageInv, Frames
<1>2. ASSUME NEW ch \in ViewChannels, NEW raw \in BOOLEAN, ImageFrame(ch, raw)
      PROVE  \A i \in Layouts : canvas'[i].n >= canvas[i].n
  <2>1. PICK frame, T : frame = [ch |-> ch, n |-> viewed'] /\ T = Takes(ch)
    OBVIOUS
  <2>2. frame.n = viewed + 1
    BY <1>2, <2>1 DEF ImageFrame, ViewMessage
  <2>3. \/ canvas' = [i \in Layouts |-> IF i \in T THEN frame ELSE canvas[i]]
        \/ canvas' = canvas
    BY <1>2, <2>1 DEF ImageFrame
  <2> QED
    BY <1>1, <2>2, <2>3
<1>3. ASSUME NEW g, SetGrid(g), NEW i \in Layouts, mounts'[i] = mounts[i]
      PROVE  canvas'[i].n >= canvas[i].n
  <2>1. PICK R : R = Remounted(g)
    OBVIOUS
  <2>2. /\ canvas' = [j \in Layouts |-> IF j \in R THEN Empty ELSE canvas[j]]
        /\ mounts' = [j \in Layouts |-> IF j \in R THEN mounts[j] + 1 ELSE mounts[j]]
    BY <1>3, <2>1 DEF SetGrid
  <2> QED
    BY <1>1, <1>3, <2>2
<1> QED
  BY <1>2, <1>3, ImageDecodedHolds DEF ImageActs, SetLayout, BindCell

\* While a cell keeps its channel its picture never goes back, however long
\* the browser takes to decode (ImageTab.tsx 119-121, 181).
THEOREM ImageNeverGoesBackHolds == ViewerSpec => ImageNeverGoesBack
<1>1. ViewerInv /\ [ViewerNext]_viewerVars =>
          [\A i \in Layouts : mounts'[i] = mounts[i] => canvas'[i].n >= canvas[i].n]_viewerVars
  <2> SUFFICES ASSUME ViewerInv, ViewerNext, NEW i \in Layouts, mounts'[i] = mounts[i]
               PROVE  canvas'[i].n >= canvas[i].n
    OBVIOUS
  <2>1. viewed \in Nat /\ ImageInv
    BY DEF ViewerInv
  <2>2. CASE ImageActs
    BY <2>1, <2>2, ImageStep
  <2>3. CASE UNCHANGED imageVars
    BY <2>1, <2>3 DEF imageVars, ImageInv, Frames
  <2> QED
    BY <2>2, <2>3, OnePanelActs
<1> QED
  BY <1>1, ViewerInvHolds, PTL DEF ViewerSpec, ImageNeverGoesBack

\* The first map drawn for a channel is the one the view is fitted to, unless
\* the user moved it meanwhile (MapTab.tsx 346).
THEOREM MapFittedHolds == ViewerSpec => MapFitted
<1>1. ViewerInv /\ [ViewerNext]_viewerVars =>
          [unseen /\ mapGrid # Empty /\ mapDrawn' = mapGrid => mapView' = mapGrid]_viewerVars
  <2> SUFFICES ASSUME ViewerInv, ViewerNext, unseen, mapGrid # Empty, mapDrawn' = mapGrid
               PROVE  mapView' = mapGrid
    OBVIOUS
  <2>1. /\ mapDrawn.n < mapGrid.n /\ needsFit /\ mapDrawn \in Frames
    BY DEF ViewerInv, MapInv
  <2>2. mapDrawn' # mapDrawn
    BY <2>1 DEF Frames
  <2>3. PICK known \in BOOLEAN : DrawMap(known)
    <3>1. UNCHANGED mapVars => mapDrawn' = mapDrawn
      BY DEF mapVars
    <3>2. MapActs
      BY <2>2, <3>1, OnePanelActs
    <3> QED
      BY <2>2, <3>2 DEF MapActs, MapMessage, PickMap, MoveMap, FitMap
  <2> QED
    BY <2>1, <2>3 DEF DrawMap
<1> QED
  BY <1>1, ViewerInvHolds, PTL DEF ViewerSpec, MapFitted

-----------------------------------------------------------------------------
(***************************************************************************)
(* Recordings: what one pass over the records makes of them                *)
(***************************************************************************)

AnySeq(s) == \E M : s \in Seq(M)

LEMMA AppendFacts ==
    ASSUME NEW s, AnySeq(s), NEW e
    PROVE  /\ AnySeq(Append(s, e)) /\ Len(s) \in Nat /\ Len(Append(s, e)) = Len(s) + 1
           /\ \A i \in 1..Len(s) : Append(s, e)[i] = s[i]
           /\ Append(s, e)[Len(s) + 1] = e
           /\ DOMAIN s = 1..Len(s)
<1>1. PICK M : s \in Seq(M)
  BY DEF AnySeq
<1> DEFINE A == M \cup {e}
<1>2. s \in Seq(A) /\ e \in A
  <2>1. s \in [1..Len(s) -> M] /\ Len(s) \in Nat
    BY <1>1
  <2> HIDE DEF A
  <2>2. M \subseteq A /\ e \in A
    BY DEF A
  <2> QED
    BY <2>1, <2>2
<1> HIDE DEF A
<1>3. Append(s, e) \in Seq(A)
  BY <1>2
<1> QED
  BY <1>2, <1>3 DEF AnySeq

\* f[k] is what the pass has made of the first k of the records rs.
Passes(f, start, rs) ==
    f = [k \in 0..Len(rs) |->
            IF k = 0 THEN [catalogue |-> start, topics |-> <<>>, messages |-> <<>>]
            ELSE Serializing(f[k - 1], rs[k])]

LEMMA PassExists ==
    ASSUME NEW start, NEW rs, AnySeq(rs)
    PROVE  \E f : Passes(f, start, rs)
<1> DEFINE first == [catalogue |-> start, topics |-> <<>>, messages |-> <<>>]
           Upto(n, f) == f = [k \in 0..n |-> IF k = 0 THEN first ELSE Serializing(f[k - 1], rs[k])]
           Bad == {n \in Nat : ~ \E f : Upto(n, f)}
<1>1. \E f : Upto(0, f)
  <2>1. Upto(0, [k \in 0..0 |-> first])
    OBVIOUS
  <2> QED
    BY <2>1
<1>2. ASSUME NEW n \in Nat, NEW f, Upto(n, f)
      PROVE  \E e : Upto(n + 1, e)
  <2> DEFINE e == [k \in 0..(n + 1) |-> IF k = n + 1 THEN Serializing(f[n], rs[n + 1]) ELSE f[k]]
  <2> HIDE DEF first
  <2>1. \A k \in 0..n : e[k] = f[k]
    OBVIOUS
  <2>2. e[n + 1] = Serializing(e[n], rs[n + 1])
    BY <2>1
  <2>3. \A k \in 0..n : f[k] = IF k = 0 THEN first ELSE Serializing(f[k - 1], rs[k])
    BY <1>2
  <2>4. ASSUME NEW k \in 0..(n + 1)
        PROVE  e[k] = IF k = 0 THEN first ELSE Serializing(e[k - 1], rs[k])
    <3>1. CASE k = n + 1
      BY <3>1, <2>2
    <3>2. CASE k \in 0..n
      <4>1. k # 0 => k - 1 \in 0..n
        BY <3>2
      <4> HIDE DEF e
      <4> QED
        BY <3>2, <4>1, <2>1, <2>3
    <3> QED
      BY <3>1, <3>2
  <2>5. e = [k \in 0..(n + 1) |-> e[k]]
    OBVIOUS
  <2>6. Upto(n + 1, e)
    <3> HIDE DEF e
    <3> QED
      BY <2>4, <2>5
  <2> QED
    BY <2>6
<1>3. Bad = {}
  <2> SUFFICES ASSUME Bad # {} PROVE FALSE
    OBVIOUS
  <2> HIDE DEF Upto
  <2>1. PICK k \in Bad : \A j \in Bad : ~(<<j, k>> \in OpToRel(<, Nat))
    <3>1. Bad \in SUBSET Nat
      OBVIOUS
    <3> QED
      BY <3>1, LeastThereIs, Zenon
  <2>2. k \in Nat /\ k # 0
    BY <1>1, <2>1
  <2>3. k - 1 \in Nat /\ <<k - 1, k>> \in OpToRel(<, Nat)
    BY <2>2 DEF OpToRel
  <2>4. \E f : Upto(k - 1, f)
    BY <2>1, <2>3
  <2>5. \E e : Upto((k - 1) + 1, e)
    BY <2>3, <2>4, <1>2
  <2>6. (k - 1) + 1 = k
    BY <2>2
  <2>7. ~ \E e : Upto(k, e)
    BY <2>1
  <2> QED
    BY <2>5, <2>6, <2>7
<1>4. Len(rs) \in Nat
  BY AppendFacts
<1> QED
  BY <1>3, <1>4 DEF Passes

\* The pass of the model is such a function.
LEMMA PassPasses ==
    ASSUME AnySeq(records)
    PROVE  Passes(Pass, startList, records)
<1>1. \E f : Passes(f, startList, records)
  BY PassExists
<1> QED
  BY <1>1 DEF Pass, Passes

LEMMA PassOneMore ==
    ASSUME NEW start, NEW rs, AnySeq(rs), NEW r, NEW f, Passes(f, start, Append(rs, r))
    PROVE  \E g : /\ Passes(g, start, rs)
                  /\ f[Len(rs) + 1] = Serializing(g[Len(rs)], r)
<1> DEFINE n == Len(rs)
           first == [catalogue |-> start, topics |-> <<>>, messages |-> <<>>]
           g == [k \in 0..n |-> f[k]]
<1>1. /\ n \in Nat /\ Len(Append(rs, r)) = n + 1
      /\ \A i \in 1..n : Append(rs, r)[i] = rs[i]
      /\ Append(rs, r)[n + 1] = r
  BY AppendFacts
<1>2. \A k \in 0..(n + 1) :
          f[k] = IF k = 0 THEN first ELSE Serializing(f[k - 1], Append(rs, r)[k])
  BY <1>1 DEF Passes
<1> HIDE DEF n, first
<1>3. f[n + 1] = Serializing(g[n], r)
  <2>1. n + 1 \in 0..(n + 1) /\ n + 1 # 0 /\ (n + 1) - 1 = n /\ n \in 0..n
    BY <1>1
  <2> QED
    BY <1>1, <1>2, <2>1
<1>4. ASSUME NEW k \in 0..n
      PROVE  g[k] = IF k = 0 THEN first ELSE Serializing(g[k - 1], rs[k])
  <2>1. k \in 0..(n + 1) /\ (k # 0 => k \in 1..n /\ k - 1 \in 0..n)
    BY <1>1
  <2> QED
    BY <1>1, <1>2, <2>1
<1>5. g = [k \in 0..n |-> g[k]]
  OBVIOUS
<1>6. Passes(g, start, rs)
  <2> HIDE DEF g
  <2> QED
    BY <1>4, <1>5 DEF Passes, n, first
<1> QED
  BY <1>3, <1>6 DEF n

-----------------------------------------------------------------------------
(* The inductive invariant of the recorder.                                *)

\* The i-th message and the i-th one heard are the same, under a name that its
\* channel had by then.
SameMessage(m, heard, i) ==
    /\ m.n = heard[i].n
    /\ \E j \in 1..i : heard[j].id = heard[i].id /\ m.topic = heard[j].name

\* What is made of the records so far is of the first messages heard, and topics
\* are names that were heard.
Kept(at, heard) ==
    /\ AnySeq(at.messages) /\ Len(at.messages) <= Len(heard)
    /\ \A i \in 1..Len(at.messages) : SameMessage(at.messages[i], heard, i)
    /\ \A id \in DOMAIN at.topics :
          \E j \in 1..Len(at.messages) : heard[j].id = id /\ at.topics[id] = heard[j].name

\* It is of all of them, and knows the channels by the names they have now.
UpToDate(at, heard, listed) ==
    /\ Len(at.messages) = Len(heard)
    /\ \A id \in DOMAIN listed : id \in DOMAIN at.catalogue /\ at.catalogue[id] = listed[id]

Faithful ==
    \A f : Passes(f, startList, records) =>
        /\ Kept(f[Len(records)], heardFrames)
        /\ ~limitReached => UpToDate(f[Len(records)], heardFrames, listedChannels)

RecInv ==
    /\ AnySeq(records) /\ AnySeq(heardFrames) /\ recording \in BOOLEAN
    /\ recording => Faithful
    /\ RecordedFaithfully

LEMMA NoneYet == AnySeq(<<>>) /\ Len(<<>>) = 0
<1>1. <<>> \in Seq({})
  OBVIOUS
<1> QED
  BY <1>1 DEF AnySeq

LEMMA RecInitInv == RecorderInit => RecInv
BY NoneYet DEF RecorderInit, RecInv, RecordedFaithfully

\* More is heard than is kept.
LEMMA KeptLonger ==
    ASSUME NEW at, NEW heard, AnySeq(heard), NEW e, Kept(at, heard)
    PROVE  Kept(at, Append(heard, e))
<1> DEFINE longer == Append(heard, e)
<1>1. /\ Len(longer) = Len(heard) + 1 /\ Len(heard) \in Nat
      /\ \A i \in 1..Len(heard) : longer[i] = heard[i]
  BY AppendFacts
<1> HIDE DEF longer
<1>2. /\ AnySeq(at.messages) /\ Len(at.messages) \in Nat
      /\ Len(at.messages) <= Len(heard)
  BY AppendFacts DEF Kept
<1>3. \A i \in 1..Len(at.messages) : i \in 1..Len(heard) /\ longer[i] = heard[i]
  BY <1>1, <1>2
<1>4. ASSUME NEW i \in 1..Len(at.messages) PROVE SameMessage(at.messages[i], longer, i)
  <2>1. \A j \in 1..i : j \in 1..Len(at.messages)
    BY <1>2
  <2>2. at.messages[i].n = heard[i].n
    BY DEF Kept, SameMessage
  <2>3. PICK j \in 1..i : heard[j].id = heard[i].id /\ at.messages[i].topic = heard[j].name
    BY DEF Kept, SameMessage
  <2>4. longer[i] = heard[i] /\ longer[j] = heard[j]
    BY <1>3, <2>1
  <2> QED
    BY <2>2, <2>3, <2>4 DEF SameMessage
<1>5. \A id \in DOMAIN at.topics :
          \E j \in 1..Len(at.messages) : longer[j].id = id /\ at.topics[id] = longer[j].name
  BY <1>3 DEF Kept
<1> QED
  BY <1>1, <1>2, <1>4, <1>5 DEF Kept, longer

\* A message is heard and kept.
LEMMA MessageKept ==
    ASSUME NEW at, NEW heard, AnySeq(heard), NEW listed, Kept(at, heard),
           UpToDate(at, heard, listed), NEW id \in DOMAIN listed, NEW n, NEW hub
    PROVE  LET new == Serializing(at, [op |-> "message", id |-> id, n |-> n])
               longer == Append(heard, [n |-> n, id |-> id, name |-> listed[id], hub |-> hub])
           IN  Kept(new, longer) /\ UpToDate(new, longer, listed)
<1> DEFINE e == [n |-> n, id |-> id, name |-> listed[id], hub |-> hub]
           longer == Append(heard, e)
           r == [op |-> "message", id |-> id, n |-> n]
           new == Serializing(at, r)
           topic == TopicOf(at, id)
           m == [n |-> n, topic |-> topic]
           k == Len(heard)
<1>1. /\ k \in Nat /\ Len(longer) = k + 1 /\ longer[k + 1] = e
      /\ \A i \in 1..k : longer[i] = heard[i]
  BY AppendFacts
<1>2. AnySeq(at.messages) /\ Len(at.messages) = k
  BY DEF Kept, UpToDate
<1>3. /\ AnySeq(Append(at.messages, m)) /\ Len(Append(at.messages, m)) = k + 1
      /\ \A i \in 1..k : Append(at.messages, m)[i] = at.messages[i]
      /\ Append(at.messages, m)[k + 1] = m
  BY <1>2, AppendFacts
<1>4. /\ new.messages = Append(at.messages, m) /\ new.catalogue = at.catalogue
      /\ new.topics = Named(at.topics, id, topic)
  BY DEF Serializing
<1>5. e.n = n /\ e.id = id /\ e.name = listed[id] /\ m.n = n /\ m.topic = topic
  OBVIOUS
<1> HIDE DEF k, longer, e, new, m
<1>6. \E j \in 1..(k + 1) : longer[j].id = id /\ topic = longer[j].name
  <2>1. CASE id \in DOMAIN at.topics
    <3>1. topic = at.topics[id]
      BY <2>1 DEF TopicOf
    <3>2. PICK j \in 1..k : heard[j].id = id /\ at.topics[id] = heard[j].name
      BY <1>2, <2>1 DEF Kept
    <3>3. j \in 1..(k + 1)
      BY <1>1
    <3> QED
      BY <1>1, <3>1, <3>2, <3>3
  <2>2. CASE id \notin DOMAIN at.topics
    <3>1. topic = listed[id]
      BY <2>2 DEF TopicOf, UpToDate
    <3>2. k + 1 \in 1..(k + 1)
      BY <1>1
    <3> QED
      BY <1>1, <1>5, <3>1, <3>2
  <2> QED
    BY <2>1, <2>2
<1> HIDE DEF topic
<1>7. ASSUME NEW i \in 1..(k + 1)
      PROVE  SameMessage(new.messages[i], longer, i)
  <2>1. CASE i = k + 1
    <3>1. new.messages[i] = m /\ longer[i] = e
      BY <1>1, <1>3, <1>4, <2>1
    <3> QED
      BY <1>5, <1>6, <2>1, <3>1 DEF SameMessage
  <2>2. CASE i # k + 1
    <3>1. i \in 1..k /\ \A j \in 1..i : j \in 1..k
      BY <1>1, <2>2
    <3>2. new.messages[i] = at.messages[i] /\ longer[i] = heard[i]
      BY <1>1, <1>3, <1>4, <3>1
    <3>3. SameMessage(at.messages[i], heard, i)
      BY <1>2, <3>1 DEF Kept
    <3> QED
      BY <1>1, <3>1, <3>2, <3>3 DEF SameMessage
  <2> QED
    BY <2>1, <2>2
<1>8. ASSUME NEW x \in DOMAIN new.topics
      PROVE  \E j \in 1..(k + 1) : longer[j].id = x /\ new.topics[x] = longer[j].name
  <2>1. CASE x = id
    <3>1. new.topics[x] = topic
      BY <1>4, <2>1 DEF Named
    <3> QED
      BY <1>6, <2>1, <3>1
  <2>2. CASE x # id
    <3>1. x \in DOMAIN at.topics /\ new.topics[x] = at.topics[x]
      BY <1>4, <1>8, <2>2 DEF Named
    <3>2. PICK j \in 1..k : heard[j].id = x /\ at.topics[x] = heard[j].name
      BY <1>2, <3>1 DEF Kept
    <3>3. j \in 1..(k + 1)
      BY <1>1
    <3> QED
      BY <1>1, <3>1, <3>2, <3>3
  <2> QED
    BY <2>1, <2>2
<1>9. Kept(new, longer)
  BY <1>1, <1>3, <1>4, <1>7, <1>8 DEF Kept
<1>10. UpToDate(new, longer, listed)
  BY <1>1, <1>3, <1>4 DEF UpToDate
<1> QED
  BY <1>9, <1>10 DEF new, longer, e

\* A frame that names channels.
LEMMA NamingKept ==
    ASSUME NEW at, NEW heard, NEW listed, Kept(at, heard), UpToDate(at, heard, listed), NEW r,
           NEW now,
           \/ r.op = "advertise" /\ now = Named(listed, r.id, r.name)
           \/ r.op = "server_info" /\ now = r.channels
    PROVE  Kept(Serializing(at, r), heard) /\ UpToDate(Serializing(at, r), heard, now)
<1> DEFINE new == Serializing(at, r)
<1>1. /\ new.messages = at.messages /\ new.topics = at.topics
      /\ new.catalogue = Folded(at.catalogue, r)
  BY DEF Serializing
<1> HIDE DEF new
<1>2. Kept(new, heard)
  BY <1>1 DEF Kept
<1>3. ASSUME NEW id \in DOMAIN now
      PROVE  id \in DOMAIN new.catalogue /\ new.catalogue[id] = now[id]
  <2>1. CASE r.op = "advertise" /\ now = Named(listed, r.id, r.name)
    <3>1. new.catalogue = Named(at.catalogue, r.id, r.name)
      BY <1>1, <2>1 DEF Folded
    <3> QED
      BY <1>3, <2>1, <3>1 DEF Named, UpToDate
  <2>2. CASE r.op = "server_info" /\ now = r.channels
    <3>1. new.catalogue = [i \in DOMAIN at.catalogue \cup DOMAIN r.channels |->
                              IF i \in DOMAIN r.channels THEN r.channels[i] ELSE at.catalogue[i]]
      BY <1>1, <2>2 DEF Folded
    <3> QED
      BY <1>3, <2>2, <3>1
  <2> QED
    BY <2>1, <2>2
<1>4. UpToDate(new, heard, now)
  BY <1>1, <1>3 DEF UpToDate
<1> QED
  BY <1>2, <1>4 DEF new

\* A frame of the socket, kept or beyond the cap.
LEMMA FrameFaithful ==
    ASSUME RecInv, recording, startList' = startList, NEW r, Capture(r),
           \A at : Kept(at, heardFrames) => Kept(at, heardFrames'),
           \A at : Kept(at, heardFrames) /\ UpToDate(at, heardFrames, listedChannels) =>
                       /\ Kept(Serializing(at, r), heardFrames')
                       /\ UpToDate(Serializing(at, r), heardFrames', listedChannels')
    PROVE  AnySeq(records') /\ Faithful'
<1>1. AnySeq(records) /\ Faithful
  BY DEF RecInv
<1>2. CASE limitReached
  <2>1. UNCHANGED <<records, limitReached>>
    BY <1>2 DEF Capture
  <2> QED
    BY <1>1, <1>2, <2>1 DEF Faithful
<1>3. CASE ~limitReached
  <2>1. records' = Append(records, r)
    BY <1>3 DEF Capture
  <2>2. AnySeq(records') /\ Len(records') = Len(records) + 1
    BY <1>1, <2>1, AppendFacts
  <2>3. ASSUME NEW f, Passes(f, startList', records')
        PROVE  /\ Kept(f[Len(records')], heardFrames')
               /\ UpToDate(f[Len(records')], heardFrames', listedChannels')
    <3>1. PICK g : /\ Passes(g, startList, records)
                   /\ f[Len(records) + 1] = Serializing(g[Len(records)], r)
      BY <1>1, <2>1, <2>3, PassOneMore
    <3>2. /\ Kept(g[Len(records)], heardFrames)
          /\ UpToDate(g[Len(records)], heardFrames, listedChannels)
      BY <1>1, <1>3, <3>1 DEF Faithful
    <3> QED
      BY <2>2, <3>1, <3>2
  <2> QED
    BY <2>2, <2>3 DEF Faithful
<1> QED
  BY <1>2, <1>3

LEMMA RecStepInv ==
    ASSUME RecInv, [RecorderNext]_recorderVars
    PROVE  RecInv'
<1>1. ASSUME ~recording, recording' = recording, NEW r, Capture(r), UNCHANGED <<file, heardFrames>>
      PROVE  RecInv'
  <2>1. UNCHANGED <<records, limitReached>>
    BY <1>1 DEF Capture
  <2> QED
    BY <1>1, <2>1 DEF RecInv, RecordedFaithfully
<1>2. ASSUME recording, recording' = recording, AnySeq(records'), AnySeq(heardFrames'), Faithful'
      PROVE  RecInv'
  BY <1>2 DEF RecInv, RecordedFaithfully
<1>3. ASSUME NEW id, NEW name, RecAdvertise(id, name) PROVE RecInv'
  <2> DEFINE r == [op |-> "advertise", id |-> id, name |-> name]
  <2>1. /\ listedChannels' = Named(listedChannels, id, name) /\ Capture(r)
        /\ UNCHANGED <<heardFrames, recording, startList, file>>
    BY <1>3 DEF RecAdvertise, Traffic
  <2>2. r.op = "advertise" /\ r.id = id /\ r.name = name
    OBVIOUS
  <2> HIDE DEF r
  <2>3. CASE ~recording
    BY <1>1, <2>1, <2>3
  <2>4. CASE recording
    <3>1. \A at : Kept(at, heardFrames) /\ UpToDate(at, heardFrames, listedChannels) =>
                       /\ Kept(Serializing(at, r), heardFrames')
                       /\ UpToDate(Serializing(at, r), heardFrames', listedChannels')
      BY <2>1, <2>2, NamingKept
    <3>2. AnySeq(records') /\ Faithful'
      BY <2>1, <2>4, <3>1, FrameFaithful
    <3> QED
      BY <1>2, <2>1, <2>4, <3>2 DEF RecInv
  <2> QED
    BY <2>3, <2>4
<1>4. ASSUME NEW names, RecServerInfo(names) PROVE RecInv'
  <2> DEFINE r == [op |-> "server_info", channels |-> names]
  <2>1. /\ listedChannels' = names /\ Capture(r)
        /\ UNCHANGED <<heardFrames, recording, startList, file>>
    BY <1>4 DEF RecServerInfo, Traffic
  <2>2. r.op = "server_info" /\ r.channels = names
    OBVIOUS
  <2> HIDE DEF r
  <2>3. CASE ~recording
    BY <1>1, <2>1, <2>3
  <2>4. CASE recording
    <3>1. \A at : Kept(at, heardFrames) /\ UpToDate(at, heardFrames, listedChannels) =>
                       /\ Kept(Serializing(at, r), heardFrames')
                       /\ UpToDate(Serializing(at, r), heardFrames', listedChannels')
      BY <2>1, <2>2, NamingKept
    <3>2. AnySeq(records') /\ Faithful'
      BY <2>1, <2>4, <3>1, FrameFaithful
    <3> QED
      BY <1>2, <2>1, <2>4, <3>2 DEF RecInv
  <2> QED
    BY <2>3, <2>4
<1>5. ASSUME NEW id, RecData(id) PROVE RecInv'
  <2>0. PICK n : n = traffic'
    OBVIOUS
  <2> DEFINE r == [op |-> "message", id |-> id, n |-> n]
             e == [n |-> n, id |-> id, name |-> listedChannels[id], hub |-> incarnation]
  <2>1. /\ id \in DOMAIN listedChannels /\ Capture(r)
        /\ heardFrames' = IF recording THEN Append(heardFrames, e) ELSE heardFrames
        /\ UNCHANGED <<listedChannels, recording, startList, file>>
    BY <1>5, <2>0 DEF RecData, Traffic
  <2>2. CASE ~recording
    BY <1>1, <2>1, <2>2
  <2>3. CASE recording
    <3>1. heardFrames' = Append(heardFrames, e) /\ AnySeq(heardFrames)
      BY <2>1, <2>3 DEF RecInv
    <3>2. \A at : Kept(at, heardFrames) /\ UpToDate(at, heardFrames, listedChannels) =>
                       /\ Kept(Serializing(at, r), heardFrames')
                       /\ UpToDate(Serializing(at, r), heardFrames', listedChannels')
      BY <2>1, <3>1, MessageKept
    <3> HIDE DEF e, r
    <3>3. \A at : Kept(at, heardFrames) => Kept(at, heardFrames')
      BY <3>1, KeptLonger
    <3>4. AnySeq(heardFrames')
      BY <3>1, AppendFacts
    <3>5. AnySeq(records') /\ Faithful'
      BY <2>1, <2>3, <3>2, <3>3, FrameFaithful
    <3> QED
      BY <1>2, <2>1, <2>3, <3>4, <3>5
  <2> QED
    BY <2>2, <2>3
<1>6. CASE StartRecording
  <2>1. /\ recording' = TRUE /\ records' = <<>> /\ startList' = listedChannels
        /\ listedChannels' = listedChannels /\ heardFrames' = <<>>
    BY <1>6 DEF StartRecording
  <2>2. AnySeq(records') /\ AnySeq(heardFrames') /\ Len(records') = 0
    BY <2>1, NoneYet
  <2>3. ASSUME NEW f, Passes(f, startList', records')
        PROVE  Kept(f[0], heardFrames') /\ UpToDate(f[0], heardFrames', listedChannels')
    <3>1. f[0] = [catalogue |-> startList', topics |-> <<>>, messages |-> <<>>]
      BY <2>2, <2>3 DEF Passes
    <3>2. /\ f[0].catalogue = listedChannels /\ f[0].messages = <<>>
          /\ DOMAIN f[0].topics = {}
      BY <2>1, <3>1
    <3> QED
      BY <2>1, <3>2, NoneYet DEF Kept, UpToDate
  <2>4. Faithful'
    BY <2>2, <2>3 DEF Faithful
  <2> QED
    BY <2>1, <2>2, <2>4 DEF RecInv, RecordedFaithfully
<1>7. CASE StopRecording
  <2>1. /\ recording /\ recording' = FALSE /\ file' = Serialized
        /\ UNCHANGED <<records, limitReached, heardFrames>>
    BY <1>7 DEF StopRecording
  <2>2. Passes(Pass, startList, records)
    BY PassPasses DEF RecInv
  <2> DEFINE at == Pass[Len(records)]
  <2> HIDE DEF Pass
  <2>3. /\ Kept(at, heardFrames)
        /\ ~limitReached => UpToDate(at, heardFrames, listedChannels)
    BY <2>1, <2>2 DEF RecInv, Faithful
  <2>4. file' = at.messages
    BY <2>1 DEF Serialized
  <2> HIDE DEF at
  <2>5. DOMAIN file' = 1..Len(file')
    BY <2>3, <2>4, AppendFacts DEF Kept
  <2>6. RecordedFaithfully'
    BY <2>1, <2>3, <2>4, <2>5 DEF RecordedFaithfully, Kept, UpToDate, SameMessage
  <2> QED
    BY <2>1, <2>6 DEF RecInv
<1>8. CASE UNCHANGED recorderVars
  BY <1>8 DEF recorderVars, RecInv, Faithful, RecordedFaithfully
<1> QED
  BY <1>3, <1>4, <1>5, <1>6, <1>7, <1>8 DEF RecorderNext

(***************************************************************************)
(* However many frames came, and whatever was advertised or restarted      *)
(* while recording: a file has the first messages since its start, all of  *)
(* them unless the cap was reached, in order, each under a name that its   *)
(* channel had by then (recorder.ts 81-112, 127-237).                      *)
(***************************************************************************)
THEOREM RecordedFaithfullyHolds == RecorderSpec => []RecordedFaithfully
<1>1. RecInv => RecordedFaithfully
  BY DEF RecInv
<1> QED
  BY <1>1, RecInitInv, RecStepInv, PTL DEF RecorderSpec

-----------------------------------------------------------------------------
LEMMA LeastIsMin ==
    ASSUME NEW S \in SUBSET Nat, S # {}
    PROVE  Min(S) \in S /\ \A y \in S : Min(S) <= y
<1>1. PICK d \in S : \A y \in S : ~(<<y, d>> \in OpToRel(<, Nat))
  BY LeastThereIs, Zenon
<1>2. ASSUME NEW y \in S PROVE d <= y
  <2>1. ~(<<y, d>> \in OpToRel(<, Nat))
    BY <1>1
  <2>2. ~(y < d)
    BY <2>1 DEF OpToRel
  <2> QED
    BY <2>2
<1> QED
  BY <1>2 DEF Min

-----------------------------------------------------------------------------
(***************************************************************************)
(* Plots: what a buffer has of what its series was sent                    *)
(***************************************************************************)

LEMMA LeastOfTwo ==
    ASSUME NEW a \in Int, NEW b \in Int
    PROVE  Min({a, b}) = IF a <= b THEN a ELSE b
<1>1. \E x \in {a, b} : \A y \in {a, b} : x <= y
  OBVIOUS
<1>2. Min({a, b}) \in {a, b} /\ \A y \in {a, b} : Min({a, b}) <= y
  BY <1>1 DEF Min
<1> QED
  BY <1>2

LEMMA GreatestOfTwo ==
    ASSUME NEW a \in Int, NEW b \in Int
    PROVE  Max({a, b}) = IF a >= b THEN a ELSE b
<1>1. \E x \in {a, b} : \A y \in {a, b} : x >= y
  OBVIOUS
<1>2. Max({a, b}) \in {a, b} /\ \A y \in {a, b} : Max({a, b}) >= y
  BY <1>1 DEF Max
<1> QED
  BY <1>2

\* Samples with their times.
Timed(c) == AnySeq(c) /\ \A i \in 1..Len(c) : c[i].t \in Nat

\* kept is the end of c, but for what is older than the retention was at the time
\* end, or further back than MAX_POINTS, or was there before the series.
TailOf(kept, c, from, end) ==
    /\ AnySeq(kept) /\ Len(kept) <= MaxPoints
    /\ from \in Nat /\ from + Len(kept) <= Len(c)
    /\ \A i \in 1..Len(kept) : kept[i] = c[Len(c) - Len(kept) + i]
    /\ \A j \in from + 1 .. Len(c) - Len(kept) :
          j <= Len(c) - MaxPoints \/ c[j].t < end - Retention

LEMMA SuffixFacts ==
    ASSUME NEW s, AnySeq(s), NEW p \in 1..Len(s)
    PROVE  LET q == SubSeq(s, p, Len(s))
           IN  /\ AnySeq(q) /\ Len(q) = Len(s) - p + 1
               /\ \A i \in 1..Len(q) : q[i] = s[p - 1 + i]
<1>1. PICK M : s \in Seq(M)
  BY DEF AnySeq
<1>2. Len(s) \in Nat /\ \A i \in 1..Len(s) : s[i] \in M
  BY <1>1
<1> DEFINE q == SubSeq(s, p, Len(s))
<1>3. q = [i \in 1..(Len(s) - p + 1) |-> s[i + p - 1]]
  BY <1>1, <1>2
<1>4. q \in Seq(M) /\ Len(q) = Len(s) - p + 1
  BY <1>1, <1>2, SubSeqProperties
<1>5. \A i \in 1..Len(q) : q[i] = s[p - 1 + i]
  <2> HIDE DEF q
  <2>1. \A i \in 1..(Len(s) - p + 1) : i + p - 1 = p - 1 + i
    BY <1>2
  <2> QED
    BY <1>3, <1>4, <2>1
<1> QED
  BY <1>4, <1>5 DEF AnySeq

\* What is kept of samples the last of which has just come.
LEMMA RetainedFacts ==
    ASSUME NEW a, Timed(a), Len(a) >= 1, plotClock \in Nat, a[Len(a)].t = plotClock
    PROVE  \E p \in 1..Len(a) :
              /\ AnySeq(Retained(a)) /\ Len(Retained(a)) = Len(a) - p + 1
              /\ Len(Retained(a)) <= MaxPoints
              /\ \A i \in 1..Len(Retained(a)) : Retained(a)[i] = a[p - 1 + i]
              /\ \A i \in 1..(p - 1) : i <= Len(a) - MaxPoints \/ a[i].t < plotClock - Retention
<1> DEFINE n == Len(a)
           oldest == plotClock - Retention
           S == {i \in DOMAIN a : a[i].t >= oldest}
           f == FirstRecent(a)
           p == IF f >= n - MaxPoints + 1 THEN f ELSE n - MaxPoints + 1
<1>1. n \in Nat /\ n >= 1 /\ DOMAIN a = 1..n /\ \A i \in 1..n : a[i].t \in Nat
  BY AppendFacts DEF Timed
<1>2. MaxPoints \in Nat /\ MaxPoints >= 1 /\ Retention \in Nat /\ oldest \in Int /\ plotClock >= oldest
  BY PlotAssumption
<1>3. f \in S /\ \A y \in S : f <= y
  <2>1. S \in SUBSET Nat /\ n \in S
    BY <1>1, <1>2
  <2> HIDE DEF S
  <2>2. Min(S) \in S /\ \A y \in S : Min(S) <= y
    BY <2>1, LeastIsMin
  <2> QED
    BY <2>2 DEF FirstRecent, S
<1>4. f \in 1..n /\ \A i \in 1..n : i < f => a[i].t < oldest
  <2>1. f \in 1..n
    BY <1>1, <1>3
  <2>2. ASSUME NEW i \in 1..n, i < f PROVE a[i].t < oldest
    <3>1. i \notin S
      BY <1>3, <2>1, <2>2
    <3> QED
      BY <1>1, <1>2, <3>1
  <2> QED
    BY <2>1, <2>2
<1> HIDE DEF f, oldest, n
<1>5. p \in 1..n
  BY <1>1, <1>2, <1>4
<1>6. Retained(a) = SubSeq(a, p, Len(a))
  <2>1. n - MaxPoints + 1 \in Int /\ f \in Int
    BY <1>1, <1>2, <1>4
  <2>2. Max({f, n - MaxPoints + 1}) = p
    BY <2>1, GreatestOfTwo
  <2> QED
    BY <2>2 DEF Retained, f, n
<1>7. /\ AnySeq(Retained(a)) /\ Len(Retained(a)) = n - p + 1
      /\ \A i \in 1..Len(Retained(a)) : Retained(a)[i] = a[p - 1 + i]
  BY <1>5, <1>6, SuffixFacts DEF Timed, n
<1>8. n - p + 1 <= MaxPoints
  BY <1>1, <1>2, <1>4
<1>9. ASSUME NEW i \in 1..(p - 1) PROVE i <= n - MaxPoints \/ a[i].t < oldest
  BY <1>1, <1>2, <1>4
<1> QED
  BY <1>5, <1>7, <1>8, <1>9 DEF n, oldest

\* A sample that comes is kept, and none is lost that is to be shown.
LEMMA TailGrows ==
    ASSUME NEW kept, NEW c, NEW from, Timed(c), plotClock \in Nat,
           TailOf(kept, c, from, plotClock), NEW e, e.t = plotClock
    PROVE  TailOf(Retained(Append(kept, e)), Append(c, e), from, plotClock) /\ Timed(Append(c, e))
<1> DEFINE a == Append(kept, e)
           d == Append(c, e)
           k == Len(kept)
           n == Len(c)
           new == Retained(a)
<1>1. /\ k \in Nat /\ AnySeq(a) /\ Len(a) = k + 1
      /\ \A i \in 1..k : a[i] = kept[i]
      /\ a[k + 1] = e
  BY AppendFacts DEF TailOf
<1>2. /\ n \in Nat /\ AnySeq(d) /\ Len(d) = n + 1
      /\ \A i \in 1..n : d[i] = c[i]
      /\ d[n + 1] = e
  BY AppendFacts DEF Timed
<1>3. /\ from \in Nat /\ from + k <= n
      /\ \A i \in 1..k : kept[i] = c[n - k + i]
      /\ \A j \in from + 1 .. n - k : j <= n - MaxPoints \/ c[j].t < plotClock - Retention
  BY DEF TailOf
<1>4. \A i \in 1..n : c[i].t \in Nat
  BY DEF Timed
<1>5. MaxPoints \in Nat /\ Retention \in Nat
  BY PlotAssumption
<1> HIDE DEF a, d, k, n
<1>6. ASSUME NEW i \in 1..(k + 1) PROVE a[i] = d[n - k + i]
  <2>1. CASE i = k + 1
    <3>1. n - k + i = n + 1
      BY <1>1, <1>2, <2>1
    <3> QED
      BY <1>1, <1>2, <2>1, <3>1
  <2>2. CASE i # k + 1
    <3>1. i \in 1..k /\ n - k + i \in 1..n
      BY <1>1, <1>2, <1>3, <2>2
    <3> QED
      BY <1>1, <1>2, <1>3, <3>1
  <2> QED
    BY <2>1, <2>2
<1>7. Timed(d)
  <2>1. ASSUME NEW i \in 1..(n + 1) PROVE d[i].t \in Nat
    <3>1. i = n + 1 \/ i \in 1..n
      BY <1>2
    <3> QED
      BY <1>2, <1>4, <3>1
  <2> QED
    BY <1>2, <2>1 DEF Timed
<1>8. Timed(a) /\ Len(a) >= 1 /\ a[Len(a)].t = plotClock
  <2>1. ASSUME NEW i \in 1..(k + 1) PROVE a[i].t \in Nat
    <3>1. n - k + i \in 1..(n + 1)
      BY <1>1, <1>2, <1>3
    <3> QED
      BY <1>2, <1>6, <1>7, <3>1 DEF Timed
  <2> QED
    BY <1>1, <2>1 DEF Timed
<1>9. PICK p \in 1..(k + 1) :
         /\ AnySeq(new) /\ Len(new) = (k + 1) - p + 1 /\ Len(new) <= MaxPoints
         /\ \A i \in 1..Len(new) : new[i] = a[p - 1 + i]
         /\ \A i \in 1..(p - 1) : i <= (k + 1) - MaxPoints \/ a[i].t < plotClock - Retention
  BY <1>1, <1>8, RetainedFacts
<1> HIDE DEF new
<1>10. from + Len(new) <= n + 1
  BY <1>1, <1>2, <1>3, <1>9
<1>11. ASSUME NEW i \in 1..Len(new) PROVE new[i] = d[(n + 1) - Len(new) + i]
  <2>1. p - 1 + i \in 1..(k + 1) /\ n - k + (p - 1 + i) = (n + 1) - Len(new) + i
    BY <1>1, <1>2, <1>9
  <2> QED
    BY <1>6, <1>9, <2>1
<1>12. ASSUME NEW j \in from + 1 .. (n + 1) - Len(new)
       PROVE  j <= (n + 1) - MaxPoints \/ d[j].t < plotClock - Retention
  <2>1. CASE j <= n - k
    <3>1. j \in from + 1 .. n - k /\ j \in 1..n
      BY <1>1, <1>2, <1>3, <1>9, <2>1
    <3>2. j <= n - MaxPoints => j <= (n + 1) - MaxPoints
      BY <1>2, <1>3, <1>5
    <3> QED
      BY <1>2, <1>3, <3>1, <3>2
  <2>2. CASE ~(j <= n - k)
    <3> DEFINE i == j - (n - k)
    <3>1. i \in 1..(p - 1) /\ i \in 1..(k + 1) /\ n - k + i = j
      BY <1>1, <1>2, <1>3, <1>9, <2>2
    <3>2. a[i] = d[j]
      BY <1>6, <3>1
    <3>3. i <= (k + 1) - MaxPoints => j <= (n + 1) - MaxPoints
      BY <1>1, <1>2, <1>3, <1>5, <3>1
    <3> HIDE DEF i
    <3> QED
      BY <1>9, <3>1, <3>2, <3>3
  <2> QED
    BY <2>1, <2>2
<1>13. TailOf(new, d, from, plotClock)
  BY <1>2, <1>3, <1>9, <1>10, <1>11, <1>12 DEF TailOf
<1> QED
  BY <1>7, <1>13 DEF new, a, d

-----------------------------------------------------------------------------
(* The inductive invariant of a plot panel.                                *)

\* Each field a message has can be read from it.
Legible(m) ==
    /\ DiscoverFields(m) \subseteq PlotFields
    /\ \A f \in DiscoverFields(m) : ReadField(m, f) = <<m.n, f>>

\* What is older than the retention before this time is not shown.
ViewEdge == IF Paused THEN plotView.latest ELSE plotClock

ViewInBounds ==
    /\ plotClock \in Nat
    /\ Paused => /\ plotView.end \in Int /\ plotView.span \in Int
                 /\ plotView.latest \in Nat /\ plotView.latest <= plotClock
                 /\ plotView.end - plotView.span >= plotView.latest - Retention

PickedRight ==
    /\ picked.fields \subseteq PlotFields
    /\ picked.fields # {} => picked.ch \in PlotChannels

HistoryTimed == DOMAIN carried = Series /\ \A s \in Series : Timed(carried[s])

BuffersRight ==
    /\ DOMAIN points \subseteq SeriesOf(plots) /\ DOMAIN since = SeriesOf(plots)
    /\ \A s \in SeriesOf(plots) : TailOf(BufferOf(points, s), carried[s], since[s], ViewEdge)

PlotInv ==
    /\ plots \in Seq(SUBSET Series)
    /\ \A c \in DOMAIN lastPlotted : Legible(lastPlotted[c])
    /\ ViewInBounds /\ PickedRight /\ HistoryTimed /\ BuffersRight

LEMMA SeriesTypes ==
    ASSUME NEW ps \in Seq(SUBSET Series)
    PROVE  SeriesOf(ps) \subseteq Series
BY DEF SeriesOf

\* A message of JointState type.
LEMMA JointLegible ==
    ASSUME NEW n, NEW k \in Nat, NEW names \in [1..k -> PlotFields]
    PROVE  Legible(JointMessage(n, names)) /\ JointMessage(n, names).n = n
<1> DEFINE m == JointMessage(n, names)
<1>1. /\ m.n = n /\ m.names = names
      /\ m.positions = [i \in DOMAIN names |-> <<n, names[i]>>]
  BY DEF JointMessage
<1> HIDE DEF m
<1>2. DiscoverFields(m) = {names[i] : i \in 1..k}
  BY <1>1 DEF DiscoverFields, ToSet
<1>3. ASSUME NEW f \in DiscoverFields(m) PROVE ReadField(m, f) = <<m.n, f>>
  <2> DEFINE i == CHOOSE i \in DOMAIN m.names : m.names[i] = f
  <2>1. \E j \in DOMAIN m.names : m.names[j] = f
    BY <1>1, <1>2
  <2>2. i \in DOMAIN m.names /\ m.names[i] = f
    BY <2>1
  <2>3. ReadField(m, f) = m.positions[i]
    BY DEF ReadField
  <2> HIDE DEF i
  <2> QED
    BY <1>1, <2>2, <2>3
<1> QED
  BY <1>1, <1>2, <1>3 DEF Legible, m

\* Nothing lost is that is to be shown, when messages come to subplots ps.
LEMMA PlottedTail ==
    ASSUME plotClock \in Nat, HistoryTimed, NEW ps \in Seq(SUBSET Series), NEW buf, NEW messages,
           \A c \in DOMAIN messages : Legible(messages[c]),
           NEW s \in SeriesOf(ps), NEW from, TailOf(BufferOf(buf, s), carried[s], from, ViewEdge)
    PROVE  TailOf(BufferOf(Plotted(ps, buf, messages), s), Carries(messages)[s], from, ViewEdge)
<1>1. s \in Series
  BY SeriesTypes
<1> DEFINE buf2 == Plotted(ps, buf, messages)
           m == messages[s[1]]
           e == [t |-> plotClock, v |-> ReadField(m, s[2])]
<1>2. CASE ~Concerns(messages, s) \/ Paused
  <2>1. Carries(messages)[s] = carried[s]
    BY <1>1, <1>2 DEF Carries
  <2>2. BufferOf(buf2, s) = BufferOf(buf, s)
    <3>1. CASE s \in DOMAIN buf2
      BY <1>2, <3>1 DEF Plotted, BufferOf
    <3>2. CASE s \notin DOMAIN buf2
      BY <3>2 DEF Plotted, BufferOf
    <3> QED
      BY <3>1, <3>2
  <2> HIDE DEF buf2
  <2> QED
    BY <2>1, <2>2 DEF buf2
<1>3. CASE Concerns(messages, s) /\ ~Paused
  <2>1. ReadField(m, s[2]) = <<m.n, s[2]>>
    BY <1>3 DEF Concerns, Legible
  <2>2. Carries(messages)[s] = Append(carried[s], [t |-> plotClock, v |-> <<m.n, s[2]>>])
    BY <1>1, <1>3 DEF Carries
  <2>3. BufferOf(buf2, s) = Retained(Append(BufferOf(buf, s), e))
    <3>1. s \in DOMAIN buf2
      BY <1>3 DEF Plotted
    <3>2. buf2[s] = Retained(Append(BufferOf(buf, s), e))
      BY <1>3 DEF Plotted
    <3> QED
      BY <3>1, <3>2 DEF BufferOf
  <2>4. e = [t |-> plotClock, v |-> <<m.n, s[2]>>] /\ e.t = plotClock
    BY <2>1
  <2>5. ViewEdge = plotClock /\ Timed(carried[s])
    BY <1>1, <1>3 DEF ViewEdge, HistoryTimed
  <2> HIDE DEF e, buf2
  <2>6. TailOf(Retained(Append(BufferOf(buf, s), e)), Append(carried[s], e), from, plotClock)
    BY <2>4, <2>5, TailGrows
  <2> QED
    BY <2>2, <2>3, <2>4, <2>5, <2>6 DEF buf2
<1> QED
  BY <1>2, <1>3

LEMMA CarriesTimed ==
    ASSUME plotClock \in Nat, HistoryTimed, NEW messages
    PROVE  DOMAIN Carries(messages) = Series /\ \A s \in Series : Timed(Carries(messages)[s])
<1>1. ASSUME NEW s \in Series PROVE Timed(Carries(messages)[s])
  <2> DEFINE c == carried[s]
  <2>1. Timed(c)
    BY DEF HistoryTimed
  <2>2. ASSUME NEW e, e.t = plotClock PROVE Timed(Append(c, e))
    <3>1. /\ AnySeq(Append(c, e)) /\ Len(c) \in Nat /\ Len(Append(c, e)) = Len(c) + 1
          /\ \A i \in 1..Len(c) : Append(c, e)[i] = c[i]
          /\ Append(c, e)[Len(c) + 1] = e
      BY <2>1, AppendFacts DEF Timed
    <3>2. ASSUME NEW i \in 1..(Len(c) + 1) PROVE Append(c, e)[i].t \in Nat
      <4>1. i = Len(c) + 1 \/ i \in 1..Len(c)
        BY <3>1
      <4>2. CASE i = Len(c) + 1
        BY <2>2, <3>1, <4>2
      <4>3. CASE i \in 1..Len(c)
        BY <2>1, <3>1, <4>3 DEF Timed
      <4> QED
        BY <4>1, <4>2, <4>3
    <3> QED
      BY <3>1, <3>2 DEF Timed
  <2>3. CASE ~Concerns(messages, s) \/ Paused
    BY <2>1, <2>3 DEF Carries
  <2>4. CASE Concerns(messages, s) /\ ~Paused
    <3> DEFINE e == [t |-> plotClock, v |-> <<messages[s[1]].n, s[2]>>]
    <3>1. Carries(messages)[s] = Append(c, e) /\ e.t = plotClock
      BY <2>4 DEF Carries
    <3> HIDE DEF e, c
    <3> QED
      BY <2>2, <3>1
  <2> QED
    BY <2>3, <2>4
<1> QED
  BY <1>1 DEF Carries

LEMMA PlotInitInv == PlotInit => PlotInv
<1> SUFFICES ASSUME PlotInit PROVE PlotInv
  OBVIOUS
<1>1. plots \in Seq(SUBSET Series)
  <2>1. \A x \in SUBSET Series : <<x>> \in Seq(SUBSET Series)
    OBVIOUS
  <2>2. {} \in SUBSET Series /\ \A s \in Series : {s} \in SUBSET Series
    OBVIOUS
  <2> QED
    BY <2>1, <2>2 DEF PlotInit
<1>2. /\ points = <<>> /\ plotView = LiveView /\ picked = NotPicked /\ lastPlotted = <<>>
      /\ plotClock = 0 /\ carried = [s \in Series |-> <<>>]
      /\ since = [s \in SeriesOf(plots) |-> 0]
  BY DEF PlotInit
<1>3. AnySeq(<<>>) /\ Len(<<>>) = 0 /\ DOMAIN <<>> = {}
  BY NoneYet
<1>4. Timed(<<>>)
  BY <1>3 DEF Timed
<1>5. HistoryTimed
  BY <1>2, <1>4 DEF HistoryTimed
<1>6. ViewInBounds /\ PickedRight /\ \A c \in DOMAIN lastPlotted : Legible(lastPlotted[c])
  BY <1>2, <1>3 DEF ViewInBounds, PickedRight, Paused, NotPicked
<1>7. ASSUME NEW s \in SeriesOf(plots)
      PROVE  TailOf(BufferOf(points, s), carried[s], since[s], ViewEdge)
  <2>1. BufferOf(points, s) = <<>> /\ carried[s] = <<>> /\ since[s] = 0
    BY <1>1, <1>2, <1>3, SeriesTypes DEF BufferOf
  <2> QED
    BY <1>3, <2>1, PlotAssumption DEF TailOf
<1> QED
  BY <1>1, <1>2, <1>3, <1>5, <1>6, <1>7 DEF PlotInv, BuffersRight

\* Subplots ps are persisted, and the buffers follow.
LEMMA PersistInv ==
    ASSUME PlotInv, NEW ps \in Seq(SUBSET Series), PersistPlots(ps), UNCHANGED picked
    PROVE  PlotInv'
<1>1. /\ plots' = ps /\ points' = Plotted(ps, Pruned(ps), Replayed(ps))
      /\ carried' = Carries(Replayed(ps))
      /\ since' = [s \in SeriesOf(ps) |-> IF s \in DOMAIN since THEN since[s] ELSE Len(carried[s])]
      /\ UNCHANGED <<plotView, plotClock, lastPlotted>>
  BY DEF PersistPlots, PlotEdit
<1>2. /\ plotClock \in Nat /\ HistoryTimed /\ BuffersRight
      /\ \A c \in DOMAIN lastPlotted : Legible(lastPlotted[c])
  BY DEF PlotInv, ViewInBounds
<1>3. \A c \in DOMAIN Replayed(ps) : Legible(Replayed(ps)[c])
  BY <1>2 DEF Replayed
<1>4. HistoryTimed'
  BY <1>1, <1>2, CarriesTimed DEF HistoryTimed
<1>5. DOMAIN points' \subseteq SeriesOf(ps) /\ DOMAIN since' = SeriesOf(ps)
  BY <1>1 DEF Plotted, Pruned
<1>6. ViewEdge' = ViewEdge
  BY <1>1 DEF ViewEdge, Paused
<1>7. ASSUME NEW s \in SeriesOf(ps)
      PROVE  TailOf(BufferOf(points', s), carried'[s], since'[s], ViewEdge)
  <2>1. TailOf(BufferOf(Pruned(ps), s), carried[s], since'[s], ViewEdge)
    <3>1. CASE s \in DOMAIN since
      <4>1. BufferOf(Pruned(ps), s) = BufferOf(points, s)
        BY DEF Pruned, BufferOf
      <4>2. s \in SeriesOf(plots) /\ since'[s] = since[s]
        BY <1>1, <1>2, <3>1 DEF BuffersRight
      <4> QED
        BY <1>2, <4>1, <4>2 DEF BuffersRight
    <3>2. CASE s \notin DOMAIN since
      <4>1. BufferOf(Pruned(ps), s) = <<>>
        BY <1>2, <3>2 DEF Pruned, BufferOf, BuffersRight
      <4>2. since'[s] = Len(carried[s]) /\ Len(carried[s]) \in Nat
        BY <1>1, <1>2, <3>2, SeriesTypes, AppendFacts DEF HistoryTimed, Timed
      <4>3. AnySeq(<<>>) /\ Len(<<>>) = 0
        BY NoneYet
      <4> QED
        BY <4>1, <4>2, <4>3, PlotAssumption DEF TailOf
    <3> QED
      BY <3>1, <3>2
  <2> QED
    BY <1>1, <1>2, <1>3, <2>1, PlottedTail
<1>8. BuffersRight'
  BY <1>1, <1>5, <1>6, <1>7 DEF BuffersRight, BufferOf, SeriesOf
<1>9. ViewInBounds' /\ PickedRight'
  BY <1>1 DEF PlotInv, ViewInBounds, PickedRight, Paused
<1> QED
  BY <1>1, <1>2, <1>4, <1>8, <1>9 DEF PlotInv

LEMMA MessageInv ==
    ASSUME PlotInv, NEW ch \in PlotChannels, NEW k \in Nat, NEW names \in [1..k -> PlotFields],
           PlotMessage(ch, names)
    PROVE  PlotInv'
<1> DEFINE m == JointMessage(plotMessages', names)
           messages == [c \in {ch} |-> m]
<1>1. /\ lastPlotted' = IF ch \in LatchedPlots
                        THEN [c \in DOMAIN lastPlotted \cup {ch} |->
                                 IF c = ch THEN m ELSE lastPlotted[c]]
                        ELSE lastPlotted
      /\ points' = Plotted(plots, points, messages)
      /\ carried' = Carries(messages) /\ picked' = Picks(ch, m)
      /\ UNCHANGED <<plots, plotView, plotClock, since>>
  BY DEF PlotMessage
<1>2. /\ plots \in Seq(SUBSET Series) /\ plotClock \in Nat /\ HistoryTimed /\ BuffersRight
      /\ \A c \in DOMAIN lastPlotted : Legible(lastPlotted[c])
  BY DEF PlotInv, ViewInBounds
<1>3. Legible(m)
  BY JointLegible
<1> HIDE DEF m
<1>4. \A c \in DOMAIN messages : Legible(messages[c])
  BY <1>3
<1> HIDE DEF messages
<1>5. HistoryTimed'
  BY <1>1, <1>2, CarriesTimed DEF HistoryTimed
<1>6. DOMAIN points' \subseteq SeriesOf(plots)
  BY <1>1, <1>2 DEF Plotted, BuffersRight
<1>7. ViewEdge' = ViewEdge
  BY <1>1 DEF ViewEdge, Paused
<1>8. \A s \in SeriesOf(plots) : TailOf(BufferOf(points', s), carried'[s], since[s], ViewEdge)
  BY <1>1, <1>2, <1>4, PlottedTail DEF BuffersRight
<1>9. BuffersRight'
  BY <1>1, <1>2, <1>6, <1>7, <1>8 DEF BuffersRight, BufferOf, SeriesOf
<1>10. \A c \in DOMAIN lastPlotted' : Legible(lastPlotted'[c])
  BY <1>1, <1>2, <1>3
<1>11. PickedRight'
  BY <1>1, <1>3 DEF PlotInv, PickedRight, Picks, Legible
<1>12. ViewInBounds'
  BY <1>1 DEF PlotInv, ViewInBounds, Paused
<1> QED
  BY <1>1, <1>2, <1>5, <1>9, <1>10, <1>11, <1>12 DEF PlotInv

\* As time goes on, more is old.
LEMMA TailAges ==
    ASSUME NEW kept, NEW c, NEW from, NEW a \in Int, NEW b \in Int, a <= b, Timed(c),
           TailOf(kept, c, from, a)
    PROVE  TailOf(kept, c, from, b)
<1>1. Len(c) \in Nat /\ Len(kept) \in Nat /\ from \in Nat /\ Retention \in Nat
  BY AppendFacts, PlotAssumption DEF Timed, TailOf
<1>2. ASSUME NEW j \in from + 1 .. Len(c) - Len(kept)
      PROVE  j <= Len(c) - MaxPoints \/ c[j].t < b - Retention
  <2>1. j \in 1..Len(c)
    BY <1>1
  <2>2. c[j].t \in Nat
    BY <2>1 DEF Timed
  <2> QED
    BY <1>1, <2>2 DEF TailOf
<1> QED
  BY <1>2 DEF TailOf

\* The view changes or the clock goes on, and no buffer does.
LEMMA ViewInv ==
    ASSUME PlotInv, UNCHANGED <<plots, points, lastPlotted, carried, since>>,
           ViewInBounds', PickedRight', ViewEdge <= ViewEdge'
    PROVE  PlotInv'
<1>1. /\ plots \in Seq(SUBSET Series) /\ HistoryTimed /\ BuffersRight
      /\ \A c \in DOMAIN lastPlotted : Legible(lastPlotted[c])
  BY DEF PlotInv
<1>2. ViewEdge \in Int /\ ViewEdge' \in Int
  BY DEF PlotInv, ViewInBounds, ViewEdge, Paused
<1>3. HistoryTimed'
  BY <1>1 DEF HistoryTimed
<1>4. \A s \in SeriesOf(plots) : TailOf(BufferOf(points, s), carried[s], since[s], ViewEdge')
  <2>1. ASSUME NEW s \in SeriesOf(plots)
        PROVE  TailOf(BufferOf(points, s), carried[s], since[s], ViewEdge')
    <3>1. Timed(carried[s]) /\ TailOf(BufferOf(points, s), carried[s], since[s], ViewEdge)
      BY <1>1, SeriesTypes DEF HistoryTimed, BuffersRight
    <3> DEFINE old == ViewEdge
               new == ViewEdge'
               kept == BufferOf(points, s)
               c == carried[s]
               from == since[s]
    <3>2. /\ old \in Int /\ new \in Int /\ old <= new
          /\ Timed(c) /\ TailOf(kept, c, from, old)
      BY <1>2, <3>1
    <3> HIDE DEF old, new, kept, c, from
    <3>3. TailOf(kept, c, from, new)
      BY <3>2, TailAges
    <3> QED
      BY <3>3 DEF new, kept, c, from
  <2> QED
    BY <2>1
<1>5. BuffersRight'
  BY <1>1, <1>4 DEF BuffersRight, BufferOf, SeriesOf
<1> QED
  BY <1>1, <1>3, <1>5 DEF PlotInv

LEMMA SpanBounds ==
    ASSUME NEW span \in Int
    PROVE  SpanWithin(span) \in 1..Retention
<1>1. Retention \in Nat /\ Retention >= 1
  BY PlotAssumption
<1> DEFINE wide == Max({MinSpan, span})
<1>2. wide = IF 1 >= span THEN 1 ELSE span
  BY GreatestOfTwo DEF MinSpan
<1> HIDE DEF wide
<1>3. wide \in Int /\ wide >= 1
  BY <1>2
<1>4. Min({Retention, wide}) = IF Retention <= wide THEN Retention ELSE wide
  BY <1>1, <1>3, LeastOfTwo
<1> QED
  BY <1>1, <1>3, <1>4 DEF SpanWithin, wide

LEMMA ClampedView ==
    ASSUME NEW end \in Int, NEW span \in Int, NEW latest \in Int
    PROVE  LET v == ClampView(end, span, latest)
           IN  /\ v.end \in Int /\ v.span \in Int /\ v.latest = latest
               /\ v.end - v.span >= latest - Retention
<1> DEFINE s == SpanWithin(span)
           first == latest - Retention + s
           late == Max({first, end})
<1>1. s \in 1..Retention /\ Retention \in Nat
  BY SpanBounds, PlotAssumption
<1>2. ClampView(end, span, latest) =
         [end |-> Min({latest, late}), span |-> s, latest |-> latest]
  BY DEF ClampView
<1> HIDE DEF s
<1>3. first \in Int
  BY <1>1
<1> HIDE DEF first
<1>4. late = IF first >= end THEN first ELSE end
  BY <1>3, GreatestOfTwo
<1> HIDE DEF late
<1>5. late \in Int /\ late >= first
  BY <1>3, <1>4
<1>6. Min({latest, late}) = IF latest <= late THEN latest ELSE late
  BY <1>5, LeastOfTwo
<1> DEFINE e == Min({latest, late})
<1>7. e \in Int /\ e - s >= latest - Retention
  BY <1>1, <1>5, <1>6 DEF first
<1> HIDE DEF e
<1> QED
  BY <1>1, <1>2, <1>7 DEF e

\* The view is moved or stretched in a pause.
LEMMA MovedInv ==
    ASSUME PlotInv, Paused, ViewChange,
           plotView'.end \in Int, plotView'.span \in Int, plotView'.latest = plotView.latest,
           plotView'.end - plotView'.span >= plotView.latest - Retention
    PROVE  PlotInv'
<1>1. UNCHANGED <<plots, points, lastPlotted, carried, since, plotClock, picked>>
  BY DEF ViewChange, PlotEdit
<1>2. plotClock \in Nat /\ plotView.latest \in Nat /\ plotView.latest <= plotClock /\ PickedRight
  BY DEF PlotInv, ViewInBounds
<1>3. Paused'
  <2>1. plotView' # LiveView
    <3>1. LiveView.latest = -1
      BY DEF LiveView
    <3>2. plotView'.latest # -1
      BY <1>2
    <3> QED
      BY <3>1, <3>2
  <2> QED
    BY <2>1 DEF Paused
<1>4. ViewInBounds'
  BY <1>1, <1>2 DEF ViewInBounds
<1>5. ViewEdge <= ViewEdge'
  BY <1>2, <1>3 DEF ViewEdge
<1>6. PickedRight'
  BY <1>1, <1>2 DEF PickedRight
<1> QED
  BY <1>1, <1>4, <1>5, <1>6, ViewInv

LEMMA WithoutOne ==
    ASSUME NEW S, NEW q \in Seq(S), NEW i \in DOMAIN q
    PROVE  RemoveAt(q, i) \in Seq(S)
<1>1. Len(q) \in Nat /\ i \in 1..Len(q)
  BY LenProperties
<1>2. SubSeq(q, 1, i - 1) \in Seq(S) /\ SubSeq(q, i + 1, Len(q)) \in Seq(S)
  <2>1. \A j \in 1..Len(q) : q[j] \in S
    BY ElementOfSeq
  <2>2. /\ SubSeq(q, 1, i - 1) \in Seq(S)
        /\ SubSeq(q, i + 1, Len(q)) \in Seq(S)
    BY <1>1, <2>1, SubSeqProperties
  <2> QED
    BY <2>2
<1> QED
  BY <1>2, ConcatProperties DEF RemoveAt

LEMMA SubplotsStaySo ==
    ASSUME NEW ps \in Seq(SUBSET Series), NEW i \in DOMAIN ps, NEW new \in SUBSET Series
    PROVE  [ps EXCEPT ![i] = new] \in Seq(SUBSET Series)
BY ExceptSeq

LEMMA PlotStepInv == PlotInv /\ [PlotNext]_plotVars => PlotInv'
<1> SUFFICES ASSUME PlotInv, [PlotNext]_plotVars PROVE PlotInv'
  OBVIOUS
<1>1. /\ plots \in Seq(SUBSET Series) /\ PickedRight /\ ViewInBounds
      /\ \A c \in DOMAIN lastPlotted : Legible(lastPlotted[c])
  BY DEF PlotInv
<1>2. /\ plotClock \in Nat /\ Retention \in Nat /\ PlotWindow \in Nat /\ PlotWindow <= Retention
      /\ Paused => /\ plotView.end \in Int /\ plotView.span \in Int
                   /\ plotView.latest \in Nat /\ plotView.latest <= plotClock
                   /\ plotView.end - plotView.span >= plotView.latest - Retention
  BY <1>1, PlotAssumption DEF ViewInBounds
<1>3. ASSUME NEW ch \in PlotChannels, NEW k \in 1..Cardinality(PlotFields),
             NEW names \in Injection(1..k, PlotFields), PlotMessage(ch, names)
      PROVE  PlotInv'
  <2>1. k \in Nat /\ names \in [1..k -> PlotFields]
    BY DEF Injection, IsInjective
  <2> QED
    BY <1>3, <2>1, MessageInv
<1>4. ASSUME NEW i \in DOMAIN plots, NEW fields \in SUBSET PlotFields,
             fields # {} => picked.ch \in PlotChannels,
             AddSeriesMany(i, picked.ch, fields)
      PROVE  PlotInv'
  <2> DEFINE toAdd == {<<picked.ch, f>> : f \in fields} \ plots[i]
             new == plots[i] \cup toAdd
  <2>1. PersistPlots([plots EXCEPT ![i] = new]) /\ UNCHANGED picked
    BY <1>4 DEF AddSeriesMany
  <2>2. toAdd \subseteq Series
    BY <1>4 DEF Series
  <2>3. plots[i] \in SUBSET Series
    BY <1>1
  <2>4. [plots EXCEPT ![i] = new] \in Seq(SUBSET Series)
    BY <1>1, <2>2, <2>3, SubplotsStaySo
  <2> QED
    BY <2>1, <2>4, PersistInv
<1>5. ASSUME NEW i \in DOMAIN plots, AddPicked(i) PROVE PlotInv'
  <2>1. CASE AddSeriesMany(i, picked.ch, picked.fields)
    BY <1>1, <1>4, <2>1 DEF PickedRight
  <2>2. ASSUME NEW f \in picked.fields, AddSeriesMany(i, picked.ch, {f}) PROVE PlotInv'
    <3>1. {f} \in SUBSET PlotFields /\ picked.ch \in PlotChannels
      BY <1>1 DEF PickedRight
    <3> QED
      BY <1>4, <2>2, <3>1
  <2> QED
    BY <1>5, <2>1, <2>2 DEF AddPicked
<1>6. ASSUME NEW i \in DOMAIN plots, RemovePlot(i) PROVE PlotInv'
  <2>1. RemoveAt(plots, i) \in Seq(SUBSET Series)
    BY <1>1, WithoutOne
  <2> QED
    BY <1>6, <2>1, PersistInv DEF RemovePlot
<1>7. ASSUME NEW i \in DOMAIN plots, NEW s \in plots[i], RemoveSeries(i, s) PROVE PlotInv'
  <2>1. plots[i] \ {s} \in SUBSET Series
    BY <1>1
  <2>2. [plots EXCEPT ![i] = plots[i] \ {s}] \in Seq(SUBSET Series)
    BY <1>1, <2>1, SubplotsStaySo
  <2> QED
    BY <1>7, <2>2, PersistInv DEF RemoveSeries
<1>8. ASSUME NEW ch \in PlotChannels, PickChannel(ch) PROVE PlotInv'
  <2>1. UNCHANGED <<plots, points, lastPlotted, carried, since, plotClock, plotView>>
    BY <1>8 DEF PickChannel, PlotEdit
  <2>2. PickedRight'
    <3>1. picked' = [ch |-> ch,
                     fields |-> IF ch \in DOMAIN lastPlotted THEN DiscoverFields(lastPlotted[ch])
                                ELSE {}]
      BY <1>8 DEF PickChannel
    <3> QED
      BY <1>1, <3>1 DEF PickedRight, Legible
  <2>3. ViewInBounds' /\ ViewEdge' = ViewEdge
    BY <1>1, <2>1 DEF ViewInBounds, ViewEdge, Paused
  <2>4. ViewEdge <= ViewEdge'
    BY <1>2, <2>3 DEF ViewEdge
  <2> QED
    BY <2>1, <2>2, <2>3, <2>4, ViewInv
<1>9. CASE AddPlot
  <2>1. Append(plots, {}) \in Seq(SUBSET Series)
    <3>1. {} \in SUBSET Series
      OBVIOUS
    <3> QED
      BY <1>1, <3>1, AppendProperties
  <2> QED
    BY <1>9, <2>1, PersistInv DEF AddPlot
<1>10. CASE PlotTick
  <2>1. /\ UNCHANGED <<plots, points, lastPlotted, carried, since, plotView, picked>>
        /\ plotClock' = plotClock + 1
    BY <1>10 DEF PlotTick
  <2>2. PickedRight' /\ (Paused' <=> Paused)
    BY <1>1, <2>1 DEF PickedRight, Paused
  <2>3. ViewInBounds' /\ ViewEdge <= ViewEdge'
    BY <1>2, <2>1, <2>2 DEF ViewInBounds, ViewEdge
  <2> QED
    BY <2>1, <2>2, <2>3, ViewInv
<1>11. CASE TogglePause
  <2>1. /\ UNCHANGED <<plots, points, lastPlotted, carried, since, plotClock, picked>>
        /\ plotView' = IF Paused THEN LiveView
                       ELSE [end |-> plotClock, span |-> PlotWindow, latest |-> plotClock]
    BY <1>11 DEF TogglePause, ViewChange, PlotEdit
  <2>2. PickedRight'
    BY <1>1, <2>1 DEF PickedRight
  <2>3. ViewInBounds' /\ ViewEdge <= ViewEdge'
    <3>1. CASE Paused
      <4>1. ~Paused'
        BY <2>1, <3>1 DEF Paused
      <4> QED
        BY <1>2, <2>1, <3>1, <4>1 DEF ViewInBounds, ViewEdge
    <3>2. CASE ~Paused
      <4>1. plotView'.end = plotClock /\ plotView'.span = PlotWindow /\ plotView'.latest = plotClock
        BY <2>1, <3>2
      <4>2. ViewEdge = plotClock /\ ViewEdge' = plotClock
        BY <2>1, <3>2, <4>1 DEF ViewEdge
      <4> QED
        BY <1>2, <2>1, <4>1, <4>2 DEF ViewInBounds
    <3> QED
      BY <3>1, <3>2
  <2> QED
    BY <2>1, <2>2, <2>3, ViewInv
<1>12. CASE FitView
  <2>1. /\ Paused /\ ViewChange /\ plotView'.end = plotView.latest
        /\ plotView'.span = PlotWindow /\ plotView'.latest = plotView.latest
    BY <1>12 DEF FitView
  <2>2. /\ plotView'.end \in Int /\ plotView'.span \in Int
        /\ plotView'.end - plotView'.span >= plotView.latest - Retention
    BY <1>2, <2>1
  <2> QED
    BY <2>1, <2>2, MovedInv
<1>13. ASSUME NEW end \in Int, NEW span \in Int, Paused, ViewChange,
              plotView' = ClampView(end, span, plotView.latest)
       PROVE  PlotInv'
  <2>1. plotView.latest \in Int
    BY <1>2, <1>13
  <2>2. /\ plotView'.end \in Int /\ plotView'.span \in Int /\ plotView'.latest = plotView.latest
        /\ plotView'.end - plotView'.span >= plotView.latest - Retention
    BY <1>13, <2>1, ClampedView
  <2> QED
    BY <1>13, <2>2, MovedInv
<1>14. ASSUME NEW right \in BOOLEAN, NEW out \in BOOLEAN, ZoomAt(right, out) PROVE PlotInv'
  <2> DEFINE wanted == IF out THEN plotView.span * 2 ELSE plotView.span \div 2
             span == SpanWithin(wanted)
             cursor == plotView.end - (IF right THEN 0 ELSE plotView.span)
             end == cursor + (IF right THEN 0 ELSE span)
  <2>1. /\ Paused /\ ViewChange /\ plotView' = ClampView(end, span, plotView.latest)
    BY <1>14 DEF ZoomAt
  <2>2. wanted \in Int /\ cursor \in Int
    BY <1>2, <2>1
  <2>3. span \in Int
    <3> HIDE DEF wanted
    <3> QED
      BY <1>2, <2>2, SpanBounds
  <2>4. end \in Int
    <3> HIDE DEF span, cursor
    <3> QED
      BY <2>2, <2>3
  <2> HIDE DEF end, span
  <2> QED
    BY <1>13, <2>1, <2>3, <2>4
<1>15. ASSUME NEW d \in {-1, 1}, PanBy(d) PROVE PlotInv'
  <2> DEFINE end == plotView.end - d * plotView.span
  <2>1. Paused /\ ViewChange /\ plotView' = ClampView(end, plotView.span, plotView.latest)
    BY <1>15 DEF PanBy
  <2>2. end \in Int /\ plotView.span \in Int
    <3>1. plotView.end \in Int /\ plotView.span \in Int /\ d \in Int
      BY <1>2, <2>1
    <3> QED
      BY <3>1
  <2> HIDE DEF end
  <2> QED
    BY <1>13, <2>1, <2>2
<1>16. CASE UNCHANGED plotVars
  BY <1>16 DEF plotVars, PlotInv, ViewInBounds, PickedRight, HistoryTimed, BuffersRight,
               BufferOf, SeriesOf, ViewEdge, Paused
<1> QED
  BY <1>3, <1>5, <1>6, <1>7, <1>8, <1>9, <1>10, <1>11, <1>12, <1>14, <1>15, <1>16 DEF PlotNext

-----------------------------------------------------------------------------
\* What is on view is not too old to be kept.
LEMMA OnViewIsRecent ==
    ASSUME ViewInBounds, NEW t \in Int, Shows(t)
    PROVE  t >= ViewEdge - Retention
BY PlotAssumption DEF ViewInBounds, Shows, ViewEdge

\* A series is drawn as its values are.
LEMMA SeriesFaithful ==
    ASSUME PlotInv, NEW s \in SeriesOf(plots)
    PROVE  LET kept == BufferOf(points, s)
               values == ValuesOf(s)
               lost == Len(values) - Len(kept)
           IN  /\ Drawn(values) = {lost + i : i \in Drawn(kept)}
               /\ \A i \in Drawn(kept) : values[lost + i] = kept[i]
<1> DEFINE c == carried[s]
           from == since[s]
           kept == BufferOf(points, s)
           values == ValuesOf(s)
           n == Len(c)
           k == Len(kept)
           base == Max({from, n - MaxPoints})
           v == n - base
           lost == v - k
<1>1. Timed(c) /\ TailOf(kept, c, from, ViewEdge) /\ ViewInBounds
  <2>1. s \in Series
    BY SeriesTypes DEF PlotInv
  <2> QED
    BY <2>1 DEF PlotInv, HistoryTimed, BuffersRight
<1>2. values = SubSeq(c, base + 1, Len(c))
  BY DEF ValuesOf
<1> HIDE DEF c, kept, from, values
<1>3. /\ n \in Nat /\ AnySeq(c) /\ \A i \in 1..n : c[i].t \in Nat
      /\ k \in Nat /\ AnySeq(kept) /\ k <= MaxPoints /\ DOMAIN kept = 1..k
      /\ from \in Nat /\ from + k <= n
      /\ \A i \in 1..k : kept[i] = c[n - k + i]
      /\ \A j \in from + 1 .. n - k : j <= n - MaxPoints \/ c[j].t < ViewEdge - Retention
  BY <1>1, AppendFacts DEF Timed, TailOf
<1>4. MaxPoints \in Nat /\ MaxPoints >= 1 /\ Retention \in Nat /\ ViewEdge \in Int
  BY <1>1, PlotAssumption DEF ViewInBounds, ViewEdge
<1> HIDE DEF n, k
<1>5. base = IF from >= n - MaxPoints THEN from ELSE n - MaxPoints
  BY <1>3, <1>4, GreatestOfTwo
<1> HIDE DEF base
<1>6. /\ base \in Nat /\ base >= from /\ base >= n - MaxPoints /\ base + k <= n
      /\ v \in Nat /\ lost \in Nat
  BY <1>3, <1>4, <1>5
<1>7. Len(values) = v /\ DOMAIN values = 1..v /\ \A i \in 1..v : values[i] = c[base + i]
  <2>1. CASE v = 0
    <3>1. base + 1 > Len(c)
      BY <1>3, <1>6, <2>1 DEF n
    <3>2. PICK M : c \in Seq(M)
      BY <1>3 DEF AnySeq
    <3>3. Len(values) = 0 /\ values \in Seq(M)
      BY <1>2, <1>3, <1>6, <3>1, <3>2, SubSeqProperties DEF n
    <3> QED
      BY <2>1, <3>3, LenProperties
  <2>2. CASE v # 0
    <3>1. base + 1 \in 1..Len(c)
      BY <1>3, <1>6, <2>2 DEF n
    <3>2. /\ AnySeq(values) /\ Len(values) = Len(c) - (base + 1) + 1
          /\ \A i \in 1..Len(values) : values[i] = c[(base + 1) - 1 + i]
      BY <1>2, <1>3, <3>1, SuffixFacts
    <3>3. Len(values) = v
      BY <1>3, <1>6, <3>2 DEF n
    <3>4. DOMAIN values = 1..v
      BY <3>2, <3>3, AppendFacts
    <3>5. \A i \in 1..v : (base + 1) - 1 + i = base + i
      BY <1>6
    <3> QED
      BY <3>2, <3>3, <3>4, <3>5
  <2> QED
    BY <2>1, <2>2
<1>8. ASSUME NEW i \in 1..k PROVE lost + i \in 1..v /\ values[lost + i] = kept[i]
  <2>1. lost + i \in 1..v /\ base + (lost + i) = n - k + i
    BY <1>3, <1>6
  <2> QED
    BY <1>3, <1>7, <2>1
<1>9. ASSUME NEW j \in 1..v, Shows(values[j].t) PROVE j - lost \in 1..k
  <2>1. base + j \in 1..n /\ values[j] = c[base + j]
    BY <1>3, <1>6, <1>7
  <2>2. c[base + j].t >= ViewEdge - Retention
    <3>1. c[base + j].t \in Int
      BY <1>3, <2>1
    <3> QED
      BY <1>1, <1>9, <2>1, <3>1, OnViewIsRecent
  <2>3. ~(base + j \in from + 1 .. n - k)
    <3>1. ~(base + j <= n - MaxPoints)
      BY <1>3, <1>4, <1>6
    <3>2. c[base + j].t \in Int /\ ~(c[base + j].t < ViewEdge - Retention)
      BY <1>3, <1>4, <2>1, <2>2
    <3> QED
      BY <1>3, <3>1, <3>2
  <2>4. base + j > n - k
    BY <1>3, <1>6, <2>1, <2>3
  <2> QED
    BY <1>3, <1>6, <2>4
<1>10. Drawn(values) = {lost + i : i \in Drawn(kept)}
  <2>1. ASSUME NEW j \in Drawn(values) PROVE \E i \in Drawn(kept) : j = lost + i
    <3>1. j \in 1..v /\ Shows(values[j].t)
      BY <1>7 DEF Drawn
    <3>2. j - lost \in 1..k /\ lost + (j - lost) = j
      BY <1>6, <1>9, <3>1
    <3>3. kept[j - lost] = values[j]
      BY <1>8, <3>2
    <3>4. j - lost \in Drawn(kept)
      BY <1>3, <3>1, <3>2, <3>3 DEF Drawn
    <3> QED
      BY <3>2, <3>4
  <2>2. ASSUME NEW i \in Drawn(kept) PROVE lost + i \in Drawn(values)
    <3>1. i \in 1..k /\ Shows(kept[i].t)
      BY <1>3 DEF Drawn
    <3> QED
      BY <1>7, <1>8, <3>1 DEF Drawn
  <2> HIDE DEF lost
  <2> QED
    BY <2>1, <2>2
<1>11. \A i \in Drawn(kept) : values[lost + i] = kept[i]
  BY <1>3, <1>8 DEF Drawn
<1> QED
  BY <1>7, <1>10, <1>11 DEF kept, values, k

(***************************************************************************)
(* Of all that its channel carried for a series, as far back as MAX_POINTS *)
(* go, what is in the time on view is drawn, once and in order, and        *)
(* nothing else is, for any fields, subplots, messages and sizes of the    *)
(* window, and whatever was paused, zoomed and moved: a buffer that loses  *)
(* what is older than the retention loses nothing a view can go back to.   *)
(***************************************************************************)
THEOREM PlotFaithfulHolds == PlotSpec => []PlotFaithful
<1>1. PlotInv => PlotFaithful
  <2> SUFFICES ASSUME PlotInv PROVE PlotFaithful
    OBVIOUS
  <2>1. DOMAIN points \subseteq SeriesOf(plots)
    BY DEF PlotInv, BuffersRight
  <2> QED
    BY <2>1, SeriesFaithful DEF PlotFaithful
<1> QED
  BY <1>1, PlotInitInv, PlotStepInv, PTL DEF PlotSpec
=============================================================================
