------------------------------- MODULE MCApp -------------------------------
(***************************************************************************)
(* The hub's channel registry, and the stores, tabs and displays of the    *)
(* app that keep a state of their own and meet only through messages that  *)
(* are inputs of each.  Interleaving them shows nothing that one alone     *)
(* does not: a behaviour exercises the one that `active` picks, and the    *)
(* others stay in one of their initial states.                             *)
(***************************************************************************)
EXTENDS ChannelRegistry, RobotModel, Workspace, TFTree, Markers, Plot, Viewers, Recorder,
        SessionStore

VARIABLE active

vars == <<regVars, robotVars, workspaceVars, tfVars, markerVars, plotVars,
          viewerVars, recorderVars, storeVars, active>>

\* Two windows of the app: both connect with ?id=ui (sourcePublisher.ts).
SharedSources == [connA |-> "ui", connB |-> "ui", connC |-> "srcC"]

\* Two arms and a cart; one arm is of the catalogue (Online), the rest are local.
LinkSets == [arm |-> {"tip", "base"}, arm2 |-> {"tool", "base"}, cart |-> {"base"}]

\* Markers of two namespaces of which one is the beginning of the other.
Keys == {<<"arm", "1">>, <<"arm/left", "1">>}
KeyPrefixes == {<<"arm", "arm">>, <<"arm/left", "arm/left">>, <<"arm", "arm/left">>}

\* Two names that differ in a character a file name may not have.
SafeNames == [desk |-> "desk", lab1 |-> "lab_1", lab2 |-> "lab_1"]
Sizes == [short |-> 1, long |-> 2]

Init ==
    /\ active \in {"registry", "robot", "workspace", "tf", "markers",
                   "plot", "viewers", "recorder", "store"}
    /\ RegInit /\ RobotInit /\ WorkspaceInit /\ TfInit
    /\ MarkerInit /\ PlotInit /\ ViewerInit /\ RecorderInit /\ StoreInit
    /\ active # "robot" => ~demoMode
    /\ active # "workspace" => stored = None /\ ~storageFull
    /\ active # "tf" => fixedFrame = "odom"
    /\ active # "markers" => markerChannel = "a"
    /\ active # "plot" => plots = <<{}>>
    /\ active # "viewers" => viewer = "image"

RegistryActs ==
    /\ active = "registry" /\ RegNext
    /\ UNCHANGED <<robotVars, workspaceVars, tfVars, markerVars, plotVars,
                   viewerVars, recorderVars, storeVars, active>>

RobotActs ==
    /\ active = "robot" /\ RobotNext
    /\ UNCHANGED <<regVars, workspaceVars, tfVars, markerVars, plotVars,
                   viewerVars, recorderVars, storeVars, active>>

WorkspaceActs ==
    /\ active = "workspace" /\ WorkspaceNext
    /\ UNCHANGED <<regVars, robotVars, tfVars, markerVars, plotVars,
                   viewerVars, recorderVars, storeVars, active>>

TfActs ==
    /\ active = "tf" /\ TfNext
    /\ UNCHANGED <<regVars, robotVars, workspaceVars, markerVars, plotVars,
                   viewerVars, recorderVars, storeVars, active>>

MarkerActs ==
    /\ active = "markers" /\ MarkerNext
    /\ UNCHANGED <<regVars, robotVars, workspaceVars, tfVars, plotVars,
                   viewerVars, recorderVars, storeVars, active>>

PlotActs ==
    /\ active = "plot" /\ PlotNext
    /\ UNCHANGED <<regVars, robotVars, workspaceVars, tfVars, markerVars,
                   viewerVars, recorderVars, storeVars, active>>

ViewerActs ==
    /\ active = "viewers" /\ ViewerNext
    /\ UNCHANGED <<regVars, robotVars, workspaceVars, tfVars, markerVars,
                   plotVars, recorderVars, storeVars, active>>

RecorderActs ==
    /\ active = "recorder" /\ RecorderNext
    /\ UNCHANGED <<regVars, robotVars, workspaceVars, tfVars, markerVars,
                   plotVars, viewerVars, storeVars, active>>

StoreActs ==
    /\ active = "store" /\ StoreNext
    /\ UNCHANGED <<regVars, robotVars, workspaceVars, tfVars, markerVars,
                   plotVars, viewerVars, recorderVars, active>>

Next == RegistryActs \/ RobotActs \/ WorkspaceActs \/ TfActs
        \/ MarkerActs \/ PlotActs \/ ViewerActs \/ RecorderActs \/ StoreActs

Spec == Init /\ [][Next]_vars
=============================================================================
