------------------------------ MODULE Viewers ------------------------------
(***************************************************************************)
(* The panels that show what comes on their channels as it is              *)
(* (packages/app/src/tabs/ImageTab.tsx, LogTab.tsx, InspectorTab.tsx and   *)
(* MapTab.tsx).  They share nothing, so a behaviour is about one of them.  *)
(*                                                                         *)
(* A message is known by its number; of a log entry its level counts, of a *)
(* map where it lies.                                                      *)
(***************************************************************************)
EXTENDS Naturals, Sequences, FiniteSets

CONSTANTS
    ViewChannels,
    MaxEntries,    \* MAX_ENTRIES of the log
    MaxRender,     \* MAX_RENDER
    MaxViewed,     \* bound: messages
    MaxViewEdits   \* bound: what the user does, and changes of the channel list

\* What a panel is set to that shows no channel.
Unset == ""

ASSUME ViewerAssumption ==
    /\ {MaxEntries, MaxRender, MaxViewed, MaxViewEdits} \subseteq Nat
    /\ Unset \notin ViewChannels

Layouts == {1, 2}
Levels == {"info", "debug"}
Empty == [ch |-> Unset, n |-> 0]

VARIABLES
    viewer,                \* the panel: "image", "log", "inspector" or "map"
    grid, canvas, decodes, mounts,  \* image: settings; what each cell shows;
                                    \* frames being decoded; how often it was mounted
    entries, levels, logShown,      \* log: the buffer, the filter, what is rendered
    selected, snapshot,             \* inspector
    viewPaused,                     \* log and inspector
    mapChannel, mapGrid, needsFit, mapView, mapDrawn, \* map; what the view was fitted to
    logged, unseen,                 \* history: entries since the last clear; there was
                                    \* no map when its channel was chosen, nor since
    viewed, viewEdits

imageVars == <<grid, canvas, decodes, mounts>>
logVars == <<entries, levels, logShown, logged>>
inspectorVars == <<selected, snapshot>>
mapVars == <<mapChannel, mapGrid, needsFit, mapView, mapDrawn, unseen>>
viewerVars == <<viewer, imageVars, logVars, inspectorVars, viewPaused, mapVars,
                viewed, viewEdits>>

\* readSettings: the channels of the cells the layout has.
Cells(g) == [i \in 1..g.layout |-> IF i <= Len(g.cells) THEN g.cells[i] ELSE Unset]

\* The end of the buffer, and what the log renders of it.
LastOf(s, n) == SubSeq(s, (IF Len(s) > n THEN Len(s) - n ELSE 0) + 1, Len(s))

LogView(buf, lv) == LastOf(SelectSeq(buf, LAMBDA e : e.level \in lv), MaxRender)

ViewerInit ==
    /\ viewer \in {"image", "log", "inspector", "map"}
    /\ grid = [layout |-> 2, cells |-> <<>>] /\ canvas = [i \in Layouts |-> Empty]
    /\ decodes = {} /\ mounts = [i \in Layouts |-> 0]
    /\ entries = <<>> /\ levels = {"info"} /\ logged = <<>>
    /\ logShown = LogView(<<>>, levels)
    /\ selected = Unset /\ snapshot = Empty /\ viewPaused = FALSE
    /\ mapChannel = Unset /\ mapGrid = Empty /\ needsFit = TRUE /\ mapView = Empty
    /\ mapDrawn = Empty /\ unseen = TRUE
    /\ viewed = 0 /\ viewEdits = 0

ViewMessage(kind) == viewer = kind /\ viewed < MaxViewed /\ viewed' = viewed + 1
                     /\ UNCHANGED <<viewer, viewEdits>>
ViewEdit(kind) == viewer = kind /\ viewEdits < MaxViewEdits /\ viewEdits' = viewEdits + 1
                  /\ UNCHANGED <<viewer, viewed>>

-----------------------------------------------------------------------------
(* Image *)

Decoding(i) == \E d \in decodes : d.cell = i /\ d.mount = mounts[i]

\* Mutant: a frame is decoded whether or not the one before is.
Mut_TakesAny(ch) == {i \in 1..grid.layout : Cells(grid)[i] = ch}

\* The cells that take a frame; those still decoding drop it.
Takes(ch) == {i \in 1..grid.layout : Cells(grid)[i] = ch /\ ~Decoding(i)}

\* A raw frame is painted at once, a compressed one is decoded by the browser.
ImageFrame(ch, raw) ==
    /\ ViewMessage("image")
    /\ LET frame == [ch |-> ch, n |-> viewed']
       IN  IF raw
           THEN /\ canvas' = [i \in Layouts |-> IF i \in Takes(ch) THEN frame ELSE canvas[i]]
                /\ UNCHANGED decodes
           ELSE /\ decodes' = decodes \cup {[cell |-> i, mount |-> mounts[i], frame |-> frame] :
                                              i \in Takes(ch)}
                /\ UNCHANGED canvas
    /\ UNCHANGED <<grid, mounts, logVars, inspectorVars, viewPaused, mapVars>>

\* Decoded, or not decodable; a cell mounted since has another canvas.
ImageDecoded(d, ok) ==
    /\ viewer = "image"
    /\ d \in decodes /\ decodes' = decodes \ {d}
    /\ canvas' = IF ok /\ d.mount = mounts[d.cell]
                 THEN [canvas EXCEPT ![d.cell] = d.frame] ELSE canvas
    /\ UNCHANGED <<viewer, grid, mounts, logVars, inspectorVars, viewPaused, mapVars,
                   viewed, viewEdits>>

\* A cell whose channel changes, or that was not there, is mounted anew.
Remounted(g) ==
    {i \in Layouts : IF i \in 1..g.layout
                     THEN i > grid.layout \/ Cells(g)[i] # Cells(grid)[i]
                     ELSE i <= grid.layout}

SetGrid(g) ==
    /\ ViewEdit("image")
    /\ grid' = g
    /\ canvas' = [i \in Layouts |-> IF i \in Remounted(g) THEN Empty ELSE canvas[i]]
    /\ mounts' = [i \in Layouts |-> IF i \in Remounted(g) THEN mounts[i] + 1 ELSE mounts[i]]
    /\ UNCHANGED <<decodes, logVars, inspectorVars, viewPaused, mapVars>>

SetLayout(layout) ==
    /\ layout # grid.layout
    /\ SetGrid([layout |-> layout, cells |-> Cells(grid)])

\* What a larger layout had in further cells is forgotten.
BindCell(i, ch) ==
    /\ i \in 1..grid.layout
    /\ SetGrid([grid EXCEPT !.cells = [Cells(grid) EXCEPT ![i] = ch]])

-----------------------------------------------------------------------------
(* Log *)

\* Mutant: a paused panel does not take entries.
Mut_LogTakenUnlessPaused(e) == IF viewPaused THEN entries ELSE LastOf(Append(entries, e), MaxEntries)

LogTaken(e) == LastOf(Append(entries, e), MaxEntries)

LogMessage(level) ==
    /\ ViewMessage("log")
    /\ LET e == [n |-> viewed', level |-> level]
       IN  entries' = LogTaken(e) /\ logged' = Append(logged, e)
    /\ UNCHANGED <<levels, logShown, imageVars, inspectorVars, viewPaused, mapVars>>

LogRest == UNCHANGED <<imageVars, inspectorVars, mapVars>>

\* Every 200 ms, unless it is paused.
LogFlush ==
    /\ viewer = "log" /\ ~viewPaused
    /\ logShown' = LogView(entries, levels)
    /\ UNCHANGED <<viewer, entries, levels, logged, viewPaused, viewed, viewEdits>> /\ LogRest

\* Each of these renders the panel, paused or not.
PauseLog ==
    /\ ViewEdit("log")
    /\ viewPaused' = ~viewPaused /\ logShown' = LogView(entries, levels)
    /\ UNCHANGED <<entries, levels, logged>> /\ LogRest

SetLevel(lv) ==
    /\ ViewEdit("log")
    /\ levels' = lv /\ logShown' = LogView(entries, lv)
    /\ UNCHANGED <<entries, logged, viewPaused>> /\ LogRest

ClearLog ==
    /\ ViewEdit("log")
    /\ entries' = <<>> /\ logged' = <<>> /\ logShown' = LogView(<<>>, levels)
    /\ UNCHANGED <<levels, viewPaused>> /\ LogRest

\* A channel comes or goes, somewhere.
ChannelsChange ==
    /\ ViewEdit("log")
    /\ logShown' = LogView(entries, levels)
    /\ UNCHANGED <<entries, levels, logged, viewPaused>> /\ LogRest

-----------------------------------------------------------------------------
(* Inspector *)

InspectorRest == UNCHANGED <<imageVars, logVars, mapVars>>

\* Mutant: the message of the last channel stays.
Mut_SelectKeeps(ch) == selected' = ch /\ UNCHANGED snapshot

Select(ch) == selected' = ch /\ snapshot' = Empty

\* The user selects a channel; the first there is, if none was.
SelectChannel(ch) ==
    /\ ViewEdit("inspector")
    /\ ch # selected /\ Select(ch)
    /\ UNCHANGED viewPaused /\ InspectorRest

PauseInspector ==
    /\ ViewEdit("inspector")
    /\ viewPaused' = ~viewPaused
    /\ UNCHANGED inspectorVars /\ InspectorRest

InspectorMessage(ch) ==
    /\ ViewMessage("inspector")
    /\ snapshot' = IF ch = selected /\ ~viewPaused THEN [ch |-> ch, n |-> viewed'] ELSE snapshot
    /\ UNCHANGED <<selected, viewPaused>> /\ InspectorRest

-----------------------------------------------------------------------------
(* Map *)

MapRest == UNCHANGED <<imageVars, logVars, inspectorVars, viewPaused>>

\* Mutant: a view that was once moved stays.
Mut_PickMapUnfitted(ch) ==
    /\ ViewEdit("map")
    /\ ch # mapChannel /\ mapChannel' = ch
    /\ mapGrid' = IF ch = Unset THEN Empty ELSE mapGrid
    /\ unseen' = (mapGrid' = Empty)
    /\ UNCHANGED <<needsFit, mapView, mapDrawn>> /\ MapRest

\* The effect of a new channel: only without one the map goes.
PickMap(ch) ==
    /\ ViewEdit("map")
    /\ ch # mapChannel /\ mapChannel' = ch
    /\ mapGrid' = IF ch = Unset THEN Empty ELSE mapGrid
    /\ needsFit' = (needsFit \/ ch # Unset)
    /\ unseen' = (mapGrid' = Empty)
    /\ UNCHANGED <<mapView, mapDrawn>> /\ MapRest

MapMessage(ch) ==
    /\ ViewMessage("map")
    /\ mapGrid' = IF ch = mapChannel THEN [ch |-> ch, n |-> viewed'] ELSE mapGrid
    /\ UNCHANGED <<mapChannel, needsFit, mapView, mapDrawn, unseen>> /\ MapRest

\* Wheel or drag.
MoveMap ==
    /\ ViewEdit("map")
    /\ needsFit' = FALSE /\ mapView' = Empty /\ unseen' = FALSE
    /\ UNCHANGED <<mapChannel, mapGrid, mapDrawn>> /\ MapRest

FitMap ==
    /\ ViewEdit("map")
    /\ needsFit' = TRUE
    /\ UNCHANGED <<mapChannel, mapGrid, mapView, mapDrawn, unseen>> /\ MapRest

\* A frame: drawMap, while the frame of the map is known to the tree.
DrawMap(known) ==
    /\ viewer = "map"
    /\ mapDrawn' = IF known THEN mapGrid ELSE Empty
    /\ LET fits == needsFit /\ mapDrawn' # Empty
       IN  /\ mapView' = IF fits THEN mapGrid ELSE mapView
           /\ needsFit' = (needsFit /\ ~fits)
    /\ unseen' = (unseen /\ mapDrawn' = Empty)
    /\ UNCHANGED <<viewer, mapChannel, mapGrid, viewed, viewEdits>> /\ MapRest

ViewerNext ==
    \/ \E ch \in ViewChannels :
          \/ \E raw \in BOOLEAN : ImageFrame(ch, raw)
          \/ InspectorMessage(ch) \/ MapMessage(ch) \/ SelectChannel(ch)
    \/ \E d \in decodes, ok \in BOOLEAN : ImageDecoded(d, ok)
    \/ \E ch \in ViewChannels \cup {Unset} : PickMap(ch) \/ \E i \in Layouts : BindCell(i, ch)
    \/ \E layout \in Layouts : SetLayout(layout)
    \/ \E level \in Levels : LogMessage(level)
    \/ \E lv \in SUBSET Levels : SetLevel(lv)
    \/ LogFlush \/ PauseLog \/ ClearLog \/ ChannelsChange \/ PauseInspector
    \/ MoveMap \/ FitMap
    \/ \E known \in BOOLEAN : DrawMap(known)
-----------------------------------------------------------------------------
(***************************************************************************)
(* While a cell keeps its channel its picture never goes back, however     *)
(* long the browser takes to decode (ImageTab.tsx 119-121, 181).           *)
(***************************************************************************)
ImageNeverGoesBack ==
    [][\A i \in Layouts : mounts'[i] = mounts[i] => canvas'[i].n >= canvas[i].n]_viewerVars

(***************************************************************************)
(* A panel shows what came for what it is set to, also when that has just  *)
(* changed: a cell and the inspector what their channel brought            *)
(* (InspectorTab.tsx 55-56, ImageTab.tsx 88), the log the last entries     *)
(* since it was cleared that its filter lets through, up to some moment    *)
(* and without a gap, so that none is lost in a pause (LogTab.tsx 84-91).  *)
(***************************************************************************)
ShownIsBound ==
    /\ \A i \in 1..grid.layout : canvas[i] # Empty => canvas[i].ch = Cells(grid)[i]
    /\ snapshot # Empty => snapshot.ch = selected
    /\ \E k \in 0..Len(logged) :
          logShown = LogView(LastOf(SubSeq(logged, 1, k), MaxEntries), levels)

(***************************************************************************)
(* "auto-fit to the grid extent on first sight" (MapTab.tsx 346): the view *)
(* is that of the first map there is for a channel, unless it was moved    *)
(* meanwhile.  From one channel to another the old map stays until then,   *)
(* and a frame may spend the fit on it.                                    *)
(***************************************************************************)
MapFitted ==
    [][unseen /\ mapGrid # Empty /\ mapDrawn' = mapGrid => mapView' = mapGrid]_viewerVars
=============================================================================
