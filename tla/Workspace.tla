----------------------------- MODULE Workspace -----------------------------
(***************************************************************************)
(* The tiling workspace of a window (packages/app/src/store/tabs.store.ts, *)
(* ui/WorkspaceView.tsx, tabs/ThreeDTab.tsx), its copy in localStorage and *)
(* the named layouts at the hub (store/layouts.ts, ui/TopBar.tsx,          *)
(* hub/src/session_store.ts).                                              *)
(*                                                                         *)
(* A workspace is its panes in the order the split tree is walked: a split *)
(* puts the new pane behind the old one, closing a pane takes it out, and  *)
(* only rectangles depend on the shape of the tree.  A panel is its type   *)
(* and, for a 3D one, its displays; panes and panels take their ids from   *)
(* one counter.                                                            *)
(***************************************************************************)
EXTENDS Naturals, Sequences

LOCAL INSTANCE SequencesExt

CONSTANTS
    DisplayLists,    \* what a 3D panel can have displayed, beside nothing
    MaxPanes,        \* bound: panes at once
    MaxIds,          \* bound: panes and panels made
    MaxLayoutCalls   \* bound: saves, loads and deletions

ASSUME WorkspaceAssumption ==
    /\ {MaxPanes, MaxIds, MaxLayoutCalls} \subseteq Nat \ {0}
    /\ DisplayLists # {} /\ "none" \notin DisplayLists

None == [panes |-> <<>>, pool |-> <<>>, focused |-> 0, maximized |-> 0]

PanelTypes == {"3d", "plot"}
Panel(type) == [type |-> type, displays |-> "none"]

\* What was saved before panes: panels of which one was shown at a time.
Legacy == [None EXCEPT !.pool = [t \in {MaxIds + 1, MaxIds + 2} |->
              [type |-> "3d", displays |-> CHOOSE d \in DisplayLists : TRUE]]]

VARIABLES
    work,       \* the store: panes, the pool of panels, focus and maximized pane
    mounted,    \* the panels on the screen, by the pane they are in
    stored,     \* localStorage
    pending,    \* what the timer of 400 ms will write there; None without it
    storageFull,
    saved,      \* the named layout at the hub
    loaded,      \* a layout on its way from there
    ids, layoutCalls

workspaceVars == <<work, mounted, stored, pending, storageFull, saved, loaded,
                   ids, layoutCalls>>

-----------------------------------------------------------------------------
PaneIds(panes) == {panes[i].id : i \in DOMAIN panes}
Owned(panes) == {panes[i].tab : i \in DOMAIN panes} \ {0}

Kept(f, keys) == [k \in keys \cap DOMAIN f |-> f[k]]

\* Mutant: what no pane owns any more stays in the pool.
Mut_GcNothing(pool, panes) == pool

GcPanels(pool, panes) == Kept(pool, Owned(panes))

EmptyWorkspace(id) ==
    [panes |-> <<[id |-> id, tab |-> 0]>>, pool |-> <<>>, focused |-> id, maximized |-> 0]

First(pool) == IF pool = <<>> THEN 0
               ELSE CHOOSE t \in DOMAIN pool : \A u \in DOMAIN pool : t <= u

\* A pane that has gone is neither focused nor maximized.
Refocused(w) ==
    [w EXCEPT !.focused = IF @ \in PaneIds(w.panes) THEN @ ELSE w.panes[1].id,
              !.maximized = IF @ \in PaneIds(w.panes) THEN @ ELSE 0]

\* sanitizeSplit and gcPanels; without panes the first panel fills a new one.
Sanitized(cfg, id) ==
    LET panes == IF cfg.panes = <<>> THEN <<[id |-> id, tab |-> First(cfg.pool)]>>
                 ELSE [i \in DOMAIN cfg.panes |->
                          [cfg.panes[i] EXCEPT !.tab = IF @ \in DOMAIN cfg.pool THEN @ ELSE 0]]
    IN  Refocused([cfg EXCEPT !.panes = panes, !.pool = GcPanels(@, panes)])

\* What React mounts of w: a pane that has shown a panel of this type before
\* goes on with it, any other reads what the panel's settings say.
Rendered(w, before) ==
    [l \in {p.id : p \in {p \in ToSet(w.panes) : p.tab # 0}} |->
        LET t == (CHOOSE p \in ToSet(w.panes) : p.id = l).tab
        IN  [type |-> w.pool[t].type, tab |-> t,
             live |-> IF l \in DOMAIN before /\ before[l].type = w.pool[t].type
                      THEN before[l].live ELSE w.pool[t].displays]]

WorkspaceInit ==
    /\ stored \in {None, Legacy}
    /\ work = Sanitized(stored, 1) /\ mounted = Rendered(work, <<>>)
    /\ pending = None /\ storageFull \in BOOLEAN
    /\ saved = stored /\ loaded = None
    /\ ids = 1 /\ layoutCalls = 0

-----------------------------------------------------------------------------
\* Mutant: a timer that runs keeps what it was set for.
Mut_SnapshotFirst(w) == IF pending = None THEN w ELSE pending

\* Every change starts the timer again, for what there is now.
Snapshot(w) == w

Becomes(w) == work' = w /\ pending' = Snapshot(w) /\ mounted' = Rendered(w, mounted)

NewIds(n) == ids + n <= MaxIds /\ ids' = ids + n

Elsewhere == UNCHANGED <<stored, storageFull, saved, loaded, layoutCalls>>

\* The panes that can be clicked on; a maximized one covers the others.
Shown == {i \in DOMAIN work.panes : work.maximized \in {0, work.panes[i].id}}

\* Mutant: the pane that is split becomes the new one.
Mut_SplitPanes(i, id) ==
    InsertAt([work.panes EXCEPT ![i].id = id], i + 1, [id |-> work.panes[i].id, tab |-> 0])

SplitPanes(i, id) == InsertAt(work.panes, i + 1, [id |-> id, tab |-> 0])

SplitPane(i) ==
    /\ Len(work.panes) < MaxPanes
    /\ NewIds(1)
    /\ Becomes([work EXCEPT !.panes = SplitPanes(i, ids'), !.focused = ids', !.maximized = 0])
    /\ Elsewhere

\* Closing the only pane leaves an empty one.
ClosePane(i) ==
    /\ IF Len(work.panes) > 1
       THEN LET rest == RemoveAt(work.panes, i)
            IN  /\ Becomes(Refocused([work EXCEPT !.panes = rest, !.pool = GcPanels(@, rest)]))
                /\ UNCHANGED ids
       ELSE NewIds(1) /\ Becomes(EmptyWorkspace(ids'))
    /\ Elsewhere

SetPaneType(i, type) ==
    /\ work.panes[i].tab # 0 => work.pool[work.panes[i].tab].type # type
    /\ NewIds(1)
    /\ LET panes == [work.panes EXCEPT ![i].tab = ids']
           pool == [t \in DOMAIN work.pool \cup {ids'} |->
                       IF t = ids' THEN Panel(type) ELSE work.pool[t]]
       IN  Becomes([work EXCEPT !.panes = panes, !.pool = GcPanels(pool, panes),
                                !.focused = panes[i].id])
    /\ Elsewhere

FocusPane(i) ==
    /\ work.focused # work.panes[i].id
    /\ Becomes([work EXCEPT !.focused = work.panes[i].id])
    /\ UNCHANGED ids /\ Elsewhere

ToggleMaximize(i) ==
    /\ LET l == work.panes[i].id
       IN  Becomes([work EXCEPT !.maximized = IF @ = l THEN 0 ELSE l, !.focused = l])
    /\ UNCHANGED ids /\ Elsewhere

\* The displays of a 3D panel are changed, and written back: persist.
EditDisplays(i, list) ==
    LET p == work.panes[i]
        w == [work EXCEPT !.pool[p.tab].displays = list]
    IN  /\ p.tab # 0 /\ mounted[p.id].type = "3d" /\ mounted[p.id].live # list
        /\ work' = w /\ pending' = Snapshot(w)
        /\ mounted' = [mounted EXCEPT ![p.id].live = list]
        /\ UNCHANGED ids /\ Elsewhere

\* A fresh layout, or demo mode turned on or off.
NewWorkspace == NewIds(1) /\ Becomes(EmptyWorkspace(ids')) /\ Elsewhere

\* The timer fires.
PersistWorkspace ==
    /\ pending # None /\ pending' = None
    /\ stored' = IF storageFull THEN stored ELSE pending
    /\ UNCHANGED <<work, mounted, storageFull, saved, loaded, ids, layoutCalls>>

\* The page is loaded again: loadInitial.
ReloadPage ==
    /\ NewIds(1)
    /\ work' = Sanitized(stored, ids') /\ mounted' = Rendered(work', <<>>)
    /\ pending' = None /\ loaded' = None
    /\ UNCHANGED <<stored, storageFull, saved, layoutCalls>>

-----------------------------------------------------------------------------
(* Named layouts.  One load at a time; what it brings may come only after  *)
(* the user has changed the workspace.                                     *)

LayoutCall ==
    /\ layoutCalls < MaxLayoutCalls /\ layoutCalls' = layoutCalls + 1
    /\ UNCHANGED <<work, mounted, stored, pending, storageFull, ids>>

SaveLayout == LayoutCall /\ saved' = work /\ UNCHANGED loaded
DeleteLayout == LayoutCall /\ saved # None /\ saved' = None /\ UNCHANGED loaded

\* The hub reads the file; a layout that is not there is reported.
LoadLayout == LayoutCall /\ loaded = None /\ loaded' = saved /\ UNCHANGED saved

ApplyWorkspace ==
    /\ loaded # None /\ loaded' = None
    /\ NewIds(1)
    /\ Becomes(Sanitized(loaded, ids'))
    /\ UNCHANGED <<stored, storageFull, saved, layoutCalls>>

WorkspaceNext ==
    \/ \E i \in Shown :
          \/ SplitPane(i) \/ ClosePane(i) \/ FocusPane(i) \/ ToggleMaximize(i)
          \/ \E type \in PanelTypes : SetPaneType(i, type)
          \/ \E list \in DisplayLists \cup {"none"} : EditDisplays(i, list)
    \/ NewWorkspace \/ PersistWorkspace \/ ReloadPage
    \/ SaveLayout \/ LoadLayout \/ ApplyWorkspace \/ DeleteLayout
-----------------------------------------------------------------------------
(***************************************************************************)
(* Each panel of the pool is owned by exactly one pane and each pane's     *)
(* panel is there; what is focused and maximized exists: after splits and  *)
(* closes, layouts from before panes, and a load that comes late           *)
(* (tabs.store.ts 13-14, 171-176).                                         *)
(***************************************************************************)
OwnedOnce ==
    /\ DOMAIN work.pool = Owned(work.panes)
    /\ \A i, j \in DOMAIN work.panes :
          i # j => /\ work.panes[i].id # work.panes[j].id
                   /\ work.panes[i].tab # 0 => work.panes[i].tab # work.panes[j].tab
    /\ work.focused \in PaneIds(work.panes)
    /\ work.maximized \in PaneIds(work.panes) \cup {0}

(***************************************************************************)
(* Once the timer has fired, a reload brings back the panels there are     *)
(* (tabs.store.ts 334-348).                                                *)
(***************************************************************************)
SavedWhenQuiet ==
    pending = None /\ ~storageFull => Sanitized(stored, 0).pool = work.pool

(***************************************************************************)
(* Splitting and closing panes, or picking panels, neither mounts another  *)
(* panel again nor changes what it shows: the pane it is in keeps its key  *)
(* (WorkspaceView.tsx 5-11).                                               *)
(***************************************************************************)
PanesStayMounted ==
    [][work'.panes # work.panes /\ ~(ReloadPage \/ ApplyWorkspace) =>
          \A l \in DOMAIN mounted : mounted[l].tab \in DOMAIN work'.pool =>
              l \in DOMAIN mounted' /\ mounted'[l] = mounted[l]]_workspaceVars
=============================================================================
