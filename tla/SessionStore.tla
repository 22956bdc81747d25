--------------------------- MODULE SessionStore ---------------------------
(***************************************************************************)
(* The layouts the hub keeps as files (packages/hub/src/session_store.ts,  *)
(* behind /api/layouts of asset_server.ts) and the menus of several        *)
(* windows that list, save and delete them (LayoutMenu of                  *)
(* packages/app/src/ui/TopBar.tsx, store/layouts.ts).                      *)
(*                                                                         *)
(* The hub's handlers await the file system, so that they interleave: a    *)
(* save first empties its file and then writes it.  A write goes over what *)
(* another one has put into the file since, whose tail stays if it is      *)
(* longer.  Reading a layout (get) changes nothing: it is Readable below,  *)
(* and Workspace has what a window does with it.                           *)
(***************************************************************************)
EXTENDS Integers

CONSTANTS
    LayoutNames, LayoutFiles,
    FileFor,        \* fileFor: the file of a name; several names may share one
    Texts,          \* workspaces, serialised
    TextSize,       \* their lengths
    StoreWindows, StoreCalls, MaxStoreActs  \* bounds: menus, calls at a time, acts

Nothing == "nothing"

ASSUME StoreAssumption ==
    /\ FileFor \in [LayoutNames -> LayoutFiles]
    /\ TextSize \in [Texts -> Nat \ {0}] /\ Nothing \notin Texts
    /\ MaxStoreActs \in Nat

VARIABLES
    files,       \* what is in each file; NoFile if it is not there
    calls,       \* save and delete at the hub
    menu,        \* names: the files each window lists
    refreshing,  \* the windows that have asked for a list
    due,         \* history: what the last save or delete has left in each file,
    hurt,        \* and the files that a failure, a crash or two saves at once may spoil
    storeActs

storeVars == <<files, calls, menu, refreshing, due, hurt, storeActs>>

Absent == [text |-> Nothing, size |-> -1]
Emptied == [text |-> Nothing, size |-> 0]
Contents == [text : Texts \cup {Nothing}, size : Nat \cup {-1}]

NoCall == [op |-> "none"]
StoreRequests == {NoCall}
         \cup [op : {"save", "opened", "unlinked"}, by : StoreWindows, file : LayoutFiles, text : Texts]
         \cup [op : {"delete"}, by : StoreWindows, file : LayoutFiles]

\* The saves that have the file open.
Saving(f) == {c \in StoreCalls : calls[c].op = "opened" /\ calls[c].file = f}

StoreInit ==
    /\ files = [f \in LayoutFiles |-> Absent]
    /\ calls = [c \in StoreCalls |-> NoCall]
    /\ menu = [w \in StoreWindows |-> {}] /\ refreshing = {}
    /\ due = [f \in LayoutFiles |-> Nothing] /\ hurt = {}
    /\ storeActs = 0

-----------------------------------------------------------------------------
(* The menu *)

Acts == storeActs < MaxStoreActs /\ storeActs' = storeActs + 1

Ask(call) ==
    /\ Acts
    /\ \E c \in StoreCalls : calls[c] = NoCall /\ calls' = [calls EXCEPT ![c] = call]
    /\ UNCHANGED <<files, menu, refreshing, due, hurt>>

SaveAs(w, name, t) == Ask([op |-> "save", by |-> w, file |-> FileFor[name], text |-> t])
DeleteListed(w, f) == f \in menu[w] /\ Ask([op |-> "delete", by |-> w, file |-> f])

OpenMenu(w) ==
    /\ Acts
    /\ refreshing' = refreshing \cup {w}
    /\ UNCHANGED <<files, calls, menu, due, hurt>>

\* list
Refreshed(w) ==
    /\ w \in refreshing /\ refreshing' = refreshing \ {w}
    /\ menu' = [menu EXCEPT ![w] = {f \in LayoutFiles : files[f] # Absent}]
    /\ UNCHANGED <<files, calls, due, hurt, storeActs>>

-----------------------------------------------------------------------------
(* The hub *)

\* An answer: what was asked for and is well leads to a new list.
Answered(c, ok) ==
    /\ calls' = [calls EXCEPT ![c] = NoCall]
    /\ refreshing' = IF ok THEN refreshing \cup {calls[c].by} ELSE refreshing

\* Mutant: a file that is there is not emptied.
Mut_OpenedKeeps(f) == IF files[f] = Absent THEN Emptied ELSE files[f]

Opened(f) == Emptied

SaveOpens(c) ==
    LET f == calls[c].file
    IN  /\ calls[c].op = "save"
        /\ calls' = [calls EXCEPT ![c].op = "opened"]
        /\ files' = [files EXCEPT ![f] = Opened(f)]
        /\ hurt' = IF Saving(f) = {} THEN hurt \ {f} ELSE hurt \cup {f}
        /\ UNCHANGED <<menu, refreshing, due, storeActs>>

Over(content, t) ==
    IF content.size > TextSize[t] THEN [content EXCEPT !.text = Nothing]
    ELSE [text |-> t, size |-> TextSize[t]]

SaveWrites(c) ==
    LET f == calls[c].file
    IN  /\ calls[c].op = "opened"
        /\ files' = [files EXCEPT ![f] = Over(@, calls[c].text)]
        /\ due' = [due EXCEPT ![f] = calls[c].text]
        /\ Answered(c, TRUE)
        /\ UNCHANGED <<menu, hurt, storeActs>>

\* The disk is full.
SaveFails(c) ==
    /\ calls[c].op = "opened"
    /\ hurt' = hurt \cup {calls[c].file}
    /\ Answered(c, FALSE)
    /\ UNCHANGED <<files, menu, due, storeActs>>

\* Into a file that was deleted after it had been opened.
SaveLost(c) ==
    /\ calls[c].op = "unlinked"
    /\ Answered(c, TRUE)
    /\ UNCHANGED <<files, menu, due, hurt, storeActs>>

Unlink(c) ==
    LET f == calls[c].file
        there == files[f] # Absent
    IN  /\ calls[c].op = "delete"
        /\ files' = [files EXCEPT ![f] = Absent]
        /\ due' = [due EXCEPT ![f] = Nothing]
        /\ hurt' = hurt \ {f}
        /\ calls' = [d \in StoreCalls |->
                        IF d = c THEN NoCall
                        ELSE IF d \in Saving(f) THEN [calls[d] EXCEPT !.op = "unlinked"]
                        ELSE calls[d]]
        /\ refreshing' = IF there THEN refreshing \cup {calls[c].by} ELSE refreshing
        /\ UNCHANGED <<menu, storeActs>>

\* The hub goes, in the middle of what it does, and comes back; a menu that
\* waits for a list shows none.
StoreRestarts ==
    /\ Acts
    /\ calls' = [c \in StoreCalls |-> NoCall]
    /\ hurt' = hurt \cup {f \in LayoutFiles : Saving(f) # {}}
    /\ menu' = [w \in StoreWindows |-> IF w \in refreshing THEN {} ELSE menu[w]]
    /\ refreshing' = {}
    /\ UNCHANGED <<files, due>>

StoreNext ==
    \/ \E w \in StoreWindows :
          \/ OpenMenu(w) \/ Refreshed(w)
          \/ \E name \in LayoutNames, t \in Texts : SaveAs(w, name, t)
          \/ \E f \in LayoutFiles : DeleteListed(w, f)
    \/ \E c \in StoreCalls :
          SaveOpens(c) \/ SaveWrites(c) \/ SaveFails(c) \/ SaveLost(c) \/ Unlink(c)
    \/ StoreRestarts

StoreSpec == StoreInit /\ [][StoreNext]_storeVars
-----------------------------------------------------------------------------
StoreTypeOK ==
    /\ files \in [LayoutFiles -> Contents]
    /\ calls \in [StoreCalls -> StoreRequests]
    /\ menu \in [StoreWindows -> SUBSET LayoutFiles] /\ refreshing \subseteq StoreWindows
    /\ due \in [LayoutFiles -> Texts \cup {Nothing}] /\ hurt \subseteq LayoutFiles
    /\ storeActs \in Nat

\* get: what JSON.parse accepts, or null.
Readable(f) == files[f].text

(***************************************************************************)
(* A layout is there to be loaded, whole, from when it was saved until     *)
(* another save or a delete of its file, whoever does what in between;     *)
(* but for what the store does not guard against: a failed write, a crash  *)
(* of the hub in a save, and two saves of one file at a time               *)
(* (session_store.ts 1-5, 40-52).                                          *)
(***************************************************************************)
SavedIsKept ==
    \A f \in LayoutFiles : Saving(f) = {} /\ f \notin hurt => Readable(f) = due[f]
=============================================================================
