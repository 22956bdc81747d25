---------------------------- MODULE LayoutProofs ----------------------------
(***************************************************************************)
(* What becomes of the user's layout, for any panes, ids, displays, names, *)
(* files and calls: the workspace has each of its panels once, keeps them  *)
(* mounted and stores what it is, and a layout saved in the session store  *)
(* is there, whole, until its file is saved or deleted again.              *)
(***************************************************************************)
EXTENDS SessionStore, Workspace, SequenceTheorems, TLAPS

LOCAL INSTANCE SequencesExt

-----------------------------------------------------------------------------
(***************************************************************************)
(* The session store                                                       *)
(***************************************************************************)

\* A file that nothing has hurt is as the last save or delete has left it, or
\* is empty for the one save that has it open.
Sound(f) ==
    \/ Saving(f) = {} /\ Readable(f) = due[f]
    \/ files[f] = Emptied /\ \E c \in StoreCalls : Saving(f) = {c}

StoreInv == StoreTypeOK /\ \A f \in LayoutFiles : f \notin hurt => Sound(f)

\* The requests of the windows, and those the hub has under way.
LEMMA RequestTypes ==
    ASSUME NEW r \in StoreRequests, r.op \in {"save", "opened", "unlinked"}
    PROVE  /\ r.by \in StoreWindows /\ r.file \in LayoutFiles /\ r.text \in Texts
           /\ \A op \in {"save", "opened", "unlinked"} : [r EXCEPT !.op = op] \in StoreRequests
BY DEF StoreRequests, NoCall

LEMMA DeleteTypes ==
    ASSUME NEW r \in StoreRequests, r.op = "delete"
    PROVE  r.by \in StoreWindows /\ r.file \in LayoutFiles
BY DEF StoreRequests, NoCall

\* A write leaves the text alone, or something that is none.
LEMMA OverTypes ==
    ASSUME NEW content \in Contents, NEW t \in Texts
    PROVE  /\ Over(content, t) \in Contents
           /\ content = Emptied => Over(content, t).text = t
<1>1. TextSize[t] \in Nat /\ TextSize[t] # 0 BY StoreAssumption
<1> QED BY <1>1 DEF Over, Contents, Emptied

\* Files whose calls, contents and history a step leaves alone stay sound.
LEMMA SoundUnchanged ==
    ASSUME NEW f \in LayoutFiles, Saving(f)' = Saving(f), files'[f] = files[f],
           due'[f] = due[f], Sound(f)
    PROVE  Sound(f)'
BY DEF Sound, Readable

-----------------------------------------------------------------------------
LEMMA StoreInitInv == StoreInit => StoreInv
<1> SUFFICES ASSUME StoreInit PROVE StoreInv
    OBVIOUS
<1>1. StoreTypeOK
      BY StoreAssumption DEF StoreInit, StoreTypeOK, Contents, Absent, StoreRequests
<1>2. ASSUME NEW f \in LayoutFiles PROVE Sound(f)
      BY DEF StoreInit, Sound, Saving, Readable, Absent, NoCall
<1> QED BY <1>1, <1>2 DEF StoreInv

LEMMA AskInv ==
    ASSUME StoreInv, NEW call \in StoreRequests, call.op \in {"save", "delete"}, Ask(call)
    PROVE  StoreInv'
<1> USE DEF StoreInv
<1>1. PICK c \in StoreCalls : calls[c] = NoCall /\ calls' = [calls EXCEPT ![c] = call]
      BY DEF Ask
<1>2. StoreTypeOK' BY <1>1 DEF StoreTypeOK, Ask, Acts
<1>3. ASSUME NEW f \in LayoutFiles PROVE Saving(f)' = Saving(f)
  <2>1. calls[c].op # "opened" /\ calls'[c].op # "opened" BY <1>1 DEF StoreTypeOK, NoCall
  <2>2. \A d \in StoreCalls : d # c => calls'[d] = calls[d] BY <1>1 DEF StoreTypeOK
  <2> QED BY <2>1, <2>2 DEF Saving
<1>4. ASSUME NEW f \in LayoutFiles, f \notin hurt' PROVE Sound(f)'
  <2>1. files' = files /\ due' = due /\ hurt' = hurt BY DEF Ask
  <2> QED BY <2>1, <1>3, <1>4, SoundUnchanged
<1> QED BY <1>2, <1>4

LEMMA SaveOpensInv ==
    ASSUME StoreInv, NEW c \in StoreCalls, SaveOpens(c)
    PROVE  StoreInv'
<1> USE DEF StoreInv
<1>0. PICK f \in LayoutFiles : f = calls[c].file
      BY RequestTypes DEF SaveOpens, StoreTypeOK
<1>1. /\ calls[c] \in StoreRequests /\ calls[c].op = "save"
      /\ calls' = [calls EXCEPT ![c] = [calls[c] EXCEPT !.op = "opened"]]
      /\ files' = [files EXCEPT ![f] = Emptied]
      /\ hurt' = IF Saving(f) = {} THEN hurt \ {f} ELSE hurt \cup {f}
      /\ UNCHANGED <<menu, refreshing, due, storeActs>>
      BY <1>0 DEF SaveOpens, Opened, StoreTypeOK
<1>2. [calls[c] EXCEPT !.op = "opened"] \in StoreRequests
      BY <1>1, RequestTypes
<1>3. Emptied \in Contents BY DEF Emptied, Contents
<1>4. StoreTypeOK' BY <1>1, <1>2, <1>3 DEF StoreTypeOK
<1>5. /\ calls'[c].op = "opened" /\ calls'[c].file = f
      /\ \A d \in StoreCalls : d # c => calls'[d] = calls[d]
      BY <1>0, <1>1 DEF StoreTypeOK, StoreRequests, NoCall
<1>6. ASSUME NEW g \in LayoutFiles, g \notin hurt' PROVE Sound(g)'
  <2>1. CASE g = f
    <3>1. Saving(f) = {} BY <1>1, <1>6, <2>1
    <3>2. Saving(f)' = {c} BY <3>1, <1>5 DEF Saving
    <3>3. files'[f] = Emptied BY <1>1, <1>2 DEF StoreTypeOK
    <3> QED BY <2>1, <3>2, <3>3 DEF Sound
  <2>2. CASE g # f
    <3>1. Saving(g)' = Saving(g) BY <1>0, <1>1, <1>5, <2>2 DEF Saving
    <3>2. files'[g] = files[g] /\ due'[g] = due[g] /\ g \notin hurt
          BY <1>1, <1>6, <2>2 DEF StoreTypeOK
    <3> QED BY <3>1, <3>2, SoundUnchanged
  <2> QED BY <2>1, <2>2
<1> QED BY <1>4, <1>6

LEMMA SaveEndsInv ==
    ASSUME StoreInv, NEW c \in StoreCalls,
           SaveWrites(c) \/ SaveFails(c) \/ SaveLost(c)
    PROVE  StoreInv'
<1> USE DEF StoreInv
<1>0. PICK f \in LayoutFiles : f = calls[c].file
      BY RequestTypes DEF SaveWrites, SaveFails, SaveLost, StoreTypeOK
<1>1. /\ calls[c] \in StoreRequests /\ calls[c].op \in {"opened", "unlinked"}
      /\ calls' = [calls EXCEPT ![c] = NoCall]
      /\ refreshing' \in {refreshing, refreshing \cup {calls[c].by}}
      /\ UNCHANGED <<menu, storeActs>>
      BY DEF SaveWrites, SaveFails, SaveLost, Answered, StoreTypeOK
<1>2. calls[c].text \in Texts /\ calls[c].by \in StoreWindows
      BY <1>1, RequestTypes
<1>3. calls' \in [StoreCalls -> StoreRequests] /\ refreshing' \subseteq StoreWindows
      BY <1>1, <1>2 DEF StoreTypeOK, StoreRequests
<1>4. calls'[c].op # "opened" /\ \A d \in StoreCalls : d # c => calls'[d] = calls[d]
      BY <1>1 DEF StoreTypeOK, NoCall
<1>5. ASSUME NEW g \in LayoutFiles, g # f \/ calls[c].op # "opened" PROVE Saving(g)' = Saving(g)
      BY <1>0, <1>4, <1>5 DEF Saving
<1>6. CASE SaveWrites(c)
  <2>1. /\ calls[c].op = "opened" /\ hurt' = hurt
        /\ files' = [files EXCEPT ![f] = Over(files[f], calls[c].text)]
        /\ due' = [due EXCEPT ![f] = calls[c].text]
        BY <1>0, <1>6 DEF SaveWrites
  <2>2. files[f] \in Contents BY <1>2 DEF StoreTypeOK
  <2>3. StoreTypeOK' BY <1>1, <1>2, <1>3, <2>1, <2>2, OverTypes DEF StoreTypeOK
  <2>4. ASSUME NEW g \in LayoutFiles, g \notin hurt' PROVE Sound(g)'
    <3>1. CASE g = f
      <4>1. c \in Saving(f) BY <1>0, <2>1 DEF Saving
      <4>2. Saving(f) = {c} /\ files[f] = Emptied BY <4>1, <1>2, <2>1, <2>4, <3>1 DEF Sound
      <4>3. Saving(f)' = {} BY <4>2, <1>4 DEF Saving
      <4>4. files'[f].text = calls[c].text /\ due'[f] = calls[c].text
            BY <1>2, <2>1, <2>2, <4>2, OverTypes DEF StoreTypeOK
      <4> QED BY <3>1, <4>3, <4>4 DEF Sound, Readable
    <3>2. CASE g # f
      <4>1. files'[g] = files[g] /\ due'[g] = due[g] BY <2>1, <3>2 DEF StoreTypeOK
      <4> QED BY <4>1, <1>5, <2>1, <2>4, <3>2, SoundUnchanged
    <3> QED BY <3>1, <3>2
  <2> QED BY <2>3, <2>4
<1>7. CASE SaveFails(c)
  <2>1. hurt' = hurt \cup {f} /\ files' = files /\ due' = due BY <1>0, <1>7 DEF SaveFails
  <2>2. StoreTypeOK' BY <1>1, <1>2, <1>3, <2>1 DEF StoreTypeOK
  <2>3. ASSUME NEW g \in LayoutFiles, g \notin hurt' PROVE Sound(g)'
        BY <1>5, <2>1, <2>3, SoundUnchanged
  <2> QED BY <2>2, <2>3
<1>8. CASE SaveLost(c)
  <2>1. calls[c].op # "opened" /\ hurt' = hurt /\ files' = files /\ due' = due BY <1>8 DEF SaveLost
  <2>2. StoreTypeOK' BY <1>1, <1>3, <2>1 DEF StoreTypeOK
  <2>3. ASSUME NEW g \in LayoutFiles, g \notin hurt' PROVE Sound(g)'
        BY <1>5, <2>1, <2>3, SoundUnchanged
  <2> QED BY <2>2, <2>3
<1> QED BY <1>6, <1>7, <1>8

LEMMA UnlinkInv ==
    ASSUME StoreInv, NEW c \in StoreCalls, Unlink(c)
    PROVE  StoreInv'
<1> USE DEF StoreInv
<1>0. PICK f \in LayoutFiles : f = calls[c].file
      BY DeleteTypes DEF Unlink, StoreTypeOK
<1>1. /\ calls[c] \in StoreRequests /\ calls[c].op = "delete"
      /\ files' = [files EXCEPT ![f] = Absent] /\ due' = [due EXCEPT ![f] = Nothing]
      /\ hurt' = hurt \ {f}
      /\ calls' = [d \in StoreCalls |->
                      IF d = c THEN NoCall
                      ELSE IF d \in Saving(f) THEN [calls[d] EXCEPT !.op = "unlinked"]
                      ELSE calls[d]]
      /\ refreshing' \in {refreshing, refreshing \cup {calls[c].by}}
      /\ UNCHANGED <<menu, storeActs>>
      BY <1>0 DEF Unlink, StoreTypeOK
<1>2. calls[c].by \in StoreWindows BY <1>1, DeleteTypes
<1>3. Absent \in Contents BY DEF Absent, Contents
<1>4. ASSUME NEW d \in StoreCalls PROVE calls'[d] \in StoreRequests
  <2>1. CASE d \in Saving(f)
        BY <1>1, <2>1, RequestTypes DEF Saving, StoreTypeOK, StoreRequests
  <2>2. CASE d \notin Saving(f) BY <1>1, <2>2 DEF StoreTypeOK, StoreRequests
  <2> QED BY <2>1, <2>2
<1>5. StoreTypeOK'
  <2>1. calls' \in [StoreCalls -> StoreRequests] BY <1>1, <1>4
  <2> QED BY <1>1, <1>2, <1>3, <2>1 DEF StoreTypeOK
<1>6. ASSUME NEW d \in StoreCalls
      PROVE  calls'[d].op = "opened" <=> calls[d].op = "opened" /\ d \notin Saving(f)
  <2>1. CASE d \in Saving(f)
    <3>1. calls[d] \in StoreRequests /\ calls[d].op = "opened" /\ d # c
          BY <1>1, <2>1 DEF Saving, StoreTypeOK
    <3>2. [calls[d] EXCEPT !.op = "unlinked"].op # "opened" BY <3>1 DEF StoreRequests, NoCall
    <3> QED BY <1>1, <2>1, <3>1, <3>2
  <2>2. CASE d \notin Saving(f) BY <1>1, <2>2 DEF NoCall
  <2> QED BY <2>1, <2>2
<1>7. ASSUME NEW d \in StoreCalls, calls'[d].op = "opened" PROVE calls'[d] = calls[d]
      BY <1>1, <1>6, <1>7
<1>8. ASSUME NEW g \in LayoutFiles, g \notin hurt' PROVE Sound(g)'
  <2>1. CASE g = f
    <3>1. Saving(f)' = {} BY <1>6, <1>7 DEF Saving
    <3>2. files'[f] = Absent /\ due'[f] = Nothing BY <1>1, <1>2 DEF StoreTypeOK
    <3> QED BY <2>1, <3>1, <3>2 DEF Sound, Readable, Absent
  <2>2. CASE g # f
    <3>1. Saving(g)' = Saving(g) BY <1>6, <1>7, <2>2 DEF Saving
    <3>2. files'[g] = files[g] /\ due'[g] = due[g] /\ g \notin hurt
          BY <1>1, <1>8, <2>2 DEF StoreTypeOK
    <3> QED BY <3>1, <3>2, SoundUnchanged
  <2> QED BY <2>1, <2>2
<1> QED BY <1>5, <1>8

LEMMA RestartInv ==
    ASSUME StoreInv, StoreRestarts
    PROVE  StoreInv'
<1> USE DEF StoreInv
<1>1. /\ calls' = [c \in StoreCalls |-> NoCall] /\ files' = files /\ due' = due
      /\ hurt' = hurt \cup {f \in LayoutFiles : Saving(f) # {}}
      BY DEF StoreRestarts
<1>2. StoreTypeOK' BY <1>1 DEF StoreRestarts, StoreTypeOK, StoreRequests, Acts
<1>3. ASSUME NEW f \in LayoutFiles, f \notin hurt' PROVE Sound(f)'
  <2>1. Saving(f) = {} /\ Sound(f) BY <1>1, <1>3
  <2>2. Saving(f)' = {} BY <1>1 DEF Saving, NoCall
  <2> QED BY <1>1, <2>1, <2>2 DEF Sound, Readable
<1> QED BY <1>2, <1>3

\* The menus, and steps that are none of these.
LEMMA MenuInv ==
    ASSUME StoreInv, UNCHANGED <<files, calls, due, hurt>>,
           menu' \in [StoreWindows -> SUBSET LayoutFiles], refreshing' \subseteq StoreWindows,
           storeActs' \in Nat
    PROVE  StoreInv'
BY DEF StoreInv, StoreTypeOK, Sound, Saving, Readable

-----------------------------------------------------------------------------
LEMMA StoreNextInv == StoreInv /\ [StoreNext]_storeVars => StoreInv'
<1> SUFFICES ASSUME StoreInv, [StoreNext]_storeVars PROVE StoreInv'
    OBVIOUS
<1>1. ASSUME NEW w \in StoreWindows, OpenMenu(w) PROVE StoreInv'
      BY <1>1, MenuInv DEF OpenMenu, Acts, StoreInv, StoreTypeOK
<1>2. ASSUME NEW w \in StoreWindows, Refreshed(w) PROVE StoreInv'
      BY <1>2, MenuInv DEF Refreshed, StoreInv, StoreTypeOK
<1>3. ASSUME NEW w \in StoreWindows, NEW name \in LayoutNames, NEW t \in Texts, SaveAs(w, name, t)
      PROVE  StoreInv'
  <2>1. [op |-> "save", by |-> w, file |-> FileFor[name], text |-> t] \in StoreRequests
        BY StoreAssumption DEF StoreRequests
  <2> QED BY <1>3, <2>1, AskInv DEF SaveAs
<1>4. ASSUME NEW w \in StoreWindows, NEW f \in LayoutFiles, DeleteListed(w, f) PROVE StoreInv'
  <2>1. [op |-> "delete", by |-> w, file |-> f] \in StoreRequests BY DEF StoreRequests
  <2> QED BY <1>4, <2>1, AskInv DEF DeleteListed
<1>5. ASSUME NEW c \in StoreCalls,
             SaveOpens(c) \/ SaveWrites(c) \/ SaveFails(c) \/ SaveLost(c) \/ Unlink(c)
      PROVE  StoreInv'
      BY <1>5, SaveOpensInv, SaveEndsInv, UnlinkInv
<1>6. CASE StoreRestarts BY <1>6, RestartInv
<1>7. CASE UNCHANGED storeVars
      BY <1>7, MenuInv DEF storeVars, StoreInv, StoreTypeOK
<1> QED BY <1>1, <1>2, <1>3, <1>4, <1>5, <1>6, <1>7 DEF StoreNext

(***************************************************************************)
(* What is in the files is sound in every state (session_store.ts).        *)
(***************************************************************************)
THEOREM StoreInvariant == StoreSpec => []StoreInv
<1>1. StoreInit => StoreInv BY StoreInitInv
<1>2. StoreInv /\ [StoreNext]_storeVars => StoreInv' BY StoreNextInv
<1> QED BY <1>1, <1>2, PTL DEF StoreSpec

(***************************************************************************)
(* A layout is there to be loaded from when it was saved until its file is *)
(* saved or deleted again (session_store.ts 1-5, 40-52).                   *)
(***************************************************************************)
THEOREM SavedLayoutsAreKept == StoreSpec => []SavedIsKept
<1>1. StoreInv => SavedIsKept BY DEF StoreInv, Sound, SavedIsKept
<1> QED BY <1>1, StoreInvariant, PTL

-----------------------------------------------------------------------------
(***************************************************************************)
(* The workspace                                                           *)
(***************************************************************************)

WorkspaceSpec == WorkspaceInit /\ [][WorkspaceNext]_workspaceVars

Lists == DisplayLists \cup {"none"}
Panels == [type : PanelTypes, displays : Lists]
Pools == UNION {[D -> Panels] : D \in SUBSET Nat}
Panes == [id : Nat \ {0}, tab : Nat]

\* A workspace whose panes own its pool, each panel once.
Tidy(w) ==
    /\ w \in [panes : Seq(Panes), pool : Pools, focused : Nat, maximized : Nat]
    /\ w.panes # <<>>
    /\ DOMAIN w.pool = Owned(w.panes)
    /\ \A i, j \in DOMAIN w.panes :
          i # j => /\ w.panes[i].id # w.panes[j].id
                   /\ w.panes[i].tab # 0 => w.panes[i].tab # w.panes[j].tab
    /\ w.focused \in PaneIds(w.panes)
    /\ w.maximized \in PaneIds(w.panes) \cup {0}

\* Its ids were given out before the next one; those of a legacy pool are none
\* of the counter's.
Issued(w, n) ==
    \A i \in DOMAIN w.panes :
        w.panes[i].id <= n /\ (w.panes[i].tab <= n \/ w.panes[i].tab > MaxIds)

\* What can be read back: nothing, an old pool, or a workspace.
Legible(cfg, n) == cfg \in {None, Legacy} \/ (Tidy(cfg) /\ Issued(cfg, n))

\* On the screen is what the panes own.
MountedRight(w, m) ==
    /\ DOMAIN m = {w.panes[i].id : i \in {i \in DOMAIN w.panes : w.panes[i].tab # 0}}
    /\ \A l \in DOMAIN m : m[l] \in [type : PanelTypes, tab : Nat, live : Lists]
    /\ \A i \in DOMAIN w.panes : w.panes[i].tab # 0 =>
          /\ m[w.panes[i].id].tab = w.panes[i].tab
          /\ m[w.panes[i].id].type = w.pool[w.panes[i].tab].type

WorkspaceInv ==
    /\ ids \in 1..MaxIds /\ storageFull \in BOOLEAN
    /\ Tidy(work) /\ Issued(work, ids)
    /\ MountedRight(work, mounted)
    /\ Legible(stored, ids) /\ Legible(saved, ids) /\ Legible(loaded, ids)
    /\ pending \in {None, work}
    /\ SavedWhenQuiet
-----------------------------------------------------------------------------
(* Inserting into and removing from a sequence *)

\* q is s with e behind its i-th element.
Inserted(q, s, i, e) ==
    /\ Len(q) = Len(s) + 1
    /\ \A k \in 1 .. Len(s) + 1 :
          q[k] = IF k <= i THEN s[k] ELSE IF k = i + 1 THEN e ELSE s[k - 1]

LEMMA InsertFacts ==
    ASSUME NEW S, NEW s \in Seq(S), NEW e \in S, NEW i \in 1 .. Len(s)
    PROVE  InsertAt(s, i + 1, e) \in Seq(S) /\ Inserted(InsertAt(s, i + 1, e), s, i, e)
<1> DEFINE a == SubSeq(s, 1, i)
<1> DEFINE b == SubSeq(s, i + 1, Len(s))
<1>1. a \in Seq(S) /\ Len(a) = i /\ \A k \in 1..i : a[k] = s[k]
  <2>1. \A k \in 1..i : s[k] \in S
    BY ElementOfSeq
  <2> QED
    BY <2>1, SubSeqProperties
<1>2. /\ b \in Seq(S) /\ Len(b) = Len(s) - i
      /\ \A k \in 1 .. Len(s) - i : b[k] = s[k + i]
  <2>1. \A k \in i + 1 .. Len(s) : s[k] \in S
    BY ElementOfSeq
  <2> QED
    BY <2>1, SubSeqProperties
<1> HIDE DEF a, b
<1>3. /\ a \o <<e>> \in Seq(S) /\ Len(a \o <<e>>) = i + 1
      /\ \A k \in 1 .. i + 1 : (a \o <<e>>)[k] = IF k <= i THEN s[k] ELSE e
  <2>1. <<e>> \in Seq(S) /\ Len(<<e>>) = 1 /\ <<e>>[1] = e
    OBVIOUS
  <2> QED
    BY <1>1, <2>1, ConcatProperties
<1> DEFINE c == a \o <<e>>
<1> HIDE DEF c
<1>5. /\ c \o b \in Seq(S)
      /\ Len(c \o b) = Len(s) + 1
      /\ \A k \in 1 .. Len(s) + 1 : (c \o b)[k] = IF k <= i + 1 THEN c[k] ELSE b[k - (i + 1)]
  <2>1. c \in Seq(S) /\ Len(c) = i + 1
    BY <1>3 DEF c
  <2>2. /\ c \o b \in Seq(S) /\ Len(c \o b) = Len(c) + Len(b)
        /\ \A k \in 1 .. Len(c) + Len(b) :
              (c \o b)[k] = IF k <= Len(c) THEN c[k] ELSE b[k - Len(c)]
    BY <1>2, <2>1, ConcatProperties, Zenon
  <2>3. Len(c) + Len(b) = Len(s) + 1
    BY <1>2, <2>1
  <2> QED
    BY <2>1, <2>2, <2>3
<1>4. InsertAt(s, i + 1, e) = c \o b
  <2>1. (i + 1) - 1 = i
    OBVIOUS
  <2> QED
    BY <2>1 DEF InsertAt, a, b, c
<1>6. ASSUME NEW k \in 1 .. Len(s) + 1
      PROVE  (c \o b)[k] =
                 IF k <= i THEN s[k] ELSE IF k = i + 1 THEN e ELSE s[k - 1]
  <2>1. CASE k <= i + 1
    <3>1. c[k] = IF k <= i THEN s[k] ELSE e
      BY <1>3, <2>1 DEF c
    <3>2. (c \o b)[k] = c[k]
      BY <1>5, <2>1
    <3> QED
      BY <2>1, <3>1, <3>2
  <2>2. CASE k > i + 1
    <3>1. k - (i + 1) \in 1 .. Len(s) - i /\ (k - (i + 1)) + i = k - 1
      BY <2>2
    <3>2. (c \o b)[k] = b[k - (i + 1)]
      BY <1>5, <2>2
    <3>3. b[k - (i + 1)] = s[k - 1]
      BY <1>2, <3>1
    <3> QED
      BY <2>2, <3>2, <3>3
  <2>3. k \in Nat /\ i \in Nat /\ (k <= i + 1 \/ k > i + 1)
    OBVIOUS
  <2> QED
    BY <2>1, <2>2, <2>3
<1>7. Inserted(c \o b, s, i, e)
  BY <1>5, <1>6 DEF Inserted
<1> QED
  BY <1>4, <1>5, <1>7

LEMMA RemoveFacts ==
    ASSUME NEW S, NEW s \in Seq(S), NEW i \in 1 .. Len(s)
    PROVE  /\ RemoveAt(s, i) \in Seq(S)
           /\ Len(RemoveAt(s, i)) = Len(s) - 1
           /\ \A k \in 1 .. Len(s) - 1 : RemoveAt(s, i)[k] = IF k < i THEN s[k] ELSE s[k + 1]
<1> DEFINE a == SubSeq(s, 1, i - 1)
<1> DEFINE b == SubSeq(s, i + 1, Len(s))
<1>1. a \in Seq(S) /\ Len(a) = i - 1 /\ \A k \in 1 .. i - 1 : a[k] = s[k]
  <2>1. \A k \in 1 .. i - 1 : s[k] \in S
    BY ElementOfSeq
  <2> QED
    BY <2>1, SubSeqProperties
<1>2. /\ b \in Seq(S) /\ Len(b) = Len(s) - i
      /\ \A k \in 1 .. Len(s) - i : b[k] = s[k + i]
  <2>1. \A k \in i + 1 .. Len(s) : s[k] \in S
    BY ElementOfSeq
  <2> QED
    BY <2>1, SubSeqProperties
<1> HIDE DEF a, b
<1>3. RemoveAt(s, i) = a \o b
  BY DEF RemoveAt, a, b
<1>4. /\ a \o b \in Seq(S)
      /\ Len(a \o b) = Len(s) - 1
      /\ \A k \in 1 .. Len(s) - 1 : (a \o b)[k] = IF k <= i - 1 THEN a[k] ELSE b[k - (i - 1)]
  <2>1. /\ a \o b \in Seq(S) /\ Len(a \o b) = Len(a) + Len(b)
        /\ \A k \in 1 .. Len(a) + Len(b) :
              (a \o b)[k] = IF k <= Len(a) THEN a[k] ELSE b[k - Len(a)]
    BY <1>1, <1>2, ConcatProperties, Zenon
  <2>2. Len(a) + Len(b) = Len(s) - 1
    BY <1>1, <1>2
  <2> QED
    BY <1>1, <2>1, <2>2
<1>5. ASSUME NEW k \in 1 .. Len(s) - 1
      PROVE  RemoveAt(s, i)[k] = IF k < i THEN s[k] ELSE s[k + 1]
  <2>1. CASE k <= i - 1
    BY <1>1, <1>3, <1>4, <2>1
  <2>2. CASE k > i - 1
    <3>1. k - (i - 1) \in 1 .. Len(s) - i /\ (k - (i - 1)) + i = k + 1
      BY <2>2
    <3> QED
      BY <1>2, <1>3, <1>4, <2>2, <3>1
  <2> QED
    BY <2>1, <2>2
<1> QED
  BY <1>3, <1>4, <1>5

-----------------------------------------------------------------------------
(* Editing the parts of a workspace *)

HasParts(w) ==
    w = [x \in DOMAIN w |-> w[x]] /\ DOMAIN w = {"panes", "pool", "focused", "maximized"}

LEMMA PartsHave ==
    ASSUME NEW a, NEW b, NEW c, NEW d
    PROVE  HasParts([panes |-> a, pool |-> b, focused |-> c, maximized |-> d])
BY DEF HasParts

LEMMA WorkspaceIs ==
    ASSUME NEW q, HasParts(q)
    PROVE  q = [panes |-> q.panes, pool |-> q.pool, focused |-> q.focused,
                maximized |-> q.maximized]
<1> DEFINE p == [panes |-> q.panes, pool |-> q.pool, focused |-> q.focused,
                 maximized |-> q.maximized]
<1>1. DOMAIN p = DOMAIN q /\ p = [x \in DOMAIN p |-> p[x]]
  BY DEF HasParts
<1>2. /\ p.panes = q.panes /\ p.pool = q.pool
      /\ p.focused = q.focused /\ p.maximized = q.maximized
  OBVIOUS
<1> HIDE DEF p
<1>3. \A x \in DOMAIN p : q[x] = p[x]
  BY <1>1, <1>2 DEF HasParts
<1>4. p = q
  BY <1>1, <1>3 DEF HasParts
<1> QED
  BY <1>4 DEF p

LEMMA EditPool ==
    ASSUME NEW w, HasParts(w), NEW e, NEW f
    PROVE  [w EXCEPT !.panes = e, !.pool = f]
             = [panes |-> e, pool |-> f, focused |-> w.focused, maximized |-> w.maximized]
<1> DEFINE q == [w EXCEPT !.panes = e, !.pool = f]
<1>1. DOMAIN q = {"panes", "pool", "focused", "maximized"} /\ q = [part \in DOMAIN q |-> q[part]]
  BY DEF HasParts
<1>2. q.panes = e /\ q.pool = f /\ q.focused = w.focused /\ q.maximized = w.maximized
  BY DEF HasParts
<1> HIDE DEF q
<1>3. q = [panes |-> q.panes, pool |-> q.pool, focused |-> q.focused,
           maximized |-> q.maximized]
  BY <1>1, WorkspaceIs DEF HasParts
<1> QED
  BY <1>2, <1>3 DEF q

LEMMA EditFocus ==
    ASSUME NEW w, HasParts(w), NEW g, NEW h
    PROVE  [w EXCEPT !.focused = g, !.maximized = h]
             = [panes |-> w.panes, pool |-> w.pool, focused |-> g, maximized |-> h]
<1> DEFINE q == [w EXCEPT !.focused = g, !.maximized = h]
<1>1. DOMAIN q = {"panes", "pool", "focused", "maximized"} /\ q = [part \in DOMAIN q |-> q[part]]
  BY DEF HasParts
<1>2. q.panes = w.panes /\ q.pool = w.pool /\ q.focused = g /\ q.maximized = h
  BY DEF HasParts
<1> HIDE DEF q
<1>3. q = [panes |-> q.panes, pool |-> q.pool, focused |-> q.focused,
           maximized |-> q.maximized]
  BY <1>1, WorkspaceIs DEF HasParts
<1> QED
  BY <1>2, <1>3 DEF q

LEMMA EditSplit ==
    ASSUME NEW w, HasParts(w), NEW e, NEW g, NEW h
    PROVE  [w EXCEPT !.panes = e, !.focused = g, !.maximized = h]
             = [panes |-> e, pool |-> w.pool, focused |-> g, maximized |-> h]
<1> DEFINE q == [w EXCEPT !.panes = e, !.focused = g, !.maximized = h]
<1>1. DOMAIN q = {"panes", "pool", "focused", "maximized"} /\ q = [part \in DOMAIN q |-> q[part]]
  BY DEF HasParts
<1>2. q.panes = e /\ q.pool = w.pool /\ q.focused = g /\ q.maximized = h
  BY DEF HasParts
<1> HIDE DEF q
<1>3. q = [panes |-> q.panes, pool |-> q.pool, focused |-> q.focused,
           maximized |-> q.maximized]
  BY <1>1, WorkspaceIs DEF HasParts
<1> QED
  BY <1>2, <1>3 DEF q

LEMMA EditType ==
    ASSUME NEW w, HasParts(w), NEW e, NEW f, NEW g
    PROVE  [w EXCEPT !.panes = e, !.pool = f, !.focused = g]
             = [panes |-> e, pool |-> f, focused |-> g, maximized |-> w.maximized]
<1> DEFINE q == [w EXCEPT !.panes = e, !.pool = f, !.focused = g]
<1>1. DOMAIN q = {"panes", "pool", "focused", "maximized"} /\ q = [part \in DOMAIN q |-> q[part]]
  BY DEF HasParts
<1>2. q.panes = e /\ q.pool = f /\ q.focused = g /\ q.maximized = w.maximized
  BY DEF HasParts
<1> HIDE DEF q
<1>3. q = [panes |-> q.panes, pool |-> q.pool, focused |-> q.focused,
           maximized |-> q.maximized]
  BY <1>1, WorkspaceIs DEF HasParts
<1> QED
  BY <1>2, <1>3 DEF q

LEMMA EditFocused ==
    ASSUME NEW w, HasParts(w), NEW g
    PROVE  [w EXCEPT !.focused = g]
             = [panes |-> w.panes, pool |-> w.pool, focused |-> g, maximized |-> w.maximized]
<1> DEFINE q == [w EXCEPT !.focused = g]
<1>1. DOMAIN q = {"panes", "pool", "focused", "maximized"} /\ q = [part \in DOMAIN q |-> q[part]]
  BY DEF HasParts
<1>2. q.panes = w.panes /\ q.pool = w.pool /\ q.focused = g /\ q.maximized = w.maximized
  BY DEF HasParts
<1> HIDE DEF q
<1>3. q = [panes |-> q.panes, pool |-> q.pool, focused |-> q.focused,
           maximized |-> q.maximized]
  BY <1>1, WorkspaceIs DEF HasParts
<1> QED
  BY <1>2, <1>3 DEF q

LEMMA EditMaximized ==
    ASSUME NEW w, HasParts(w), NEW h, NEW g
    PROVE  [w EXCEPT !.maximized = h, !.focused = g]
             = [panes |-> w.panes, pool |-> w.pool, focused |-> g, maximized |-> h]
<1> DEFINE q == [w EXCEPT !.maximized = h, !.focused = g]
<1>1. DOMAIN q = {"panes", "pool", "focused", "maximized"} /\ q = [part \in DOMAIN q |-> q[part]]
  BY DEF HasParts
<1>2. q.panes = w.panes /\ q.pool = w.pool /\ q.focused = g /\ q.maximized = h
  BY DEF HasParts
<1> HIDE DEF q
<1>3. q = [panes |-> q.panes, pool |-> q.pool, focused |-> q.focused,
           maximized |-> q.maximized]
  BY <1>1, WorkspaceIs DEF HasParts
<1> QED
  BY <1>2, <1>3 DEF q

LEMMA EditShown ==
    ASSUME NEW w, HasParts(w), NEW t, NEW x
    PROVE  [w EXCEPT !.pool[t].displays = x]
             = [panes |-> w.panes, pool |-> [w.pool EXCEPT ![t].displays = x],
                focused |-> w.focused, maximized |-> w.maximized]
<1> DEFINE q == [w EXCEPT !.pool[t].displays = x]
<1>1. DOMAIN q = {"panes", "pool", "focused", "maximized"} /\ q = [part \in DOMAIN q |-> q[part]]
  BY DEF HasParts
<1>2. q.panes = w.panes /\ q.pool = [w.pool EXCEPT ![t].displays = x]
      /\ q.focused = w.focused /\ q.maximized = w.maximized
  BY DEF HasParts
<1> HIDE DEF q
<1>3. q = [panes |-> q.panes, pool |-> q.pool, focused |-> q.focused,
           maximized |-> q.maximized]
  BY <1>1, WorkspaceIs DEF HasParts
<1> QED
  BY <1>2, <1>3 DEF q

-----------------------------------------------------------------------------
(* Workspaces *)

\* A workspace is what its four parts are.
LEMMA TidyFacts ==
    ASSUME NEW w, Tidy(w)
    PROVE  /\ w = [panes |-> w.panes, pool |-> w.pool, focused |-> w.focused,
                   maximized |-> w.maximized] /\ HasParts(w)
           /\ w.panes \in Seq(Panes) /\ Len(w.panes) \in Nat \ {0}
           /\ w.panes = [i \in DOMAIN w.panes |-> w.panes[i]]
           /\ DOMAIN w.panes = 1 .. Len(w.panes)
           /\ \A i \in DOMAIN w.panes :
                 w.panes[i] \in Panes /\ (w.panes[i].tab # 0 <=> w.panes[i].tab \in DOMAIN w.pool)
           /\ w.pool = [t \in DOMAIN w.pool |-> w.pool[t]]
           /\ \A t \in DOMAIN w.pool : t \in Nat \ {0} /\ w.pool[t] \in Panels
<1>1. w \in [panes : Seq(Panes), pool : Pools, focused : Nat, maximized : Nat] /\ w.panes # <<>>
  BY DEF Tidy
<1>2. /\ w = [panes |-> w.panes, pool |-> w.pool, focused |-> w.focused,
              maximized |-> w.maximized]
      /\ w.panes \in Seq(Panes) /\ w.pool \in Pools
  BY <1>1
<1>3. /\ Len(w.panes) \in Nat \ {0} /\ DOMAIN w.panes = 1 .. Len(w.panes)
      /\ w.panes = [i \in DOMAIN w.panes |-> w.panes[i]]
  <2>1. PICK n \in Nat : w.panes \in [1..n -> Panes]
    BY <1>2, SeqDef
  <2> QED
    BY <1>1, <1>2, <2>1
<1>4. \A i \in DOMAIN w.panes : w.panes[i] \in Panes
  BY <1>2, <1>3, ElementOfSeq
<1>5. PICK D \in SUBSET Nat : w.pool \in [D -> Panels]
  BY <1>2 DEF Pools
<1>6. DOMAIN w.pool = Owned(w.panes)
  BY DEF Tidy
<1>7. \A i \in DOMAIN w.panes : w.panes[i].tab # 0 <=> w.panes[i].tab \in DOMAIN w.pool
  BY <1>6 DEF Owned
<1>8. 0 \notin DOMAIN w.pool
  BY <1>6 DEF Owned
<1>9. HasParts(w)
  BY <1>2, PartsHave
<1> QED
  BY <1>2, <1>3, <1>4, <1>5, <1>7, <1>8, <1>9

LEMMA KeptFacts ==
    ASSUME NEW f, f \in Pools, NEW keys
    PROVE  /\ Kept(f, keys) \in Pools
           /\ DOMAIN Kept(f, keys) = keys \cap DOMAIN f
           /\ \A t \in keys \cap DOMAIN f : Kept(f, keys)[t] = f[t]
<1>1. PICK D \in SUBSET Nat : f \in [D -> Panels]
  BY DEF Pools
<1>2. Kept(f, keys) \in [keys \cap D -> Panels] /\ keys \cap D \in SUBSET Nat
  BY <1>1 DEF Kept
<1>3. Kept(f, keys) \in Pools
  BY <1>2, Zenon DEF Pools
<1> QED
  BY <1>3 DEF Kept

\* What is there and in order is read back as it is.
LEMMA SanitizedKeeps ==
    ASSUME NEW w, Tidy(w), NEW id
    PROVE  Sanitized(w, id) = w
<1> DEFINE panes == [i \in DOMAIN w.panes |->
                        [w.panes[i] EXCEPT !.tab = IF @ \in DOMAIN w.pool THEN @ ELSE 0]]
<1>1. w.panes # <<>>
  BY DEF Tidy
<1>2. ASSUME NEW i \in DOMAIN w.panes PROVE panes[i] = w.panes[i]
  <2>1. w.panes[i] \in Panes /\ (w.panes[i].tab # 0 <=> w.panes[i].tab \in DOMAIN w.pool)
    BY TidyFacts
  <2>2. [w.panes[i] EXCEPT !.tab = w.panes[i].tab] = w.panes[i]
    BY <2>1 DEF Panes
  <2> QED
    BY <2>1, <2>2
<1>3. panes = w.panes
  <2>1. w.panes = [i \in DOMAIN w.panes |-> w.panes[i]]
    BY TidyFacts
  <2> QED
    BY <1>2, <2>1
<1>4. GcPanels(w.pool, panes) = w.pool
  <2>1. Owned(panes) = DOMAIN w.pool
    BY <1>3 DEF Tidy
  <2>2. w.pool = [t \in DOMAIN w.pool |-> w.pool[t]]
    BY TidyFacts
  <2> QED
    BY <2>1, <2>2 DEF GcPanels, Kept
<1>5. Sanitized(w, id) = Refocused([w EXCEPT !.panes = panes, !.pool = GcPanels(@, panes)])
  BY <1>1 DEF Sanitized
<1> HIDE DEF panes
<1>6. [w EXCEPT !.panes = panes, !.pool = GcPanels(@, panes)] = w
  <2>1. [w EXCEPT !.panes = panes, !.pool = GcPanels(@, panes)]
            = [w EXCEPT !.panes = w.panes, !.pool = w.pool]
    BY <1>3, <1>4
  <2>2. w = [panes |-> w.panes, pool |-> w.pool, focused |-> w.focused,
             maximized |-> w.maximized]
    BY TidyFacts
  <2>3. [w EXCEPT !.panes = w.panes, !.pool = w.pool] = w
    BY <2>2
  <2> QED
    BY <2>1, <2>3
<1>7. Refocused(w) = w
  BY TidyFacts DEF Refocused, Tidy
<1> QED
  BY <1>5, <1>6, <1>7

\* A workspace of one pane is in order if its pool is that pane's.
LEMMA OnePaneTidy ==
    ASSUME NEW id \in Nat \ {0}, NEW t \in Nat, NEW pool \in Pools, DOMAIN pool = {t} \ {0}
    PROVE  Tidy([panes |-> <<[id |-> id, tab |-> t]>>, pool |-> pool, focused |-> id,
                 maximized |-> 0])
<1> DEFINE panes == <<[id |-> id, tab |-> t]>>
<1>1. /\ panes \in Seq(Panes) /\ panes # <<>> /\ DOMAIN panes = {1}
      /\ panes[1] = [id |-> id, tab |-> t]
  BY DEF Panes
<1> HIDE DEF panes
<1>2. Owned(panes) = {t} \ {0} /\ PaneIds(panes) = {id}
  BY <1>1 DEF Owned, PaneIds
<1> QED
  BY <1>1, <1>2 DEF Tidy, panes

LEMMA NoPool == <<>> \in Pools /\ DOMAIN <<>> = {}
<1>1. <<>> \in [{} -> Panels] /\ {} \in SUBSET Nat
  OBVIOUS
<1>2. <<>> \in Pools
  BY <1>1, Zenon DEF Pools
<1> QED
  BY <1>2

LEMMA EmptyTidy ==
    ASSUME NEW id \in Nat \ {0}
    PROVE  Tidy(EmptyWorkspace(id)) /\ Issued(EmptyWorkspace(id), id)
<1>1. 0 \in Nat /\ DOMAIN <<>> = {0} \ {0}
  BY NoPool
<1>2. Tidy(EmptyWorkspace(id))
  BY <1>1, NoPool, OnePaneTidy DEF EmptyWorkspace
<1>3. Issued(EmptyWorkspace(id), id)
  BY DEF EmptyWorkspace, Issued
<1> QED
  BY <1>2, <1>3

\* Without panes the first panel of the pool fills a new one.
Unsplit(pool) == [panes |-> <<>>, pool |-> pool, focused |-> 0, maximized |-> 0]

LEMMA SanitizedOne ==
    ASSUME NEW pool \in Pools, NEW cfg, cfg = Unsplit(pool), NEW id \in Nat, NEW t \in Nat,
           t = First(pool), {t} \ {0} \subseteq DOMAIN pool
    PROVE  Sanitized(cfg, id)
             = [panes |-> <<[id |-> id, tab |-> t]>>, pool |-> Kept(pool, {t} \ {0}),
                focused |-> id, maximized |-> 0]
<1> DEFINE panes == <<[id |-> id, tab |-> t]>>
<1> DEFINE kept == Kept(pool, {t} \ {0})
<1>1. /\ panes # <<>> /\ DOMAIN panes = {1}
      /\ panes[1] = [id |-> id, tab |-> t]
  OBVIOUS
<1>2. Owned(panes) = {t} \ {0} /\ PaneIds(panes) = {id}
  BY <1>1 DEF Owned, PaneIds
<1>3. /\ HasParts(cfg) /\ cfg.panes = <<>> /\ cfg.pool = pool
      /\ cfg.focused = 0 /\ cfg.maximized = 0
  BY PartsHave DEF Unsplit
<1>4. GcPanels(pool, panes) = kept
  BY <1>2 DEF GcPanels
<1>5. Sanitized(cfg, id) = Refocused([cfg EXCEPT !.panes = panes, !.pool = GcPanels(@, panes)])
  <2>1. cfg.panes = <<>> /\ First(cfg.pool) = t
    BY <1>3
  <2> QED
    BY <2>1 DEF Sanitized
<1> DEFINE r == [panes |-> panes, pool |-> kept, focused |-> 0, maximized |-> 0]
<1> HIDE DEF panes, kept
<1>6. [cfg EXCEPT !.panes = panes, !.pool = GcPanels(@, panes)] = r
  <2>1. [cfg EXCEPT !.panes = panes, !.pool = kept] = r
    <3>1. [cfg EXCEPT !.panes = panes, !.pool = kept]
             = [panes |-> panes, pool |-> kept, focused |-> cfg.focused,
                maximized |-> cfg.maximized]
      BY <1>3, EditPool, Zenon
    <3> QED
      BY <1>3, <3>1
  <2>2. cfg.pool = pool
    BY <1>3
  <2> QED
    BY <1>4, <2>1, <2>2
<1>7. Refocused(r) = [panes |-> panes, pool |-> kept, focused |-> id, maximized |-> 0]
  <2>1. /\ r.focused = 0 /\ r.maximized = 0 /\ r.panes[1].id = id
        /\ PaneIds(r.panes) = {id}
    BY <1>1, <1>2
  <2>2. (IF r.focused \in PaneIds(r.panes) THEN r.focused ELSE r.panes[1].id) = id
    BY <2>1
  <2>3. (IF r.maximized \in PaneIds(r.panes) THEN r.maximized ELSE 0) = 0
    BY <2>1
  <2>4. Refocused(r) = [r EXCEPT !.focused = id, !.maximized = 0]
    BY <2>2, <2>3 DEF Refocused
  <2> QED
    BY <2>4
<1> QED
  BY <1>5, <1>6, <1>7 DEF panes, kept

\* That is a workspace.
LEMMA OneTidy ==
    ASSUME NEW pool \in Pools, NEW id \in Nat \ {0}, NEW t \in Nat, {t} \ {0} \subseteq DOMAIN pool
    PROVE  Tidy([panes |-> <<[id |-> id, tab |-> t]>>, pool |-> Kept(pool, {t} \ {0}),
                 focused |-> id, maximized |-> 0])
<1>1. Kept(pool, {t} \ {0}) \in Pools
  BY KeptFacts
<1>2. DOMAIN Kept(pool, {t} \ {0}) = {t} \ {0}
  BY DEF Kept
<1> QED
  BY <1>1, <1>2, OnePaneTidy

LEMMA LegacyFacts ==
    /\ Legacy.pool \in Pools /\ Legacy = Unsplit(Legacy.pool)
    /\ DOMAIN Legacy.pool = {MaxIds + 1, MaxIds + 2}
    /\ First(Legacy.pool) = MaxIds + 1
<1> DEFINE pool == [t \in {MaxIds + 1, MaxIds + 2} |->
                      [type |-> "3d", displays |-> CHOOSE d \in DisplayLists : TRUE]]
<1>1. MaxIds \in Nat
  BY WorkspaceAssumption
<1>2. (CHOOSE d \in DisplayLists : TRUE) \in Lists
  <2>1. PICK d : d \in DisplayLists
    BY WorkspaceAssumption
  <2> QED
    BY <2>1, Zenon DEF Lists
<1>3. [type |-> "3d", displays |-> CHOOSE d \in DisplayLists : TRUE] \in Panels
  BY <1>2 DEF Panels, PanelTypes
<1>4. pool \in [{MaxIds + 1, MaxIds + 2} -> Panels] /\ {MaxIds + 1, MaxIds + 2} \in SUBSET Nat
  BY <1>1, <1>3
<1>5. pool \in Pools
  BY <1>4, Zenon DEF Pools
<1>6. Legacy.pool = pool /\ Legacy = Unsplit(pool)
  BY DEF Legacy, None, Unsplit
<1>7. DOMAIN pool = {MaxIds + 1, MaxIds + 2}
  OBVIOUS
<1> HIDE DEF pool
<1>8. First(pool) = MaxIds + 1
  <2>1. pool # <<>>
    BY <1>7
  <2>2. MaxIds + 1 \in DOMAIN pool /\ \A u \in DOMAIN pool : MaxIds + 1 <= u
    BY <1>1, <1>7
  <2>3. ASSUME NEW t \in DOMAIN pool, \A u \in DOMAIN pool : t <= u
        PROVE  t = MaxIds + 1
    BY <1>1, <1>7, <2>2, <2>3
  <2>4. (CHOOSE t \in DOMAIN pool : \A u \in DOMAIN pool : t <= u) = MaxIds + 1
    BY <2>2, <2>3, Zenon
  <2> QED
    BY <2>1, <2>4 DEF First
<1> QED
  BY <1>5, <1>6, <1>7, <1>8

\* What is read back when nothing was saved, or what was saved before panes.
LEMMA SanitizedOld ==
    ASSUME NEW cfg \in {None, Legacy}, NEW id \in Nat
    PROVE  \E pool \in Pools, t \in {0, MaxIds + 1} :
               /\ {t} \ {0} \subseteq DOMAIN pool /\ cfg = Unsplit(pool)
               /\ t = First(pool)
<1>1. MaxIds \in Nat
  BY WorkspaceAssumption
<1>2. CASE cfg = None
  <2>1. cfg = Unsplit(<<>>) /\ 0 = First(<<>>) /\ {0} \ {0} \subseteq DOMAIN <<>>
    BY <1>2 DEF First, None, Unsplit
  <2> QED
    BY <2>1, NoPool
<1>3. CASE cfg = Legacy
  <2>1. /\ MaxIds + 1 = First(Legacy.pool)
        /\ {MaxIds + 1} \ {0} \subseteq DOMAIN Legacy.pool
        /\ Legacy.pool \in Pools /\ cfg = Unsplit(Legacy.pool)
    BY <1>1, <1>3, LegacyFacts
  <2> QED
    BY <2>1
<1> QED
  BY <1>2, <1>3

\* What can be read back becomes a workspace.
LEMMA SanitizedFacts ==
    ASSUME NEW n \in Nat, NEW cfg, Legible(cfg, n), NEW id \in Nat \ {0}, n <= id, id <= MaxIds
    PROVE  Tidy(Sanitized(cfg, id)) /\ Issued(Sanitized(cfg, id), id)
<1>1. MaxIds \in Nat
  BY WorkspaceAssumption
<1>2. CASE cfg \in {None, Legacy}
  <2>1. PICK pool \in Pools, t \in {0, MaxIds + 1} :
               /\ {t} \ {0} \subseteq DOMAIN pool /\ cfg = Unsplit(pool)
               /\ t = First(pool)
    BY <1>2, SanitizedOld
  <2> DEFINE w == [panes |-> <<[id |-> id, tab |-> t]>>, pool |-> Kept(pool, {t} \ {0}),
                   focused |-> id, maximized |-> 0]
  <2>2. t \in Nat
    BY <1>1
  <2>3. Sanitized(cfg, id) = w
    BY <2>1, <2>2, SanitizedOne
  <2>4. Tidy(w)
    BY <2>1, <2>2, OneTidy
  <2>5. Issued(w, id)
    BY <1>1 DEF Issued
  <2> QED
    BY <2>3, <2>4, <2>5
<1>3. CASE Tidy(cfg) /\ Issued(cfg, n)
  <2>1. Sanitized(cfg, id) = cfg
    BY <1>3, SanitizedKeeps
  <2>2. \A i \in DOMAIN cfg.panes : cfg.panes[i].id \in Nat /\ cfg.panes[i].tab \in Nat
    BY <1>3, TidyFacts DEF Panes
  <2>3. Issued(cfg, id)
    BY <1>1, <1>3, <2>2 DEF Issued
  <2> QED
    BY <1>3, <2>1, <2>3
<1> QED
  BY <1>2, <1>3 DEF Legible

\* Its panels do not depend on the id of the pane that may have to be made.
LEMMA SanitizedPool ==
    ASSUME NEW n \in Nat, NEW cfg, Legible(cfg, n), NEW id \in Nat
    PROVE  Sanitized(cfg, id).pool = Sanitized(cfg, 0).pool
<1>1. MaxIds \in Nat
  BY WorkspaceAssumption
<1>2. CASE cfg \in {None, Legacy}
  <2>1. PICK pool \in Pools, t \in {0, MaxIds + 1} :
               /\ {t} \ {0} \subseteq DOMAIN pool /\ cfg = Unsplit(pool)
               /\ t = First(pool)
    BY <1>2, SanitizedOld
  <2>2. t \in Nat
    BY <1>1
  <2>3. \A a \in Nat : Sanitized(cfg, a).pool = Kept(pool, {t} \ {0})
    BY <2>1, <2>2, SanitizedOne
  <2> QED
    BY <2>3
<1>3. CASE Tidy(cfg)
  BY <1>3, SanitizedKeeps
<1> QED
  BY <1>2, <1>3 DEF Legible

LEMMA TidyMade ==
    ASSUME NEW panes \in Seq(Panes), panes # <<>>, NEW pool \in Pools,
           DOMAIN pool = Owned(panes),
           \A i, j \in DOMAIN panes :
              i # j => /\ panes[i].id # panes[j].id
                       /\ panes[i].tab # 0 => panes[i].tab # panes[j].tab,
           NEW f \in PaneIds(panes), NEW m \in PaneIds(panes) \cup {0}
    PROVE  Tidy([panes |-> panes, pool |-> pool, focused |-> f, maximized |-> m])
<1>1. \A i \in DOMAIN panes : panes[i] \in Panes
  BY ElementOfSeq
<1>2. PaneIds(panes) \subseteq Nat
  BY <1>1 DEF PaneIds, Panes
<1> QED
  BY <1>2 DEF Tidy

LEMMA RefocusedFacts ==
    ASSUME NEW w, HasParts(w), w.panes \in Seq(Panes), w.panes # <<>>
    PROVE  \E f \in PaneIds(w.panes), m \in PaneIds(w.panes) \cup {0} :
               Refocused(w) = [panes |-> w.panes, pool |-> w.pool, focused |-> f, maximized |-> m]
<1> DEFINE f == IF w.focused \in PaneIds(w.panes) THEN w.focused ELSE w.panes[1].id
<1> DEFINE m == IF w.maximized \in PaneIds(w.panes) THEN w.maximized ELSE 0
<1>1. Refocused(w) = [w EXCEPT !.focused = f, !.maximized = m]
  BY DEF Refocused
<1>2. w.panes[1].id \in PaneIds(w.panes)
  <2>1. 1 \in DOMAIN w.panes
    OBVIOUS
  <2> QED
    BY <2>1 DEF PaneIds
<1>3. f \in PaneIds(w.panes) /\ m \in PaneIds(w.panes) \cup {0}
  BY <1>2
<1> HIDE DEF f, m
<1>4. [w EXCEPT !.focused = f, !.maximized = m]
         = [panes |-> w.panes, pool |-> w.pool, focused |-> f, maximized |-> m]
  BY EditFocus, Zenon
<1> QED
  BY <1>1, <1>3, <1>4

\* Panels that stay in the pool stay as they are, and in their pane.
Keeps(w, v) ==
    /\ \A t \in DOMAIN w.pool : t \in DOMAIN v.pool => v.pool[t] = w.pool[t]
    /\ \A i \in DOMAIN w.panes : w.panes[i].tab \in DOMAIN v.pool =>
          \E j \in DOMAIN v.panes : v.panes[j] = w.panes[i]

LEMMA SplitFacts ==
    ASSUME NEW w, Tidy(w), NEW n \in Nat, Issued(w, n), n + 1 <= MaxIds,
           NEW i \in DOMAIN w.panes, NEW id, id = n + 1,
           NEW pane, pane = [id |-> id, tab |-> 0],
           NEW panes \in Seq(Panes), Inserted(panes, w.panes, i, pane),
           NEW v, v = [panes |-> panes, pool |-> w.pool, focused |-> id, maximized |-> 0]
    PROVE  Tidy(v) /\ Issued(v, id) /\ Keeps(w, v)
<1> DEFINE L == Len(w.panes)
<1>0. /\ MaxIds \in Nat /\ w.panes \in Seq(Panes) /\ L \in Nat \ {0}
      /\ DOMAIN w.panes = 1..L /\ i \in 1..L /\ HasParts(w)
      /\ \A k \in 1..L : w.panes[k] \in Panes
  BY WorkspaceAssumption, TidyFacts
<1>1. pane \in Panes
  BY DEF Panes
<1>p. pane.id = id /\ pane.tab = 0
  OBVIOUS
<1> HIDE DEF L
<1>2. /\ panes \in Seq(Panes) /\ Len(panes) = L + 1
      /\ \A k \in 1 .. L + 1 :
            panes[k] = IF k <= i THEN w.panes[k] ELSE IF k = i + 1 THEN pane ELSE w.panes[k - 1]
  BY DEF L, Inserted
<1>3. DOMAIN panes = 1 .. L + 1
  BY <1>0, <1>2
<1>5. v.panes = panes /\ v.pool = w.pool
  OBVIOUS
<1>6. ASSUME NEW k \in 1 .. L + 1, k # i + 1
      PROVE  \E o \in 1..L : panes[k] = w.panes[o] /\ o = IF k <= i THEN k ELSE k - 1
  BY <1>0, <1>2, <1>6
<1>7. panes[i + 1] = pane /\ i + 1 \in 1 .. L + 1
  BY <1>0, <1>2
<1>8. ASSUME NEW o \in 1..L
      PROVE  \E k \in 1 .. L + 1 : k # i + 1 /\ panes[k] = w.panes[o]
  <2>1. CASE o <= i
    BY <1>0, <1>2, <2>1
  <2>2. CASE o > i
    <3>1. o + 1 \in 1 .. L + 1 /\ o + 1 # i + 1 /\ (o + 1) - 1 = o /\ ~(o + 1 <= i)
      BY <1>0, <2>2
    <3> QED
      BY <1>2, <3>1
  <2> QED
    BY <1>0, <2>1, <2>2
<1>u. \A o, p \in 1..L :
          o # p => /\ w.panes[o].id # w.panes[p].id
                   /\ w.panes[o].tab # 0 => w.panes[o].tab # w.panes[p].tab
  BY <1>0 DEF Tidy
<1>9. \A o \in 1..L : w.panes[o].id # id
  <2>1. ASSUME NEW o \in 1..L PROVE w.panes[o].id # id
    <3>1. w.panes[o].id <= n
      BY <1>0 DEF Issued
    <3>2. w.panes[o].id \in Nat
      BY <1>0 DEF Panes
    <3> QED
      BY <3>1, <3>2
  <2> QED
    BY <2>1
<1>10. Owned(panes) = Owned(w.panes)
  <2>1. ASSUME NEW t, t \in Owned(panes) PROVE t \in Owned(w.panes)
    <3>1. PICK k \in 1 .. L + 1 : t = panes[k].tab /\ t # 0
      BY <1>3, <2>1 DEF Owned
    <3>2. k # i + 1
      BY <1>p, <1>7, <3>1
    <3>3. PICK o \in 1..L : panes[k] = w.panes[o]
      BY <1>6, <3>2
    <3> QED
      BY <1>0, <3>1, <3>3 DEF Owned
  <2>2. ASSUME NEW t, t \in Owned(w.panes) PROVE t \in Owned(panes)
    <3>1. PICK o \in 1..L : t = w.panes[o].tab /\ t # 0
      BY <1>0, <2>2 DEF Owned
    <3>2. PICK k \in 1 .. L + 1 : panes[k] = w.panes[o]
      BY <1>8
    <3> QED
      BY <1>3, <3>1, <3>2 DEF Owned
  <2> QED
    BY <2>1, <2>2
<1>11. ASSUME NEW j \in DOMAIN panes, NEW k \in DOMAIN panes, j # k
       PROVE  /\ panes[j].id # panes[k].id
              /\ panes[j].tab # 0 => panes[j].tab # panes[k].tab
  <2>1. CASE j = i + 1
    <3>1. PICK o \in 1..L : panes[k] = w.panes[o]
      BY <1>3, <1>6, <1>11, <2>1
    <3> QED
      BY <1>p, <1>7, <1>9, <2>1, <3>1
  <2>2. CASE k = i + 1
    <3>1. PICK o \in 1..L : panes[j] = w.panes[o]
      BY <1>3, <1>6, <1>11, <2>2
    <3> QED
      BY <1>p, <1>7, <1>9, <2>2, <3>1
  <2>3. CASE j # i + 1 /\ k # i + 1
    <3>1. PICK o \in 1..L : panes[j] = w.panes[o] /\ o = IF j <= i THEN j ELSE j - 1
      BY <1>3, <1>6, <2>3
    <3>2. PICK p \in 1..L : panes[k] = w.panes[p] /\ p = IF k <= i THEN k ELSE k - 1
      BY <1>3, <1>6, <2>3
    <3>3. o # p
      BY <1>0, <1>3, <1>11, <2>3, <3>1, <3>2
    <3> QED
      BY <1>u, <3>1, <3>2, <3>3
  <2> QED
    BY <2>1, <2>2, <2>3
<1>12. Tidy(v)
  <2>1. id \in PaneIds(panes) /\ 0 \in PaneIds(panes) \cup {0}
    <3>1. i + 1 \in DOMAIN panes /\ panes[i + 1].id = id
      BY <1>p, <1>3, <1>7
    <3> QED
      BY <3>1 DEF PaneIds
  <2>2. panes # <<>>
    BY <1>0, <1>2
  <2>3. w.pool \in Pools /\ DOMAIN w.pool = Owned(panes)
    BY <1>10 DEF Tidy
  <2>4. Tidy([panes |-> panes, pool |-> w.pool, focused |-> id, maximized |-> 0])
    BY <1>2, <1>11, <2>1, <2>2, <2>3, TidyMade
  <2> QED
    BY <2>4
<1>13. Issued(v, id)
  <2>1. ASSUME NEW k \in 1 .. L + 1
        PROVE  panes[k].id <= id /\ (panes[k].tab <= id \/ panes[k].tab > MaxIds)
    <3>1. CASE k = i + 1
      BY <1>p, <1>7, <3>1
    <3>2. CASE k # i + 1
      <4>1. PICK o \in 1..L : panes[k] = w.panes[o]
        BY <1>6, <3>2
      <4>2. w.panes[o].id <= n /\ (w.panes[o].tab <= n \/ w.panes[o].tab > MaxIds)
        BY <1>0 DEF Issued
      <4>3. w.panes[o].id \in Nat /\ w.panes[o].tab \in Nat
        BY <1>0 DEF Panes
      <4> QED
        BY <4>1, <4>2, <4>3
    <3> QED
      BY <3>1, <3>2
  <2> QED
    BY <1>3, <1>5, <2>1 DEF Issued
<1>14. Keeps(w, v)
  BY <1>0, <1>3, <1>5, <1>8 DEF Keeps
<1> QED
  BY <1>12, <1>13, <1>14

\* What Tidy and Issued say of the panes, by position.
LEMMA TidyPanes ==
    ASSUME NEW w, Tidy(w), NEW n \in Nat, Issued(w, n), NEW L, L = Len(w.panes)
    PROVE  /\ MaxIds \in Nat /\ w.panes \in Seq(Panes) /\ L \in Nat \ {0}
           /\ DOMAIN w.panes = 1..L
           /\ \A k \in 1..L : w.panes[k].id \in Nat \ {0} /\ w.panes[k].tab \in Nat
           /\ \A o, p \in 1..L :
                 o # p => /\ w.panes[o].id # w.panes[p].id
                          /\ w.panes[o].tab # 0 => w.panes[o].tab # w.panes[p].tab
           /\ \A k \in 1..L :
                 w.panes[k].id <= n /\ (w.panes[k].tab <= n \/ w.panes[k].tab > MaxIds)
           /\ w.pool \in Pools
           /\ DOMAIN w.pool = {w.panes[k].tab : k \in 1..L} \ {0}
<1>1. /\ MaxIds \in Nat /\ w.panes \in Seq(Panes) /\ L \in Nat \ {0}
      /\ DOMAIN w.panes = 1..L
      /\ \A k \in 1..L : w.panes[k] \in Panes
  BY WorkspaceAssumption, TidyFacts
<1>2. \A o, p \in 1..L :
          o # p => /\ w.panes[o].id # w.panes[p].id
                   /\ w.panes[o].tab # 0 => w.panes[o].tab # w.panes[p].tab
  BY <1>1 DEF Tidy
<1>3. \A k \in 1..L :
          w.panes[k].id <= n /\ (w.panes[k].tab <= n \/ w.panes[k].tab > MaxIds)
  BY <1>1 DEF Issued
<1>4. \A k \in 1..L : w.panes[k].id \in Nat \ {0} /\ w.panes[k].tab \in Nat
  BY <1>1 DEF Panes
<1>5. w.pool \in Pools
  BY DEF Tidy
<1>6. DOMAIN w.pool = {w.panes[k].tab : k \in 1..L} \ {0}
  BY <1>1 DEF Tidy, Owned
<1> QED
  BY <1>1, <1>2, <1>3, <1>4, <1>5, <1>6

LEMMA CloseFacts ==
    ASSUME NEW w, Tidy(w), NEW n \in Nat, Issued(w, n), Len(w.panes) > 1,
           NEW i \in DOMAIN w.panes,
           NEW rest \in Seq(Panes), Len(rest) = Len(w.panes) - 1,
           \A k \in 1 .. Len(w.panes) - 1 :
              rest[k] = IF k < i THEN w.panes[k] ELSE w.panes[k + 1],
           NEW pool, pool = Kept(w.pool, Owned(rest)),
           NEW f \in PaneIds(rest), NEW m \in PaneIds(rest) \cup {0},
           NEW v, v = [panes |-> rest, pool |-> pool, focused |-> f, maximized |-> m]
    PROVE  Tidy(v) /\ Issued(v, n) /\ Keeps(w, v)
<1> DEFINE L == Len(w.panes)
<1>0. /\ MaxIds \in Nat /\ L \in Nat /\ L > 1 /\ DOMAIN w.panes = 1..L /\ i \in 1..L
      /\ \A o, p \in 1..L :
            o # p => /\ w.panes[o].id # w.panes[p].id
                     /\ w.panes[o].tab # 0 => w.panes[o].tab # w.panes[p].tab
      /\ \A k \in 1..L :
            w.panes[k].id <= n /\ (w.panes[k].tab <= n \/ w.panes[k].tab > MaxIds)
      /\ w.pool \in Pools
      /\ DOMAIN w.pool = {w.panes[k].tab : k \in 1..L} \ {0}
  BY TidyPanes
<1>1. /\ Len(rest) = L - 1
      /\ \A k \in 1 .. L - 1 : rest[k] = IF k < i THEN w.panes[k] ELSE w.panes[k + 1]
  OBVIOUS
<1> HIDE DEF L
<1>2. DOMAIN rest = 1 .. L - 1 /\ v.panes = rest /\ v.pool = pool
  BY <1>0, <1>1
<1>3. ASSUME NEW k \in 1 .. L - 1
      PROVE  \E o \in 1..L : rest[k] = w.panes[o] /\ o = IF k < i THEN k ELSE k + 1
  <2>1. CASE k < i
    BY <1>0, <1>1, <2>1
  <2>2. CASE ~(k < i)
    <3>1. k + 1 \in 1..L
      BY <1>0
    <3> QED
      BY <1>1, <2>2, <3>1
  <2> QED
    BY <2>1, <2>2
<1>4. ASSUME NEW o \in 1..L, o # i
      PROVE  \E k \in 1 .. L - 1 : rest[k] = w.panes[o]
  <2>1. CASE o < i
    <3>1. o \in 1 .. L - 1
      BY <1>0, <2>1
    <3> QED
      BY <1>1, <2>1, <3>1
  <2>2. CASE o > i
    <3>1. o - 1 \in 1 .. L - 1 /\ ~(o - 1 < i) /\ (o - 1) + 1 = o
      BY <1>0, <2>2
    <3> QED
      BY <1>1, <3>1
  <2> QED
    BY <1>0, <1>4, <2>1, <2>2
<1>5. ASSUME NEW j \in DOMAIN rest, NEW k \in DOMAIN rest, j # k
      PROVE  /\ rest[j].id # rest[k].id
             /\ rest[j].tab # 0 => rest[j].tab # rest[k].tab
  <2>1. PICK o \in 1..L : rest[j] = w.panes[o] /\ o = IF j < i THEN j ELSE j + 1
    BY <1>2, <1>3
  <2>2. PICK p \in 1..L : rest[k] = w.panes[p] /\ p = IF k < i THEN k ELSE k + 1
    BY <1>2, <1>3
  <2>3. o # p
    BY <1>0, <1>2, <1>5, <2>1, <2>2
  <2> QED
    BY <1>0, <2>1, <2>2, <2>3
<1>6. Owned(rest) \subseteq DOMAIN w.pool
  <2>1. ASSUME NEW t \in Owned(rest) PROVE t \in DOMAIN w.pool
    <3>1. PICK k \in 1 .. L - 1 : t = rest[k].tab /\ t # 0
      BY <1>2 DEF Owned
    <3>2. PICK o \in 1..L : rest[k] = w.panes[o]
      BY <1>3
    <3> QED
      BY <1>0, <3>1, <3>2
  <2> QED
    BY <2>1
<1>7. pool \in Pools /\ DOMAIN pool = Owned(rest) /\ \A t \in Owned(rest) : pool[t] = w.pool[t]
  <2>1. pool \in Pools
    BY <1>0, KeptFacts
  <2>2. Owned(rest) \cap DOMAIN w.pool = Owned(rest)
    BY <1>6
  <2>3. DOMAIN pool = Owned(rest) /\ \A t \in Owned(rest) : pool[t] = w.pool[t]
    BY <2>2 DEF Kept
  <2> QED
    BY <2>1, <2>3
<1>8. Tidy(v)
  <2>1. rest # <<>>
    BY <1>0, <1>2
  <2> QED
    BY <1>5, <1>7, <2>1, TidyMade
<1>9. Issued(v, n)
  <2>1. ASSUME NEW k \in 1 .. L - 1
        PROVE  rest[k].id <= n /\ (rest[k].tab <= n \/ rest[k].tab > MaxIds)
    BY <1>0, <1>3
  <2> QED
    BY <1>2, <2>1 DEF Issued
<1>10. Keeps(w, v)
  <2>1. ASSUME NEW o \in 1..L, w.panes[o].tab \in DOMAIN pool
        PROVE  \E k \in DOMAIN rest : rest[k] = w.panes[o]
    <3>1. PICK k \in 1 .. L - 1 : w.panes[o].tab = rest[k].tab /\ rest[k].tab # 0
      BY <1>2, <1>7, <2>1 DEF Owned
    <3>2. PICK p \in 1..L : rest[k] = w.panes[p]
      BY <1>3
    <3>3. p = o
      BY <1>0, <3>1, <3>2
    <3> QED
      BY <1>2, <3>2, <3>3
  <2> QED
    BY <1>0, <1>2, <1>7, <2>1 DEF Keeps
<1> QED
  BY <1>8, <1>9, <1>10

LEMMA RetypeFacts ==
    ASSUME NEW w, Tidy(w), NEW n \in Nat, Issued(w, n), n + 1 <= MaxIds,
           NEW i \in DOMAIN w.panes, NEW id, id = n + 1, NEW type \in PanelTypes,
           NEW panes \in Seq(Panes), Len(panes) = Len(w.panes),
           \A k \in 1 .. Len(w.panes) : panes[k].id = w.panes[k].id,
           \A k \in 1 .. Len(w.panes) : k # i => panes[k] = w.panes[k],
           panes[i].tab = id,
           NEW all, all = [t \in DOMAIN w.pool \cup {id} |->
                              IF t = id THEN Panel(type) ELSE w.pool[t]],
           NEW pool, pool = Kept(all, Owned(panes)),
           NEW v, v = [panes |-> panes, pool |-> pool, focused |-> panes[i].id,
                       maximized |-> w.maximized]
    PROVE  Tidy(v) /\ Issued(v, id) /\ Keeps(w, v)
<1> DEFINE L == Len(w.panes)
<1>0. /\ MaxIds \in Nat /\ L \in Nat \ {0} /\ DOMAIN w.panes = 1..L /\ i \in 1..L
      /\ \A k \in 1..L : w.panes[k].id \in Nat \ {0} /\ w.panes[k].tab \in Nat
      /\ \A o, p \in 1..L :
            o # p => /\ w.panes[o].id # w.panes[p].id
                     /\ w.panes[o].tab # 0 => w.panes[o].tab # w.panes[p].tab
      /\ \A k \in 1..L :
            w.panes[k].id <= n /\ (w.panes[k].tab <= n \/ w.panes[k].tab > MaxIds)
      /\ w.pool \in Pools
      /\ DOMAIN w.pool = {w.panes[k].tab : k \in 1..L} \ {0}
  BY TidyPanes
<1>1. /\ Len(panes) = L
      /\ \A k \in 1..L : panes[k].id = w.panes[k].id
      /\ \A k \in 1..L : k # i => panes[k] = w.panes[k]
  OBVIOUS
<1> HIDE DEF L
<1>2. DOMAIN panes = 1..L /\ v.panes = panes /\ v.pool = pool /\ id \in Nat \ {0}
  BY <1>0, <1>1
<1>3. \A k \in 1..L : w.panes[k].tab # id
  <2>1. ASSUME NEW k \in 1..L PROVE w.panes[k].tab # id
    BY <1>0
  <2> QED
    BY <2>1
<1>4. all \in Pools /\ DOMAIN all = DOMAIN w.pool \cup {id}
      /\ \A t \in DOMAIN w.pool : all[t] = w.pool[t]
  <2>1. PICK D \in SUBSET Nat : w.pool \in [D -> Panels]
    BY <1>0 DEF Pools
  <2>2. Panel(type) \in Panels
    BY DEF Panel, Panels, Lists
  <2>3. all \in [D \cup {id} -> Panels] /\ D \cup {id} \in SUBSET Nat
    BY <1>2, <2>1, <2>2
  <2>4. all \in Pools
    BY <2>3, Zenon DEF Pools
  <2>5. \A t \in DOMAIN w.pool : t # id
    BY <1>0, <1>3
  <2> QED
    BY <2>4, <2>5
<1>5. Owned(panes) \subseteq DOMAIN all
  <2>1. ASSUME NEW t \in Owned(panes) PROVE t \in DOMAIN all
    <3>1. PICK k \in 1..L : t = panes[k].tab /\ t # 0
      BY <1>2 DEF Owned
    <3>2. CASE k = i
      BY <1>4, <3>1, <3>2
    <3>3. CASE k # i
      <4>1. t = w.panes[k].tab
        BY <1>1, <3>1, <3>3
      <4> QED
        BY <1>0, <1>4, <3>1, <4>1
    <3> QED
      BY <3>2, <3>3
  <2> QED
    BY <2>1
<1>6. pool \in Pools /\ DOMAIN pool = Owned(panes) /\ \A t \in Owned(panes) : pool[t] = all[t]
  <2>1. pool \in Pools
    BY <1>4, KeptFacts
  <2>2. Owned(panes) \cap DOMAIN all = Owned(panes)
    BY <1>5
  <2>3. DOMAIN pool = Owned(panes) /\ \A t \in Owned(panes) : pool[t] = all[t]
    BY <2>2 DEF Kept
  <2> QED
    BY <2>1, <2>3
<1>7. PaneIds(panes) = PaneIds(w.panes)
  <2>1. PaneIds(panes) = {panes[k].id : k \in 1..L}
    BY <1>2 DEF PaneIds
  <2>2. PaneIds(w.panes) = {w.panes[k].id : k \in 1..L}
    BY <1>0 DEF PaneIds
  <2> QED
    BY <1>1, <2>1, <2>2
<1>8. ASSUME NEW j \in DOMAIN panes, NEW k \in DOMAIN panes, j # k
      PROVE  /\ panes[j].id # panes[k].id
             /\ panes[j].tab # 0 => panes[j].tab # panes[k].tab
  <2>1. panes[j].id # panes[k].id
    BY <1>0, <1>1, <1>2, <1>8
  <2>2. CASE j = i
    BY <1>1, <1>2, <1>3, <1>8, <2>1, <2>2
  <2>3. CASE k = i
    BY <1>1, <1>2, <1>3, <1>8, <2>1, <2>3
  <2>4. CASE j # i /\ k # i
    BY <1>0, <1>1, <1>2, <1>8, <2>1, <2>4
  <2> QED
    BY <2>2, <2>3, <2>4
<1>9. Tidy(v)
  <2>1. panes # <<>>
    BY <1>0, <1>2
  <2>2. panes[i].id \in PaneIds(panes) /\ w.maximized \in PaneIds(panes) \cup {0}
    BY <1>0, <1>2, <1>7 DEF PaneIds, Tidy
  <2> QED
    BY <1>6, <1>8, <2>1, <2>2, TidyMade
<1>10. Issued(v, id)
  <2>1. ASSUME NEW k \in 1..L
        PROVE  panes[k].id <= id /\ (panes[k].tab <= id \/ panes[k].tab > MaxIds)
    <3>1. panes[k].id <= id
      BY <1>0, <1>1
    <3>2. CASE k = i
      BY <1>2, <3>1, <3>2
    <3>3. CASE k # i
      BY <1>0, <1>1, <3>1, <3>3
    <3> QED
      BY <3>2, <3>3
  <2> QED
    BY <1>2, <2>1 DEF Issued
<1>11. Keeps(w, v)
  <2>1. ASSUME NEW o \in 1..L, w.panes[o].tab \in DOMAIN pool
        PROVE  panes[o] = w.panes[o]
    <3>1. PICK k \in 1..L : w.panes[o].tab = panes[k].tab /\ panes[k].tab # 0
      BY <1>2, <1>6, <2>1 DEF Owned
    <3>2. k # i
      BY <1>3, <3>1
    <3>3. k = o
      BY <1>0, <1>1, <3>1, <3>2
    <3> QED
      BY <1>1, <3>2, <3>3
  <2>2. \A t \in DOMAIN w.pool : t \in DOMAIN pool => pool[t] = w.pool[t]
    BY <1>4, <1>6
  <2> QED
    BY <1>0, <1>2, <2>1, <2>2 DEF Keeps
<1> QED
  BY <1>9, <1>10, <1>11

-----------------------------------------------------------------------------
(* What is on the screen *)

\* Each panel that is mounted is of a kind there is and has displays there are.
Drawn(m) == \A l \in DOMAIN m : m[l] \in [type : PanelTypes, tab : Nat, live : Lists]

LEMMA RenderedFacts ==
    ASSUME NEW w, Tidy(w), NEW before, Drawn(before),
           NEW m, m = Rendered(w, before)
    PROVE  /\ MountedRight(w, m)
           /\ \A i \in DOMAIN w.panes : w.panes[i].tab # 0 =>
                 /\ w.panes[i].id \in DOMAIN m
                 /\ m[w.panes[i].id] =
                       [type |-> w.pool[w.panes[i].tab].type, tab |-> w.panes[i].tab,
                        live |-> IF /\ w.panes[i].id \in DOMAIN before
                                    /\ before[w.panes[i].id].type = w.pool[w.panes[i].tab].type
                                 THEN before[w.panes[i].id].live
                                 ELSE w.pool[w.panes[i].tab].displays]
<1> DEFINE shown == {i \in DOMAIN w.panes : w.panes[i].tab # 0}
<1> DEFINE at(l) == CHOOSE p \in ToSet(w.panes) : p.id = l
<1> DEFINE look(l, t) ==
        [type |-> w.pool[t].type, tab |-> t,
         live |-> IF l \in DOMAIN before /\ before[l].type = w.pool[t].type
                  THEN before[l].live ELSE w.pool[t].displays]
<1>1. ToSet(w.panes) = {w.panes[i] : i \in DOMAIN w.panes}
  BY DEF ToSet
<1>2. DOMAIN m = {w.panes[i].id : i \in shown}
  <2>1. DOMAIN m = {p.id : p \in {p \in ToSet(w.panes) : p.tab # 0}}
    BY DEF Rendered
  <2>2. {p \in ToSet(w.panes) : p.tab # 0} = {w.panes[i] : i \in shown}
    BY <1>1
  <2> QED
    BY <2>1, <2>2
<1>3. \A l \in DOMAIN m : m[l] = look(l, at(l).tab)
  BY DEF Rendered
<1>4. ASSUME NEW i \in DOMAIN w.panes PROVE at(w.panes[i].id) = w.panes[i]
  <2>1. \A p \in ToSet(w.panes) : p.id = w.panes[i].id => p = w.panes[i]
    BY <1>1 DEF Tidy
  <2>2. w.panes[i] \in ToSet(w.panes)
    BY <1>1
  <2> QED
    BY <2>1, <2>2
<1> HIDE DEF at
<1>5. ASSUME NEW i \in shown
      PROVE  w.panes[i].id \in DOMAIN m /\ m[w.panes[i].id] = look(w.panes[i].id, w.panes[i].tab)
  BY <1>2, <1>3, <1>4
<1>6. ASSUME NEW i \in shown
      PROVE  look(w.panes[i].id, w.panes[i].tab) \in [type : PanelTypes, tab : Nat, live : Lists]
  <2>1. w.panes[i] \in Panes /\ w.panes[i].tab \in DOMAIN w.pool
    BY TidyFacts
  <2>2. w.pool[w.panes[i].tab] \in Panels
    BY <2>1, TidyFacts
  <2>3. w.panes[i].id \in DOMAIN before => before[w.panes[i].id].live \in Lists
    BY DEF Drawn
  <2> QED
    BY <2>1, <2>2, <2>3 DEF Panes, Panels
<1>7. Drawn(m)
  <2>1. ASSUME NEW l \in DOMAIN m PROVE m[l] \in [type : PanelTypes, tab : Nat, live : Lists]
    <3>1. PICK i \in shown : l = w.panes[i].id
      BY <1>2
    <3>2. m[l] = look(w.panes[i].id, w.panes[i].tab)
      BY <1>5, <3>1
    <3> HIDE DEF look
    <3> QED
      BY <1>6, <3>2
  <2> QED
    BY <2>1 DEF Drawn
<1>8. ASSUME NEW i \in DOMAIN w.panes, w.panes[i].tab # 0
      PROVE  /\ w.panes[i].id \in DOMAIN m
             /\ m[w.panes[i].id] = look(w.panes[i].id, w.panes[i].tab)
  BY <1>5, <1>8
<1>9. MountedRight(w, m)
  <2>1. ASSUME NEW i \in DOMAIN w.panes, w.panes[i].tab # 0
        PROVE  /\ m[w.panes[i].id].tab = w.panes[i].tab
               /\ m[w.panes[i].id].type = w.pool[w.panes[i].tab].type
    <3>1. m[w.panes[i].id] = look(w.panes[i].id, w.panes[i].tab)
      BY <1>8, <2>1
    <3> QED
      BY <3>1
  <2> QED
    BY <1>2, <1>7, <2>1 DEF MountedRight, Drawn
<1> QED
  BY <1>8, <1>9

\* What stays in its pane stays on the screen as it is.
LEMMA StaysMounted ==
    ASSUME NEW w, Tidy(w), NEW m, MountedRight(w, m), NEW v, Tidy(v), Keeps(w, v),
           NEW l \in DOMAIN m, m[l].tab \in DOMAIN v.pool
    PROVE  l \in DOMAIN Rendered(v, m) /\ Rendered(v, m)[l] = m[l]
<1>1. Drawn(m)
  BY DEF Drawn, MountedRight
<1>2. PICK i \in DOMAIN w.panes : w.panes[i].tab # 0 /\ l = w.panes[i].id
  BY DEF MountedRight
<1>3. m[l].tab = w.panes[i].tab /\ m[l].type = w.pool[w.panes[i].tab].type
  BY <1>2 DEF MountedRight
<1>4. PICK j \in DOMAIN v.panes : v.panes[j] = w.panes[i]
  BY <1>3 DEF Keeps
<1>5. v.pool[m[l].tab] = w.pool[m[l].tab]
  BY <1>2, <1>3, TidyFacts DEF Keeps
<1>6. /\ l \in DOMAIN Rendered(v, m)
      /\ Rendered(v, m)[l] = [type |-> v.pool[m[l].tab].type, tab |-> m[l].tab,
                              live |-> IF /\ l \in DOMAIN m
                                          /\ m[l].type = v.pool[m[l].tab].type
                                       THEN m[l].live ELSE v.pool[m[l].tab].displays]
  <2>1. v.panes[j].tab # 0 /\ v.panes[j].id = l /\ v.panes[j].tab = m[l].tab
    BY <1>2, <1>3, <1>4
  <2> QED
    BY <1>1, <2>1, RenderedFacts
<1>7. m[l] = [type |-> m[l].type, tab |-> m[l].tab, live |-> m[l].live]
  <2>1. m[l] \in [type : PanelTypes, tab : Nat, live : Lists]
    BY DEF MountedRight
  <2> QED
    BY <2>1
<1> QED
  BY <1>3, <1>5, <1>6, <1>7

-----------------------------------------------------------------------------
(* The invariant *)

LEMMA LegibleLater ==
    ASSUME NEW n \in Nat, NEW k \in Nat, n <= k, NEW cfg, Legible(cfg, n)
    PROVE  Legible(cfg, k)
<1>1. CASE cfg \in {None, Legacy}
  BY <1>1 DEF Legible
<1>2. CASE Tidy(cfg) /\ Issued(cfg, n)
  <2>1. \A i \in DOMAIN cfg.panes : cfg.panes[i].id \in Nat /\ cfg.panes[i].tab \in Nat
    BY <1>2, TidyFacts DEF Panes
  <2>2. Issued(cfg, k)
    BY <1>2, <2>1 DEF Issued
  <2> QED
    BY <1>2, <2>2 DEF Legible
<1> QED
  BY <1>1, <1>2 DEF Legible

LEMMA TidyIsThere ==
    ASSUME NEW w, Tidy(w)
    PROVE  w # None
BY DEF Tidy, None

\* Whatever the workspace becomes, so long as it is in order.
LEMMA BecomesHolds ==
    ASSUME WorkspaceInv, NEW v, Tidy(v), Issued(v, ids'), ids' \in 1..MaxIds, ids <= ids',
           Becomes(v), UNCHANGED <<stored, storageFull, saved>>, loaded' \in {loaded, None}
    PROVE  WorkspaceInv'
<1>1. /\ work' = v /\ pending' = v /\ mounted' = Rendered(v, mounted)
      /\ stored' = stored /\ saved' = saved /\ storageFull' = storageFull
  BY DEF Becomes, Snapshot
<1>2. Drawn(mounted)
  BY DEF WorkspaceInv, MountedRight, Drawn
<1>3. MountedRight(v, Rendered(v, mounted))
  BY <1>2, RenderedFacts
<1>4. ids \in Nat /\ ids' \in Nat /\ Legible(stored, ids) /\ Legible(saved, ids)
      /\ Legible(loaded, ids)
  BY WorkspaceAssumption DEF WorkspaceInv
<1>5. Legible(stored, ids') /\ Legible(saved, ids') /\ Legible(loaded', ids')
  <2>1. Legible(None, ids')
    BY DEF Legible
  <2> QED
    BY <1>4, <2>1, LegibleLater
<1>6. v # None
  BY TidyIsThere
<1>7. storageFull' \in BOOLEAN
  BY <1>1 DEF WorkspaceInv
<1>8. SavedWhenQuiet'
  BY <1>1, <1>6 DEF SavedWhenQuiet
<1>9. Tidy(work') /\ Issued(work', ids') /\ MountedRight(work', mounted')
  BY <1>1, <1>3
<1>10. Legible(stored', ids') /\ Legible(saved', ids') /\ pending' \in {None, work'}
  BY <1>1, <1>5
<1> QED
  BY <1>5, <1>7, <1>8, <1>9, <1>10 DEF WorkspaceInv

LEMMA WorkFacts ==
    ASSUME WorkspaceInv
    PROVE  /\ Tidy(work) /\ Issued(work, ids) /\ ids \in Nat \ {0} /\ MaxIds \in Nat
           /\ ids \in 1..MaxIds /\ HasParts(work) /\ work.panes \in Seq(Panes)
           /\ DOMAIN work.panes = 1 .. Len(work.panes) /\ Len(work.panes) \in Nat \ {0}
           /\ \A i \in DOMAIN work.panes : work.panes[i] \in Panes
<1>1. Tidy(work) /\ Issued(work, ids) /\ ids \in 1..MaxIds /\ MaxIds \in Nat
  BY WorkspaceAssumption DEF WorkspaceInv
<1>2. /\ HasParts(work) /\ work.panes \in Seq(Panes)
      /\ DOMAIN work.panes = 1 .. Len(work.panes) /\ Len(work.panes) \in Nat \ {0}
      /\ \A i \in DOMAIN work.panes : work.panes[i] \in Panes
  <2>1. PICK w : w = work
    OBVIOUS
  <2>2. /\ HasParts(w) /\ w.panes \in Seq(Panes)
        /\ DOMAIN w.panes = 1 .. Len(w.panes) /\ Len(w.panes) \in Nat \ {0}
        /\ \A i \in DOMAIN w.panes : w.panes[i] \in Panes
    BY <1>1, <2>1, TidyFacts
  <2> QED
    BY <2>1, <2>2
<1> QED
  BY <1>1, <1>2

LEMMA SplitPaneHolds ==
    ASSUME WorkspaceInv, NEW i \in DOMAIN work.panes, SplitPane(i)
    PROVE  WorkspaceInv' /\ Keeps(work, work') /\ mounted' = Rendered(work', mounted)
<1>0. PICK id : id = ids'
  OBVIOUS
<1>1. PICK panes : panes = SplitPanes(i, id)
  OBVIOUS
<1>2. PICK v : v = [work EXCEPT !.panes = panes, !.focused = id, !.maximized = 0]
  OBVIOUS
<1>3. /\ Becomes(v) /\ id = ids + 1 /\ ids + 1 <= MaxIds
      /\ UNCHANGED <<stored, storageFull, saved, loaded>>
  BY <1>0, <1>1, <1>2 DEF SplitPane, NewIds, Elsewhere
<1>4. PICK pane : pane = [id |-> id, tab |-> 0]
  OBVIOUS
<1>5. pane \in Panes
  BY <1>3, <1>4, WorkFacts DEF Panes
<1>6. panes = InsertAt(work.panes, i + 1, pane)
  BY <1>1, <1>4 DEF SplitPanes
<1>7. v = [panes |-> panes, pool |-> work.pool, focused |-> id, maximized |-> 0]
  BY <1>2, WorkFacts, EditSplit
<1>8. i \in 1 .. Len(work.panes) /\ work.panes \in Seq(Panes)
  BY WorkFacts
<1>9. panes \in Seq(Panes) /\ Inserted(panes, work.panes, i, pane)
  BY <1>5, <1>6, <1>8, InsertFacts
<1>10. Tidy(v) /\ Issued(v, id) /\ Keeps(work, v)
  BY <1>3, <1>4, <1>7, <1>9, WorkFacts, SplitFacts
<1>11. ids' \in 1..MaxIds /\ ids <= ids'
  BY <1>0, <1>3, WorkFacts
<1>12. WorkspaceInv'
  BY <1>0, <1>3, <1>10, <1>11, BecomesHolds
<1> QED
  BY <1>3, <1>10, <1>12 DEF Becomes

LEMMA ClosePaneHolds ==
    ASSUME WorkspaceInv, NEW i \in DOMAIN work.panes, ClosePane(i)
    PROVE  WorkspaceInv' /\ Keeps(work, work') /\ mounted' = Rendered(work', mounted)
<1>1. CASE Len(work.panes) > 1
  <2>1. PICK rest : rest = RemoveAt(work.panes, i)
    OBVIOUS
  <2>2. PICK pool : pool = GcPanels(work.pool, rest)
    OBVIOUS
  <2>3. PICK w : w = [work EXCEPT !.panes = rest, !.pool = pool]
    OBVIOUS
  <2>4. /\ Becomes(Refocused(w)) /\ ids' = ids
        /\ UNCHANGED <<stored, storageFull, saved, loaded>>
    BY <1>1, <2>1, <2>2, <2>3 DEF ClosePane, Elsewhere
  <2>5. w = [panes |-> rest, pool |-> pool, focused |-> work.focused,
             maximized |-> work.maximized]
    BY <2>3, WorkFacts, EditPool
  <2>6. /\ rest \in Seq(Panes) /\ Len(rest) = Len(work.panes) - 1
        /\ \A k \in 1 .. Len(work.panes) - 1 :
              rest[k] = IF k < i THEN work.panes[k] ELSE work.panes[k + 1]
    <3>1. i \in 1 .. Len(work.panes) /\ work.panes \in Seq(Panes)
      BY WorkFacts
    <3> QED
      BY <2>1, <3>1, RemoveFacts, Zenon
  <2>7. rest # <<>>
    BY <1>1, <2>6, WorkFacts
  <2>8. HasParts(w) /\ w.panes = rest /\ w.pool = pool
    BY <2>5, PartsHave
  <2>9. PICK f \in PaneIds(rest), m \in PaneIds(rest) \cup {0} :
            Refocused(w) = [panes |-> rest, pool |-> pool, focused |-> f, maximized |-> m]
    BY <2>6, <2>7, <2>8, RefocusedFacts
  <2>10. PICK v : v = Refocused(w)
    OBVIOUS
  <2>11. pool = Kept(work.pool, Owned(rest))
    BY <2>2 DEF GcPanels
  <2>12. Tidy(v) /\ Issued(v, ids) /\ Keeps(work, v)
    BY <1>1, <2>6, <2>9, <2>10, <2>11, WorkFacts, CloseFacts
  <2>13. WorkspaceInv'
    BY <2>4, <2>10, <2>12, WorkFacts, BecomesHolds
  <2> QED
    BY <2>4, <2>10, <2>12, <2>13 DEF Becomes
<1>2. CASE ~(Len(work.panes) > 1)
  <2>1. PICK id : id = ids'
    OBVIOUS
  <2>2. /\ Becomes(EmptyWorkspace(id)) /\ ids' = ids + 1 /\ ids + 1 <= MaxIds
        /\ UNCHANGED <<stored, storageFull, saved, loaded>>
    BY <1>2, <2>1 DEF ClosePane, NewIds, Elsewhere
  <2>3. ids' \in 1..MaxIds /\ ids <= ids' /\ id \in Nat \ {0}
    BY <2>1, <2>2, WorkFacts
  <2>4. Tidy(EmptyWorkspace(id)) /\ Issued(EmptyWorkspace(id), id)
    BY <2>3, EmptyTidy
  <2>5. Keeps(work, EmptyWorkspace(id))
    BY NoPool DEF Keeps, EmptyWorkspace
  <2>6. WorkspaceInv'
    BY <2>1, <2>2, <2>3, <2>4, BecomesHolds
  <2> QED
    BY <2>2, <2>5, <2>6 DEF Becomes
<1> QED
  BY <1>1, <1>2

LEMMA NewWorkspaceHolds ==
    ASSUME WorkspaceInv, NewWorkspace
    PROVE  WorkspaceInv' /\ Keeps(work, work') /\ mounted' = Rendered(work', mounted)
<1>1. PICK id : id = ids'
  OBVIOUS
<1>2. /\ Becomes(EmptyWorkspace(id)) /\ ids' = ids + 1 /\ ids + 1 <= MaxIds
      /\ UNCHANGED <<stored, storageFull, saved, loaded>>
  BY <1>1 DEF NewWorkspace, NewIds, Elsewhere
<1>3. ids' \in 1..MaxIds /\ ids <= ids' /\ id \in Nat \ {0}
  BY <1>1, <1>2, WorkFacts
<1>4. Tidy(EmptyWorkspace(id)) /\ Issued(EmptyWorkspace(id), id)
  BY <1>3, EmptyTidy
<1>5. Keeps(work, EmptyWorkspace(id))
  BY NoPool DEF Keeps, EmptyWorkspace
<1>6. WorkspaceInv'
  BY <1>1, <1>2, <1>3, <1>4, BecomesHolds
<1> QED
  BY <1>2, <1>5, <1>6 DEF Becomes

LEMMA SetPaneTypeHolds ==
    ASSUME WorkspaceInv, NEW i \in DOMAIN work.panes, NEW type \in PanelTypes,
           SetPaneType(i, type)
    PROVE  WorkspaceInv' /\ Keeps(work, work') /\ mounted' = Rendered(work', mounted)
<1>1. PICK id : id = ids'
  OBVIOUS
<1>2. PICK panes : panes = [work.panes EXCEPT ![i].tab = id]
  OBVIOUS
<1>3. PICK all : all = [t \in DOMAIN work.pool \cup {id} |->
                           IF t = id THEN Panel(type) ELSE work.pool[t]]
  OBVIOUS
<1>4. PICK pool : pool = GcPanels(all, panes)
  OBVIOUS
<1>5. PICK v : v = [work EXCEPT !.panes = panes, !.pool = pool, !.focused = panes[i].id]
  OBVIOUS
<1>6. /\ Becomes(v) /\ id = ids + 1 /\ ids + 1 <= MaxIds
      /\ UNCHANGED <<stored, storageFull, saved, loaded>>
  BY <1>1, <1>2, <1>3, <1>4, <1>5 DEF SetPaneType, NewIds, Elsewhere
<1>7. v = [panes |-> panes, pool |-> pool, focused |-> panes[i].id,
           maximized |-> work.maximized]
  BY <1>5, WorkFacts, EditType
<1>8. /\ panes \in Seq(Panes) /\ Len(panes) = Len(work.panes)
      /\ \A k \in 1 .. Len(work.panes) : panes[k].id = work.panes[k].id
      /\ \A k \in 1 .. Len(work.panes) : k # i => panes[k] = work.panes[k]
      /\ panes[i].tab = id
  <2>1. /\ work.panes \in Seq(Panes) /\ DOMAIN work.panes = 1 .. Len(work.panes)
        /\ i \in 1 .. Len(work.panes) /\ work.panes[i] \in Panes /\ id \in Nat
        /\ \A k \in 1 .. Len(work.panes) : work.panes[k] \in Panes
    BY <1>6, WorkFacts
  <2>2. panes = [work.panes EXCEPT ![i] = [work.panes[i] EXCEPT !.tab = id]]
    BY <1>2
  <2>3. [work.panes[i] EXCEPT !.tab = id] = [id |-> work.panes[i].id, tab |-> id]
    BY <2>1 DEF Panes
  <2>4. [id |-> work.panes[i].id, tab |-> id] \in Panes
    BY <2>1 DEF Panes
  <2>5. panes = [work.panes EXCEPT ![i] = [id |-> work.panes[i].id, tab |-> id]]
    BY <2>2, <2>3
  <2>6. panes \in Seq(Panes) /\ Len(panes) = Len(work.panes)
    BY <2>1, <2>4, <2>5
  <2> QED
    BY <2>1, <2>5, <2>6
<1>9. pool = Kept(all, Owned(panes))
  BY <1>4 DEF GcPanels
<1>10. Tidy(v) /\ Issued(v, id) /\ Keeps(work, v)
  BY <1>3, <1>6, <1>7, <1>8, <1>9, WorkFacts, RetypeFacts
<1>11. ids' \in 1..MaxIds /\ ids <= ids'
  BY <1>1, <1>6, WorkFacts
<1>12. WorkspaceInv'
  BY <1>1, <1>6, <1>10, <1>11, BecomesHolds
<1> QED
  BY <1>6, <1>10, <1>12 DEF Becomes

\* Focus and maximized pane are one of the panes.
LEMMA FocusFacts ==
    ASSUME WorkspaceInv, NEW f \in PaneIds(work.panes), NEW m \in PaneIds(work.panes) \cup {0},
           NEW v, v = [panes |-> work.panes, pool |-> work.pool, focused |-> f, maximized |-> m]
    PROVE  Tidy(v) /\ Issued(v, ids) /\ v.panes = work.panes
<1>1. v.panes = work.panes
  OBVIOUS
<1>2. Tidy(v)
  <2>1. work.panes \in Seq(Panes) /\ work.pool \in Pools /\ work.panes # <<>>
    BY WorkFacts DEF Tidy
  <2>2. DOMAIN work.pool = Owned(work.panes)
    BY WorkFacts DEF Tidy
  <2>3. \A i, j \in DOMAIN work.panes :
            i # j => /\ work.panes[i].id # work.panes[j].id
                     /\ work.panes[i].tab # 0 => work.panes[i].tab # work.panes[j].tab
    BY WorkFacts DEF Tidy
  <2> QED
    BY <2>1, <2>2, <2>3, TidyMade
<1> QED
  BY <1>1, <1>2, WorkFacts DEF Issued

LEMMA FocusPaneHolds ==
    ASSUME WorkspaceInv, NEW i \in DOMAIN work.panes, FocusPane(i)
    PROVE  WorkspaceInv' /\ work'.panes = work.panes
<1>1. PICK v : v = [work EXCEPT !.focused = work.panes[i].id]
  OBVIOUS
<1>2. /\ Becomes(v) /\ ids' = ids
      /\ UNCHANGED <<stored, storageFull, saved, loaded>>
  BY <1>1 DEF FocusPane, Elsewhere
<1>3. v = [panes |-> work.panes, pool |-> work.pool, focused |-> work.panes[i].id,
           maximized |-> work.maximized]
  BY <1>1, WorkFacts, EditFocused
<1>4. /\ work.panes[i].id \in PaneIds(work.panes)
      /\ work.maximized \in PaneIds(work.panes) \cup {0}
  BY WorkFacts DEF PaneIds, Tidy
<1>5. Tidy(v) /\ Issued(v, ids) /\ v.panes = work.panes
  BY <1>3, <1>4, FocusFacts
<1>6. WorkspaceInv'
  BY <1>2, <1>5, WorkFacts, BecomesHolds
<1> QED
  BY <1>2, <1>5, <1>6 DEF Becomes

LEMMA ToggleMaximizeHolds ==
    ASSUME WorkspaceInv, NEW i \in DOMAIN work.panes, ToggleMaximize(i)
    PROVE  WorkspaceInv' /\ work'.panes = work.panes
<1>1. PICK m : m = IF work.maximized = work.panes[i].id THEN 0 ELSE work.panes[i].id
  OBVIOUS
<1>2. PICK v : v = [work EXCEPT !.maximized = m, !.focused = work.panes[i].id]
  OBVIOUS
<1>3. /\ Becomes(v) /\ ids' = ids
      /\ UNCHANGED <<stored, storageFull, saved, loaded>>
  BY <1>1, <1>2 DEF ToggleMaximize, Elsewhere
<1>4. v = [panes |-> work.panes, pool |-> work.pool, focused |-> work.panes[i].id,
           maximized |-> m]
  BY <1>2, WorkFacts, EditMaximized
<1>5. work.panes[i].id \in PaneIds(work.panes) /\ m \in PaneIds(work.panes) \cup {0}
  BY <1>1 DEF PaneIds
<1>6. Tidy(v) /\ Issued(v, ids) /\ v.panes = work.panes
  BY <1>4, <1>5, FocusFacts
<1>7. WorkspaceInv'
  BY <1>3, <1>6, WorkFacts, BecomesHolds
<1> QED
  BY <1>3, <1>6, <1>7 DEF Becomes

LEMMA EditDisplaysHolds ==
    ASSUME WorkspaceInv, NEW i \in DOMAIN work.panes, NEW list \in Lists, EditDisplays(i, list)
    PROVE  WorkspaceInv' /\ work'.panes = work.panes
<1>1. PICK l, t : l = work.panes[i].id /\ t = work.panes[i].tab
  OBVIOUS
<1>2. PICK pool : pool = [work.pool EXCEPT ![t].displays = list]
  OBVIOUS
<1>3. PICK v : v = [work EXCEPT !.pool[t].displays = list]
  OBVIOUS
<1>4. /\ work' = v /\ pending' = v /\ mounted' = [mounted EXCEPT ![l].live = list]
      /\ ids' = ids /\ t # 0 /\ UNCHANGED <<stored, storageFull, saved, loaded>>
  BY <1>1, <1>3 DEF EditDisplays, Snapshot, Elsewhere
<1>5. v = [panes |-> work.panes, pool |-> pool, focused |-> work.focused,
           maximized |-> work.maximized]
  BY <1>2, <1>3, WorkFacts, EditShown
<1>6. DOMAIN work.pool = Owned(work.panes) /\ work.pool \in Pools
  BY WorkFacts DEF Tidy
<1>7. t \in DOMAIN work.pool
  BY <1>1, <1>4, <1>6 DEF Owned
<1>8. /\ pool \in Pools /\ DOMAIN pool = DOMAIN work.pool
      /\ \A u \in DOMAIN pool : pool[u].type = work.pool[u].type
  <2>1. PICK D \in SUBSET Nat : work.pool \in [D -> Panels]
    BY <1>6 DEF Pools
  <2>2. pool = [work.pool EXCEPT ![t] = [work.pool[t] EXCEPT !.displays = list]]
    BY <1>2
  <2>3. [work.pool[t] EXCEPT !.displays = list] = [type |-> work.pool[t].type, displays |-> list]
    BY <1>7, <2>1 DEF Panels
  <2>4. [type |-> work.pool[t].type, displays |-> list] \in Panels
    BY <1>7, <2>1 DEF Panels
  <2>5. pool = [work.pool EXCEPT ![t] = [type |-> work.pool[t].type, displays |-> list]]
    BY <2>2, <2>3
  <2>6. pool \in [D -> Panels]
    BY <1>7, <2>1, <2>4, <2>5
  <2>7. pool \in Pools
    BY <2>6, Zenon DEF Pools
  <2> QED
    BY <1>7, <2>1, <2>5, <2>7
<1>9. Tidy(v)
  <2>1. work.panes \in Seq(Panes) /\ work.panes # <<>>
    BY WorkFacts DEF Tidy
  <2>2. /\ work.focused \in PaneIds(work.panes)
        /\ work.maximized \in PaneIds(work.panes) \cup {0}
    BY WorkFacts DEF Tidy
  <2>3. \A j, k \in DOMAIN work.panes :
            j # k => /\ work.panes[j].id # work.panes[k].id
                     /\ work.panes[j].tab # 0 => work.panes[j].tab # work.panes[k].tab
    BY WorkFacts DEF Tidy
  <2>4. DOMAIN pool = Owned(work.panes)
    BY <1>6, <1>8
  <2> QED
    BY <1>5, <1>8, <2>1, <2>2, <2>3, <2>4, TidyMade
<1>10. Issued(v, ids)
  BY <1>5, WorkFacts DEF Issued
<1>11. MountedRight(work, mounted)
  BY DEF WorkspaceInv
<1>12. l \in DOMAIN mounted
  BY <1>1, <1>4, <1>11 DEF MountedRight
<1>13. PICK m : m = [mounted EXCEPT ![l].live = list]
  OBVIOUS
<1>14. /\ DOMAIN m = DOMAIN mounted
       /\ \A k \in DOMAIN m : /\ m[k] \in [type : PanelTypes, tab : Nat, live : Lists]
                              /\ m[k].tab = mounted[k].tab /\ m[k].type = mounted[k].type
  <2>1. \A k \in DOMAIN mounted : mounted[k] \in [type : PanelTypes, tab : Nat, live : Lists]
    BY <1>11 DEF MountedRight
  <2>2. DOMAIN m = DOMAIN mounted
    BY <1>13
  <2>3. ASSUME NEW k \in DOMAIN mounted
        PROVE  /\ m[k] \in [type : PanelTypes, tab : Nat, live : Lists]
               /\ m[k].tab = mounted[k].tab /\ m[k].type = mounted[k].type
    <3>1. CASE k = l
      <4>1. m[k] = [mounted[k] EXCEPT !.live = list]
        BY <1>13, <3>1
      <4> QED
        BY <2>1, <4>1
    <3>2. CASE k # l
      BY <1>13, <2>1, <3>2
    <3> QED
      BY <3>1, <3>2
  <2> QED
    BY <2>2, <2>3
<1>15. MountedRight(v, m)
  <2>1. /\ DOMAIN mounted = {work.panes[j].id :
                               j \in {j \in DOMAIN work.panes : work.panes[j].tab # 0}}
        /\ \A j \in DOMAIN work.panes : work.panes[j].tab # 0 =>
              /\ mounted[work.panes[j].id].tab = work.panes[j].tab
              /\ mounted[work.panes[j].id].type = work.pool[work.panes[j].tab].type
    BY <1>11 DEF MountedRight
  <2>2. v.panes = work.panes /\ v.pool = pool
    BY <1>5
  <2>3. ASSUME NEW j \in DOMAIN work.panes, work.panes[j].tab # 0
        PROVE  /\ m[work.panes[j].id].tab = work.panes[j].tab
               /\ m[work.panes[j].id].type = pool[work.panes[j].tab].type
    <3>1. work.panes[j].id \in DOMAIN m
      BY <1>14, <2>1, <2>3
    <3>2. work.panes[j].tab \in DOMAIN pool
      BY <1>6, <1>8, <2>3 DEF Owned
    <3> QED
      BY <1>8, <1>14, <2>1, <2>3, <3>1, <3>2
  <2> QED
    BY <1>14, <2>1, <2>2, <2>3 DEF MountedRight
<1>16. v # None
  BY <1>9, TidyIsThere
<1>17. SavedWhenQuiet'
  BY <1>4, <1>16 DEF SavedWhenQuiet
<1>18. WorkspaceInv'
  BY <1>4, <1>9, <1>10, <1>13, <1>15, <1>17 DEF WorkspaceInv
<1> QED
  BY <1>4, <1>5, <1>18

LEMMA PersistWorkspaceHolds ==
    ASSUME WorkspaceInv, PersistWorkspace
    PROVE  WorkspaceInv' /\ work' = work
<1>1. /\ pending = work /\ pending' = None
      /\ stored' = IF storageFull THEN stored ELSE work
      /\ UNCHANGED <<work, mounted, storageFull, saved, loaded, ids>>
  BY DEF PersistWorkspace, WorkspaceInv
<1>2. Legible(stored', ids')
  <2>1. Legible(work, ids)
    BY WorkFacts DEF Legible
  <2> QED
    BY <1>1, <2>1 DEF WorkspaceInv
<1>3. SavedWhenQuiet'
  <2>1. Sanitized(work, 0) = work
    BY WorkFacts, SanitizedKeeps
  <2> QED
    BY <1>1, <2>1 DEF SavedWhenQuiet
<1> QED
  BY <1>1, <1>2, <1>3 DEF WorkspaceInv

LEMMA ReloadPageHolds ==
    ASSUME WorkspaceInv, ReloadPage
    PROVE  WorkspaceInv'
<1>1. PICK id : id = ids'
  OBVIOUS
<1>2. PICK v : v = Sanitized(stored, id)
  OBVIOUS
<1>3. /\ work' = v /\ mounted' = Rendered(v, <<>>) /\ pending' = None /\ loaded' = None
      /\ id = ids + 1 /\ ids + 1 <= MaxIds /\ UNCHANGED <<stored, storageFull, saved>>
  BY <1>1, <1>2 DEF ReloadPage, NewIds
<1>4. ids \in Nat /\ id \in Nat \ {0} /\ ids <= id /\ id \in 1..MaxIds
  BY <1>3, WorkFacts
<1>5. Legible(stored, ids) /\ Legible(saved, ids)
  BY DEF WorkspaceInv
<1>6. Tidy(v) /\ Issued(v, id)
  BY <1>2, <1>3, <1>4, <1>5, SanitizedFacts
<1>7. Drawn(<<>>)
  BY NoPool DEF Drawn
<1>8. MountedRight(v, Rendered(v, <<>>))
  BY <1>6, <1>7, RenderedFacts
<1>9. Legible(stored, id) /\ Legible(saved, id)
  BY <1>4, <1>5, LegibleLater
<1>10. v.pool = Sanitized(stored, 0).pool
  BY <1>2, <1>4, <1>5, SanitizedPool
<1>11. SavedWhenQuiet'
  BY <1>3, <1>10 DEF SavedWhenQuiet
<1>12. Legible(None, id)
  BY DEF Legible
<1> QED
  BY <1>1, <1>3, <1>4, <1>6, <1>8, <1>9, <1>11, <1>12 DEF WorkspaceInv

LEMMA LayoutHolds ==
    ASSUME WorkspaceInv, SaveLayout \/ LoadLayout \/ DeleteLayout
    PROVE  WorkspaceInv' /\ work' = work
<1>1. UNCHANGED <<work, mounted, stored, pending, storageFull, ids>>
  BY DEF SaveLayout, LoadLayout, DeleteLayout, LayoutCall
<1>2. Legible(saved, ids) /\ Legible(loaded, ids) /\ Legible(work, ids) /\ Legible(None, ids)
  BY WorkFacts DEF WorkspaceInv, Legible
<1>3. saved' \in {saved, work, None} /\ loaded' \in {loaded, saved}
  BY DEF SaveLayout, LoadLayout, DeleteLayout
<1>4. Legible(saved', ids) /\ Legible(loaded', ids)
  BY <1>2, <1>3
<1>5. SavedWhenQuiet'
  BY <1>1 DEF WorkspaceInv, SavedWhenQuiet
<1> QED
  BY <1>1, <1>4, <1>5 DEF WorkspaceInv

LEMMA ApplyWorkspaceHolds ==
    ASSUME WorkspaceInv, ApplyWorkspace
    PROVE  WorkspaceInv'
<1>1. PICK id : id = ids'
  OBVIOUS
<1>2. PICK v : v = Sanitized(loaded, id)
  OBVIOUS
<1>3. /\ Becomes(v) /\ id = ids + 1 /\ ids + 1 <= MaxIds
      /\ UNCHANGED <<stored, storageFull, saved>> /\ loaded' = None
  BY <1>1, <1>2 DEF ApplyWorkspace, NewIds
<1>4. ids \in Nat /\ id \in Nat \ {0} /\ ids <= id /\ id \in 1..MaxIds
  BY <1>3, WorkFacts
<1>5. Legible(loaded, ids)
  BY DEF WorkspaceInv
<1>6. Tidy(v) /\ Issued(v, id)
  BY <1>2, <1>3, <1>4, <1>5, SanitizedFacts
<1>7. UNCHANGED <<stored, storageFull, saved>> /\ loaded' \in {loaded, None}
  BY <1>3
<1> QED
  BY <1>1, <1>3, <1>4, <1>6, <1>7, BecomesHolds

LEMMA WorkspaceStarts == WorkspaceInit => WorkspaceInv
<1> SUFFICES ASSUME WorkspaceInit PROVE WorkspaceInv
  OBVIOUS
<1>1. /\ stored \in {None, Legacy} /\ work = Sanitized(stored, 1)
      /\ mounted = Rendered(work, <<>>) /\ pending = None /\ storageFull \in BOOLEAN
      /\ saved = stored /\ loaded = None /\ ids = 1
  BY DEF WorkspaceInit
<1>2. ids \in 1..MaxIds
  BY <1>1, WorkspaceAssumption
<1>3. Legible(stored, ids) /\ Legible(None, ids)
  BY <1>1 DEF Legible
<1>4. Tidy(work) /\ Issued(work, ids)
  BY <1>1, <1>2, <1>3, SanitizedFacts
<1>5. Drawn(<<>>)
  BY NoPool DEF Drawn
<1>6. MountedRight(work, mounted)
  <2>1. MountedRight(work, Rendered(work, <<>>))
    BY <1>4, <1>5, RenderedFacts
  <2> QED
    BY <1>1, <2>1
<1>7. SavedWhenQuiet
  BY <1>1, <1>2, <1>3, SanitizedPool DEF SavedWhenQuiet
<1> QED
  BY <1>1, <1>2, <1>3, <1>4, <1>6, <1>7 DEF WorkspaceInv

\* What a step does: the panes become others only by being split, closed or
\* filled, with which the panels that remain stay where they are.
LEMMA WorkspaceStep ==
    ASSUME WorkspaceInv, WorkspaceNext
    PROVE  /\ WorkspaceInv'
           /\ \/ work'.panes = work.panes \/ ReloadPage \/ ApplyWorkspace
              \/ Keeps(work, work') /\ mounted' = Rendered(work', mounted)
<1>1. ASSUME NEW i \in Shown, SplitPane(i) \/ ClosePane(i)
             \/ \E type \in PanelTypes : SetPaneType(i, type)
      PROVE  WorkspaceInv' /\ Keeps(work, work') /\ mounted' = Rendered(work', mounted)
  <2>1. i \in DOMAIN work.panes
    BY DEF Shown
  <2> QED
    BY <1>1, <2>1, SplitPaneHolds, ClosePaneHolds, SetPaneTypeHolds
<1>2. ASSUME NEW i \in Shown, FocusPane(i) \/ ToggleMaximize(i)
             \/ \E list \in DisplayLists \cup {"none"} : EditDisplays(i, list)
      PROVE  WorkspaceInv' /\ work'.panes = work.panes
  <2>1. i \in DOMAIN work.panes
    BY DEF Shown
  <2> QED
    BY <1>2, <2>1, FocusPaneHolds, ToggleMaximizeHolds, EditDisplaysHolds DEF Lists
<1>3. CASE NewWorkspace
  BY <1>3, NewWorkspaceHolds
<1>4. CASE PersistWorkspace
  BY <1>4, PersistWorkspaceHolds
<1>5. CASE ReloadPage
  BY <1>5, ReloadPageHolds
<1>6. CASE SaveLayout \/ LoadLayout \/ DeleteLayout
  BY <1>6, LayoutHolds
<1>7. CASE ApplyWorkspace
  BY <1>7, ApplyWorkspaceHolds
<1> QED
  BY <1>1, <1>2, <1>3, <1>4, <1>5, <1>6, <1>7 DEF WorkspaceNext

LEMMA WorkspaceStutters ==
    ASSUME WorkspaceInv, UNCHANGED workspaceVars
    PROVE  WorkspaceInv'
<1>1. UNCHANGED <<work, mounted, stored, pending, storageFull, saved, loaded, ids>>
  BY DEF workspaceVars
<1>2. SavedWhenQuiet'
  BY <1>1 DEF WorkspaceInv, SavedWhenQuiet
<1> QED
  BY <1>1, <1>2 DEF WorkspaceInv

LEMMA WorkspaceInvHolds == WorkspaceSpec => []WorkspaceInv
<1>1. WorkspaceInit => WorkspaceInv
  BY WorkspaceStarts
<1>2. WorkspaceInv /\ [WorkspaceNext]_workspaceVars => WorkspaceInv'
  BY WorkspaceStep, WorkspaceStutters
<1> QED
  BY <1>1, <1>2, PTL DEF WorkspaceSpec

\* Each panel of the pool is owned by exactly one pane, each pane's panel is
\* there, and what is focused and maximized exists, whatever has been split,
\* closed, read back or loaded (tabs.store.ts 13-14, 171-176).
THEOREM OwnedOnceHolds == WorkspaceSpec => []OwnedOnce
<1>1. WorkspaceInv => OwnedOnce
  BY DEF WorkspaceInv, Tidy, OwnedOnce
<1> QED
  BY <1>1, WorkspaceInvHolds, PTL

\* What the timer has written is read back with the panels there are, whether
\* it was nothing, a pool from before panes or a workspace (tabs.store.ts
\* 334-348).
THEOREM SavedWhenQuietHolds == WorkspaceSpec => []SavedWhenQuiet
<1>1. WorkspaceInv => SavedWhenQuiet
  BY DEF WorkspaceInv
<1> QED
  BY <1>1, WorkspaceInvHolds, PTL

\* A panel that is not closed itself stays mounted, with what it shows, when
\* panes are split, closed or filled (WorkspaceView.tsx 5-11).
THEOREM PanesStayMountedHolds == WorkspaceSpec => PanesStayMounted
<1>1. ASSUME WorkspaceInv, [WorkspaceNext]_workspaceVars
      PROVE  [work'.panes # work.panes /\ ~(ReloadPage \/ ApplyWorkspace) =>
                 \A l \in DOMAIN mounted : mounted[l].tab \in DOMAIN work'.pool =>
                     l \in DOMAIN mounted' /\ mounted'[l] = mounted[l]]_workspaceVars
  <2> SUFFICES ASSUME WorkspaceNext, work'.panes # work.panes, ~(ReloadPage \/ ApplyWorkspace),
                      NEW l \in DOMAIN mounted, mounted[l].tab \in DOMAIN work'.pool
               PROVE  l \in DOMAIN mounted' /\ mounted'[l] = mounted[l]
    BY <1>1
  <2>1. WorkspaceInv' /\ Keeps(work, work') /\ mounted' = Rendered(work', mounted)
    BY <1>1, WorkspaceStep
  <2>2. Tidy(work) /\ Tidy(work') /\ MountedRight(work, mounted)
    BY <1>1, <2>1 DEF WorkspaceInv
  <2>3. l \in DOMAIN Rendered(work', mounted) /\ Rendered(work', mounted)[l] = mounted[l]
    BY <2>1, <2>2, StaysMounted
  <2> QED
    BY <2>1, <2>3
<1> QED
  BY <1>1, WorkspaceInvHolds, PTL DEF WorkspaceSpec, PanesStayMounted
=============================================================================
