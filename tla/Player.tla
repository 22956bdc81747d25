------------------------------ MODULE Player ------------------------------
(***************************************************************************)
(* Playback (packages/app/src/core/player.ts): a recording is replayed     *)
(* over a socket as a source of its own.                                   *)
(*                                                                         *)
(* A recording is its sequence of data frames as parse leaves it, by time  *)
(* from 0, each with its channel: parseMcap sorts them, a .wvrec has them  *)
(* in the order they were written.  Wall-clock time times speed is how far *)
(* a step moves the clock; time that does not count (paused, not ready)    *)
(* leaves no trace, because lastTickMs is set again before it is used.     *)
(***************************************************************************)
EXTENDS AppSocket, Sequences, FiniteSetsExt

CONSTANTS
    Recordings,   \* files the user may open
    RecordedChannels,
    MaxStep,      \* bound: how far one step moves the clock
    MaxLoads,     \* bound: calls of load
    MaxSeeks      \* bound: calls of seek

ASSUME PlayerAssumption ==
    /\ MaxStep \in Nat \ {0} /\ MaxLoads \in Nat /\ MaxSeeks \in Nat
    /\ \A r \in Recordings :
          /\ r \in Seq([t : Nat, ch : RecordedChannels])
          /\ \A j, k \in DOMAIN r : j <= k => r[j].t <= r[k].t

VARIABLES
    records, cursor, ready, status, clock,
    looping,    \* rafId # null
    loading,    \* files being read
    catalogued, \* channels advertised on ws
    replayed,   \* what the hub has on each channel from ws: an index into records
    loads, seeks  \* counters for the bounds

playerVars == <<records, cursor, ready, status, clock, looping, loading, catalogued,
                replayed, loads, seeks>>
playVars == <<socketVars, playerVars>>

Unsent == 0
NothingSent == [c \in RecordedChannels |-> Unsent]
ChannelsOf(r) == {r[k].ch : k \in DOMAIN r}

PlayerInit ==
    /\ records = <<>> /\ cursor = 0 /\ clock = 0
    /\ status = "idle" /\ ready = FALSE /\ looping = FALSE
    /\ loading = {}
    /\ catalogued = {}
    /\ replayed = NothingSent
    /\ loads = 0 /\ seeks = 0

Duration == IF records = <<>> THEN 0 ELSE records[Len(records)].t

-----------------------------------------------------------------------------
(* Loading *)

\* The first half of load, up to the await.
Load(r) ==
    /\ r \notin loading
    /\ loads < MaxLoads
    /\ loads' = loads + 1
    /\ loading' = loading \cup {r}
    /\ UNCHANGED <<socketVars, records, cursor, ready, status, clock, looping,
                   catalogued, replayed, seeks>>

\* What unload and load leave, with recording r (none: <<>>).
Reset(r) ==
    /\ records' = r
    /\ cursor' = 0 /\ clock' = 0
    /\ ready' = FALSE
    /\ status' = IF r = <<>> THEN "idle" ELSE "playing"
    /\ looping' = (r # <<>>)
    /\ replayed' = NothingSent
    /\ catalogued' = IF ws' = ws THEN catalogued ELSE {}
    /\ UNCHANGED <<hubEnd, drops, promptCloses, loads, seeks>>

\* Mutant: the socket of the last recording is used again.
Mut_LoadedReuses(r) ==
    /\ r \in loading
    /\ loading' = loading \ {r}
    /\ IF ws # Null THEN UNCHANGED <<ws, phase>> ELSE NewSocket(phase)
    /\ Reset(r)

\* The second half of load, and the play that the toolbar calls next.
Loaded(r) ==
    /\ r \in loading
    /\ loading' = loading \ {r}
    /\ NewSocket(Shut(ws))
    /\ Reset(r)

\* unload; or load of a file that does not parse.
Unload ==
    /\ loading' \in {loading} \cup {loading \ {r} : r \in loading}
    /\ ws' = Null
    /\ phase' = Shut(ws)
    /\ Reset(<<>>)

-----------------------------------------------------------------------------
(* Transport *)

\* flushDue from record k on, with the clock at c.
Passed(k, c) == {j \in k + 1 .. Len(records) : \A i \in k + 1 .. j : records[i].t <= c}

FlushDue(k, c) ==
    IF ~ready \/ ws = Null
    THEN cursor' = k /\ UNCHANGED replayed
    ELSE /\ cursor' = k + Cardinality(Passed(k, c))
         /\ replayed' = [ch \in RecordedChannels |->
               LET sent == {j \in Passed(k, c) : records[j].ch = ch}
               IN  IF sent # {} /\ Alive /\ phase[ws] = "open" /\ ch \in catalogued
                   THEN Max(sent) ELSE replayed[ch]]

\* Mutant: a backward seek goes on from where it was.
Mut_SeekInternalForward(target) ==
    /\ clock' = target
    /\ FlushDue(cursor, target)

\* seekInternal, but for the status
SeekInternal(target) ==
    /\ clock' = target
    /\ FlushDue(IF target < clock THEN 0 ELSE cursor, target)

Play ==
    /\ records # <<>>
    /\ status \in {"paused", "ended"}
    /\ IF status = "ended" THEN SeekInternal(0) ELSE UNCHANGED <<clock, cursor, replayed>>
    /\ status' = "playing"
    /\ looping' = TRUE
    /\ UNCHANGED <<socketVars, records, ready, loading, catalogued, loads, seeks>>

Pause ==
    /\ status = "playing"
    /\ status' = "paused"
    /\ looping' = FALSE
    /\ UNCHANGED <<socketVars, records, cursor, ready, clock, loading, catalogued, replayed,
                   loads, seeks>>

Seek(target) ==
    /\ seeks < MaxSeeks
    /\ seeks' = seeks + 1
    /\ target <= Duration
    /\ SeekInternal(target)
    /\ status' = IF status = "ended" /\ target < Duration THEN "paused" ELSE status
    /\ UNCHANGED <<socketVars, records, ready, looping, loading, catalogued, loads>>

\* step, from the animation frame; without a socket it only waits.
Step(dt) ==
    /\ looping
    /\ ready
    /\ clock' = Min({clock + dt, Duration})
    /\ FlushDue(cursor, clock')
    /\ IF clock + dt >= Duration
       THEN status' = "ended" /\ looping' = FALSE
       ELSE UNCHANGED <<status, looping>>
    /\ UNCHANGED <<socketVars, records, ready, loading, catalogued, loads, seeks>>

-----------------------------------------------------------------------------
(* Callbacks of the socket *)

\* onopen.  Where closes are prompt, that of an older socket comes first.
PlayerOnOpen(s) ==
    /\ promptCloses => Closing = {}
    /\ HandshakeDone(s)
    /\ catalogued' = ChannelsOf(records)
    /\ ready' = TRUE
    /\ UNCHANGED <<ws, records, cursor, status, clock, looping, loading, replayed, loads, seeks>>

\* onclose, of whichever socket; nothing connects again.
PlayerOnClose(s) ==
    /\ SocketEnds(s)
    /\ ready' = FALSE
    /\ UNCHANGED <<ws, records, cursor, status, clock, looping, loading, catalogued,
                   replayed, loads, seeks>>

PlayerNext ==
    \/ \E r \in Recordings : Load(r) \/ Loaded(r)
    \/ Unload
    \/ Play
    \/ Pause
    \/ \E target \in 0..Duration : Seek(target)
    \/ \E dt \in 0..MaxStep : Step(dt)
    \/ \E s \in Sockets :
          PlayerOnOpen(s) \/ PlayerOnClose(s) \/ (HubLoses(s) /\ UNCHANGED playerVars)

\* Sockets report, animation frames come, and time passes between them.
PlayerFairness ==
    /\ \A s \in Sockets :
          WF_playVars(PlayerOnOpen(s)) /\ WF_playVars(PlayerOnClose(s))
    /\ WF_playVars(\E dt \in 1..MaxStep : Step(dt))
-----------------------------------------------------------------------------
(***************************************************************************)
(* Once anything is replayed over a working socket, whatever seeks,        *)
(* pauses and repeats led there, every record up to the clock was sent and *)
(* none after it is next, each channel that has a frame by then shows the  *)
(* last one ("replay from the start so latest-value channels rebuild",     *)
(* player.ts 315), a recording ends only when all of it was sent, and      *)
(* frames are asked for exactly while it plays.                            *)
(***************************************************************************)
Past(ch) == {k \in DOMAIN records : records[k].t <= clock /\ records[k].ch = ch}

PositionShown ==
    /\ ready /\ Alive /\ cursor > 0 =>
          /\ cursor = Cardinality({k \in DOMAIN records : records[k].t <= clock})
          /\ \A ch \in RecordedChannels : Past(ch) # {} => replayed[ch] = Max(Past(ch))
    /\ status = "ended" => clock = Duration /\ cursor = Len(records)
    /\ looping = (status = "playing")

(***************************************************************************)
(* If no 'close' event is stale and no connection is lost, a recording     *)
(* that plays comes to its end or is stopped by the user (player.ts 20     *)
(* "driven by a rAF clock advanced by real time").                         *)
(***************************************************************************)
PlaysToEnd ==
    (promptCloses /\ status = "playing") ~> (status # "playing" \/ drops > 0)
=============================================================================
