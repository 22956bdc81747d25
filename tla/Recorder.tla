----------------------------- MODULE Recorder -----------------------------
(***************************************************************************)
(* Recording a session (packages/app/src/core/recorder.ts, and the record  *)
(* button of ui/TopBar.tsx): every frame of the socket is kept as it came, *)
(* and only when the recording ends is it made into a file whose messages  *)
(* are named by the channel list of the beginning and what changed it.     *)
(*                                                                         *)
(* The hub, external here, gives channels their ids and names, and starts  *)
(* again from the first id when it has been restarted.  The size cap is    *)
(* left out beside the cap on the number of frames.                        *)
(***************************************************************************)
EXTENDS Naturals, Sequences

CONSTANTS
    RecordedNames,     \* names of channels
    MaxFrames,         \* MAX_FRAMES
    MaxRecordedIds, MaxTraffic, MaxRecordings   \* bounds: ids; frames; recordings

ASSUME RecorderAssumption ==
    {MaxFrames, MaxRecordedIds, MaxTraffic, MaxRecordings} \subseteq Nat

VARIABLES
    listedChannels,  \* the hub's channels, id to name, as the window knows them
    recording,       \* active
    records,         \* the frames, in order
    startList,       \* catalogue: the channels when it was started
    limitReached,
    file,            \* the messages of the last file, with their topics
    heardFrames,     \* history: the messages since the start, named as they were then,
    incarnation,     \* and the hub they came from
    traffic, recordings

recorderVars == <<listedChannels, recording, records, startList, limitReached, file,
                  heardFrames, incarnation, traffic, recordings>>

NoFile == <<[n |-> 0, topic |-> "none"]>>

RecorderInit ==
    /\ listedChannels = <<>> /\ recording = FALSE /\ records = <<>> /\ startList = <<>>
    /\ limitReached = FALSE /\ file = NoFile /\ heardFrames = <<>>
    /\ incarnation = 0 /\ traffic = 0 /\ recordings = 0

Named(list, id, name) == [i \in DOMAIN list \cup {id} |-> IF i = id THEN name ELSE list[i]]

-----------------------------------------------------------------------------
(* Frames *)

\* capture: any frame, until the cap.
Capture(frame) ==
    IF recording /\ ~limitReached
    THEN records' = Append(records, frame) /\ limitReached' = (Len(records') >= MaxFrames)
    ELSE UNCHANGED <<records, limitReached>>

Traffic == traffic < MaxTraffic /\ traffic' = traffic + 1
           /\ UNCHANGED <<recording, startList, file, recordings>>

\* A channel, or another name for it.
RecAdvertise(id, name) ==
    /\ Traffic
    /\ id \in DOMAIN listedChannels => listedChannels[id] # name
    /\ listedChannels' = Named(listedChannels, id, name)
    /\ Capture([op |-> "advertise", id |-> id, name |-> name])
    /\ UNCHANGED <<heardFrames, incarnation>>

\* The hub has restarted; what is there gets ids from the first on.
RecServerInfo(names) ==
    /\ Traffic
    /\ listedChannels' = names
    /\ Capture([op |-> "server_info", channels |-> names])
    /\ incarnation' = incarnation + 1
    /\ UNCHANGED heardFrames

RecData(id) ==
    /\ Traffic
    /\ id \in DOMAIN listedChannels
    /\ Capture([op |-> "message", id |-> id, n |-> traffic'])
    /\ heardFrames' = IF recording
                      THEN Append(heardFrames, [n |-> traffic', id |-> id,
                                                name |-> listedChannels[id],
                                                hub |-> incarnation])
                      ELSE heardFrames
    /\ UNCHANGED <<listedChannels, incarnation>>

-----------------------------------------------------------------------------
(* The file *)

\* Mutant: channels that were there before a reconnection are not known.
Mut_FoldedAdvertise(list, r) ==
    IF r.op = "advertise" THEN Named(list, r.id, r.name) ELSE list

\* The catalogue after record r.
Folded(list, r) ==
    CASE r.op = "advertise" -> Named(list, r.id, r.name)
      [] r.op = "server_info" -> [i \in DOMAIN list \cup DOMAIN r.channels |->
                                     IF i \in DOMAIN r.channels THEN r.channels[i] ELSE list[i]]
      [] OTHER -> list

\* getChannelId: an id keeps the topic it had with its first message.
TopicOf(at, id) ==
    IF id \in DOMAIN at.topics THEN at.topics[id]
    ELSE IF id \in DOMAIN at.catalogue THEN at.catalogue[id]
    ELSE "channel_N"

\* What is made of one record more; those without data only name channels.
Serializing(at, r) ==
    IF r.op # "message"
    THEN [catalogue |-> Folded(at.catalogue, r), topics |-> at.topics, messages |-> at.messages]
    ELSE LET topic == TopicOf(at, r.id)
         IN  [catalogue |-> at.catalogue,
              topics |-> Named(at.topics, r.id, topic),
              messages |-> Append(at.messages, [n |-> r.n, topic |-> topic])]

\* serialize: one pass over the records.
Pass[k \in 0..Len(records)] ==
    IF k = 0 THEN [catalogue |-> startList, topics |-> <<>>, messages |-> <<>>]
    ELSE Serializing(Pass[k - 1], records[k])

Serialized == Pass[Len(records)].messages

StartRecording ==
    /\ ~recording /\ recordings < MaxRecordings /\ recordings' = recordings + 1
    /\ recording' = TRUE /\ records' = <<>> /\ limitReached' = FALSE
    /\ startList' = listedChannels
    /\ heardFrames' = <<>> /\ file' = NoFile
    /\ UNCHANGED <<listedChannels, incarnation, traffic>>

\* The button, or the timer that has seen the limit: stop, and a download.
StopRecording ==
    /\ recording /\ recording' = FALSE
    /\ file' = Serialized
    /\ UNCHANGED <<listedChannels, records, startList, limitReached, heardFrames,
                   incarnation, traffic, recordings>>

RecorderNext ==
    \/ \E id \in 1..MaxRecordedIds :
          RecData(id) \/ \E name \in RecordedNames : RecAdvertise(id, name)
    \/ \E k \in 0..MaxRecordedIds : \E names \in [1..k -> RecordedNames] : RecServerInfo(names)
    \/ StartRecording \/ StopRecording

RecorderSpec == RecorderInit /\ [][RecorderNext]_recorderVars
-----------------------------------------------------------------------------
(***************************************************************************)
(* A file has the messages that came since its start, in order, all of     *)
(* them unless the cap was reached, and each under a name its channel had  *)
(* in the recording, known from the start, or from a frame of it           *)
(* (recorder.ts 18-24).                                                    *)
(***************************************************************************)
RecordedFaithfully ==
    file # NoFile /\ ~recording =>
        /\ Len(file) <= Len(heardFrames)
        /\ ~limitReached => Len(file) = Len(heardFrames)
        /\ \A i \in DOMAIN file :
              /\ file[i].n = heardFrames[i].n
              /\ \E j \in 1..i : /\ heardFrames[j].id = heardFrames[i].id
                                 /\ file[i].topic = heardFrames[j].name

(***************************************************************************)
(* "one MCAP channel per wv channel" (recorder.ts 7): messages from before *)
(* and after a restart of the hub are under one topic only if they were    *)
(* under one name.  An id keeps its first topic, also when the new hub has *)
(* given it to another channel.                                            *)
(***************************************************************************)
TopicPerChannel ==
    file # NoFile /\ ~recording =>
        \A i, j \in DOMAIN file :
            file[i].topic = file[j].topic /\ heardFrames[i].hub # heardFrames[j].hub =>
                heardFrames[i].name = heardFrames[j].name
=============================================================================
