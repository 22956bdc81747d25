----------------------------- MODULE MCWindow -----------------------------
(***************************************************************************)
(* The components of a window that own a socket each and share nothing but *)
(* the event loop.  Interleaving them shows nothing that one alone does    *)
(* not, so a behaviour exercises the one that `active` picks.              *)
(***************************************************************************)
EXTENDS Publisher, Player

VARIABLE active

vars == <<socketVars, publisherVars, playerVars, active>>

\* A recording with two frames at its last moment, and one of a single instant.
At(t, ch) == [t |-> t, ch |-> ch]
MCRecordedChannels == {1, 2}
MCRecordings == {<<At(0, 1), At(1, 2), At(2, 1), At(2, 2)>>, <<At(0, 2)>>}

Init ==
    /\ active \in {"publisher", "player"}
    /\ SocketInit /\ PublisherInit /\ PlayerInit

PublisherActs == active = "publisher" /\ PublisherNext /\ UNCHANGED <<playerVars, active>>
PlayerActs == active = "player" /\ PlayerNext /\ UNCHANGED <<publisherVars, active>>

Next == PublisherActs \/ PlayerActs

FairSpec ==
    /\ Init /\ [][Next]_vars
    /\ active = "publisher" => PublisherFairness
    /\ active = "player" => PlayerFairness
=============================================================================
