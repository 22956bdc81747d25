---------------------------- MODULE MCHubSession ----------------------------
(* Constants for checking HubSession on small instances. *)
EXTENDS HubSession

CONSTANTS srcA, srcB, http, win1, win2, panel1, panel2

DistinctIds ==
    [o \in Owners |-> (srcA :> "a" @@ srcB :> "b" @@ http :> "http")[o]]

\* Sources leave `id` out.
HubNumbers == [s \in Sources |-> "hub"]

\* The channel's bare name, and the name it gets when source a collides.
BareName == [prefix |-> NoPrefix, bareName |-> "map"]
PrefixedName == [prefix |-> "a", bareName |-> "map"]

OneName == {BareName}
BothNames == {BareName, PrefixedName}
NoNames == {}
=============================================================================
