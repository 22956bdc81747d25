------------------------------ MODULE MCBroker ------------------------------
(* Constants for checking Broker on small instances. *)
EXTENDS Broker, TLC

CONSTANTS srcA, srcB, http, viewer

\* Every peer presents a source id of its own.
DistinctIds ==
    [o \in Owners |-> (srcA :> "a" @@ srcB :> "b" @@ http :> "http")[o]]

\* An SDK and a source that leaves `id` out.
OneOfEach == srcA :> "sdk" @@ srcB :> "hub"
=============================================================================
