----------------------------- MODULE CppClient -----------------------------
(***************************************************************************)
(* Client of the C++ SDK (sdks/cpp/include/webviz/client.hpp): threads of  *)
(* the program that send, the background reader that answers pings, and    *)
(* close(), around one socket, the lock send_mtx_ and the flag open_.      *)
(*                                                                         *)
(* A frame goes out as two chunks (header and body), which one writev may  *)
(* or may not take together.  A writev on a socket that was shut down, or  *)
(* whose peer has gone, raises SIGPIPE; programs that do not ignore it die *)
(* there, and the model is about those that do.                            *)
(***************************************************************************)
EXTENDS Integers, Sequences

CONSTANTS
    Senders,      \* threads that advertise and send
    MaxOutFrames, \* bound: frames written
    MaxPings      \* bound: pings of the hub

Nobody == "nobody"

ASSUME CppClientAssumption ==
    /\ MaxOutFrames \in Nat /\ MaxPings \in Nat
    /\ "reader" \notin Senders /\ Nobody \notin Senders

Writers == Senders \cup {"reader"}

VARIABLES
    open,       \* open_
    fd,         \* "up", "shut" (shutdown) or "closed"
    peer,       \* whether the hub's end is "up" or "gone"
    sendMtx,    \* holder of send_mtx_
    doing,      \* what each thread is at
    unsent,     \* chunks of the frame being written
    frames,     \* frames begun
    wire,       \* chunks that left: [frame, part]
    inbound,    \* what the hub sent: "ping", "close", "fin"
    pings,      \* counter for the bound
    closing,    \* how far close() is: "no", "joining", "done"
    joinedCalls \* rigid: close() is not called while a sender is in a call

cppVars == <<open, fd, peer, sendMtx, doing, unsent, frames, wire, inbound, pings,
             closing, joinedCalls>>

\* After the constructor.
CppInit ==
    /\ open = TRUE /\ fd = "up" /\ peer = "up"
    /\ sendMtx = Nobody
    /\ doing = [t \in Writers |-> IF t = "reader" THEN "looping" ELSE "idle"]
    /\ unsent = 0 /\ frames = 0 /\ wire = <<>>
    /\ inbound = <<>> /\ pings = 0
    /\ closing = "no"
    /\ joinedCalls \in BOOLEAN

-----------------------------------------------------------------------------
(* Sending *)

\* Channel.send and its kin, advertise, unadvertise: the frame is ready.
CallSend(t) ==
    /\ doing[t] = "idle"
    /\ frames < MaxOutFrames
    /\ joinedCalls => closing # "joining"
    /\ doing' = [doing EXCEPT ![t] = "locking"]
    /\ UNCHANGED <<open, fd, peer, sendMtx, unsent, frames, wire, inbound, pings,
                   closing, joinedCalls>>

\* What a thread goes back to.
Rest(t) == IF t = "reader" THEN "looping" ELSE "idle"

\* Mutant: the reader writes its pong without the lock.
Mut_LockSkipped(t) ==
    /\ doing[t] = "locking"
    /\ t = "reader" \/ sendMtx = Nobody
    /\ IF ~open
       THEN /\ doing' = [doing EXCEPT ![t] = IF t = "reader" THEN "done" ELSE "idle"]
            /\ UNCHANGED <<sendMtx, unsent, frames>>
       ELSE /\ doing' = [doing EXCEPT ![t] = "writing"]
            /\ sendMtx' = t
            /\ unsent' = 2
            /\ frames' = frames + 1
    /\ UNCHANGED <<open, fd, peer, wire, inbound, pings, closing, joinedCalls>>

\* send_text, channel_send_binary, the pong: the lock, then open_.
Lock(t) ==
    /\ doing[t] = "locking"
    /\ sendMtx = Nobody
    /\ IF ~open
       THEN /\ doing' = [doing EXCEPT ![t] = IF t = "reader" THEN "done" ELSE "idle"]
            /\ UNCHANGED <<sendMtx, unsent, frames>>
       ELSE /\ doing' = [doing EXCEPT ![t] = "writing"]
            /\ sendMtx' = t
            /\ unsent' = 2
            /\ frames' = frames + 1
    /\ UNCHANGED <<open, fd, peer, wire, inbound, pings, closing, joinedCalls>>

\* writev takes n chunks; what the hub does not read any more is lost.
Chunk(n) == [frame |-> frames, part |-> n]
Written(n) == IF n = 2 THEN <<Chunk(1), Chunk(2)>> ELSE <<Chunk(3 - unsent)>>

WriteSome(t, n) ==
    /\ doing[t] = "writing"
    /\ fd = "up" /\ n \in 1..unsent
    /\ wire' = IF peer = "up" THEN wire \o Written(n) ELSE wire
    /\ unsent' = unsent - n
    /\ IF unsent' > 0
       THEN UNCHANGED <<doing, sendMtx>>
       ELSE doing' = [doing EXCEPT ![t] = Rest(t)] /\ sendMtx' = Nobody
    /\ UNCHANGED <<open, fd, peer, frames, inbound, pings, closing, joinedCalls>>

\* writev fails.
WriteFails(t) ==
    /\ doing[t] = "writing"
    /\ fd # "up" \/ peer = "gone"
    /\ open' = FALSE
    /\ doing' = [doing EXCEPT ![t] = Rest(t)]
    /\ sendMtx' = Nobody
    /\ unsent' = 0
    /\ UNCHANGED <<fd, peer, frames, wire, inbound, pings, closing, joinedCalls>>

-----------------------------------------------------------------------------
(* read_loop *)

LoopHead ==
    /\ doing["reader"] = "looping"
    /\ doing' = [doing EXCEPT !["reader"] = IF open THEN "reading" ELSE "done"]
    /\ UNCHANGED <<open, fd, peer, sendMtx, unsent, frames, wire, inbound, pings,
                   closing, joinedCalls>>

\* recv returns what the hub sent.
Read ==
    /\ doing["reader"] = "reading"
    /\ fd # "closed" /\ inbound # <<>>
    /\ inbound' = Tail(inbound)
    /\ doing' = [doing EXCEPT !["reader"] =
          IF Head(inbound) = "ping" THEN "locking" ELSE "done"]
    /\ open' = (open /\ Head(inbound) # "close")
    /\ UNCHANGED <<fd, peer, sendMtx, unsent, frames, wire, pings, closing, joinedCalls>>

\* recv fails; of what came before the shutdown some systems return nothing.
ReadFails ==
    /\ doing["reader"] = "reading"
    /\ fd # "up"
    /\ doing' = [doing EXCEPT !["reader"] = "done"]
    /\ UNCHANGED <<open, fd, peer, sendMtx, unsent, frames, wire, inbound, pings,
                   closing, joinedCalls>>

-----------------------------------------------------------------------------
(* close() *)

\* Mutant: recv is left to wake up by itself.
Mut_CloseNoShutdown ==
    /\ closing = "no"
    /\ joinedCalls => \A t \in Senders : doing[t] = "idle"
    /\ closing' = "joining"
    /\ open' = FALSE
    /\ UNCHANGED <<fd, peer, sendMtx, doing, unsent, frames, wire, inbound, pings,
                   joinedCalls>>

\* Up to the join.
CloseBegins ==
    /\ closing = "no"
    /\ joinedCalls => \A t \in Senders : doing[t] = "idle"
    /\ closing' = "joining"
    /\ open' = FALSE
    /\ fd' = "shut"
    /\ UNCHANGED <<peer, sendMtx, doing, unsent, frames, wire, inbound, pings, joinedCalls>>

\* Mutant: the reader is not waited for.
Mut_CloseUnjoined ==
    /\ closing = "joining"
    /\ closing' = "done"
    /\ fd' = "closed"
    /\ UNCHANGED <<open, peer, sendMtx, doing, unsent, frames, wire, inbound, pings,
                   joinedCalls>>

\* After it.
CloseEnds ==
    /\ closing = "joining"
    /\ doing["reader"] = "done"
    /\ closing' = "done"
    /\ fd' = "closed"
    /\ UNCHANGED <<open, peer, sendMtx, doing, unsent, frames, wire, inbound, pings,
                   joinedCalls>>

-----------------------------------------------------------------------------
(* The hub *)

HubPings ==
    /\ peer = "up" /\ pings < MaxPings
    /\ pings' = pings + 1
    /\ inbound' = Append(inbound, "ping")
    /\ UNCHANGED <<open, fd, peer, sendMtx, doing, unsent, frames, wire, closing,
                   joinedCalls>>

\* With a close frame, or without.
HubGoes ==
    /\ peer = "up"
    /\ peer' = "gone"
    /\ \E bye \in {"close", "fin"} : inbound' = Append(inbound, bye)
    /\ UNCHANGED <<open, fd, sendMtx, doing, unsent, frames, wire, pings, closing,
                   joinedCalls>>

CppNext ==
    \/ \E t \in Senders : CallSend(t)
    \/ \E t \in Writers :
          Lock(t) \/ WriteFails(t) \/ (\E n \in 1..2 : WriteSome(t, n))
    \/ LoopHead \/ Read \/ ReadFails
    \/ CloseBegins \/ CloseEnds
    \/ HubPings \/ HubGoes

\* A thread that has something to send, and the thread that reads.
WriterRuns(t) == Lock(t) \/ WriteFails(t) \/ \E n \in 1..2 : WriteSome(t, n)
ReaderRuns == LoopHead \/ Read \/ ReadFails

CppSpec == CppInit /\ [][CppNext]_cppVars
-----------------------------------------------------------------------------
CppTypeOK ==
    /\ open \in BOOLEAN /\ joinedCalls \in BOOLEAN
    /\ fd \in {"up", "shut", "closed"} /\ peer \in {"up", "gone"}
    /\ sendMtx \in Writers \cup {Nobody}
    /\ doing \in [Writers -> {"idle", "locking", "writing", "looping", "reading", "done"}]
    /\ unsent \in 0..2 /\ frames \in Nat /\ pings \in Nat
    /\ wire \in Seq([frame : Nat, part : {1, 2}])
    /\ inbound \in Seq({"ping", "close", "fin"})
    /\ closing \in {"no", "joining", "done"}

(***************************************************************************)
(* Whatever the threads and the socket do, frames leave whole and one      *)
(* after the other; only the last may be cut off, and nothing follows it   *)
(* (client.hpp 425 "Send every byte", 432).                                *)
(***************************************************************************)
WholeFrames ==
    \A i \in DOMAIN wire :
        /\ i > 1 /\ wire[i].part = 1 => wire[i - 1].part = 2
        /\ wire[i].part = 2 => i > 1 /\ wire[i - 1] = [frame |-> wire[i].frame, part |-> 1]

(***************************************************************************)
(* No thread uses the descriptor once it is closed, when the number may    *)
(* already be another socket's, if close() is not called during a send     *)
(* (client.hpp 354-365).                                                   *)
(***************************************************************************)
UsesFd(t) == doing[t] \in {"reading", "writing"}

ClosedFdUnused ==
    fd = "closed" /\ joinedCalls => \A t \in Writers : ~UsesFd(t)

(***************************************************************************)
(* close() returns, although it waits for a reader that may be in recv, or *)
(* behind a sender on the lock (client.hpp 357 "unblock the reader's       *)
(* recv()").                                                               *)
(***************************************************************************)
CloseReturns == closing = "joining" ~> closing = "done"
=============================================================================
