----------------------------- MODULE MCClients -----------------------------
(***************************************************************************)
(* Programs and panels that receive from the hub and answer on timers,     *)
(* animation frames or threads of their own.  They share no state, so that *)
(* interleaving them shows nothing that one alone does not: a behaviour    *)
(* exercises the one that `active` picks, and the others stay in one of    *)
(* their initial states.                                                   *)
(***************************************************************************)
EXTENDS Consumer, CppClient, SyncWindow, JogLoop, Display

CONSTANTS map, scan, panelA

VARIABLE active

vars == <<consumerVars, cppVars, syncVars, jogLoopVars, displayVars, active>>

\* A panel on the latched channel.
OnePanel == [p \in {panelA} |-> map]

Init ==
    /\ active \in {"consumer", "cpp", "window", "jog", "display"}
    /\ ConsumerInit /\ CppInit /\ SyncInit /\ JogInit /\ DisplayInit
    /\ active # "cpp" => joinedCalls
    /\ active # "window" => window = 0
    /\ active # "jog" => ikLocal /\ gizmo = "p"
    /\ active # "display" => kind = "scan" /\ enabled

ConsumerActs ==
    /\ active = "consumer" /\ ConsumerNext
    /\ UNCHANGED <<cppVars, syncVars, jogLoopVars, displayVars, active>>

CppActs ==
    /\ active = "cpp" /\ CppNext
    /\ UNCHANGED <<consumerVars, syncVars, jogLoopVars, displayVars, active>>

WindowActs ==
    /\ active = "window" /\ SyncNext
    /\ UNCHANGED <<consumerVars, cppVars, jogLoopVars, displayVars, active>>

JogActs ==
    /\ active = "jog" /\ JogNext
    /\ UNCHANGED <<consumerVars, cppVars, syncVars, displayVars, active>>

DisplayActs ==
    /\ active = "display" /\ DisplayNext
    /\ UNCHANGED <<consumerVars, cppVars, syncVars, jogLoopVars, active>>

Next == ConsumerActs \/ CppActs \/ WindowActs \/ JogActs \/ DisplayActs
-----------------------------------------------------------------------------
(***************************************************************************)
(* Fairness.  What a consumer or the sync window is fair about is disabled *)
(* while it is idle; of the others it has to be said.                      *)
(***************************************************************************)

\* All threads run, nobody keeps the lock, and recv returns what is there.
CppFairness ==
    /\ \A t \in Writers : WF_cppVars(active = "cpp" /\ WriterRuns(t))
    /\ WF_cppVars(active = "cpp" /\ ReaderRuns)
    /\ WF_cppVars(active = "cpp" /\ CloseEnds)

\* The page is visible, so that its frames and timers come; a solver that is
\* asked for starts, and answers.
JogFairness ==
    /\ WF_jogLoopVars(Beat) /\ WF_jogLoopVars(Tick)
    /\ WF_jogLoopVars(active = "jog" /\ ~solverUp /\ Solver)
    /\ WF_jogLoopVars(heard # Nothing /\ Solver) /\ WF_jogLoopVars(Solution)

\* The worker answers, and a visible page gets its frames.
DisplayFairness ==
    /\ WF_displayVars(OnDecoded) /\ WF_displayVars(active = "display" /\ StartScene)
    /\ WF_displayVars(SceneFrame(FALSE))

FairSpec ==
    /\ Init /\ [][Next]_vars
    /\ ConsumerFairness /\ SyncFairness
    /\ CppFairness /\ JogFairness /\ DisplayFairness
=============================================================================
