------------------------------ MODULE Service ------------------------------
(***************************************************************************)
(* The SAPI process: the layers of LayerSupervisor and the health checks   *)
(* share the database client of DbClient, whose pool is the last resource  *)
(* to be closed.                                                           *)
(*                                                                         *)
(* A loop runs at most one call at a time, and ends only when its call     *)
(* has: cancelling it cancels the call.  GET /v1/health gives a probe      *)
(* check_timeout_s and abandons it past that; a probe's cancellation may   *)
(* take the driver for ever.  The probes of the two Redis are like it and  *)
(* share nothing with it; they are left out.                               *)
(*                                                                         *)
(* A call of a layer is assumed to be answered or to fail in the end.      *)
(* Nothing is assumed of a probe's.                                        *)
(***************************************************************************)
EXTENDS DbClient, LayerSupervisor

CONSTANTS
    LoopCall,      \* the calls the loops make
    CallerOf       \* [LoopCall -> the layer and the loop that makes it]

Probe == Call \ LoopCall

ASSUME ServiceAssumption ==
    /\ LoopCall \subseteq Call
    /\ \A c \in LoopCall : \E l \in Layer : \E i \in LoopsOf[l] : CallerOf[c] = <<l, i>>
    /\ \A p \in Probe : KindOf[p] = "fetch"

VARIABLES
    request,     \* [Probe -> where the request that makes it is]
    abandoned    \* _abandoned_probes

vars == <<dbVars, supervisorVars, request, abandoned>>

Init ==
    /\ DbInit /\ SupervisorInit
    /\ request = [p \in Probe |-> "none"]
    /\ abandoned = {}

TypeOK ==
    /\ DbTypeOK /\ SupervisorTypeOK
    /\ request \in [Probe -> {"none", "waiting", "ended"}]
    /\ abandoned \subseteq Probe

Calls(x) == {c \in LoopCall : CallerOf[c] = <<x[1], x[3]>>}
InProgress(c) == at[c] \notin {"idle", "over"}
AtRest(x) == \A c \in Calls(x) : ~ InProgress(c)
CallerLoops(c) == {x \in loops : c \in Calls(x)}

-----------------------------------------------------------------------------
(* The layers.                                                             *)
LoopCalls(c) ==
    /\ \E x \in CallerLoops(c) \ doomed : AtRest(x)
    /\ CallDb(c)
    /\ UNCHANGED <<supervisorVars, request, abandoned>>

LoopCancelled(c) ==
    /\ CallerLoops(c) \intersect doomed # {}
    /\ Cancel(c)
    /\ UNCHANGED <<supervisorVars, request, abandoned>>

LoopEnds(x) ==
    /\ AtRest(x)
    /\ CrashLoop(x) \/ EndLoop(x)
    /\ UNCHANGED <<dbVars, request, abandoned>>

Supervise(l) == (OnDone(l) \/ Restart(l)) /\ UNCHANGED <<dbVars, request, abandoned>>

-----------------------------------------------------------------------------
(* The health check of the database.                                       *)
GetHealth(p) ==
    /\ life = "serving" /\ request[p] = "none"
    /\ request' = [request EXCEPT ![p] = "waiting"]
    /\ CallDb(p)
    /\ UNCHANGED <<supervisorVars, abandoned>>

CheckEnds(p) ==
    /\ request[p] = "waiting" /\ at[p] = "over"
    /\ request' = [request EXCEPT ![p] = "ended"]
    /\ UNCHANGED <<dbVars, supervisorVars, abandoned>>

(* Mutant of Abandon: the cancelled probe is not kept.                     *)
AbandonUnheld(p) ==
    /\ request[p] = "waiting" /\ InProgress(p)
    /\ request' = [request EXCEPT ![p] = "ended"]
    /\ UNCHANGED <<dbVars, supervisorVars, abandoned>>

(* The check timed out, or its request was cancelled.                      *)
Abandon(p) ==
    /\ request[p] = "waiting" /\ InProgress(p)
    /\ request' = [request EXCEPT ![p] = "ended"]
    /\ abandoned' = abandoned \union {p}
    /\ UNCHANGED <<dbVars, supervisorVars>>

ProbeCancelled(p) ==
    /\ p \in abandoned
    /\ Cancel(p)
    /\ UNCHANGED <<supervisorVars, request, abandoned>>

(* _discard_abandoned.                                                     *)
Discard(p) ==
    /\ p \in abandoned /\ at[p] = "over"
    /\ abandoned' = abandoned \ {p}
    /\ UNCHANGED <<dbVars, supervisorVars, request>>

-----------------------------------------------------------------------------
(* Startup and shutdown.  The server has ended every request before the    *)
(* lifespan's shutdown begins.                                             *)
Startup == (OpenResource \/ StartupFails \/ StartLayers) /\ UNCHANGED <<dbVars, request, abandoned>>

Shutdown ==
    /\ \A p \in Probe : request[p] # "waiting"
    /\ BeginShutdown
    /\ UNCHANGED <<dbVars, request, abandoned>>

Unwind == (LayersStopped \/ CloseResource) /\ UNCHANGED <<dbVars, request, abandoned>>

CloseDb ==
    /\ life = "stopping" /\ opened = 1
    /\ ClosePool
    /\ UNCHANGED <<supervisorVars, request, abandoned>>

(* Mutant of DbCloses: the wait for the connections has no limit.          *)
DbClosesInTheEnd ==
    /\ PoolCloses
    /\ UNCHANGED <<supervisorVars, request, abandoned>>

DbCloses ==
    /\ PoolCloses \/ CloseTimesOut
    /\ UNCHANGED <<supervisorVars, request, abandoned>>

Exit ==
    /\ opened = 1 => pool = "closed"
    /\ Stop
    /\ UNCHANGED <<dbVars, request, abandoned>>

LoopProceeds(c) == c \in LoopCall /\ Answered(c) /\ UNCHANGED <<supervisorVars, request, abandoned>>
Proceeds(c) == (Answered(c) \/ Refused(c)) /\ UNCHANGED <<supervisorVars, request, abandoned>>

(* When the process has stopped nothing runs.                              *)
Next ==
    \/ Startup \/ Shutdown \/ Unwind \/ CloseDb \/ DbCloses \/ Exit
    \/ /\ life # "stopped"
       /\ \/ \E c \in Call : Proceeds(c)
          \/ \E c \in LoopCall : LoopCalls(c) \/ LoopCancelled(c)
          \/ \E x \in loops : LoopEnds(x)
          \/ \E l \in Layer : Supervise(l)
          \/ \E p \in Probe :
                GetHealth(p) \/ CheckEnds(p) \/ Abandon(p) \/ ProbeCancelled(p) \/ Discard(p)

Spec == Init /\ [][Next]_vars

-----------------------------------------------------------------------------
(* The event loop runs what is ready.  Of the calls, only those of the     *)
(* loops are sure to go on.  Nothing makes a loop crash or the service     *)
(* shut down.                                                              *)
EndDoomed == \E x \in loops : AtRest(x) /\ EndLoop(x) /\ UNCHANGED <<dbVars, request, abandoned>>

Fairness ==
    /\ WF_vars(Unwind) /\ WF_vars(CloseDb) /\ WF_vars(DbCloses) /\ WF_vars(Exit)
    /\ WF_vars(EndDoomed)
    /\ \A l \in Layer : WF_vars(Supervise(l))
    /\ \A c \in LoopCall : WF_vars(LoopProceeds(c)) /\ WF_vars(LoopCancelled(c))

FairSpec == Spec /\ Fairness

-----------------------------------------------------------------------------
(* The layers' loops run only while every client they use is open, also    *)
(* when a restart was scheduled before the shutdown began: the resources   *)
(* are closed after _cancel_layer_tasks has awaited the tasks, and a       *)
(* _restart that comes after that starts nothing.                          *)
NoLoopOutlivesClients ==
    /\ loops # {} => opened = Up
    /\ pool # "open" => \A c \in LoopCall : ~ InProgress(c)

(* A layer never runs twice at once: a restarted task's loops find none of *)
(* the earlier task's, since a TaskGroup is done when all its loops are.   *)
OneTaskPerLayer ==
    \A x, y \in loops : x[1] = y[1] => x[2] = y[2]

(* A probe that is under way is awaited by its request or referenced by    *)
(* _abandoned_probes, so that it is not collected half way through; and no *)
(* ended call of any kind keeps a connection of the pool.                  *)
ProbesAndConnectionsAreHeld ==
    /\ \A p \in Probe : InProgress(p) => request[p] = "waiting" \/ p \in abandoned
    /\ \A c \in Call : conn[c] # "none" <=> at[c] \in Holder

Outcome(c) == CASE at[c] = "idle" -> "none"
                [] at[c] = "over" -> IF result[c] = "ok" THEN "ok" ELSE "failed"
                [] OTHER -> "open"

Database == INSTANCE DbCall WITH outcome <- [c \in Call |-> Outcome(c)], effect <- written

(* Whatever is retried, lost, cancelled or cut off by the end of the pool, *)
(* a call's statements take effect together, have when it returns, and     *)
(* never after it ended.                                                   *)
ImplementsDbCall == Database!Spec

(* A monitored layer that crashed runs again, unless the service shuts     *)
(* down.                                                                   *)
CrashedComesBack ==
    \A l \in Monitored : l \in crashed ~> (Running(l) /\ l \notin crashed) \/ shutting_down

(* The process stops once it has begun to, even if a probe's connection    *)
(* never comes back: DatabaseClient.close waits no longer than its limit.  *)
ShutdownEnds == life = "stopping" ~> life = "stopped"

=============================================================================
