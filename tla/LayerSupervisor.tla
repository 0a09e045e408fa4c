-------------------------- MODULE LayerSupervisor --------------------------
(***************************************************************************)
(* main.py's lifespan: the configuration is loaded, the clients open one   *)
(* after another, the layers are started as tasks, a monitored layer that  *)
(* crashes is started again after a delay, and on shutdown, or when        *)
(* startup fails, what was opened is closed in reverse.                    *)
(*                                                                         *)
(* A layer's task is its loops, in one TaskGroup: when one crashes the     *)
(* others are cancelled, and the task is done when all have ended.  The    *)
(* done callback and the timer each run later, in a turn of the event      *)
(* loop.  A loop's final flush is part of its ending.                      *)
(***************************************************************************)
EXTENDS Naturals

CONSTANTS
    Layer,
    Monitored,     \* the layers started by _make_monitored
    LoopsOf,       \* [Layer -> the loops of its task]
    MaxCrashes     \* bound on loops that crash

(* What the exit stack holds when the service is up, in the order pushed:  *)
(* db, redis_stream, redis_state, http, llm, the groups, the layers.       *)
Up == 7

ASSUME SupervisorAssumption ==
    /\ Monitored \subseteq Layer
    /\ DOMAIN LoopsOf = Layer
    /\ MaxCrashes \in Nat

VARIABLES
    life,       \* of the process: loading, starting, serving, stopping or stopped
    opened,     \* how many of the resources the exit stack holds
    run,        \* [Layer -> how often its task was started]
    loops,      \* the loops that have not ended: <<layer, run, loop>>
    doomed,     \* those that were cancelled
    crashed,    \* the layers whose task ends, or ended, with an exception
    callback,   \* the layers whose task is done and _on_done has not run
    timer,      \* the layers whose _restart is scheduled
    crashes

supervisorVars ==
    <<life, opened, run, loops, doomed, crashed, callback, timer, crashes>>

LoopsFrom(l) == {<<l, n, i>> : n \in 1..MaxCrashes + 1, i \in LoopsOf[l]}

SupervisorTypeOK ==
    /\ life \in {"loading", "starting", "serving", "stopping", "stopped"}
    /\ opened \in 0..Up
    /\ run \in [Layer -> 0..MaxCrashes + 1]
    /\ doomed \subseteq loops
    /\ \A x \in loops : x[1] \in Layer /\ x \in LoopsFrom(x[1])
    /\ crashed \subseteq Layer
    /\ callback \subseteq Monitored /\ timer \subseteq Monitored
    /\ crashes \in 0..MaxCrashes

SupervisorInit ==
    /\ life = "loading" /\ opened = 0
    /\ run = [l \in Layer |-> 0]
    /\ loops = {} /\ doomed = {}
    /\ crashed = {} /\ callback = {} /\ timer = {}
    /\ crashes = 0

shutting_down == life \in {"stopping", "stopped"}
LiveLoops(l) == {x \in loops : x[1] = l}
Running(l) == LiveLoops(l) # {}
Started(l) == {<<l, run[l] + 1, i>> : i \in LoopsOf[l]}

-----------------------------------------------------------------------------
(* Startup.  A variable that is not set, or a database or Redis that does  *)
(* not answer, ends it; a stock list that cannot be had does not.          *)
load_config ==
    /\ life = "loading"
    /\ life' = "starting"
    /\ UNCHANGED <<opened, run, loops, doomed, crashed, callback, timer, crashes>>

Opens(n) ==
    /\ life = "starting" /\ opened = n
    /\ opened' = n + 1
    /\ UNCHANGED <<life, run, loops, doomed, crashed, callback, timer, crashes>>

create_db_client == Opens(0)
create_stream_client == Opens(1)
create_state_client == Opens(2)
create_http_client == Opens(3)
create_llm_adapter == Opens(4)
create_services == Opens(5)

OpenResource ==
    \/ load_config
    \/ create_db_client \/ create_stream_client \/ create_state_client
    \/ create_http_client \/ create_llm_adapter \/ create_services

StartupFails ==
    /\ life \in {"loading", "starting"}
    /\ life' = "stopping"
    /\ UNCHANGED <<opened, run, loops, doomed, crashed, callback, timer, crashes>>

StartLayers ==
    /\ life = "starting" /\ opened = Up - 1
    /\ life' = "serving" /\ opened' = Up
    /\ run' = [l \in Layer |-> 1]
    /\ loops' = UNION {Started(l) : l \in Layer}
    /\ UNCHANGED <<doomed, crashed, callback, timer, crashes>>

-----------------------------------------------------------------------------
(* Crashes and restarts.  Whether the layer's task is done shows when its  *)
(* last loop has ended.                                                    *)

(* Mutant of Ended: the task is done when its first loop has ended.        *)
FirstEnded(x) ==
    /\ loops' = loops \ {x}
    /\ callback' = IF x[1] \in Monitored THEN callback \union {x[1]} ELSE callback

Ended(x) ==
    /\ loops' = loops \ {x}
    /\ callback' = IF LiveLoops(x[1]) = {x} /\ x[1] \in Monitored
                   THEN callback \union {x[1]} ELSE callback

CrashLoop(x) ==
    /\ x \in loops \ doomed /\ crashes < MaxCrashes
    /\ Ended(x)
    /\ doomed' = doomed \union (LiveLoops(x[1]) \ {x})
    /\ crashed' = crashed \union {x[1]}
    /\ crashes' = crashes + 1
    /\ UNCHANGED <<life, opened, run, timer>>

EndLoop(x) ==
    /\ x \in doomed
    /\ Ended(x) /\ doomed' = doomed \ {x}
    /\ UNCHANGED <<life, opened, run, crashed, timer, crashes>>

(* Mutant of OnDone: a restarted task is not monitored.                    *)
OnDoneOnce(l) ==
    /\ l \in callback /\ life # "stopped"
    /\ callback' = callback \ {l}
    /\ timer' = IF ~ shutting_down /\ l \in crashed /\ run[l] = 1 THEN timer \union {l} ELSE timer
    /\ UNCHANGED <<life, opened, run, loops, doomed, crashed, crashes>>

OnDone(l) ==
    /\ l \in callback /\ life # "stopped"
    /\ callback' = callback \ {l}
    /\ timer' = IF ~ shutting_down /\ l \in crashed THEN timer \union {l} ELSE timer
    /\ UNCHANGED <<life, opened, run, loops, doomed, crashed, crashes>>

StartTask(l) ==
    /\ run' = [run EXCEPT ![l] = @ + 1]
    /\ loops' = loops \union Started(l)
    /\ crashed' = crashed \ {l}

(* Mutant of Restart: shutting_down is not looked at again.                *)
RestartBlindly(l) ==
    /\ l \in timer /\ life # "stopped"
    /\ timer' = timer \ {l}
    /\ StartTask(l)
    /\ UNCHANGED <<life, opened, doomed, callback, crashes>>

Restart(l) ==
    /\ l \in timer /\ life # "stopped"
    /\ timer' = timer \ {l}
    /\ IF shutting_down THEN UNCHANGED <<run, loops, crashed>> ELSE StartTask(l)
    /\ UNCHANGED <<life, opened, doomed, callback, crashes>>

-----------------------------------------------------------------------------
(* Shutdown: _cancel_layer_tasks, then the rest of the stack.              *)
BeginShutdown ==
    /\ life = "serving"
    /\ life' = "stopping" /\ doomed' = loops
    /\ UNCHANGED <<opened, run, loops, crashed, callback, timer, crashes>>

LayersStopped ==
    /\ life = "stopping" /\ opened = Up /\ loops = {}
    /\ opened' = Up - 1
    /\ UNCHANGED <<life, run, loops, doomed, crashed, callback, timer, crashes>>

CloseResource ==
    /\ life = "stopping" /\ opened \in 2..Up - 1
    /\ opened' = opened - 1
    /\ UNCHANGED <<life, run, loops, doomed, crashed, callback, timer, crashes>>

(* The db client, the first opened, is closed; or nothing was opened.      *)
Stop ==
    /\ life = "stopping" /\ opened <= 1
    /\ life' = "stopped" /\ opened' = 0
    /\ UNCHANGED <<run, loops, doomed, crashed, callback, timer, crashes>>

=============================================================================
