--------------------------- MODULE Service_proofs ---------------------------
(***************************************************************************)
(* Proofs about Service: what the supervisor and the database client show  *)
(* of themselves (DbHolds, Tasks), and what their composition adds: a call *)
(* of a layer is under way only while a loop of that layer lives.          *)
(***************************************************************************)
EXTENDS Service, TLAPS

(* One step of one call, of any kind.                                      *)
DbAct(c) == CallDb(c) \/ Answered(c) \/ Refused(c) \/ Cancel(c)

(* ProbesAndConnectionsAreHeld, of the database client alone.              *)
DbHolds == \A c \in Call : conn[c] # "none" <=> at[c] \in Holder

(* A call that waits to be tried again may be.                             *)
Retries == \A c \in Call : at[c] = "backoff" => attempt[c] < db_max_retry

DbInv == DbTypeOK /\ DbHolds /\ Retries

(* A layer whose done callback or restart is to come has no loop; all the  *)
(* loops of a layer are of the task started last.                          *)
Tasks ==
    /\ \A x \in loops : x[2] = run[x[1]]
    /\ \A x \in loops : x[1] \notin callback \union timer
    /\ callback \intersect timer = {}

Shapes ==
    /\ opened \in 0..Up
    /\ run \in [Layer -> Nat]
    /\ callback \union timer \subseteq Layer
    /\ \A x \in loops : x[1] \in Layer
    /\ life \in {"loading", "starting", "serving", "stopping", "stopped"}
    /\ request \in [Probe -> {"none", "waiting", "ended"}]

(* The layers and the database client are the last and the first resource  *)
(* the exit stack holds; until the layers start there is none.             *)
Stack ==
    /\ loops # {} => opened = Up
    /\ life = "serving" => opened = Up
    /\ life \in {"loading", "starting"} =>
          opened < Up /\ run = [l \in Layer |-> 0] /\ callback = {} /\ timer = {}
    /\ life = "stopped" => opened = 0
    /\ pool # "open" => life \in {"stopping", "stopped"} /\ opened <= 1

CallsHaveLoops == \A c \in LoopCall : InProgress(c) => CallerLoops(c) # {}

ProbesAreHeld == \A p \in Probe : InProgress(p) => request[p] = "waiting" \/ p \in abandoned

IInv == DbInv /\ Shapes /\ Tasks /\ Stack /\ CallsHaveLoops /\ ProbesAreHeld

-----------------------------------------------------------------------------
(* The database client.                                                    *)
LEMMA StatementsType == StatementsOf \in [Call -> SUBSET Statement]
BY DEF StatementsOf, Statement

(* A call takes a step of its own: the pool and where the others are stay. *)
OwnStep(c) == pool' = pool /\ \A d \in Call \ {c} : at'[d] = at[d]

LEMMA CallDbStep ==
    ASSUME DbInv, NEW c \in Call, CallDb(c)
    PROVE  DbInv' /\ OwnStep(c)
BY DEF DbInv, DbTypeOK, DbHolds, Retries, OwnStep, CallDb, At, To, Await, Holder

(* A call that is answered goes on or ends.                                *)
LEMMA AnsweredStep ==
    ASSUME DbAssumption, DbInv, NEW c \in Call, Answered(c)
    PROVE  DbInv' /\ OwnStep(c) /\ InProgress(c)
<1> USE DEF DbInv, DbTypeOK, DbHolds, Retries, OwnStep, InProgress, At, To, Ends, Release,
            Await, Error, Holder
<1>1. CASE Acquire(c)
  BY <1>1 DEF Acquire
<1>2. CASE AcquireRefused(c)
  BY <1>2 DEF AcquireRefused
<1>3. CASE BackoffEnds(c)
  <2>1. attempt[c] + 1 \in 1..db_max_retry
    BY <1>3 DEF BackoffEnds, DbAssumption
  <2> QED  BY <1>3, <2>1 DEF BackoffEnds
<1>4. CASE StatementDone(c)
  BY <1>4, StatementsType DEF StatementDone, Takes
<1>5. CASE BodyStatement(c)
  BY <1>5 DEF BodyStatement
<1>6. CASE BodyExits(c)
  BY <1>6 DEF BodyExits
<1>7. CASE Commit(c)
  BY <1>7 DEF Commit
<1>8. CASE Rollback(c)
  BY <1>8 DEF Rollback
<1> QED  BY <1>1, <1>2, <1>3, <1>4, <1>5, <1>6, <1>7, <1>8 DEF Answered

(* One that fails is tried again, is rolled back, or ends.                 *)
LEMMA RefusedStep ==
    ASSUME DbAssumption, DbInv, NEW c \in Call, Refused(c)
    PROVE  DbInv' /\ OwnStep(c) /\ InProgress(c)
<1> USE DEF DbInv, DbTypeOK, DbHolds, Retries, OwnStep, InProgress, At, To, Ends, Release,
            Await, Error, Holder
<1>0. ASSUME Fault  PROVE dbFaults' \in 0..MaxDbFaults
  BY <1>0 DEF Fault, DbAssumption
<1>1. CASE AcquireFails(c)
  BY <1>0, <1>1 DEF AcquireFails, Transient
<1>2. CASE StatementRejected(c)
  BY <1>2 DEF StatementRejected
<1>3. CASE StatementLost(c)
  <2>1. written' \in [Call -> SUBSET Statement]
    BY <1>3, StatementsType DEF StatementLost, Takes
  <2>2. dbFaults' \in 0..MaxDbFaults
    BY <1>0, <1>3 DEF StatementLost, Lost
  <2>3. /\ at[c] = "statement"
        /\ conn' = [conn EXCEPT ![c] = "none"]
        /\ UNCHANGED <<attempt, pending, pool>>
    BY <1>3 DEF StatementLost
  <2>4. CASE KindOf[c] # "fetch" /\ attempt[c] < db_max_retry
    <3>1. at' = [at EXCEPT ![c] = "backoff"] /\ UNCHANGED result
      BY <1>3, <2>4 DEF StatementLost, Transient
    <3> QED  BY <2>1, <2>2, <2>3, <2>4, <3>1
  <2>5. CASE ~ (KindOf[c] # "fetch" /\ attempt[c] < db_max_retry)
    <3>1. at' = [at EXCEPT ![c] = "over"] /\ result' = [result EXCEPT ![c] = "unavailable"]
      BY <1>3, <2>5 DEF StatementLost, Transient
    <3> QED  BY <2>1, <2>2, <2>3, <3>1
  <2> QED  BY <2>4, <2>5
<1>4. CASE BodyRaises(c)
  BY <1>0, <1>4 DEF BodyRaises, Lost
<1>5. CASE CommitLost(c)
  BY <1>0, <1>5 DEF CommitLost, Lost
<1> QED  BY <1>1, <1>2, <1>3, <1>4, <1>5 DEF Refused

LEMMA CancelStep ==
    ASSUME DbInv, NEW c \in Call, Cancel(c)
    PROVE  DbInv' /\ OwnStep(c) /\ InProgress(c)
<1> USE DEF DbInv, DbTypeOK, DbHolds, Retries, OwnStep, InProgress, At, To, Release,
            Await, Error, Holder
<1>1. written' \in [Call -> SUBSET Statement]
  <2>1. written' = written \/ written' = [written EXCEPT ![c] = StatementsOf[c]]
    BY DEF Cancel, Takes
  <2> QED  BY <2>1, StatementsType
<1>2. CASE at[c] = "body"
  BY <1>1, <1>2 DEF Cancel
<1>3. CASE at[c] = "commit"
  <2>1. /\ at' = [at EXCEPT ![c] = "rollback"]
        /\ pending' = [pending EXCEPT ![c] = {}]
        /\ result' = [result EXCEPT ![c] = "cancelled"]
        /\ UNCHANGED <<attempt, conn, pool, dbFaults>>
    BY <1>3 DEF Cancel
  <2>2. pending' \in [Call -> SUBSET Statement]
    BY <2>1
  <2> QED  BY <1>1, <1>3, <2>1, <2>2
<1>4. CASE at[c] \notin {"body", "commit"}
  <2>1. /\ at' = [at EXCEPT ![c] = "over"]
        /\ conn' = [conn EXCEPT ![c] = "none"]
        /\ pending' = [pending EXCEPT ![c] = {}]
        /\ result' = [result EXCEPT ![c] = "cancelled"]
        /\ UNCHANGED <<attempt, pool, dbFaults>>
        /\ at[c] \notin {"idle", "over"}
    BY <1>4 DEF Cancel
  <2>2. pending' \in [Call -> SUBSET Statement]
    BY <2>1
  <2> HIDE DEF Cancel
  <2> QED  BY <1>1, <2>1, <2>2
<1> QED  BY <1>2, <1>3, <1>4

(* The end of the pool leaves every call where it is.                      *)
LEMMA PoolStep ==
    ASSUME DbInv, ClosePool \/ PoolCloses \/ CloseTimesOut
    PROVE  DbInv' /\ at' = at
BY DEF DbInv, DbTypeOK, DbHolds, Retries, ClosePool, PoolCloses, CloseTimesOut

-----------------------------------------------------------------------------
(* Steps of one call: the supervisor notices nothing of them.              *)
LEMMA CallStep ==
    ASSUME IInv, NEW c \in Call, OwnStep(c), DbInv', UNCHANGED supervisorVars,
           c \in LoopCall => InProgress(c) \/ CallerLoops(c) # {},
           request' \in [Probe -> {"none", "waiting", "ended"}],
           c \in Probe => (InProgress(c)' => request'[c] = "waiting" \/ c \in abandoned'),
           \A p \in Probe \ {c} : request'[p] = request[p],
           UNCHANGED abandoned
    PROVE  IInv'
<1>1. Shapes' /\ Tasks' /\ Stack'
  BY DEF IInv, Shapes, Tasks, Stack, OwnStep, supervisorVars
<1>2. CallsHaveLoops'
  <2> SUFFICES ASSUME NEW d \in LoopCall, InProgress(d)'  PROVE CallerLoops(d)' # {}
    BY DEF CallsHaveLoops
  <2>1. CallerLoops(d)' = CallerLoops(d)
    BY DEF CallerLoops, Calls, supervisorVars
  <2>2. CASE d = c
    BY <2>1, <2>2 DEF IInv, CallsHaveLoops
  <2>3. CASE d # c
    BY <2>1, <2>3, ServiceAssumption DEF IInv, CallsHaveLoops, OwnStep, InProgress
  <2> QED  BY <2>2, <2>3
<1>3. ProbesAreHeld'
  BY DEF IInv, ProbesAreHeld, OwnStep, InProgress, Probe
<1> QED  BY <1>1, <1>2, <1>3 DEF IInv

(* Steps of the supervisor: the calls stay where they are.                 *)
LEMMA SupervisorKeepsCalls ==
    ASSUME IInv, UNCHANGED <<dbVars, request, abandoned>>, Shapes', Tasks', Stack', CallsHaveLoops'
    PROVE  IInv'
BY DEF IInv, DbInv, DbTypeOK, DbHolds, Retries, ProbesAreHeld, InProgress, dbVars

LEMMA LoopsKeepCalls ==
    ASSUME IInv, UNCHANGED dbVars, loops \subseteq loops'
    PROVE  CallsHaveLoops'
BY DEF IInv, CallsHaveLoops, CallerLoops, Calls, InProgress, dbVars

(* A loop ends only when none of its calls is under way; what is left of   *)
(* its layer decides whether the task is done.                             *)
LEMMA LoopEndsStep ==
    ASSUME IInv, NEW x \in loops, LoopEnds(x)
    PROVE  IInv'
<1>1. /\ loops' = loops \ {x} /\ UNCHANGED <<life, opened, run, timer, dbVars, request, abandoned>>
      /\ callback' = IF LiveLoops(x[1]) = {x} /\ x[1] \in Monitored
                     THEN callback \union {x[1]} ELSE callback
  BY DEF LoopEnds, CrashLoop, EndLoop, Ended
<1>2. Shapes'
  BY <1>1 DEF IInv, Shapes
<1>3. Tasks'
  <2>1. x[1] \notin timer
    BY DEF IInv, Tasks
  <2>2. CASE LiveLoops(x[1]) = {x} /\ x[1] \in Monitored
    <3>1. \A y \in loops' : y[1] # x[1]
      BY <1>1, <2>2 DEF LiveLoops
    <3> QED  BY <1>1, <2>1, <2>2, <3>1 DEF IInv, Tasks
  <2>3. CASE ~ (LiveLoops(x[1]) = {x} /\ x[1] \in Monitored)
    BY <1>1, <2>3 DEF IInv, Tasks
  <2> QED  BY <2>2, <2>3
<1>4. Stack'
  <2>1. life \notin {"loading", "starting"}
    BY DEF IInv, Stack, Up
  <2> QED  BY <1>1, <2>1 DEF IInv, Stack, dbVars
<1>5. CallsHaveLoops'
  <2> SUFFICES ASSUME NEW c \in LoopCall, InProgress(c)'  PROVE CallerLoops(c)' # {}
    BY DEF CallsHaveLoops
  <2>1. InProgress(c)
    BY <1>1 DEF InProgress, dbVars
  <2>2. PICK y \in loops : c \in Calls(y)
    BY <2>1 DEF IInv, CallsHaveLoops, CallerLoops
  <2>3. y # x
    BY <2>1, <2>2 DEF LoopEnds, AtRest
  <2> QED  BY <1>1, <2>2, <2>3 DEF CallerLoops, Calls
<1> QED  BY <1>1, <1>2, <1>3, <1>4, <1>5, SupervisorKeepsCalls

LEMMA SuperviseStep ==
    ASSUME IInv, NEW l \in Layer, Supervise(l)
    PROVE  IInv'
<1>1. UNCHANGED <<life, opened, dbVars, request, abandoned>> /\ life \notin {"loading", "starting"}
  BY DEF Supervise, OnDone, Restart, IInv, Stack
<1>2. CASE OnDone(l)
  <2>1. /\ l \in callback /\ callback' = callback \ {l} /\ timer' \in {timer, timer \union {l}}
        /\ UNCHANGED <<run, loops>>
    BY <1>2 DEF OnDone
  <2>2. Shapes' /\ Tasks' /\ Stack'
    BY <1>1, <2>1 DEF IInv, Shapes, Tasks, Stack, dbVars
  <2> QED  BY <1>1, <2>1, <2>2, LoopsKeepCalls, SupervisorKeepsCalls
<1>3. CASE Restart(l) /\ shutting_down
  <2>1. timer' = timer \ {l} /\ UNCHANGED <<run, loops, callback>>
    BY <1>3 DEF Restart
  <2>2. Shapes' /\ Tasks' /\ Stack'
    BY <1>1, <2>1 DEF IInv, Shapes, Tasks, Stack, dbVars
  <2> QED  BY <1>1, <2>1, <2>2, LoopsKeepCalls, SupervisorKeepsCalls
<1>4. CASE Restart(l) /\ ~ shutting_down
  <2>1. /\ l \in timer /\ timer' = timer \ {l} /\ UNCHANGED callback
        /\ run' = [run EXCEPT ![l] = @ + 1] /\ loops' = loops \union Started(l)
    BY <1>4 DEF Restart, StartTask
  <2>2. \A x \in Started(l) : x[1] = l /\ x[2] = run[l] + 1
    BY DEF Started
  <2>3. \A x \in loops : x[1] # l
    BY <2>1 DEF IInv, Tasks
  <2>4. Shapes'
    BY <1>1, <2>1, <2>2 DEF IInv, Shapes
  <2>5. Tasks'
    BY <2>1, <2>2, <2>3 DEF IInv, Shapes, Tasks
  <2>6. life = "serving"
    BY <1>1, <1>4 DEF IInv, Shapes, shutting_down
  <2>7. Stack'
    BY <1>1, <2>1, <2>6 DEF IInv, Stack, dbVars
  <2> QED  BY <1>1, <2>1, <2>4, <2>5, <2>7, LoopsKeepCalls, SupervisorKeepsCalls
<1> QED  BY <1>2, <1>3, <1>4 DEF Supervise

LEMMA StartupStep ==
    ASSUME IInv, Startup
    PROVE  IInv'
<1>1. UNCHANGED <<dbVars, request, abandoned, callback, timer>> /\ pool = "open"
  BY DEF Startup, OpenResource, load_config, create_db_client, create_stream_client,
         create_state_client, create_http_client, create_llm_adapter, create_services, Opens,
         StartupFails, StartLayers, IInv, Stack
<1>2. CASE OpenResource
  <2>1. UNCHANGED <<run, loops>> /\ opened \in 0..Up - 1 /\ loops = {}
    BY <1>2 DEF OpenResource, load_config, create_db_client, create_stream_client,
                create_state_client, create_http_client, create_llm_adapter, create_services,
                Opens, IInv, Shapes, Stack, Up
  <2>2. life' = "starting" /\ opened' \in 0..Up - 1
    BY <1>2, <2>1 DEF OpenResource, load_config, create_db_client, create_stream_client,
                      create_state_client, create_http_client, create_llm_adapter,
                      create_services, Opens, Up
  <2>3. run = [l \in Layer |-> 0] /\ callback = {} /\ timer = {}
    BY <1>2 DEF OpenResource, load_config, create_db_client, create_stream_client,
                create_state_client, create_http_client, create_llm_adapter, create_services,
                Opens, IInv, Stack
  <2>4. Shapes' /\ Tasks' /\ Stack'
    BY <1>1, <2>1, <2>2, <2>3 DEF IInv, Shapes, Tasks, Stack, Up, dbVars
  <2> QED  BY <1>1, <2>1, <2>4, LoopsKeepCalls, SupervisorKeepsCalls
<1>3. CASE StartupFails
  <2>1. life' = "stopping" /\ UNCHANGED <<run, loops, opened>> /\ loops = {}
    BY <1>3 DEF StartupFails, IInv, Stack, Up
  <2>2. Shapes' /\ Tasks' /\ Stack'
    BY <1>1, <2>1 DEF IInv, Shapes, Tasks, Stack, dbVars
  <2> QED  BY <1>1, <2>1, <2>2, LoopsKeepCalls, SupervisorKeepsCalls
<1>4. CASE StartLayers
  <2>1. /\ life' = "serving" /\ opened' = Up /\ run' = [l \in Layer |-> 1]
        /\ loops' = UNION {Started(l) : l \in Layer}
        /\ run = [l \in Layer |-> 0] /\ loops = {} /\ callback = {} /\ timer = {}
    BY <1>4 DEF StartLayers, IInv, Stack, Up
  <2>2. \A x \in loops' : x[1] \in Layer /\ x[2] = 1
    <3> SUFFICES ASSUME NEW x \in loops'  PROVE x[1] \in Layer /\ x[2] = 1
      OBVIOUS
    <3>1. PICK l \in Layer : x \in Started(l)
      BY <2>1
    <3> QED  BY <2>1, <3>1 DEF Started
  <2>3. Shapes' /\ Tasks' /\ Stack'
    BY <1>1, <2>1, <2>2 DEF IInv, Shapes, Tasks, Stack, Up, dbVars
  <2> QED  BY <1>1, <2>1, <2>3, LoopsKeepCalls, SupervisorKeepsCalls
<1> QED  BY <1>2, <1>3, <1>4 DEF Startup

(* The clients are closed once the layers' loops have ended, the pool with *)
(* the last.                                                               *)
LEMMA ShutdownStep ==
    ASSUME IInv, Shutdown \/ Unwind \/ CloseDb \/ DbCloses \/ Exit
    PROVE  IInv'
<1>1. CASE Shutdown
  <2>1. UNCHANGED <<dbVars, request, abandoned, opened, run, loops, callback, timer>>
        /\ life = "serving" /\ life' = "stopping"
    BY <1>1 DEF Shutdown, BeginShutdown
  <2>2. Shapes' /\ Tasks' /\ Stack'
    BY <2>1 DEF IInv, Shapes, Tasks, Stack, dbVars
  <2> QED  BY <2>1, <2>2, LoopsKeepCalls, SupervisorKeepsCalls
<1>2. CASE Unwind
  <2>1. UNCHANGED <<dbVars, request, abandoned, life, run, loops, callback, timer>>
        /\ life = "stopping" /\ loops = {} /\ opened > 1 /\ opened' = opened - 1
    BY <1>2 DEF Unwind, LayersStopped, CloseResource, IInv, Shapes, Stack, Up
  <2>2. Shapes' /\ Tasks' /\ Stack'
    BY <2>1 DEF IInv, Shapes, Tasks, Stack, Up, dbVars
  <2> QED  BY <2>1, <2>2, LoopsKeepCalls, SupervisorKeepsCalls
<1>3. CASE CloseDb \/ DbCloses
  <2>1. UNCHANGED <<supervisorVars, request, abandoned>>
        /\ life \in {"stopping", "stopped"} /\ opened <= 1
    BY <1>3 DEF CloseDb, DbCloses, PoolCloses, CloseTimesOut, IInv, Stack
  <2>2. DbInv' /\ at' = at
    BY <1>3, PoolStep DEF IInv, CloseDb, DbCloses
  <2>3. Shapes' /\ Tasks' /\ Stack'
    BY <2>1 DEF IInv, Shapes, Tasks, Stack, supervisorVars
  <2>4. CallsHaveLoops' /\ ProbesAreHeld'
    BY <2>1, <2>2 DEF IInv, CallsHaveLoops, CallerLoops, Calls, ProbesAreHeld, InProgress,
                      supervisorVars
  <2> QED  BY <2>2, <2>3, <2>4 DEF IInv
<1>4. CASE Exit
  <2>1. UNCHANGED <<dbVars, request, abandoned, run, loops, callback, timer>>
        /\ loops = {} /\ life' = "stopped" /\ opened' = 0
    BY <1>4 DEF Exit, Stop, IInv, Shapes, Stack, Up
  <2>2. Shapes' /\ Tasks' /\ Stack'
    BY <2>1 DEF IInv, Shapes, Tasks, Stack, Up, dbVars
  <2> QED  BY <2>1, <2>2, LoopsKeepCalls, SupervisorKeepsCalls
<1> QED  BY <1>1, <1>2, <1>3, <1>4

-----------------------------------------------------------------------------
LEMMA InitIInv == Init => IInv
<1> SUFFICES ASSUME Init  PROVE IInv
  OBVIOUS
<1>1. DbInv
  BY DbAssumption DEF Init, DbInit, DbInv, DbTypeOK, DbHolds, Retries, Await, Error, Holder
<1>2. Shapes /\ Tasks /\ Stack
  BY DEF Init, DbInit, SupervisorInit, Shapes, Tasks, Stack, Up
<1>3. CallsHaveLoops /\ ProbesAreHeld
  BY ServiceAssumption DEF Init, DbInit, CallsHaveLoops, ProbesAreHeld, InProgress, Probe
<1> QED  BY <1>1, <1>2, <1>3 DEF IInv

LEMMA NextIInv == IInv /\ [Next]_vars => IInv'
<1> SUFFICES ASSUME IInv, [Next]_vars  PROVE IInv'
  OBVIOUS
<1> USE DbAssumption, ServiceAssumption
<1>1. ASSUME NEW c \in Call, Proceeds(c)  PROVE IInv'
  <2>1. OwnStep(c) /\ InProgress(c) /\ DbInv'
    BY <1>1, AnsweredStep, RefusedStep DEF IInv, Proceeds
  <2> QED  BY <1>1, <2>1, CallStep DEF Proceeds, IInv, Shapes, ProbesAreHeld
<1>2. ASSUME NEW c \in LoopCall, LoopCalls(c)  PROVE IInv'
  <2>1. OwnStep(c) /\ DbInv'
    BY <1>2, CallDbStep DEF IInv, LoopCalls
  <2>2. CallerLoops(c) # {}
    BY <1>2 DEF LoopCalls
  <2> QED  BY <1>2, <2>1, <2>2, CallStep DEF LoopCalls, Probe, IInv, Shapes
<1>3. ASSUME NEW c \in LoopCall, LoopCancelled(c)  PROVE IInv'
  <2>1. OwnStep(c) /\ InProgress(c) /\ DbInv'
    BY <1>3, CancelStep DEF IInv, LoopCancelled
  <2> QED  BY <1>3, <2>1, CallStep DEF LoopCancelled, Probe, IInv, Shapes
<1>4. ASSUME NEW p \in Probe, GetHealth(p)  PROVE IInv'
  <2>1. OwnStep(p) /\ DbInv'
    BY <1>4, CallDbStep DEF IInv, GetHealth, Probe
  <2>2. /\ request' \in [Probe -> {"none", "waiting", "ended"}] /\ request'[p] = "waiting"
        /\ \A q \in Probe \ {p} : request'[q] = request[q]
    BY <1>4 DEF IInv, Shapes, GetHealth
  <2> QED  BY <1>4, <2>1, <2>2, CallStep DEF GetHealth, Probe
<1>5. ASSUME NEW p \in Probe, CheckEnds(p) \/ Abandon(p) \/ Discard(p)  PROVE IInv'
  <2>1. UNCHANGED <<dbVars, supervisorVars>>
    BY <1>5 DEF CheckEnds, Abandon, Discard
  <2>2. request' \in [Probe -> {"none", "waiting", "ended"}]
    BY <1>5 DEF CheckEnds, Abandon, Discard, IInv, Shapes
  <2>3. ProbesAreHeld'
    BY <1>5, <2>1 DEF CheckEnds, Abandon, Discard, IInv, Shapes, ProbesAreHeld, InProgress, dbVars
  <2>4. Shapes' /\ Tasks' /\ Stack'
    BY <2>1, <2>2 DEF IInv, Shapes, Tasks, Stack, dbVars, supervisorVars
  <2>5. DbInv' /\ CallsHaveLoops'
    BY <2>1 DEF IInv, DbInv, DbTypeOK, DbHolds, Retries, CallsHaveLoops, CallerLoops, Calls,
                InProgress, dbVars, supervisorVars
  <2> QED  BY <2>3, <2>4, <2>5 DEF IInv
<1>6. ASSUME NEW p \in Probe, ProbeCancelled(p)  PROVE IInv'
  <2>1. OwnStep(p) /\ InProgress(p) /\ DbInv'
    BY <1>6, CancelStep DEF IInv, ProbeCancelled, Probe
  <2> QED  BY <1>6, <2>1, CallStep DEF ProbeCancelled, Probe, IInv, Shapes
<1>7. CASE UNCHANGED vars
  <2>1. UNCHANGED <<dbVars, supervisorVars, request, abandoned>>
    BY <1>7 DEF vars
  <2>2. Shapes' /\ Tasks' /\ Stack'
    BY <2>1 DEF IInv, Shapes, Tasks, Stack, dbVars, supervisorVars
  <2> QED  BY <2>1, <2>2, LoopsKeepCalls, SupervisorKeepsCalls DEF supervisorVars
<1> QED
  BY <1>1, <1>2, <1>3, <1>4, <1>5, <1>6, <1>7, LoopEndsStep, SuperviseStep, StartupStep,
     ShutdownStep DEF Next

LEMMA Invariance == Spec => []IInv
BY InitIInv, NextIInv, PTL DEF Spec

-----------------------------------------------------------------------------
(* Whatever crashes, is restarted or cancelled, and whenever shutdown      *)
(* begins: main.py closes nothing a layer's loop still uses.               *)
THEOREM NoLoopIsLeftBehind == Spec => []NoLoopOutlivesClients
<1>1. IInv => NoLoopOutlivesClients
  <2> SUFFICES ASSUME IInv  PROVE NoLoopOutlivesClients
    OBVIOUS
  <2>1. loops # {} => opened = Up
    BY DEF IInv, Stack
  <2>2. ASSUME pool # "open", NEW c \in LoopCall, InProgress(c)  PROVE FALSE
    BY <2>1, <2>2 DEF IInv, Stack, CallsHaveLoops, CallerLoops, Up
  <2> QED  BY <2>1, <2>2 DEF NoLoopOutlivesClients
<1> QED  BY <1>1, Invariance, PTL

(* However often a layer crashes, its task is started again only when the  *)
(* last loop of the one before has ended (_make_monitored).                *)
THEOREM LayersRunOnce == Spec => []OneTaskPerLayer
<1>1. IInv => OneTaskPerLayer
  BY DEF IInv, Tasks, OneTaskPerLayer
<1> QED  BY <1>1, Invariance, PTL

(* health.py never drops a probe that is under way, and connection.py      *)
(* never a connection.                                                     *)
THEOREM NothingLeaks == Spec => []ProbesAndConnectionsAreHeld
<1>1. IInv => ProbesAndConnectionsAreHeld
  BY DEF IInv, DbInv, DbHolds, ProbesAreHeld, ProbesAndConnectionsAreHeld
<1> QED  BY <1>1, Invariance, PTL

-----------------------------------------------------------------------------
(***************************************************************************)
(* The database client implements DbCall: a step of one call is a step of  *)
(* DbCall, every other step a stutter.                                     *)
(***************************************************************************)

(* What a transaction commits is the whole of it, and what is rolled back  *)
(* did not succeed.                                                        *)
CallInv ==
    \A c \in Call :
        /\ at[c] = "commit" => pending[c] = StatementsOf[c]
        /\ at[c] = "rollback" => result[c] # "ok"

outcomes == [c \in Call |-> Outcome(c)]

LEMMA CallOpens ==
    ASSUME DbTypeOK, NEW c \in Call, CallDb(c)
    PROVE  Database!Next
<1>1. outcomes[c] = "none" /\ outcomes' = [outcomes EXCEPT ![c] = "open"] /\ UNCHANGED written
  BY DEF DbTypeOK, CallDb, At, To, outcomes, Outcome
<1>2. Database!Open(c)
  BY <1>1 DEF Database!Open, outcomes
<1> QED  BY <1>2 DEF Database!Next

(* A call under way goes to another await or ends; its statements take     *)
(* effect together, and have when it ends well.                            *)
Moves(c, next, end) ==
    /\ InProgress(c)
    /\ next \in Await \ {"idle"} /\ at' = [at EXCEPT ![c] = next]
    /\ end \in Error \union {"none", "ok"} /\ result' = [result EXCEPT ![c] = end]
    /\ Takes(c) \/ UNCHANGED written
    /\ next = "over" /\ end = "ok" => Takes(c)

LEMMA CallMoves ==
    ASSUME DbTypeOK, NEW c \in Call, NEW next, NEW end, Moves(c, next, end)
    PROVE  [Database!Next]_(Database!callVars)
<1>1. outcomes[c] = "open"
  BY DEF Moves, InProgress, outcomes, Outcome
<1>2. CASE next = "over"
  <2>1. outcomes' = [outcomes EXCEPT ![c] = IF end = "ok" THEN "ok" ELSE "failed"]
    BY <1>2 DEF Moves, DbTypeOK, outcomes, Outcome
  <2>2. Database!Return(c) \/ Database!Raise(c)
    BY <1>1, <1>2, <2>1 DEF Moves, Database!Return, Database!Raise, Database!Ends,
                            Database!Takes, Takes, outcomes
  <2> QED  BY <2>2 DEF Database!Next
<1>3. CASE next # "over"
  <2>1. outcomes' = outcomes
    BY <1>3 DEF Moves, DbTypeOK, InProgress, outcomes, Outcome
  <2>2. Takes(c) => Database!Apply(c)
    BY <1>1, <2>1 DEF Database!Apply, Database!Takes, Takes, outcomes
  <2> QED  BY <2>1, <2>2 DEF Moves, Database!Next, Database!callVars, outcomes
<1> QED  BY <1>2, <1>3

LEMMA AnsweredCall ==
    ASSUME DbInv, CallInv, NEW c \in Call, Answered(c)
    PROVE  [Database!Next]_(Database!callVars) /\ CallInv'
<1> USE DEF DbInv, DbTypeOK, CallInv, InProgress, At, To, Ends, Release, Await, Error
<1>1. CASE Acquire(c) \/ BackoffEnds(c) \/ BodyStatement(c) \/ BodyExits(c)
  <2>1. PICK next \in {"acquire", "statement", "body", "commit"} :
            at' = [at EXCEPT ![c] = next] /\ (next = "commit" => BodyExits(c))
    BY <1>1 DEF Acquire, BackoffEnds, BodyStatement, BodyExits
  <2>2. Moves(c, next, result[c])
    BY <1>1, <2>1 DEF Moves, Acquire, BackoffEnds, BodyStatement, BodyExits
  <2>3. CallInv'
    BY <1>1, <2>1 DEF Acquire, BackoffEnds, BodyStatement, BodyExits
  <2> QED  BY <2>2, <2>3, CallMoves
<1>2. CASE AcquireRefused(c)
  <2>1. Moves(c, "over", "unavailable") /\ CallInv'
    BY <1>2 DEF Moves, AcquireRefused
  <2> QED  BY <2>1, CallMoves
<1>3. CASE StatementDone(c) /\ KindOf[c] = "transaction"
  <2>1. Moves(c, "body", result[c]) /\ CallInv'
    BY <1>3 DEF Moves, StatementDone
  <2> QED  BY <2>1, CallMoves
<1>4. CASE StatementDone(c) /\ KindOf[c] # "transaction"
  <2>1. Moves(c, "over", "ok") /\ CallInv'
    BY <1>4 DEF Moves, StatementDone
  <2> QED  BY <2>1, CallMoves
<1>5. CASE Commit(c)
  <2>1. Moves(c, "over", "ok") /\ CallInv'
    BY <1>5 DEF Moves, Commit, Takes
  <2> QED  BY <2>1, CallMoves
<1>6. CASE Rollback(c)
  <2>1. Moves(c, "over", result[c]) /\ CallInv'
    BY <1>6 DEF Moves, Rollback
  <2> QED  BY <2>1, CallMoves
<1> QED  BY <1>1, <1>2, <1>3, <1>4, <1>5, <1>6 DEF Answered

LEMMA RefusedCall ==
    ASSUME DbInv, CallInv, NEW c \in Call, Refused(c)
    PROVE  [Database!Next]_(Database!callVars) /\ CallInv'
<1> USE DEF DbInv, DbTypeOK, CallInv, InProgress, At, To, Ends, Release, Await, Error
<1>1. CASE AcquireFails(c) \/ StatementLost(c)
  <2>1. /\ InProgress(c) /\ pending' = pending
        /\ Takes(c) \/ UNCHANGED written
        /\ Transient(c)
    BY <1>1 DEF AcquireFails, StatementLost
  <2>2. Moves(c, "backoff", result[c]) \/ Moves(c, "over", "unavailable")
    BY <2>1 DEF Moves, Transient
  <2>3. CallInv'
    BY <2>1 DEF Transient
  <2> QED  BY <2>2, <2>3, CallMoves
<1>2. CASE StatementRejected(c)
  <2>1. PICK end \in {"conflict", "error"} : Ends(c, end)
    BY <1>2 DEF StatementRejected
  <2>2. Moves(c, "over", end) /\ CallInv'
    BY <1>2, <2>1 DEF Moves, StatementRejected
  <2> QED  BY <2>2, CallMoves
<1>3. CASE BodyRaises(c)
  <2>1. PICK end \in {"conflict", "error", "unavailable"} : result' = [result EXCEPT ![c] = end]
    BY <1>3 DEF BodyRaises
  <2>2. Moves(c, "rollback", end) /\ CallInv'
    BY <1>3, <2>1 DEF Moves, BodyRaises
  <2> QED  BY <2>2, CallMoves
<1>4. CASE CommitLost(c)
  <2>1. Moves(c, "rollback", "unavailable") /\ CallInv'
    BY <1>4 DEF Moves, CommitLost, Takes
  <2> QED  BY <2>1, CallMoves
<1> QED  BY <1>1, <1>2, <1>3, <1>4 DEF Refused

LEMMA CancelledCall ==
    ASSUME DbInv, CallInv, NEW c \in Call, Cancel(c)
    PROVE  [Database!Next]_(Database!callVars) /\ CallInv'
<1> USE DEF DbInv, DbTypeOK, CallInv, InProgress, At, To, Release, Await, Error
<1>1. PICK next \in {"rollback", "over"} : at' = [at EXCEPT ![c] = next]
  BY DEF Cancel
<1>2. Moves(c, next, "cancelled")
  BY <1>1 DEF Moves, Cancel
<1>3. CallInv'
  <2>1. pending' = pending \/ pending' = [pending EXCEPT ![c] = {}]
    BY DEF Cancel
  <2>2. result' = [result EXCEPT ![c] = "cancelled"]
    BY DEF Cancel
  <2> QED  BY <1>1, <2>1, <2>2
<1> QED  BY <1>2, <1>3, CallMoves

(* Steps that are of no call.                                              *)
LEMMA OtherCall ==
    ASSUME CallInv, UNCHANGED <<at, pending, written, result>>
    PROVE  UNCHANGED Database!callVars /\ CallInv'
BY DEF CallInv, Database!callVars, Outcome

LEMMA DbCallStep ==
    IInv /\ CallInv /\ [Next]_vars => [Database!Next]_(Database!callVars) /\ CallInv'
<1> SUFFICES ASSUME IInv, CallInv, [Next]_vars
             PROVE  [Database!Next]_(Database!callVars) /\ CallInv'
  OBVIOUS
<1>1. ASSUME NEW c \in Call, Answered(c) \/ Refused(c)
      PROVE  [Database!Next]_(Database!callVars) /\ CallInv'
  BY <1>1, AnsweredCall, RefusedCall DEF IInv
<1>2. ASSUME NEW c \in Call, Cancel(c)
      PROVE  [Database!Next]_(Database!callVars) /\ CallInv'
  BY <1>2, CancelledCall DEF IInv
<1>3. ASSUME NEW c \in Call, CallDb(c)
      PROVE  [Database!Next]_(Database!callVars) /\ CallInv'
  <2>1. CallInv'
    BY <1>3 DEF IInv, DbInv, DbTypeOK, CallInv, CallDb, At, To
  <2> QED  BY <1>3, <2>1, CallOpens DEF IInv, DbInv
<1>4. CASE CloseDb \/ DbCloses
  BY <1>4, OtherCall DEF CloseDb, DbCloses, ClosePool, PoolCloses, CloseTimesOut
<1>5. CASE UNCHANGED dbVars
  BY <1>5, OtherCall DEF dbVars
<1>6. CASE Startup \/ Shutdown \/ Unwind \/ Exit
  BY <1>5, <1>6 DEF Startup, Shutdown, Unwind, Exit
<1>7. CASE UNCHANGED vars
  BY <1>5, <1>7 DEF vars
<1>8. ASSUME NEW c \in Call,
             Proceeds(c) \/ (c \in LoopCall /\ (LoopCalls(c) \/ LoopCancelled(c)))
      PROVE  [Database!Next]_(Database!callVars) /\ CallInv'
  BY <1>1, <1>2, <1>3, <1>8 DEF Proceeds, LoopCalls, LoopCancelled
<1>9. ASSUME NEW p \in Probe, GetHealth(p) \/ ProbeCancelled(p)
      PROVE  [Database!Next]_(Database!callVars) /\ CallInv'
  BY <1>2, <1>3, <1>9 DEF GetHealth, ProbeCancelled, Probe
<1>10. CASE \/ \E x \in loops : LoopEnds(x)
            \/ \E l \in Layer : Supervise(l)
            \/ \E p \in Probe : CheckEnds(p) \/ Abandon(p) \/ Discard(p)
  BY <1>5, <1>10 DEF LoopEnds, Supervise, CheckEnds, Abandon, Discard
<1> QED
  BY <1>4, <1>6, <1>7, <1>8, <1>9, <1>10, ServiceAssumption DEF Next

(* For any number of calls, connections and attempts: what a caller of     *)
(* DatabaseClient may rely on is what connection.py does, through every    *)
(* lost reply, cancellation and end of the pool.                           *)
THEOREM CallsAreAtomic == Spec => ImplementsDbCall
<1>1. Init => CallInv /\ Database!Init
  BY DEF Init, DbInit, CallInv, Database!Init, Outcome
<1>2. Spec => []CallInv
  <2> QED  BY <1>1, Invariance, DbCallStep, PTL DEF Spec
<1> QED
  BY <1>1, <1>2, Invariance, DbCallStep, PTL DEF Spec, ImplementsDbCall, Database!Spec

=============================================================================
