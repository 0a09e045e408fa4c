----------------------------- MODULE GroupPool -----------------------------
(***************************************************************************)
(* The pool of group coroutines: AggregationService._get_group starts one  *)
(* for a group that has none, when one of max_concurrent permits is free;  *)
(* it runs the group's units of work and, idle for the idle timeout, ends  *)
(* and releases its permit.                                                *)
(*                                                                         *)
(* One action is the code between two awaits.  The callers are the two     *)
(* loops of AggregationConsumer; a loop that waits for a permit routes     *)
(* nothing else meanwhile.                                                 *)
(***************************************************************************)
EXTENDS Naturals, FiniteSets, SequencesExt

CONSTANTS
    Loop,            \* the callers
    Group,
    Work,            \* the units of work there are to route
    GroupOf,         \* the group of each
    Coroutine,       \* what tells GroupCoroutine objects apart
    MAX_CONCURRENT,  \* config.max_concurrent
    None,            \* no unit of work, group or coroutine
    MaxStops         \* bound on stops of the loops

ASSUME PoolAssumption ==
    /\ GroupOf \in [Work -> Group]
    /\ MAX_CONCURRENT \in Nat \ {0}
    /\ MaxStops \in Nat
    /\ None \notin Work \union Group \union Coroutine
    /\ IsFiniteSet(Loop) /\ IsFiniteSet(Coroutine)

VARIABLES
    todo,     \* the work no loop routes now and no group has
    asking,   \* the work each loop waits for a permit with
    waiters,  \* the semaphore's waiters, the longest waiting first
    woken,    \* those of them a permit was handed to
    permits,  \* the semaphore's value
    pool,     \* _groups: the coroutine of each group
    state,    \* "none", "waiting", "timed out" or "working"
    serves,   \* the group of each coroutine
    queue,    \* its queue
    job,      \* the unit of work it runs
    done,     \* the work that was run to its end
    closed,   \* whether the service was closed
    stops

semaphore == <<waiters, woken, permits>>
coroutines == <<pool, state, serves, queue, job>>
vars == <<todo, asking, semaphore, coroutines, done, closed, stops>>

Init ==
    /\ todo = Work
    /\ asking = [l \in Loop |-> None]
    /\ waiters = <<>>
    /\ woken = {}
    /\ permits = MAX_CONCURRENT
    /\ pool = [g \in Group |-> None]
    /\ state = [c \in Coroutine |-> "none"]
    /\ serves = [c \in Coroutine |-> None]
    /\ queue = [c \in Coroutine |-> <<>>]
    /\ job = [c \in Coroutine |-> None]
    /\ done = {}
    /\ closed = FALSE
    /\ stops = 0

Waiting == ToSet(waiters)
Live == {c \in Coroutine : state[c] # "none"}
-----------------------------------------------------------------------------
(***************************************************************************)
(* asyncio.Semaphore.  Free permits are handed to the waiters that have     *)
(* none yet, the longest waiting first; a waiter removes itself when it    *)
(* runs again, and until then the semaphore is locked.                     *)
(***************************************************************************)
Locked == permits = 0 \/ waiters # <<>>

(* Mutant of HandOut: the permit is counted but no waiter woken.           *)
HandOutToNone(queued, served, free) == woken' = served /\ permits' = free

HandOut(queued, served, free) ==
    \E next \in SUBSET (ToSet(queued) \ served) :
        /\ \A i, j \in DOMAIN queued :
             i < j /\ queued[j] \in next => queued[i] \in served \union next
        /\ Cardinality(next) <= free
        /\ Cardinality(next) < free => ToSet(queued) \subseteq served \union next
        /\ woken' = served \union next
        /\ permits' = free - Cardinality(next)

Release == HandOut(waiters, woken, permits + 1)
-----------------------------------------------------------------------------
(***************************************************************************)
(* process_entity_event from the read row on: _get_group and enqueue,      *)
(* which suspends only to wait for a permit.                               *)
(***************************************************************************)
Enqueue(c, w) == queue' = [queue EXCEPT ![c] = Append(@, w)]

(* GroupCoroutine.__init__, and its first work.                            *)
Start(g, w) ==
    \E c \in Coroutine \ Live :
        /\ pool' = [pool EXCEPT ![g] = c]
        /\ state' = [state EXCEPT ![c] = "waiting"]
        /\ serves' = [serves EXCEPT ![c] = g]
        /\ queue' = [queue EXCEPT ![c] = <<w>>]
        /\ UNCHANGED job

(* The loop takes up a unit of work.                                       *)
Take(l, w) ==
    /\ ~closed
    /\ asking[l] = None
    /\ w \in todo
    /\ todo' = todo \ {w}

EnqueueInLive(l, w) ==
    /\ Take(l, w)
    /\ pool[GroupOf[w]] # None
    /\ Enqueue(pool[GroupOf[w]], w)
    /\ UNCHANGED <<asking, semaphore, pool, state, serves, job, done, closed, stops>>

StartGroup(l, w) ==
    /\ Take(l, w)
    /\ pool[GroupOf[w]] = None
    /\ ~Locked
    /\ permits' = permits - 1
    /\ Start(GroupOf[w], w)
    /\ UNCHANGED <<asking, waiters, woken, done, closed, stops>>

WaitForPermit(l, w) ==
    /\ Take(l, w)
    /\ pool[GroupOf[w]] = None
    /\ Locked
    /\ asking' = [asking EXCEPT ![l] = w]
    /\ waiters' = Append(waiters, l)
    /\ UNCHANGED <<woken, permits, coroutines, done, closed, stops>>

(* The loop has its permit and goes on.                                    *)
Resume(l) ==
    /\ l \in woken
    /\ \E i \in DOMAIN waiters : waiters[i] = l /\ waiters' = RemoveAt(waiters, i)
    /\ asking' = [asking EXCEPT ![l] = None]

(* Mutant of FindStarted: the permit is kept.                              *)
FindStartedKeepingPermit(l) ==
    /\ Resume(l)
    /\ pool[GroupOf[asking[l]]] # None
    /\ Enqueue(pool[GroupOf[asking[l]]], asking[l])
    /\ HandOut(waiters', woken \ {l}, permits)
    /\ UNCHANGED <<todo, pool, state, serves, job, done, closed, stops>>

(* The group was started while this loop waited.                           *)
FindStarted(l) ==
    /\ Resume(l)
    /\ pool[GroupOf[asking[l]]] # None
    /\ Enqueue(pool[GroupOf[asking[l]]], asking[l])
    /\ HandOut(waiters', woken \ {l}, permits + 1)
    /\ UNCHANGED <<todo, pool, state, serves, job, done, closed, stops>>

StartAfterWait(l) ==
    /\ Resume(l)
    /\ pool[GroupOf[asking[l]]] = None
    /\ Start(GroupOf[asking[l]], asking[l])
    /\ HandOut(waiters', woken \ {l}, permits)
    /\ UNCHANGED <<todo, done, closed, stops>>

(* The loops are cancelled.  One that waits leaves the semaphore, giving   *)
(* back the permit it may have been handed, and its message, still         *)
(* pending, is delivered again.                                            *)
StopLoops ==
    /\ ~closed
    /\ stops < MaxStops
    /\ stops' = stops + 1
    /\ todo' = todo \union {asking[l] : l \in Waiting}
    /\ asking' = [l \in Loop |-> None]
    /\ waiters' = <<>>
    /\ woken' = {}
    /\ permits' = permits + Cardinality(woken)
    /\ UNCHANGED <<coroutines, done, closed>>
-----------------------------------------------------------------------------
(***************************************************************************)
(* GroupCoroutine._run                                                     *)
(***************************************************************************)

(* The next unit of work is taken from the queue.                          *)
TakeNext(c) ==
    /\ state' = [state EXCEPT ![c] = "working"]
    /\ job' = [job EXCEPT ![c] = Head(queue[c])]
    /\ queue' = [queue EXCEPT ![c] = Tail(@)]

(* get() returned: there is work.                                          *)
TakeWork(c) ==
    /\ state[c] = "waiting"
    /\ queue[c] # <<>>
    /\ TakeNext(c)
    /\ UNCHANGED <<todo, asking, semaphore, pool, serves, done, closed, stops>>

(* The unit of work ended, with or without an exception.  With more of it  *)
(* in the queue the coroutine does not suspend.                            *)
FinishWork(c) ==
    /\ state[c] = "working"
    /\ done' = done \union {job[c]}
    /\ IF queue[c] # <<>>
         THEN TakeNext(c)
         ELSE /\ state' = [state EXCEPT ![c] = "waiting"]
              /\ job' = [job EXCEPT ![c] = None]
              /\ UNCHANGED queue
    /\ UNCHANGED <<todo, asking, semaphore, pool, serves, closed, stops>>

(* The timer fires, possibly after work was enqueued: get() gives it up.   *)
TimeOut(c) ==
    /\ state[c] = "waiting"
    /\ state' = [state EXCEPT ![c] = "timed out"]
    /\ UNCHANGED <<todo, asking, semaphore, pool, serves, queue, job, done, closed, stops>>

(* The handler finds work after all.                                       *)
ContinueWithWork(c) ==
    /\ state[c] = "timed out"
    /\ queue[c] # <<>>
    /\ TakeNext(c)
    /\ UNCHANGED <<todo, asking, semaphore, pool, serves, done, closed, stops>>

End(c) ==
    /\ state' = [state EXCEPT ![c] = "none"]
    /\ serves' = [serves EXCEPT ![c] = None]

(* Mutants of IdleOut: the queue is not looked at again, the permit is not *)
(* released.                                                               *)
IdleOutBlindly(c) ==
    /\ state[c] = "timed out"
    /\ End(c)
    /\ pool' = [pool EXCEPT ![serves[c]] = None]
    /\ queue' = [queue EXCEPT ![c] = <<>>]
    /\ Release
    /\ UNCHANGED <<todo, asking, waiters, job, done, closed, stops>>

IdleOutWithPermit(c) ==
    /\ state[c] = "timed out"
    /\ queue[c] = <<>>
    /\ End(c)
    /\ pool' = [pool EXCEPT ![serves[c]] = None]
    /\ UNCHANGED <<todo, asking, semaphore, queue, job, done, closed, stops>>

(* _on_idle, and the coroutine returns.                                    *)
IdleOut(c) ==
    /\ state[c] = "timed out"
    /\ queue[c] = <<>>
    /\ End(c)
    /\ pool' = [pool EXCEPT ![serves[c]] = None]
    /\ Release
    /\ UNCHANGED <<todo, asking, waiters, queue, job, done, closed, stops>>

(* AggregationService.close, once the loops have stopped: every group is   *)
(* cancelled and its work abandoned.  The process ends.                    *)
Close ==
    /\ ~closed
    /\ stops > 0 /\ waiters = <<>>
    /\ closed' = TRUE
    /\ state' = [c \in Coroutine |-> "none"]
    /\ serves' = [c \in Coroutine |-> None]
    /\ queue' = [c \in Coroutine |-> <<>>]
    /\ job' = [c \in Coroutine |-> None]
    /\ pool' = [g \in Group |-> None]
    /\ UNCHANGED <<todo, asking, semaphore, done, stops>>

Route(l) == \E w \in Work : EnqueueInLive(l, w) \/ StartGroup(l, w) \/ WaitForPermit(l, w)
GoOn(l) == FindStarted(l) \/ StartAfterWait(l)
Run(c) == TakeWork(c) \/ FinishWork(c) \/ ContinueWithWork(c) \/ IdleOut(c)

Next ==
    \/ \E l \in Loop : Route(l) \/ GoOn(l)
    \/ \E c \in Coroutine : Run(c) \/ TimeOut(c)
    \/ StopLoops \/ Close

Spec == Init /\ [][Next]_vars

(* The loops go on, asyncio runs every task that can, a unit of work ends  *)
(* and the idle timer fires.                                               *)
FairSpec ==
    /\ Spec
    /\ \A l \in Loop : WF_vars(Route(l)) /\ WF_vars(GoOn(l))
    /\ \A c \in Coroutine : WF_vars(Run(c)) /\ WF_vars(TimeOut(c))
-----------------------------------------------------------------------------
TypeOK ==
    /\ todo \subseteq Work /\ done \subseteq Work
    /\ asking \in [Loop -> Work \union {None}]
    /\ waiters \in Seq(Loop) /\ woken \subseteq Loop
    /\ permits \in Nat
    /\ pool \in [Group -> Coroutine \union {None}]
    /\ state \in [Coroutine -> {"none", "waiting", "timed out", "working"}]
    /\ serves \in [Coroutine -> Group \union {None}]
    /\ queue \in [Coroutine -> Seq(Work)]
    /\ job \in [Coroutine -> Work \union {None}]
    /\ closed \in BOOLEAN
    /\ stops \in Nat

(* "One permit per live group, held until the group idles out": however    *)
(* waits, cancellations and idle timeouts interleave, no permit is lost    *)
(* and none is made up (_group_semaphore), no group has two coroutines and *)
(* none is left out of the map, where neither work nor close() would find  *)
(* it (_groups).                                                           *)
PermitPerGroup ==
    /\ ~closed => permits + Cardinality(Live) + Cardinality(woken) = MAX_CONCURRENT
    /\ \A g \in Group : pool[g] # None => pool[g] \in Live /\ serves[pool[g]] = g
    /\ \A c \in Live : pool[serves[c]] = c

(* A loop waits beside a free permit only while one that was handed a      *)
(* permit has yet to run, and will pass it on (acquire, and the release of *)
(* a permit that turned out not to be needed).                             *)
NoIdlePermit == permits > 0 /\ waiters # <<>> => woken # {}

(* The pool is a queue per group: no work is lost to an idle timeout, none *)
(* overtakes another and no group runs two at once (_get_group, _run).     *)
Serving(g) == {c \in Live : serves[c] = g}

waitingWork == [g \in Group |-> IF pool[g] = None THEN <<>> ELSE queue[pool[g]]]
runningWork == [g \in Group |-> {job[c] : c \in Serving(g)} \ {None}]

Queues == INSTANCE GroupQueues WITH
    Unit <- Work, waiting <- waitingWork, running <- runningWork

ImplementsGroupQueues == Queues!Spec

(* Every unit of work is run in the end, the one a loop waits for a permit *)
(* with included, unless the service is closed: the groups that hold the   *)
(* permits run out of work and idle out (_get_group).                      *)
EveryWorkRuns == \A w \in Work : <>(w \in done \/ closed)
============================================================================
