---------------------------- MODULE GroupQueues ----------------------------
(***************************************************************************)
(* What the Aggregation layer relies on: "Runs one group's units of work   *)
(* one at a time, in the order they were enqueued" (GroupCoroutine), until *)
(* the service is closed.  Which coroutine does it, and how many there     *)
(* are, cannot be told from here.                                          *)
(***************************************************************************)
EXTENDS Sequences

CONSTANTS Group, Unit, GroupOf  \* the units of work, and the group of each

VARIABLES
    waiting,  \* each group's work not started yet, in the order enqueued
    running   \* the work each group runs: none, or one unit

groupQueues == <<waiting, running>>

Init ==
    /\ waiting = [g \in Group |-> <<>>]
    /\ running = [g \in Group |-> {}]

Enqueue(w) ==
    /\ waiting' = [waiting EXCEPT ![GroupOf[w]] = Append(@, w)]
    /\ UNCHANGED running

(* The group, done with what it ran, runs its next unit of work.           *)
RunNext(g) ==
    /\ waiting[g] # <<>>
    /\ running' = [running EXCEPT ![g] = {Head(waiting[g])}]
    /\ waiting' = [waiting EXCEPT ![g] = Tail(@)]

Finish(g) ==
    /\ running' = [running EXCEPT ![g] = {}]
    /\ UNCHANGED waiting

Close == Init'

Next ==
    \/ \E w \in Unit : Enqueue(w)
    \/ \E g \in Group : RunNext(g) \/ Finish(g)
    \/ Close

Spec == Init /\ [][Next]_groupQueues
============================================================================
