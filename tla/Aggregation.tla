---------------------------- MODULE Aggregation ----------------------------
(***************************************************************************)
(* The Aggregation layer: AggregationConsumer's two loops route the        *)
(* messages of stream:entity_event_completed to one coroutine per group,   *)
(* which merges each EntityEvent into the group's active Event in the      *)
(* state Redis, and the consumer loop flushes the active Events to         *)
(* Postgres and announces them on stream:event_aggregated.                 *)
(*                                                                         *)
(* One action is the code between two awaits of one task.  A process is a  *)
(* loop or a group's coroutine; pc says which await it is suspended at.    *)
(* The group pool (permits, idling out) is GroupPool's: here a group's     *)
(* coroutine is always there to take its queue's next item.                *)
(***************************************************************************)
EXTENDS EventTables, Sequences, FiniteSets

CONSTANTS
    Message,      \* stream ids of the messages
    Malformed,    \* stands for an entity_event_id that cannot be processed
    EntityOf,     \* the EntityEvent each message names, or Malformed
    Known,        \* the EntityEvents whose row exists
    Group,        \* (exchange, stock code, primary event type)
    GroupOf,      \* the group of each EntityEvent
    PublishedAt,  \* the publication time of each EntityEvent
    Consumer, Reclaimer,  \* _consumer_loop and _reclaim_loop
    BATCH_SIZE,           \* config.batch_size
    AGG_MAX_RETRY,        \* config.max_retry
    MaxFaults,    \* bound on failed database and state Redis calls
    MaxOutages,   \* bound on outages of the stream Redis
    MaxStops,     \* bound on stops of the layer and crashes of the process
    MaxOverdue    \* bound on flush intervals that pass without a flush

ASSUME MessageAssumption ==
    /\ IsFiniteSet(Message)
    /\ EntityOf \in [Message -> EntityEvent \union {Malformed}]
    /\ Malformed \notin EntityEvent
    /\ Known \subseteq EntityEvent

ASSUME GroupingAssumption ==
    /\ GroupOf \in [EntityEvent -> Group]
    /\ PublishedAt \in [EntityEvent -> Int]
    /\ Consumer # Reclaimer
    /\ Consumer \notin Group
    /\ Reclaimer \notin Group

ASSUME LimitAssumption ==
    /\ BATCH_SIZE \in Nat \ {0}
    /\ AGG_MAX_RETRY \in Nat \ {0}
    /\ MaxFaults \in Nat
    /\ MaxOutages \in Nat
    /\ MaxStops \in Nat
    /\ MaxOverdue \in Nat

Loop == {Consumer, Reclaimer}
Process == Group \union Loop
Persister == Group \union {Consumer}

VARIABLES
    \* the stream Redis
    unread,      \* the messages not delivered yet
    deliveries,  \* delivery count of each pending message, capped at
                 \* AGG_MAX_RETRY; 0 for the others
    dead,        \* the messages in the dead-letter stream
    streamUp,    \* whether the stream Redis is reachable
    \* the consumer and its groups
    layer,       \* "up", "stopping", "closing" or "down"
    pc,          \* the await each process is suspended at
    batch,       \* what is left of each loop's batch, the current item first
    enqueued,    \* _enqueued: the EntityEvents in flight
    queue,       \* each group's queue, the item it works on first
    base,        \* the active Event its merge has read
    updated,     \* the Event its merge has made
    \* flush and _persist_and_publish
    snapshot,    \* the active Events the flush has read
    outbox,      \* the Events each persister has left to announce
    current,     \* the one it is announcing
    lastFlushed, \* _last_flushed: version of each Event at the last flush
    \* the state Redis
    active,      \* the active Event of each group
    ttl,         \* its time to live, in flush intervals
    \* Postgres and stream:event_aggregated
    stored, owner, published,
    announced,   \* newest version an Event stood at when it was announced
    \* history
    merged,      \* the EntityEvents a merge of which reached the state Redis
    late,        \* the EntityEvents skipped as late
    \* time and failures
    flushed,     \* whether a flush started in this flush interval
    overdue, faults, outages, stops

streamVars == <<unread, deliveries, dead, streamUp>>
groupVars == <<queue, base, updated>>
persistVars == <<snapshot, outbox, current, lastFlushed>>
stateVars == <<active, ttl>>
tableVars == <<stored, owner, published, announced>>
historyVars == <<merged, late>>
timeVars == <<flushed, overdue>>
failureVars == <<faults, outages, stops>>

vars == <<streamVars, layer, pc, batch, enqueued, groupVars, persistVars,
          stateVars, tableVars, historyVars, timeVars, failureVars>>

(* What the loops, the groups and the persisters leave alone.              *)
unrouted == <<layer, base, updated, persistVars, stateVars, tableVars,
              historyVars, timeVars, outages, stops>>
unmerged == <<unread, dead, streamUp, layer, batch, persistVars,
              tableVars, timeVars, outages, stops>>
unpersisted == <<streamVars, layer, batch, stateVars, historyVars, overdue,
                 outages, stops>>

Init ==
    /\ unread = Message
    /\ deliveries = [m \in Message |-> 0]
    /\ dead = {}
    /\ streamUp = TRUE
    /\ layer = "up"
    /\ pc = [p \in Process |-> "idle"]
    /\ batch = [l \in Loop |-> <<>>]
    /\ enqueued = {}
    /\ queue = [g \in Group |-> <<>>]
    /\ base = [g \in Group |-> NoEvent]
    /\ updated = [g \in Group |-> NoEvent]
    /\ snapshot = {}
    /\ outbox = [p \in Persister |-> {}]
    /\ current = [p \in Persister |-> NoEvent]
    /\ lastFlushed = [id \in EventId |-> 0]
    /\ active = [g \in Group |-> NoEvent]
    /\ ttl = [g \in Group |-> 0]
    /\ stored = [id \in EventId |-> NoEvent]
    /\ owner = [e \in EntityEvent |-> NoEvent]
    /\ published = [id \in EventId |-> 0]
    /\ announced = [id \in EventId |-> 0]
    /\ merged = {}
    /\ late = {}
    /\ flushed = FALSE
    /\ overdue = 0
    /\ faults = 0
    /\ outages = 0
    /\ stops = 0

Pending == {m \in Message : deliveries[m] > 0}
Acknowledge(m) == deliveries' = [deliveries EXCEPT ![m] = 0]

Fault == faults < MaxFaults /\ faults' = faults + 1
-----------------------------------------------------------------------------
(***************************************************************************)
(* The loops: what _consumer_loop and _reclaim_loop read, and how _route   *)
(* handles one message after another.  A message is read as its id and     *)
(* whether this delivery is one too many.                                  *)
(***************************************************************************)
Item == [msg: Message, exhausted: BOOLEAN]

(* The orders in which up to BATCH_SIZE messages of a set can be read.     *)
Batches(messages) ==
    UNION {{s \in [1..n -> messages] : \A i, j \in 1..n : s[i] = s[j] => i = j} :
             n \in 1..BATCH_SIZE}

In(s) == {s[i] : i \in DOMAIN s}
Msg(l) == Head(batch[l]).msg
Entity(l) == EntityOf[Msg(l)]

(* read_from returned messages.                                            *)
Read ==
    /\ layer = "up" /\ pc[Consumer] = "idle" /\ streamUp
    /\ \E s \in Batches(unread) :
         /\ batch' = [batch EXCEPT ![Consumer] =
                         [i \in DOMAIN s |-> [msg |-> s[i], exhausted |-> FALSE]]]
         /\ unread' = unread \ In(s)
         /\ deliveries' = [m \in Message |-> IF m \in In(s) THEN 1 ELSE deliveries[m]]
    /\ pc' = [pc EXCEPT ![Consumer] = "route"]
    /\ UNCHANGED <<dead, streamUp, enqueued, queue, faults, unrouted>>

(* read_from returned nothing within batch_timeout_ms, so a flush is due.  *)
ReadNothing ==
    /\ layer = "up" /\ pc[Consumer] = "idle" /\ streamUp
    /\ pc' = [pc EXCEPT ![Consumer] = "scan"]
    /\ UNCHANGED <<streamVars, batch, enqueued, queue, faults, unrouted>>

(* Mutant of Claim: messages at the limit are not claimed.                 *)
ClaimBelowLimit ==
    /\ layer = "up" /\ pc[Reclaimer] = "idle" /\ streamUp
    /\ \E s \in Batches({m \in Pending : deliveries[m] < AGG_MAX_RETRY}) :
         /\ deliveries' = [m \in Message |->
                              IF m \in In(s) THEN deliveries[m] + 1 ELSE deliveries[m]]
         /\ batch' = [batch EXCEPT ![Reclaimer] =
                         [i \in DOMAIN s |-> [msg |-> s[i], exhausted |-> FALSE]]]
    /\ pc' = [pc EXCEPT ![Reclaimer] = "route"]
    /\ UNCHANGED <<unread, dead, streamUp, enqueued, queue, faults, unrouted>>

(* autoclaim: messages pending for the claim timeout, with their counts.   *)
Claim ==
    /\ layer = "up" /\ pc[Reclaimer] = "idle" /\ streamUp
    /\ \E s \in Batches(Pending) :
         /\ deliveries' = [m \in Message |->
                              IF m \in In(s) /\ deliveries[m] < AGG_MAX_RETRY
                                THEN deliveries[m] + 1 ELSE deliveries[m]]
         /\ batch' = [batch EXCEPT ![Reclaimer] =
                         [i \in DOMAIN s |->
                             [msg |-> s[i],
                              exhausted |-> deliveries'[s[i]] >= AGG_MAX_RETRY]]]
    /\ pc' = [pc EXCEPT ![Reclaimer] = "route"]
    /\ UNCHANGED <<unread, dead, streamUp, enqueued, queue, faults, unrouted>>

(* On to the batch's next message.  After its last one the consumer loop   *)
(* flushes if the flush interval has elapsed.                              *)
NextMessage(l) ==
    /\ batch' = [batch EXCEPT ![l] = Tail(@)]
    /\ \E next \in IF Len(batch[l]) > 1 THEN {"route"}
                   ELSE IF l = Consumer THEN {"idle", "scan"} ELSE {"idle"} :
         pc' = [pc EXCEPT ![l] = next]

(* _route and _route_one up to their first await.                          *)
RouteToDeadLetter(l) ==
    /\ pc[l] = "route"
    /\ Head(batch[l]).exhausted \/ Entity(l) = Malformed
    /\ pc' = [pc EXCEPT ![l] = "dead letter"]
    /\ UNCHANGED <<streamVars, batch, enqueued, queue, faults, unrouted>>

SkipInFlight(l) ==
    /\ pc[l] = "route"
    /\ ~Head(batch[l]).exhausted
    /\ Entity(l) \in enqueued
    /\ NextMessage(l)
    /\ UNCHANGED <<streamVars, enqueued, queue, faults, unrouted>>

RouteOne(l) ==
    /\ pc[l] = "route"
    /\ ~Head(batch[l]).exhausted
    /\ Entity(l) \in EntityEvent \ enqueued
    /\ enqueued' = enqueued \union {Entity(l)}
    /\ pc' = [pc EXCEPT ![l] = "fetch"]
    /\ UNCHANGED <<streamVars, batch, queue, faults, unrouted>>

(* Mutant of EnqueueMerge: the guard is released in a finally.             *)
EnqueueMergeReleasing(l) ==
    /\ pc[l] = "fetch"
    /\ Entity(l) \in Known
    /\ queue' = [queue EXCEPT ![GroupOf[Entity(l)]] = Append(@, Msg(l))]
    /\ enqueued' = enqueued \ {Entity(l)}
    /\ NextMessage(l)
    /\ UNCHANGED <<streamVars, faults, unrouted>>

(* process_entity_event: the row is read and the merge queued.             *)
EnqueueMerge(l) ==
    /\ pc[l] = "fetch"
    /\ Entity(l) \in Known
    /\ queue' = [queue EXCEPT ![GroupOf[Entity(l)]] = Append(@, Msg(l))]
    /\ NextMessage(l)
    /\ UNCHANGED <<streamVars, enqueued, faults, unrouted>>

(* There is no such row: on_success, whose first half is synchronous.      *)
FindNoRow(l) ==
    /\ pc[l] = "fetch"
    /\ Entity(l) \notin Known
    /\ enqueued' = enqueued \ {Entity(l)}
    /\ pc' = [pc EXCEPT ![l] = "ack"]
    /\ UNCHANGED <<streamVars, batch, queue, faults, unrouted>>

FetchFails(l) ==
    /\ pc[l] = "fetch"
    /\ Fault
    /\ enqueued' = enqueued \ {Entity(l)}
    /\ NextMessage(l)
    /\ UNCHANGED <<streamVars, queue, unrouted>>

(* dead_letter: publish, which waits out an outage, and then ack.          *)
PushDeadLetter(l) ==
    /\ pc[l] = "dead letter"
    /\ streamUp
    /\ dead' = dead \union {Msg(l)}
    /\ pc' = [pc EXCEPT ![l] = "ack"]
    /\ UNCHANGED <<unread, deliveries, streamUp, batch, enqueued, queue,
                   faults, unrouted>>

AckRouted(l) ==
    /\ pc[l] = "ack"
    /\ streamUp
    /\ Acknowledge(Msg(l))
    /\ NextMessage(l)
    /\ UNCHANGED <<unread, dead, streamUp, enqueued, queue, faults,
                   unrouted>>

(* What _route_one discards when its on_success does not get through,      *)
(* whoever may have routed the EntityEvent since.  A dead letter's ack is  *)
(* not part of _route_one.                                                 *)
Released(l) ==
    IF pc[l] = "ack" /\ Head(batch[l]).exhausted THEN {} ELSE {Entity(l)}

(* The ack raised: the loop gives up the rest of its batch and, if it is   *)
(* the consumer loop, its flush.                                           *)
AckRoutedFails(l) ==
    /\ pc[l] = "ack"
    /\ ~streamUp
    /\ batch' = [batch EXCEPT ![l] = <<>>]
    /\ pc' = [pc EXCEPT ![l] = "idle"]
    /\ enqueued' = enqueued \ Released(l)
    /\ UNCHANGED <<streamVars, queue, faults, unrouted>>

LoopStep(l) ==
    \/ RouteToDeadLetter(l) \/ SkipInFlight(l) \/ RouteOne(l)
    \/ EnqueueMerge(l) \/ FindNoRow(l) \/ PushDeadLetter(l)
    \/ AckRouted(l) \/ AckRoutedFails(l)
-----------------------------------------------------------------------------
(***************************************************************************)
(* A group's coroutine: AggregationService._merge, one item at a time.     *)
(***************************************************************************)
Work(g) == EntityOf[Head(queue[g])]

(* The group takes its next item and reads its active Event.               *)
GetActiveEvent(g) ==
    /\ pc[g] = "idle"
    /\ queue[g] # <<>>
    /\ base' = [base EXCEPT ![g] = active[g]]
    /\ pc' = [pc EXCEPT ![g] = "check"]
    /\ UNCHANGED <<deliveries, enqueued, queue, updated, stateVars, historyVars, faults,
                   unmerged>>

(* The outcome is final: on_success up to the ack.                         *)
Settle(g) ==
    /\ enqueued' = enqueued \ {Work(g)}
    /\ pc' = [pc EXCEPT ![g] = "ack"]
    /\ base' = [base EXCEPT ![g] = NoEvent]
    /\ updated' = [updated EXCEPT ![g] = NoEvent]
    /\ UNCHANGED queue

(* The item is done with, acknowledged or not.                             *)
Leave(g) ==
    /\ pc' = [pc EXCEPT ![g] = "idle"]
    /\ queue' = [queue EXCEPT ![g] = Tail(@)]
    /\ base' = [base EXCEPT ![g] = NoEvent]
    /\ updated' = [updated EXCEPT ![g] = NoEvent]

(* Mutants of FailMerge: on_failure not called, on_success called.         *)
FailMergeKeepingGuard(g) == Leave(g) /\ UNCHANGED enqueued
FailMergeAcking(g) == Settle(g)

(* _merge ended with an error: on_failure releases the in-flight guard,    *)
(* and the message stays pending.                                          *)
FailMerge(g) ==
    /\ enqueued' = enqueued \ {Work(g)}
    /\ Leave(g)

IsMember(g) == base[g] # NoEvent /\ Work(g) \in base[g].ees

(* Mutant of IsMerged: only the active Event is looked at.                 *)
MergedByMembers(g) == IsMember(g)

(* The active Event holds it, or event_entity_map does, also after the     *)
(* Event has gone.                                                         *)
IsMerged(g) == IsMember(g) \/ owner[Work(g)] # NoEvent
IsLate(g) == base[g] # NoEvent /\ is_late(base[g], PublishedAt[Work(g)])

(* Reading the active Event or looking the membership up failed.           *)
CheckFails(g) ==
    /\ pc[g] = "check"
    /\ Fault
    /\ FailMerge(g)
    /\ UNCHANGED <<deliveries, stateVars, historyVars, unmerged>>

SkipMerged(g) ==
    /\ pc[g] = "check"
    /\ IsMerged(g)
    /\ Settle(g)
    /\ UNCHANGED <<deliveries, stateVars, historyVars, faults, unmerged>>

SkipLate(g) ==
    /\ pc[g] = "check"
    /\ ~IsMerged(g) /\ IsLate(g)
    /\ late' = late \union {Work(g)}
    /\ Settle(g)
    /\ UNCHANGED <<deliveries, stateVars, merged, faults, unmerged>>

(* The ids uuid4() can return: those of no Event anywhere.                 *)
Copies ==
    (snapshot \union {active[g] : g \in Group} \union {base[g] : g \in Group}
       \union {updated[g] : g \in Group}) \ {NoEvent}

FreshIds ==
    {id \in EventId : stored[id] = NoEvent /\ \A event \in Copies : event.id # id}

(* merge_or_create.  A replaced Event is persisted before its successor    *)
(* takes its place.                                                        *)
Merge(g) ==
    /\ pc[g] = "check"
    /\ ~IsMerged(g) /\ ~IsLate(g)
    /\ \E freshId \in FreshIds :
         updated' = [updated EXCEPT ![g] =
             merge_or_create(base[g], Work(g), PublishedAt[Work(g)], freshId)]
    /\ pc' = [pc EXCEPT ![g] =
                 IF base[g] # NoEvent /\ updated'[g].id # base[g].id
                   THEN "persist" ELSE "upsert"]
    /\ UNCHANGED <<deliveries, enqueued, queue, base, stateVars, historyVars, faults,
                   unmerged>>

(* HSET and EXPIRE in one MULTI.                                           *)
Upserted(g) ==
    /\ active' = [active EXCEPT ![g] = updated[g]]
    /\ ttl' = [ttl EXCEPT ![g] = ttl_for(updated[g]) \div DB_FLUSH_INTERVAL]
    /\ merged' = merged \union {Work(g)}

UpsertActiveEvent(g) ==
    /\ pc[g] = "upsert"
    /\ Upserted(g)
    /\ Settle(g)
    /\ UNCHANGED <<deliveries, late, faults, unmerged>>

(* The call failed, before or after the state Redis applied it.            *)
UpsertFails(g) ==
    /\ pc[g] = "upsert"
    /\ Fault
    /\ Upserted(g) \/ UNCHANGED <<stateVars, merged>>
    /\ FailMerge(g)
    /\ UNCHANGED <<deliveries, late, unmerged>>

AckMerged(g) ==
    /\ pc[g] = "ack"
    /\ streamUp
    /\ Acknowledge(Head(queue[g]))
    /\ Leave(g)
    /\ UNCHANGED <<enqueued, stateVars, historyVars, faults, unmerged>>

(* on_success raised, so _merge calls on_failure as well.  The guard was   *)
(* released before the ack; if a redelivery took it meanwhile it loses it. *)
AckMergedFails(g) ==
    /\ pc[g] = "ack"
    /\ ~streamUp
    /\ FailMerge(g)
    /\ UNCHANGED <<deliveries, stateVars, historyVars, faults, unmerged>>

GroupStep(g) ==
    \/ GetActiveEvent(g) \/ SkipMerged(g) \/ SkipLate(g) \/ Merge(g)
    \/ UpsertActiveEvent(g) \/ AckMerged(g) \/ AckMergedFails(g)
-----------------------------------------------------------------------------
(***************************************************************************)
(* flush and _persist_and_publish.  The consumer loop runs them for the    *)
(* active Events that changed since the last flush, a group's coroutine    *)
(* runs the second for the Event its merge replaces.                       *)
(***************************************************************************)
Changed(events) == {event \in events : lastFlushed[event.id] # event.ver}
Target(p) == IF p = Consumer THEN Changed(snapshot) ELSE {base[p]}

NoFlush ==
    /\ snapshot' = {}
    /\ outbox' = [outbox EXCEPT ![Consumer] = {}]
    /\ current' = [current EXCEPT ![Consumer] = NoEvent]

FlushOf(events) ==
    [id \in EventId |-> IF \E event \in events : event.id = id
                          THEN (CHOOSE event \in events : event.id = id).ver
                          ELSE 0]

(* flush up to the end of scan_all.  Nothing changed: the flush succeeds.  *)
ScanAll ==
    /\ pc[Consumer] = "scan"
    /\ LET found == {active[g] : g \in Group} \ {NoEvent}
       IN  IF Changed(found) # {}
             THEN /\ snapshot' = found
                  /\ pc' = [pc EXCEPT ![Consumer] = "persist"]
                  /\ UNCHANGED lastFlushed
             ELSE /\ lastFlushed' = FlushOf(found)
                  /\ pc' = [pc EXCEPT ![Consumer] = "idle"]
                  /\ UNCHANGED snapshot
    /\ flushed' = TRUE
    /\ UNCHANGED <<enqueued, groupVars, outbox, current, tableVars, faults, unpersisted>>

ScanFails ==
    /\ pc[Consumer] = "scan"
    /\ Fault
    /\ pc' = [pc EXCEPT ![Consumer] = "idle"]
    /\ flushed' = TRUE
    /\ UNCHANGED <<enqueued, groupVars, persistVars, tableVars, unpersisted>>

(* Mutant of PersistEvents: the memberships have a transaction of their    *)
(* own, before which the service may stop.                                 *)
PersistRowsFirst(p) ==
    /\ pc[p] = "persist"
    /\ stored' = WithEvents(stored, Target(p))
    /\ owner' \in {owner, WithMemberships(owner, Target(p))}
    /\ pc' = [pc EXCEPT ![p] = "select"]
    /\ UNCHANGED <<enqueued, groupVars, persistVars, published, announced, flushed,
                   faults, unpersisted>>

(* One transaction: every row and every membership, or nothing.            *)
PersistEvents(p) ==
    /\ pc[p] = "persist"
    /\ stored' = WithEvents(stored, Target(p))
    /\ owner' = WithMemberships(owner, Target(p))
    /\ pc' = [pc EXCEPT ![p] = "select"]
    /\ UNCHANGED <<enqueued, groupVars, persistVars, published, announced, flushed,
                   faults, unpersisted>>

(* Mutant of Continue: a return after the first announcement.              *)
ContinueAfterOne(p, left) ==
    IF left # {} /\ pc[p] = "select"
      THEN /\ pc' = [pc EXCEPT ![p] = "announce"]
           /\ UNCHANGED <<snapshot, lastFlushed>>
      ELSE IF p = Consumer
      THEN /\ pc' = [pc EXCEPT ![p] = "idle"]
           /\ lastFlushed' = FlushOf(snapshot)
           /\ snapshot' = {}
      ELSE /\ pc' = [pc EXCEPT ![p] = "upsert"]
           /\ UNCHANGED <<snapshot, lastFlushed>>

(* The next item of the outbox, or the return from _persist_and_publish:   *)
(* the group stores the new Event, the flush takes note of what it         *)
(* flushed.                                                                *)
Continue(p, left) ==
    IF left # {}
      THEN /\ pc' = [pc EXCEPT ![p] = "announce"]
           /\ UNCHANGED <<snapshot, lastFlushed>>
      ELSE IF p = Consumer
      THEN /\ pc' = [pc EXCEPT ![p] = "idle"]
           /\ lastFlushed' = FlushOf(snapshot)
           /\ snapshot' = {}
      ELSE /\ pc' = [pc EXCEPT ![p] = "upsert"]
           /\ UNCHANGED <<snapshot, lastFlushed>>

SelectUnpublished(p) ==
    /\ pc[p] = "select"
    /\ LET found == Unpublished(stored, published, {event.id : event \in Target(p)})
       IN  /\ outbox' = [outbox EXCEPT ![p] = found]
           /\ Continue(p, found)
    /\ UNCHANGED <<enqueued, groupVars, current, tableVars, flushed, faults, unpersisted>>

(* publish, which waits out an outage.  A reader of the announcement reads *)
(* the row as it is now.                                                   *)
Publish(p) ==
    /\ pc[p] = "announce"
    /\ streamUp
    /\ \E x \in outbox[p] :
         /\ current' = [current EXCEPT ![p] = x]
         /\ outbox' = [outbox EXCEPT ![p] = @ \ {x}]
         /\ announced' = [announced EXCEPT ![x.id] = StoredVersion(stored, x.id)]
    /\ pc' = [pc EXCEPT ![p] = "mark"]
    /\ UNCHANGED <<enqueued, groupVars, snapshot, lastFlushed, stored, owner, published,
                   flushed, faults, unpersisted>>

MarkPublished(p) ==
    /\ pc[p] = "mark"
    /\ published' = WithMark(published, current[p].id, current[p].ver)
    /\ current' = [current EXCEPT ![p] = NoEvent]
    /\ Continue(p, outbox[p])
    /\ UNCHANGED <<enqueued, groupVars, outbox, stored, owner, announced, flushed, faults,
                   unpersisted>>

(* Mutant of PersistFails: a failed flush is noted as done.                *)
PersistFailsNoting(p) ==
    /\ pc[p] \in {"persist", "select", "mark"}
    /\ Fault
    /\ IF p = Consumer
         THEN /\ NoFlush
              /\ lastFlushed' = FlushOf(snapshot)
              /\ pc' = [pc EXCEPT ![p] = "idle"]
              /\ UNCHANGED <<enqueued, groupVars>>
         ELSE /\ FailMerge(p)
              /\ outbox' = [outbox EXCEPT ![p] = {}]
              /\ current' = [current EXCEPT ![p] = NoEvent]
              /\ UNCHANGED <<snapshot, lastFlushed>>
    /\ UNCHANGED <<tableVars, flushed, unpersisted>>

(* A statement of p failed: the flush, which the next one retries, or the  *)
(* merge ends.  A write that was applied although its reply was lost is    *)
(* this failure one step later.                                            *)
PersistFails(p) ==
    /\ pc[p] \in {"persist", "select", "mark"}
    /\ Fault
    /\ IF p = Consumer
         THEN /\ NoFlush
              /\ pc' = [pc EXCEPT ![p] = "idle"]
              /\ UNCHANGED <<enqueued, groupVars>>
         ELSE /\ FailMerge(p)
              /\ outbox' = [outbox EXCEPT ![p] = {}]
              /\ current' = [current EXCEPT ![p] = NoEvent]
              /\ UNCHANGED snapshot
    /\ UNCHANGED <<lastFlushed, tableVars, flushed, unpersisted>>

PersistStep(p) ==
    PersistEvents(p) \/ SelectUnpublished(p) \/ Publish(p) \/ MarkPublished(p)
-----------------------------------------------------------------------------
(***************************************************************************)
(* The life of the layer and of the process.                               *)
(***************************************************************************)

(* The TaskGroup is cancelled and start() flushes once more.  What         *)
(* _route_one is at, the row or the ack, is no longer in flight.  The      *)
(* groups go on.                                                           *)
StopLoops ==
    /\ stops < MaxStops
    /\ batch' = [l \in Loop |-> <<>>]
    /\ pc' = [pc EXCEPT ![Consumer] = "scan", ![Reclaimer] = "idle"]
    /\ enqueued' =
          enqueued \ UNION {Released(l) : l \in {k \in Loop : pc[k] \in {"fetch", "ack"}}}
    /\ NoFlush
    /\ stops' = stops + 1
    /\ UNCHANGED <<streamVars, groupVars, lastFlushed, stateVars, tableVars, historyVars,
                   timeVars, faults, outages>>

(* read_from raised what the loop does not catch.                          *)
CrashLayer ==
    /\ layer = "up" /\ pc[Consumer] = "idle"
    /\ layer' = "stopping"
    /\ StopLoops

(* _cancel_layer_tasks                                                     *)
Shutdown ==
    /\ layer = "up"
    /\ layer' = "closing"
    /\ StopLoops

(* The final flush hung: its announcement waits out an outage, or a call   *)
(* gets no answer.                                                         *)
FinalFlushTimesOut ==
    /\ layer \in {"stopping", "closing"} /\ pc[Consumer] # "idle"
    /\ IF pc[Consumer] = "announce" THEN ~streamUp /\ UNCHANGED faults ELSE Fault
    /\ NoFlush
    /\ pc' = [pc EXCEPT ![Consumer] = "idle"]
    /\ UNCHANGED <<streamVars, layer, batch, enqueued, groupVars, lastFlushed, stateVars,
                   tableVars, historyVars, timeVars, outages, stops>>

(* What the process holds in memory is gone.                               *)
EndProcess ==
    /\ layer' = "down"
    /\ pc' = [p \in Process |-> "idle"]
    /\ batch' = [l \in Loop |-> <<>>]
    /\ enqueued' = {}
    /\ queue' = [g \in Group |-> <<>>]
    /\ base' = [g \in Group |-> NoEvent]
    /\ updated' = [g \in Group |-> NoEvent]
    /\ snapshot' = {}
    /\ outbox' = [p \in Persister |-> {}]
    /\ current' = [p \in Persister |-> NoEvent]
    /\ lastFlushed' = [id \in EventId |-> 0]
    /\ flushed' = FALSE
    /\ UNCHANGED <<streamVars, stateVars, tableVars, historyVars, overdue, faults, outages>>

(* After the final flush close() abandons the groups' work.                *)
Exit ==
    /\ layer = "closing" /\ pc[Consumer] = "idle"
    /\ EndProcess
    /\ UNCHANGED stops

Crash ==
    /\ layer # "down"
    /\ stops < MaxStops
    /\ stops' = stops + 1
    /\ EndProcess

(* The process starts, or _make_monitored restarts the layer.              *)
StartLayer ==
    /\ layer = "down" \/ (layer = "stopping" /\ pc[Consumer] = "idle")
    /\ streamUp
    /\ layer' = "up"
    /\ UNCHANGED <<streamVars, pc, batch, enqueued, groupVars, persistVars, stateVars,
                   tableVars, historyVars, timeVars, failureVars>>

StreamDown ==
    /\ streamUp
    /\ outages < MaxOutages
    /\ streamUp' = FALSE
    /\ outages' = outages + 1
    /\ UNCHANGED <<unread, deliveries, dead, layer, pc, batch, enqueued, groupVars,
                   persistVars, stateVars, tableVars, historyVars, timeVars, faults, stops>>

StreamUp ==
    /\ ~streamUp
    /\ streamUp' = TRUE
    /\ UNCHANGED <<unread, deliveries, dead, layer, pc, batch, enqueued, groupVars,
                   persistVars, stateVars, tableVars, historyVars, timeVars, failureVars>>

(* A flush interval passes, with a flush started in it unless the layer is *)
(* not running, the stream Redis, whose outage ends each round of the      *)
(* consumer loop before its flush, is unreachable, or the loop waits for a *)
(* group's permit.                                                         *)
Tick ==
    /\ \E g \in Group : active[g] # NoEvent
    /\ \/ /\ flushed
          /\ UNCHANGED overdue
       \/ /\ ~flushed
          /\ layer # "up" \/ ~streamUp \/ pc[Consumer] = "fetch"
          /\ overdue < MaxOverdue
          /\ overdue' = overdue + 1
    /\ ttl' = [g \in Group |-> IF ttl[g] > 0 THEN ttl[g] - 1 ELSE 0]
    /\ active' = [g \in Group |-> IF ttl[g] > 1 THEN active[g] ELSE NoEvent]
    /\ flushed' = FALSE
    /\ UNCHANGED <<streamVars, layer, pc, batch, enqueued, groupVars, persistVars,
                   tableVars, historyVars, failureVars>>

Next ==
    \/ Read \/ ReadNothing \/ Claim
    \/ \E l \in Loop : LoopStep(l) \/ FetchFails(l)
    \/ \E g \in Group : GroupStep(g) \/ CheckFails(g) \/ UpsertFails(g)
    \/ ScanAll \/ ScanFails
    \/ \E p \in Persister : PersistStep(p) \/ PersistFails(p)
    \/ CrashLayer \/ Shutdown \/ FinalFlushTimesOut \/ Exit \/ Crash \/ StartLayer
    \/ StreamDown \/ StreamUp \/ Tick

Spec == Init /\ [][Next]_vars

(* asyncio runs every task that can go on, a read returns messages that    *)
(* are there, pending ones are claimed, an outage of the stream Redis ends *)
(* and a stopped layer is started again.  Calls need not fail, nor time    *)
(* pass.                                                                   *)
FairSpec ==
    /\ Spec
    /\ SF_vars(Read) /\ WF_vars(ReadNothing) /\ WF_vars(Claim)
    /\ \A l \in Loop : WF_vars(LoopStep(l))
    /\ \A g \in Group : WF_vars(GroupStep(g))
    /\ WF_vars(ScanAll)
    /\ \A p \in Persister : WF_vars(PersistStep(p))
    /\ WF_vars(Exit) /\ WF_vars(StartLayer) /\ WF_vars(StreamUp)
-----------------------------------------------------------------------------
Place ==
    {"idle", "route", "dead letter", "fetch", "ack", "check", "upsert",
     "scan", "persist", "select", "announce", "mark"}

(* What a group's queue holds, and what an outbox holds of an Event.       *)
Mergeable == {m \in Message : EntityOf[m] \in Known}
Version == [id: EventId, ver: Nat]

(* Every variable has its type: the stream, the tasks and their locals,    *)
(* the state Redis and the tables.                                         *)
StreamOK ==
    /\ unread \subseteq Message /\ dead \subseteq Message
    /\ deliveries \in [Message -> 0..AGG_MAX_RETRY]
    /\ streamUp \in BOOLEAN

TasksOK ==
    /\ layer \in {"up", "stopping", "closing", "down"}
    /\ pc \in [Process -> Place]
    /\ batch \in [Loop -> Seq(Item)]
    /\ enqueued \subseteq EntityEvent
    /\ queue \in [Group -> Seq(Mergeable)]

EventsOK ==
    /\ base \in [Group -> Event \union {NoEvent}]
    /\ updated \in [Group -> Event \union {NoEvent}]
    /\ snapshot \subseteq Event
    /\ active \in [Group -> Event \union {NoEvent}]
    /\ ttl \in [Group -> Nat]
    /\ stored \in [EventId -> Event \union {NoEvent}]

TablesOK ==
    /\ owner \in [EntityEvent -> EventId \union {NoEvent}]
    /\ published \in [EventId -> Nat]
    /\ announced \in [EventId -> Nat]
    /\ lastFlushed \in [EventId -> Nat]
    /\ outbox \in [Persister -> SUBSET Version]
    /\ current \in [Persister -> Version \union {NoEvent}]

RestOK ==
    /\ merged \subseteq EntityEvent /\ late \subseteq EntityEvent
    /\ flushed \in BOOLEAN
    /\ overdue \in Nat /\ faults \in Nat /\ outages \in Nat /\ stops \in Nat

TypeOK == StreamOK /\ TasksOK /\ EventsOK /\ TablesOK /\ RestOK

(* The loop or the queue position that has an EntityEvent in its hands     *)
(* before the outcome of its merge is final; a loop is place 0.            *)
Holders(e) ==
    {<<l, 0>> : l \in {k \in Loop : pc[k] = "fetch" /\ Entity(k) = e}} \union
    UNION {{<<g, i>> : i \in {k \in 1..Len(queue[g]) :
                EntityOf[queue[g][k]] = e /\ (k = 1 => pc[g] # "ack")}} : g \in Group}

(* An EntityEvent that is in flight is in somebody's hands: whatever       *)
(* fails, is cancelled or redelivered leaves none behind in _enqueued,     *)
(* which would make every redelivery skip as in flight (_route_one).       *)
GuardIsHeld == \A e \in enqueued : Holders(e) # {}

(* Held by one process and in flight, or neither.                          *)
Guarded(e) ==
    /\ e \in enqueued <=> Holders(e) # {}
    /\ \A h, k \in Holders(e) : h = k

(* In this step on_success for e does not get through: its ack raises, or  *)
(* is cancelled with the loop.                                             *)
Acked(p) == IF p \in Group THEN Head(queue[p]) ELSE Msg(p)
AckCut(e) ==
    \E p \in Process :
        /\ pc[p] = "ack" /\ pc'[p] # "ack"
        /\ EntityOf[Acked(p)] = e
        /\ p \in Loop => ~Head(batch[p]).exhausted
        /\ ~streamUp \/ layer' # layer

(* No step leaves an entry behind.  And an EntityEvent held once and       *)
(* guarded stays so, through redeliveries to both loops, the hand-over to  *)
(* the group, failures and stops, but for a failing ack, which releases    *)
(* the guard a second time (_merge, _route_one): no merge is queued beside *)
(* another one of the same EntityEvent, and none goes on unguarded.        *)
OnlyAckUnguards ==
    [][/\ GuardIsHeld'
       /\ \A e \in EntityEvent : Guarded(e) => Guarded(e)' \/ AckCut(e)]_vars

Settled(m) == m \notin unread \union Pending
ActivelyIn(e) == \E g \in Group : active[g] # NoEvent /\ e \in active[g].ees

(* A message is acknowledged only when its EntityEvent's merge was applied *)
(* or was decided against, whatever failed in between ("Call only once     *)
(* every write its processing implies has committed", ack).                *)
AckedWasMerged ==
    \A m \in Message : Settled(m) /\ m \notin dead /\ EntityOf[m] \in Known
        => EntityOf[m] \in merged \union late

(* An acknowledged message's EntityEvent is still in the state Redis, is   *)
(* in the hands of a flush or has reached Postgres: no key expires before  *)
(* a flush has read it, also when the flush before that one failed or was  *)
(* cut short (ttl_for, flush).                                             *)
NothingAckedIsLost ==
    \A m \in Message : Settled(m) /\ m \notin dead /\ EntityOf[m] \in Known
        => \/ EntityOf[m] \in late
           \/ owner[EntityOf[m]] # NoEvent
           \/ ActivelyIn(EntityOf[m])
           \/ \E event \in snapshot : EntityOf[m] \in event.ees

(* The row of an Event and event_entity_map agree on its EntityEvents,     *)
(* each of which is in one Event only, although flushes and groups write   *)
(* them concurrently and from snapshots of different ages                  *)
(* (persist_events).                                                       *)
RowsMatchMemberships ==
    \A id \in EventId : stored[id] # NoEvent =>
        stored[id].ees = {e \in EntityEvent : owner[e] = id}

(* Every Event there is: in the state Redis, in a task's hands or a row.   *)
Events ==
    (snapshot \union {active[g] : g \in Group} \union {base[g] : g \in Group}
       \union {updated[g] : g \in Group} \union {stored[id] : id \in EventId}) \ {NoEvent}

(* No Event reaches the maximum timespan, also when it is extended         *)
(* backwards by an EntityEvent older than its first (merge_or_create).     *)
Capped(event) == event.last - event.first < EVENT_MAX_TIMESPAN

HardCap == \A event \in Events : Capped(event)

(* An Event is one continuous story: after each of its EntityEvents but    *)
(* the latest comes another within the sliding window, although            *)
(* merge_or_create compares an arriving one with last_seen_at only, and    *)
(* whatever was redelivered, repeated or lost in between.                  *)
Continuous(event) ==
    \A e \in event.ees :
        \/ PublishedAt[e] = event.last
        \/ \E f \in event.ees :
              /\ PublishedAt[f] > PublishedAt[e]
              /\ PublishedAt[f] - PublishedAt[e] <= SLIDING_WINDOW

NoSilence == \A event \in Events : Continuous(event)

(* What flush takes as flushed is persisted and announced, so leaving it   *)
(* out of the next flush loses nothing (_last_flushed).                    *)
FlushedIsPublished ==
    \A id \in EventId :
        /\ lastFlushed[id] <= published[id]
        /\ published[id] <= StoredVersion(stored, id)

(* The Event a group's new Event takes the place of is persisted and       *)
(* announced with all its merges by then (_merge).                         *)
ReplacedIsPublished ==
    [][ \A g \in Group :
          active[g] # NoEvent /\ active'[g] # NoEvent /\ active'[g].id # active[g].id
            => published[active[g].id] >= active[g].ver ]_vars

(* An Event that takes over a group's slot starts after the one it         *)
(* replaces ended, so the late check of _merge does keep an older Event    *)
(* from closing the live one early.  It takes a window shorter than the    *)
(* maximum timespan.                                                       *)
ReplacementIsNewer ==
    [][ \A g \in Group :
          active[g] # NoEvent /\ active'[g] # NoEvent /\ active'[g].id # active[g].id
            => active'[g].first > active[g].last ]_vars

(* sliding_window.py:87, "Every key outlives at least one flush": an       *)
(* active Event expires only after all its merges were persisted.          *)
KeyOutlivesFlush ==
    [][ \A g \in Group :
          active[g] # NoEvent /\ active'[g] = NoEvent
            => StoredVersion(stored, active[g].id) >= active[g].ver ]_vars

Ledger == INSTANCE EventLedger

(* The tables and the announcements are the append-only ledger.            *)
ImplementsLedger == Ledger!Spec

(* The groups are served as GroupPool serves them: what this module takes  *)
(* for granted of a group's coroutine is no more than the pool provides,   *)
(* so the two compose (process_entity_event, GroupCoroutine).              *)
Queues == INSTANCE GroupQueues WITH
    Unit <- Mergeable,
    GroupOf <- [m \in Mergeable |-> GroupOf[EntityOf[m]]],
    waiting <- [g \in Group |-> IF pc[g] = "idle" THEN queue[g] ELSE Tail(queue[g])],
    running <- [g \in Group |-> IF pc[g] = "idle" THEN {} ELSE {Head(queue[g])}]

ImplementsGroupQueues == Queues!Spec

(* Every message is acknowledged or dead-lettered in the end, those the    *)
(* in-flight guard passes over included (_reclaim_loop).                   *)
EveryMessageSettles == \A m \in Message : <>Settled(m)

(* Every version of an Event that is committed is announced, after a       *)
(* failure or a restart by a later flush (_persist_and_publish).           *)
CommittedIsAnnounced ==
    \A id \in EventId : [](stored[id] # NoEvent =>
        <>(published[id] = StoredVersion(stored, id)))
============================================================================
