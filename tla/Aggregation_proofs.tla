------------------------ MODULE Aggregation_proofs ------------------------
(***************************************************************************)
(* Proofs about the Aggregation layer for every set of messages, groups    *)
(* and EntityEvents and every number of failures.                          *)
(***************************************************************************)
EXTENDS Aggregation, SequenceTheorems, FiniteSetTheorems, TLAPS

(* The locals a task has at the await it is suspended at.                  *)
Persisting == {"persist", "select", "announce", "mark"}

LoopLocals ==
    \A l \in Loop :
        pc[l] \in {"route", "dead letter", "fetch", "ack"} => batch[l] # <<>>

GroupLocals ==
    \A g \in Group :
        /\ pc[g] # "idle" => queue[g] # <<>>
        /\ pc[g] \in Persisting => base[g] \in Event
        /\ pc[g] \in Persisting \union {"upsert"} =>
             /\ updated[g] \in Event
             /\ updated[g].last - updated[g].first < EVENT_MAX_TIMESPAN

MarkLocals ==
    \A p \in Persister : pc[p] = "mark" => current[p] \in Version

Locals == LoopLocals /\ GroupLocals /\ MarkLocals

TypeInv == TypeOK /\ Locals

USE ConfigAssumption, MessageAssumption, GroupingAssumption, LimitAssumption,
    NoEventAssumption
    DEF ConfigAssumption, MessageAssumption, GroupingAssumption, LimitAssumption,
        NoEventAssumption

LEMMA TypeInit == Init => TypeInv
<1> SUFFICES ASSUME Init PROVE TypeInv
  OBVIOUS
<1> USE DEF Init
<1>1. StreamOK
  BY DEF StreamOK
<1>2. TasksOK
  BY DEF TasksOK, Process, Place, Loop
<1>3. EventsOK
  BY DEF EventsOK
<1>4. TablesOK
  BY DEF TablesOK, Persister
<1>5. RestOK
  BY DEF RestOK
<1>6. Locals
  BY DEF Locals, LoopLocals, GroupLocals, MarkLocals, Persisting, Loop, Process, Persister
<1> QED  BY <1>1, <1>2, <1>3, <1>4, <1>5, <1>6 DEF TypeInv, TypeOK

(* What the loops leave alone keeps its type.                              *)
LEMMA UnroutedType ==
    ASSUME TypeInv, UNCHANGED unrouted, faults' \in Nat
    PROVE  EventsOK' /\ TablesOK' /\ RestOK'
BY DEF TypeInv, TypeOK, EventsOK, TablesOK, RestOK, unrouted, persistVars, stateVars,
       tableVars, historyVars, timeVars

(* A step of loop l that leaves the groups' places alone and no group's    *)
(* queue shorter.                                                          *)
LEMMA RoutedLocals ==
    ASSUME TypeInv, NEW l \in Loop, pc' \in [Process -> Place],
           \A p \in Process \ {l} : pc'[p] = pc[p],
           pc'[l] \in {"idle", "route", "dead letter", "fetch", "ack", "scan"},
           \A g \in Group : queue[g] # <<>> => queue'[g] # <<>>,
           UNCHANGED unrouted
    PROVE  GroupLocals' /\ MarkLocals'
<1>1. GroupLocals'
  BY DEF TypeInv, Locals, GroupLocals, Persisting, Process, Loop, unrouted
<1>2. MarkLocals'
  BY DEF TypeInv, Locals, MarkLocals, Persister, Process, Loop, unrouted, persistVars
<1> QED  BY <1>1, <1>2

LEMMA BatchType ==
    ASSUME NEW messages \in SUBSET Message, NEW s \in Batches(messages)
    PROVE  /\ In(s) \subseteq messages
           /\ \A x \in [DOMAIN s -> Item] : x \in Seq(Item) /\ x # <<>>
<1>1. PICK n \in 1..BATCH_SIZE : s \in [1..n -> messages]
  BY DEF Batches
<1>2. In(s) \subseteq messages
  BY <1>1 DEF In
<1>3. ASSUME NEW x \in [DOMAIN s -> Item]
      PROVE  x \in Seq(Item) /\ x # <<>>
  <2>1. x \in [1..n -> Item] /\ n \in Nat /\ n > 0
    BY <1>1
  <2>2. x \in Seq(Item) /\ Len(x) = n
    BY <2>1
  <2> QED  BY <2>1, <2>2
<1> QED  BY <1>2, <1>3

LEMMA ReadType == TypeInv /\ Read => TypeInv'
<1> SUFFICES ASSUME TypeInv, Read PROVE TypeInv'
  OBVIOUS
<1>1. PICK s \in Batches(unread) :
        /\ batch' = [batch EXCEPT ![Consumer] =
                        [i \in DOMAIN s |-> [msg |-> s[i], exhausted |-> FALSE]]]
        /\ unread' = unread \ In(s)
        /\ deliveries' = [m \in Message |-> IF m \in In(s) THEN 1 ELSE deliveries[m]]
  BY DEF Read
<1>2. unread \in SUBSET Message
  BY DEF TypeInv, TypeOK, StreamOK
<1>3. In(s) \subseteq Message
  BY <1>2, BatchType
<1>4. StreamOK'
  BY <1>1, <1>3 DEF Read, TypeInv, TypeOK, StreamOK
<1>5. DEFINE items == [i \in DOMAIN s |-> [msg |-> s[i], exhausted |-> FALSE]]
<1>6. items \in [DOMAIN s -> Item]
  <2>1. \A i \in DOMAIN s : s[i] \in In(s)
    BY DEF In
  <2> QED  BY <1>3, <2>1 DEF Item
<1>7. items \in Seq(Item) /\ items # <<>>
  BY <1>2, <1>6, BatchType
<1> HIDE DEF items
<1>8. /\ batch' = [batch EXCEPT ![Consumer] = items]
      /\ pc' = [pc EXCEPT ![Consumer] = "route"]
      /\ Consumer \in Loop /\ Consumer \in Process
  BY <1>1 DEF Read, items, Loop, Process
<1>9. TasksOK'
  BY <1>7, <1>8 DEF Read, TypeInv, TypeOK, TasksOK, unrouted, Place
<1>10. LoopLocals'
  BY <1>7, <1>8 DEF TypeInv, TypeOK, TasksOK, Locals, LoopLocals, Loop, Process
<1>11. GroupLocals' /\ MarkLocals'
  BY <1>8, <1>9, RoutedLocals DEF Read, TypeInv, TypeOK, TasksOK
<1>12. EventsOK' /\ TablesOK' /\ RestOK'
  BY UnroutedType DEF Read, TypeInv, TypeOK, RestOK
<1> QED  BY <1>4, <1>9, <1>10, <1>11, <1>12 DEF TypeInv, TypeOK, Locals

LEMMA ClaimType == TypeInv /\ Claim => TypeInv'
<1> SUFFICES ASSUME TypeInv, Claim PROVE TypeInv'
  OBVIOUS
<1>1. PICK s \in Batches(Pending) :
        /\ deliveries' = [m \in Message |->
                             IF m \in In(s) /\ deliveries[m] < AGG_MAX_RETRY
                               THEN deliveries[m] + 1 ELSE deliveries[m]]
        /\ batch' = [batch EXCEPT ![Reclaimer] =
                        [i \in DOMAIN s |->
                            [msg |-> s[i],
                             exhausted |-> deliveries'[s[i]] >= AGG_MAX_RETRY]]]
  BY DEF Claim
<1>2. Pending \in SUBSET Message
  BY DEF Pending
<1>3. In(s) \subseteq Message
  BY <1>2, BatchType
<1>4. StreamOK'
  BY <1>1, <1>3 DEF Claim, TypeInv, TypeOK, StreamOK
<1>5. DEFINE items == [i \in DOMAIN s |->
                          [msg |-> s[i], exhausted |-> deliveries'[s[i]] >= AGG_MAX_RETRY]]
<1>6. items \in [DOMAIN s -> Item]
  <2>1. \A i \in DOMAIN s : s[i] \in In(s)
    BY DEF In
  <2>2. \A i \in DOMAIN s : (deliveries'[s[i]] >= AGG_MAX_RETRY) \in BOOLEAN
    BY ONLY TRUE
  <2> QED  BY <1>3, <2>1, <2>2 DEF Item
<1>7. items \in Seq(Item) /\ items # <<>>
  BY <1>2, <1>6, BatchType
<1> HIDE DEF items
<1>8. /\ batch' = [batch EXCEPT ![Reclaimer] = items]
      /\ pc' = [pc EXCEPT ![Reclaimer] = "route"]
      /\ Reclaimer \in Loop /\ Reclaimer \in Process
  BY <1>1 DEF Claim, items, Loop, Process
<1>9. TasksOK'
  BY <1>7, <1>8 DEF Claim, TypeInv, TypeOK, TasksOK, unrouted, Place
<1>10. LoopLocals'
  BY <1>7, <1>8 DEF TypeInv, TypeOK, TasksOK, Locals, LoopLocals, Loop, Process
<1>11. GroupLocals' /\ MarkLocals'
  BY <1>8, <1>9, RoutedLocals DEF Claim, TypeInv, TypeOK, TasksOK
<1>12. EventsOK' /\ TablesOK' /\ RestOK'
  BY UnroutedType DEF Claim, TypeInv, TypeOK, RestOK
<1> QED  BY <1>4, <1>9, <1>10, <1>11, <1>12 DEF TypeInv, TypeOK, Locals

LEMMA TailOfLonger ==
    ASSUME NEW S, NEW s \in Seq(S), Len(s) > 1
    PROVE  Tail(s) \in Seq(S) /\ Tail(s) # <<>>
<1>1. s # <<>>
  BY EmptySeq
<1>2. Tail(s) \in Seq(S) /\ Len(Tail(s)) = Len(s) - 1
  BY <1>1, HeadTailProperties
<1>3. Len(s) \in Nat
  BY LenProperties
<1> DEFINE k == Len(s)  n == Len(Tail(s))
<1>4. n # 0
  <2>1. k \in Nat /\ k > 1 /\ n = k - 1
    BY <1>2, <1>3
  <2> HIDE DEF k, n
  <2> QED  BY <2>1
<1>5. Len(<<>>) = 0
  BY EmptySeq
<1> QED  BY <1>2, <1>4, <1>5, Zenon

LEMMA NextMessageType ==
    ASSUME TypeInv, NEW l \in Loop,
           pc[l] \in {"route", "dead letter", "fetch", "ack"}, NextMessage(l)
    PROVE  /\ batch' \in [Loop -> Seq(Item)]
           /\ pc' \in [Process -> Place]
           /\ pc'[l] \in {"route", "idle", "scan"}
           /\ \A p \in Process \ {l} : pc'[p] = pc[p]
           /\ LoopLocals'
<1>1. /\ batch[l] \in Seq(Item) /\ batch[l] # <<>>
      /\ pc \in [Process -> Place] /\ l \in Process
      /\ batch \in [Loop -> Seq(Item)]
  BY DEF TypeInv, TypeOK, TasksOK, Locals, LoopLocals, Process
<1>2. Tail(batch[l]) \in Seq(Item) /\ Len(Tail(batch[l])) = Len(batch[l]) - 1
  BY <1>1, HeadTailProperties
<1>3. batch' = [batch EXCEPT ![l] = Tail(batch[l])]
  BY DEF NextMessage
<1>4. batch' \in [Loop -> Seq(Item)]
  BY <1>1, <1>2, <1>3
<1>5. PICK next \in {"route", "idle", "scan"} :
        /\ pc' = [pc EXCEPT ![l] = next]
        /\ next = "route" => Len(batch[l]) > 1
  BY DEF NextMessage
<1>6. pc' \in [Process -> Place]
  BY <1>1, <1>5 DEF Place
<1>7. LoopLocals'
  <2> SUFFICES ASSUME NEW k \in Loop,
                      pc'[k] \in {"route", "dead letter", "fetch", "ack"}
               PROVE  batch'[k] # <<>>
    BY DEF LoopLocals
  <2>1. CASE k = l
    <3>1. Len(batch[l]) > 1
      BY <1>1, <1>5, <2>1
    <3>2. Tail(batch[l]) # <<>>
      BY <1>1, <3>1, TailOfLonger
    <3>3. batch'[l] = Tail(batch[l])
      BY <1>1, <1>3
    <3> QED  BY <2>1, <3>2, <3>3, Zenon
  <2>2. CASE k # l
    BY <1>1, <1>3, <1>5, <2>2 DEF TypeInv, Locals, LoopLocals, Process
  <2> QED  BY <2>1, <2>2
<1> QED  BY <1>1, <1>4, <1>5, <1>6, <1>7

(* A step of loop l after which it is at an await of its current message   *)
(* still, or at one of its next message's.                                 *)
LEMMA LoopStepType ==
    ASSUME TypeInv, NEW l \in Loop, LoopStep(l) \/ FetchFails(l)
    PROVE  TypeInv'
<1>1. /\ pc \in [Process -> Place] /\ batch \in [Loop -> Seq(Item)]
      /\ l \in Process /\ enqueued \subseteq EntityEvent
      /\ queue \in [Group -> Seq(Mergeable)]
  BY DEF TypeInv, TypeOK, TasksOK, Process
<1>2. /\ pc[l] \in {"route", "dead letter", "fetch", "ack"}
      /\ batch[l] # <<>>
  BY DEF LoopStep, RouteToDeadLetter, SkipInFlight, RouteOne, EnqueueMerge, FindNoRow,
         PushDeadLetter, AckRouted, AckRoutedFails, FetchFails, TypeInv, Locals, LoopLocals
<1>3. Msg(l) \in Message
  <2>1. batch[l] \in Seq(Item)
    BY <1>1
  <2>2. Head(batch[l]) \in Item
    BY <1>2, <2>1, HeadTailProperties
  <2> QED  BY <2>2 DEF Msg, Item
<1>4. layer' = layer /\ UNCHANGED unrouted
  BY DEF LoopStep, RouteToDeadLetter, SkipInFlight, RouteOne, EnqueueMerge, FindNoRow,
         PushDeadLetter, AckRouted, AckRoutedFails, FetchFails, unrouted
<1>5. faults' \in Nat
  <2>1. faults \in Nat
    BY DEF TypeInv, TypeOK, RestOK
  <2>2. faults' = faults \/ faults' = faults + 1
    BY DEF LoopStep, RouteToDeadLetter, SkipInFlight, RouteOne, EnqueueMerge, FindNoRow,
         PushDeadLetter, AckRouted, AckRoutedFails, FetchFails, Fault
  <2> QED  BY <2>1, <2>2
<1>6. StreamOK'
  <2>1. /\ unread \subseteq Message /\ dead \subseteq Message /\ streamUp \in BOOLEAN
        /\ deliveries \in [Message -> 0..AGG_MAX_RETRY]
    BY DEF TypeInv, TypeOK, StreamOK
  <2>2. /\ unread' = unread /\ streamUp' = streamUp
        /\ dead' \subseteq dead \union {Msg(l)}
        /\ deliveries' = deliveries \/ deliveries' = [deliveries EXCEPT ![Msg(l)] = 0]
    BY DEF LoopStep, RouteToDeadLetter, SkipInFlight, RouteOne, EnqueueMerge, FindNoRow,
           PushDeadLetter, AckRouted, AckRoutedFails, FetchFails, streamVars, Acknowledge
  <2>3. deliveries' \in [Message -> 0..AGG_MAX_RETRY]
    BY <2>1, <2>2
  <2> QED  BY <1>3, <2>1, <2>2, <2>3 DEF StreamOK
<1>7. enqueued' \subseteq EntityEvent
  <2>1. ~Head(batch[l]).exhausted /\ Entity(l) # Malformed => Entity(l) \in EntityEvent
    BY <1>3 DEF Entity
  <2> QED  BY <1>1, <2>1 DEF LoopStep, RouteToDeadLetter, SkipInFlight, RouteOne,
              EnqueueMerge, FindNoRow, PushDeadLetter, AckRouted, AckRoutedFails, FetchFails
<1>8. /\ queue' \in [Group -> Seq(Mergeable)]
      /\ \A g \in Group : queue[g] # <<>> => queue'[g] # <<>>
  <2>1. CASE EnqueueMerge(l)
    <3>1. Msg(l) \in Mergeable
      BY <1>3, <2>1 DEF EnqueueMerge, Entity, Mergeable
    <3>2. PICK g \in Group : queue' = [queue EXCEPT ![g] = Append(@, Msg(l))]
      BY <2>1, <3>1, <1>3 DEF EnqueueMerge, Entity, Mergeable
    <3> QED  BY <1>1, <3>1, <3>2, AppendProperties
  <2>2. CASE queue' = queue
    BY <1>1, <2>2
  <2> QED  BY <2>1, <2>2 DEF LoopStep, RouteToDeadLetter, SkipInFlight, RouteOne,
              FindNoRow, PushDeadLetter, AckRouted, AckRoutedFails, FetchFails
<1>9. /\ batch' \in [Loop -> Seq(Item)]
      /\ pc' \in [Process -> Place]
      /\ pc'[l] \in {"idle", "route", "dead letter", "fetch", "ack", "scan"}
      /\ \A p \in Process \ {l} : pc'[p] = pc[p]
      /\ LoopLocals'
  <2>1. CASE NextMessage(l)
    BY <1>2, <2>1, NextMessageType
  <2>2. CASE /\ batch' = batch
             /\ \E place \in {"dead letter", "fetch", "ack"} :
                  pc' = [pc EXCEPT ![l] = place]
    BY <1>1, <1>2, <2>2 DEF TypeInv, Locals, LoopLocals, Place, Process
  <2>3. CASE /\ batch' = [batch EXCEPT ![l] = <<>>]
             /\ pc' = [pc EXCEPT ![l] = "idle"]
    BY <1>1, <2>3, EmptySeq DEF TypeInv, Locals, LoopLocals, Place, Process
  <2> QED  BY <2>1, <2>2, <2>3 DEF LoopStep, RouteToDeadLetter, SkipInFlight, RouteOne,
              EnqueueMerge, FindNoRow, PushDeadLetter, AckRouted, AckRoutedFails, FetchFails
<1>10. TasksOK'
  BY <1>4, <1>7, <1>8, <1>9 DEF TypeInv, TypeOK, TasksOK
<1>11. GroupLocals' /\ MarkLocals'
  BY <1>4, <1>8, <1>9, RoutedLocals
<1>12. EventsOK' /\ TablesOK' /\ RestOK'
  BY <1>4, <1>5, UnroutedType
<1> QED  BY <1>6, <1>9, <1>10, <1>11, <1>12 DEF TypeInv, TypeOK, Locals

(***************************************************************************)
(* The groups' steps.                                                      *)
(***************************************************************************)
LEMMA UnmergedType ==
    ASSUME TypeInv, UNCHANGED unmerged
    PROVE  /\ deliveries' \in [Message -> 0..AGG_MAX_RETRY] => StreamOK'
           /\ TablesOK'
           /\ overdue' \in Nat /\ outages' \in Nat /\ stops' \in Nat /\ flushed' \in BOOLEAN
           /\ layer' = layer /\ batch' = batch /\ snapshot' = snapshot /\ stored' = stored
           /\ current' = current
BY DEF TypeInv, TypeOK, StreamOK, TablesOK, RestOK, unmerged, persistVars, tableVars, timeVars

(* The Event a merge makes is one, and shorter than the maximum timespan.  *)
LEMMA MergedEvent ==
    ASSUME NEW event \in Event \union {NoEvent}, NEW e \in EntityEvent, NEW t \in Int,
           NEW freshId \in EventId
    PROVE  /\ merge_or_create(event, e, t, freshId) \in Event
           /\ merge_or_create(event, e, t, freshId).last
                - merge_or_create(event, e, t, freshId).first < EVENT_MAX_TIMESPAN
<1>1. CASE event # NoEvent /\ Extends(event, t)
  <2>1. event \in Event
    BY <1>1
  <2>2. /\ event.id \in EventId /\ event.first \in Int /\ event.last \in Int
        /\ event.ver \in Nat /\ event.ees \in SUBSET EntityEvent
    BY <2>1 DEF Event
  <2>3. merge_or_create(event, e, t, freshId) = ExtendedBy(event, e, t)
    BY <1>1 DEF merge_or_create
  <2>4. ExtendedBy(event, e, t) \in Event
    BY <2>2 DEF ExtendedBy, Event, Earlier, Later
  <2>5. Later(event.last, t) - Earlier(event.first, t) < EVENT_MAX_TIMESPAN
    BY <1>1, <2>2 DEF Extends, SpanWith, Earlier, Later
  <2>6. /\ ExtendedBy(event, e, t).last = Later(event.last, t)
        /\ ExtendedBy(event, e, t).first = Earlier(event.first, t)
    BY DEF ExtendedBy
  <2> QED  BY <2>3, <2>4, <2>5, <2>6
<1>2. CASE ~(event # NoEvent /\ Extends(event, t))
  <2>1. merge_or_create(event, e, t, freshId) = StartedBy(e, t, freshId)
    BY <1>2 DEF merge_or_create
  <2>2. StartedBy(e, t, freshId) \in Event
    BY DEF StartedBy, Event
  <2>3. StartedBy(e, t, freshId).last - StartedBy(e, t, freshId).first = 0
    BY DEF StartedBy
  <2> QED  BY <2>1, <2>2, <2>3
<1> QED  BY <1>1, <1>2

(* The time to live of an Event that fits the timespan is positive.        *)
LEMMA TtlType ==
    ASSUME NEW event \in Event, event.last - event.first < EVENT_MAX_TIMESPAN
    PROVE  ttl_for(event) \div DB_FLUSH_INTERVAL \in Nat
<1>1. event.last \in Int /\ event.first \in Int
  BY DEF Event
<1>2. ttl_for(event) \in Nat
  BY <1>1 DEF ttl_for, Earlier
<1> QED  BY <1>2

(* What a step of group g does to the tasks and to its own locals.         *)
GroupTasksOK ==
    /\ TasksOK
    /\ base \in [Group -> Event \union {NoEvent}]
    /\ updated \in [Group -> Event \union {NoEvent}]
    /\ Locals

LEMMA OthersKept ==
    ASSUME TypeInv, NEW g \in Group,
           pc' \in [Process -> Place], \A p \in Process \ {g} : pc'[p] = pc[p],
           pc'[g] # "mark", batch' = batch, current' = current
    PROVE  LoopLocals' /\ MarkLocals'
BY DEF TypeInv, Locals, LoopLocals, MarkLocals, Process, Loop, Persister

LEMMA SettleType ==
    ASSUME TypeInv, NEW g \in Group, queue[g] # <<>>, Settle(g),
           layer' = layer, batch' = batch, current' = current
    PROVE  GroupTasksOK'
<1>1. pc \in [Process -> Place] /\ g \in Process
  BY DEF TypeInv, TypeOK, TasksOK, Process
<1>2. TasksOK'
  BY <1>1 DEF TypeInv, TypeOK, TasksOK, Settle, Place
<1>3. /\ base' \in [Group -> Event \union {NoEvent}]
      /\ updated' \in [Group -> Event \union {NoEvent}]
  BY DEF TypeInv, TypeOK, EventsOK, Settle
<1>4. LoopLocals' /\ MarkLocals'
  BY <1>1, <1>2, OthersKept DEF Settle, TasksOK
<1>5. GroupLocals'
  BY <1>1 DEF TypeInv, TypeOK, EventsOK, Locals, GroupLocals, Settle, Persisting, Process
<1> QED  BY <1>2, <1>3, <1>4, <1>5 DEF GroupTasksOK, Locals

LEMMA LeaveType ==
    ASSUME TypeInv, NEW g \in Group, queue[g] # <<>>, Leave(g),
           enqueued' \subseteq enqueued, layer' = layer, batch' = batch
    PROVE  /\ TasksOK'
           /\ base' \in [Group -> Event \union {NoEvent}]
           /\ updated' \in [Group -> Event \union {NoEvent}]
           /\ LoopLocals' /\ GroupLocals'
           /\ pc'[g] = "idle" /\ \A p \in Process \ {g} : pc'[p] = pc[p]
<1>1. /\ pc \in [Process -> Place] /\ g \in Process
      /\ queue \in [Group -> Seq(Mergeable)]
  BY DEF TypeInv, TypeOK, TasksOK, Process
<1>2. Tail(queue[g]) \in Seq(Mergeable)
  <2>1. queue[g] \in Seq(Mergeable)
    BY <1>1
  <2> QED  BY <2>1, HeadTailProperties
<1>3. TasksOK'
  BY <1>1, <1>2 DEF TypeInv, TypeOK, TasksOK, Leave, Place
<1>4. /\ base' \in [Group -> Event \union {NoEvent}]
      /\ updated' \in [Group -> Event \union {NoEvent}]
  BY DEF TypeInv, TypeOK, EventsOK, Leave
<1>5. LoopLocals'
  BY <1>1 DEF TypeInv, Locals, LoopLocals, Leave, Process, Loop
<1>6. GroupLocals'
  BY <1>1 DEF TypeInv, TypeOK, EventsOK, Locals, GroupLocals, Leave, Persisting, Process
<1> QED  BY <1>1, <1>3, <1>4, <1>5, <1>6 DEF Leave

LEMMA MergeType ==
    ASSUME TypeInv, NEW g \in Group, Merge(g), queue[g] # <<>>
    PROVE  GroupTasksOK'
<1>1. /\ pc \in [Process -> Place] /\ g \in Process
      /\ queue \in [Group -> Seq(Mergeable)]
      /\ base[g] \in Event \union {NoEvent}
      /\ updated \in [Group -> Event \union {NoEvent}]
  BY DEF TypeInv, TypeOK, TasksOK, EventsOK, Process
<1>2. Work(g) \in EntityEvent
  <2>1. queue[g] \in Seq(Mergeable)
    BY <1>1
  <2>2. Head(queue[g]) \in Mergeable
    BY <2>1, HeadTailProperties
  <2> QED  BY <2>2 DEF Mergeable, Work
<1>3. PICK freshId \in EventId :
        updated' = [updated EXCEPT ![g] =
            merge_or_create(base[g], Work(g), PublishedAt[Work(g)], freshId)]
  BY DEF Merge, FreshIds
<1>4. /\ updated'[g] \in Event
      /\ updated'[g].last - updated'[g].first < EVENT_MAX_TIMESPAN
      /\ updated' \in [Group -> Event \union {NoEvent}]
      /\ \A h \in Group \ {g} : updated'[h] = updated[h]
  <2>1. PublishedAt[Work(g)] \in Int
    BY <1>2
  <2> DEFINE made == merge_or_create(base[g], Work(g), PublishedAt[Work(g)], freshId)
  <2>2. made \in Event /\ made.last - made.first < EVENT_MAX_TIMESPAN
    BY <1>1, <1>2, <2>1, MergedEvent
  <2>3. updated' = [updated EXCEPT ![g] = made]
    BY <1>3
  <2> HIDE DEF made
  <2> QED  BY <1>1, <2>2, <2>3
<1>5. PICK place \in {"persist", "upsert"} :
        /\ pc' = [pc EXCEPT ![g] = place]
        /\ place = "persist" => base[g] # NoEvent
  BY DEF Merge
<1>6. TasksOK' /\ base' = base /\ queue' = queue
  BY <1>1, <1>5 DEF Merge, TypeInv, TypeOK, TasksOK, unmerged, Place
<1>7. LoopLocals' /\ MarkLocals'
  BY <1>1, <1>5, <1>6, OthersKept DEF Merge, unmerged, persistVars, TasksOK
<1>8. GroupLocals'
  BY <1>1, <1>4, <1>5, <1>6 DEF TypeInv, Locals, GroupLocals, Persisting, Process
<1> QED  BY <1>4, <1>6, <1>7, <1>8 DEF GroupTasksOK, Locals, TypeInv, TypeOK, EventsOK

LEMMA GroupStepType ==
    ASSUME TypeInv, NEW g \in Group, GroupStep(g) \/ CheckFails(g) \/ UpsertFails(g)
    PROVE  TypeInv'
<1>1. queue[g] # <<>>
  BY DEF GroupStep, GetActiveEvent, SkipMerged, SkipLate, Merge, UpsertActiveEvent, AckMerged,
         AckMergedFails, CheckFails, UpsertFails, TypeInv, Locals, GroupLocals
<1>2. UNCHANGED unmerged
  BY DEF GroupStep, GetActiveEvent, SkipMerged, SkipLate, Merge, UpsertActiveEvent, AckMerged,
         AckMergedFails, CheckFails, UpsertFails
<1>3. Work(g) \in EntityEvent
  <2>1. queue[g] \in Seq(Mergeable)
    BY DEF TypeInv, TypeOK, TasksOK
  <2>2. Head(queue[g]) \in Mergeable
    BY <1>1, <2>1, HeadTailProperties
  <2> QED  BY <2>2 DEF Mergeable, Work
<1>4. /\ StreamOK' /\ TablesOK'
      /\ overdue' \in Nat /\ outages' \in Nat /\ stops' \in Nat /\ flushed' \in BOOLEAN
      /\ layer' = layer /\ batch' = batch /\ snapshot' = snapshot /\ stored' = stored
      /\ current' = current
  <2>1. deliveries \in [Message -> 0..AGG_MAX_RETRY]
    BY DEF TypeInv, TypeOK, StreamOK
  <2>2. deliveries' \in [Message -> 0..AGG_MAX_RETRY]
    BY <2>1 DEF GroupStep, GetActiveEvent, SkipMerged, SkipLate, Merge, UpsertActiveEvent,
           AckMerged, AckMergedFails, CheckFails, UpsertFails, Acknowledge
  <2> QED  BY <1>2, <2>2, UnmergedType
<1>5. RestOK'
  <2>1. faults \in Nat /\ merged \subseteq EntityEvent /\ late \subseteq EntityEvent
    BY DEF TypeInv, TypeOK, RestOK
  <2>2. faults' = faults \/ faults' = faults + 1
    BY DEF GroupStep, GetActiveEvent, SkipMerged, SkipLate, Merge, UpsertActiveEvent,
           AckMerged, AckMergedFails, CheckFails, UpsertFails, Fault
  <2>3. merged' \subseteq merged \union {Work(g)} /\ late' \subseteq late \union {Work(g)}
    BY DEF GroupStep, GetActiveEvent, SkipMerged, SkipLate, Merge, UpsertActiveEvent,
           AckMerged, AckMergedFails, CheckFails, UpsertFails, Upserted, historyVars
  <2> QED  BY <1>3, <1>4, <2>1, <2>2, <2>3 DEF RestOK
<1>6. /\ active' \in [Group -> Event \union {NoEvent}]
      /\ ttl' \in [Group -> Nat]
  <2>1. /\ active \in [Group -> Event \union {NoEvent}]
        /\ ttl \in [Group -> Nat]
    BY DEF TypeInv, TypeOK, EventsOK
  <2>2. CASE UNCHANGED stateVars
    BY <2>1, <2>2 DEF stateVars
  <2>3. CASE pc[g] = "upsert" /\ Upserted(g)
    <3>1. updated[g] \in Event /\ updated[g].last - updated[g].first < EVENT_MAX_TIMESPAN
      BY <2>3 DEF TypeInv, Locals, GroupLocals
    <3>2. ttl_for(updated[g]) \div DB_FLUSH_INTERVAL \in Nat
      BY <3>1, TtlType
    <3> QED  BY <2>1, <2>3, <3>1, <3>2 DEF Upserted
  <2> QED  BY <2>2, <2>3 DEF GroupStep, GetActiveEvent, SkipMerged, SkipLate, Merge,
              UpsertActiveEvent, AckMerged, AckMergedFails, CheckFails, UpsertFails, stateVars
<1>7. GroupTasksOK'
  <2>1. CASE GetActiveEvent(g)
    <3>1. /\ pc \in [Process -> Place] /\ g \in Process
          /\ base \in [Group -> Event \union {NoEvent}]
          /\ active[g] \in Event \union {NoEvent}
      BY DEF TypeInv, TypeOK, TasksOK, EventsOK, Process
    <3>2. TasksOK'
      BY <1>4, <2>1, <3>1 DEF GetActiveEvent, TypeInv, TypeOK, TasksOK, Place
    <3>3. LoopLocals' /\ MarkLocals'
      BY <1>4, <2>1, <3>1, <3>2, OthersKept DEF GetActiveEvent, TasksOK
    <3>4. GroupLocals'
      BY <2>1, <3>1 DEF GetActiveEvent, TypeInv, Locals, GroupLocals, Persisting, Process
    <3> QED  BY <2>1, <3>1, <3>2, <3>3, <3>4 DEF GetActiveEvent, GroupTasksOK, Locals,
                TypeInv, TypeOK, EventsOK
  <2>2. CASE Settle(g)
    BY <1>1, <1>4, <2>2, SettleType
  <2>3. CASE Leave(g) /\ enqueued' \subseteq enqueued
    <3>1. MarkLocals'
      BY <1>1, <1>4, <2>3, LeaveType DEF TypeInv, Locals, MarkLocals, Persister, Process, Loop
    <3> QED  BY <1>1, <1>4, <2>3, <3>1, LeaveType DEF GroupTasksOK, Locals
  <2>4. CASE Merge(g)
    BY <1>1, <2>4, MergeType
  <2> QED  BY <2>1, <2>2, <2>3, <2>4 DEF GroupStep, SkipMerged, SkipLate, UpsertActiveEvent,
              AckMerged, AckMergedFails, CheckFails, UpsertFails, FailMerge
<1> QED  BY <1>4, <1>5, <1>6, <1>7 DEF TypeInv, TypeOK, EventsOK, GroupTasksOK

(***************************************************************************)
(* The flush and _persist_and_publish.                                     *)
(***************************************************************************)
LEMMA UnpersistedType ==
    ASSUME TypeInv, UNCHANGED unpersisted
    PROVE  /\ StreamOK'
           /\ faults' \in Nat /\ flushed' \in BOOLEAN => RestOK'
           /\ layer' = layer /\ batch' = batch /\ active' = active /\ ttl' = ttl
BY DEF TypeInv, TypeOK, StreamOK, RestOK, unpersisted, streamVars, stateVars, historyVars

(* A step of persister p to another of its awaits, or its last.            *)
LEMMA PersisterTasks ==
    ASSUME TypeInv, NEW p \in Persister,
           pc[p] \in {"scan", "persist", "select", "announce", "mark"},
           NEW place \in {"persist", "select", "announce", "mark", "upsert", "idle"},
           pc' = [pc EXCEPT ![p] = place],
           place = "idle" \/ place = "upsert" \/ p = Consumer \/ pc[p] # "scan",
           p \in Group => place # "idle" /\ pc[p] # "scan",
           p = Consumer => place # "upsert",
           UNCHANGED <<enqueued, groupVars, unpersisted>>
    PROVE  /\ TasksOK' /\ LoopLocals' /\ GroupLocals'
           /\ base' = base /\ updated' = updated
<1>1. pc \in [Process -> Place] /\ p \in Process
  BY DEF TypeInv, TypeOK, TasksOK, Process, Persister, Loop
<1>2. /\ base' = base /\ updated' = updated /\ queue' = queue
      /\ layer' = layer /\ batch' = batch /\ enqueued' = enqueued
  BY DEF groupVars, unpersisted
<1>3. TasksOK'
  BY <1>1, <1>2 DEF TypeInv, TypeOK, TasksOK, Place
<1>4. LoopLocals'
  BY <1>1, <1>2 DEF TypeInv, Locals, LoopLocals, Process, Loop
<1>5. GroupLocals'
  BY <1>1, <1>2 DEF TypeInv, Locals, GroupLocals, Persisting, Process, Persister
<1> QED  BY <1>2, <1>3, <1>4, <1>5

LEMMA TargetType ==
    ASSUME TypeInv, NEW p \in Persister, pc[p] \in Persisting
    PROVE  Target(p) \subseteq Event
<1>1. CASE p = Consumer
  BY <1>1 DEF Target, Changed, TypeInv, TypeOK, EventsOK
<1>2. CASE p \in Group
  BY <1>2 DEF Target, TypeInv, Locals, GroupLocals
<1> QED  BY <1>1, <1>2 DEF Persister

LEMMA FlushOfType ==
    ASSUME NEW events \in SUBSET Event
    PROVE  FlushOf(events) \in [EventId -> Nat]
<1> SUFFICES ASSUME NEW id \in EventId, \E event \in events : event.id = id
             PROVE  (CHOOSE event \in events : event.id = id).ver \in Nat
  BY DEF FlushOf
<1>1. (CHOOSE event \in events : event.id = id) \in Event
  OBVIOUS
<1> QED  BY <1>1 DEF Event

LEMMA WithEventsType ==
    ASSUME stored \in [EventId -> Event \union {NoEvent}], NEW events \in SUBSET Event
    PROVE  WithEvents(stored, events) \in [EventId -> Event \union {NoEvent}]
<1> SUFFICES ASSUME NEW id \in EventId, \E event \in events : event.id = id
             PROVE  (CHOOSE event \in events : event.id = id) \in Event
  BY DEF WithEvents
<1> QED  OBVIOUS

LEMMA WithMembershipsType ==
    ASSUME owner \in [EntityEvent -> EventId \union {NoEvent}], NEW events \in SUBSET Event
    PROVE  WithMemberships(owner, events) \in [EntityEvent -> EventId \union {NoEvent}]
<1> SUFFICES ASSUME NEW e \in EntityEvent, \E event \in events : e \in event.ees
             PROVE  (CHOOSE event \in events : e \in event.ees).id \in EventId
  BY DEF WithMemberships
<1>1. (CHOOSE event \in events : e \in event.ees) \in Event
  OBVIOUS
<1> QED  BY <1>1 DEF Event

LEMMA UnpublishedType ==
    ASSUME stored \in [EventId -> Event \union {NoEvent}],
           published \in [EventId -> Nat], NEW ids \in SUBSET EventId
    PROVE  Unpublished(stored, published, ids) \subseteq Version
<1> SUFFICES ASSUME NEW id \in ids, published[id] < StoredVersion(stored, id)
             PROVE  [id |-> id, ver |-> stored[id].ver] \in Version
  BY DEF Unpublished
<1>1. published[id] \in Nat /\ id \in EventId
  OBVIOUS
<1>2. stored[id] # NoEvent
  BY <1>1 DEF StoredVersion
<1>3. stored[id] \in Event
  BY <1>1, <1>2
<1>4. stored[id].ver \in Nat
  BY <1>3 DEF Event
<1> QED  BY <1>1, <1>4 DEF Version

(* Continue leaves the persister's locals in order.                        *)
LEMMA ContinueType ==
    ASSUME TypeInv, NEW p \in Persister, pc[p] \in {"select", "mark"}, NEW left,
           Continue(p, left), UNCHANGED <<enqueued, groupVars, unpersisted>>
    PROVE  /\ TasksOK' /\ LoopLocals' /\ GroupLocals'
           /\ base' = base /\ updated' = updated
           /\ snapshot' \subseteq Event
           /\ lastFlushed' \in [EventId -> Nat]
           /\ pc'[p] # "mark" /\ \A q \in Persister \ {p} : pc'[q] = pc[q]
<1>1. PICK place \in {"announce", "idle", "upsert"} :
        /\ pc' = [pc EXCEPT ![p] = place]
        /\ p = Consumer => place # "upsert"
        /\ p # Consumer => place # "idle"
  BY DEF Continue
<1>2. p \in Group => p # Consumer
  OBVIOUS
<1>3. /\ TasksOK' /\ LoopLocals' /\ GroupLocals'
      /\ base' = base /\ updated' = updated
  BY <1>1, <1>2, PersisterTasks
<1>4. snapshot' \subseteq Event /\ lastFlushed' \in [EventId -> Nat]
  BY FlushOfType DEF Continue, TypeInv, TypeOK, EventsOK, TablesOK
<1>5. pc'[p] # "mark" /\ \A q \in Persister \ {p} : pc'[q] = pc[q]
  BY <1>1 DEF TypeInv, TypeOK, TasksOK, Persister, Process, Loop
<1> QED  BY <1>3, <1>4, <1>5

(* What the tables and the persisters' locals must satisfy after a step    *)
(* that keeps the rest.                                                    *)
LEMMA PersisterType ==
    ASSUME TypeInv, UNCHANGED unpersisted, faults' \in Nat, flushed' \in BOOLEAN,
           TasksOK', LoopLocals', GroupLocals', MarkLocals',
           base' \in [Group -> Event \union {NoEvent}],
           updated' \in [Group -> Event \union {NoEvent}],
           snapshot' \subseteq Event,
           stored' \in [EventId -> Event \union {NoEvent}],
           TablesOK'
    PROVE  TypeInv'
<1>1. StreamOK' /\ RestOK' /\ active' = active /\ ttl' = ttl
  BY UnpersistedType
<1>2. EventsOK'
  BY <1>1 DEF TypeInv, TypeOK, EventsOK
<1> QED  BY <1>1, <1>2 DEF TypeInv, TypeOK, Locals

LEMMA PersistEventsType ==
    ASSUME TypeInv, NEW p \in Persister, PersistEvents(p)
    PROVE  TypeInv'
<1>1. Target(p) \subseteq Event
  BY TargetType DEF PersistEvents, Persisting
<1>2. /\ TasksOK' /\ LoopLocals' /\ GroupLocals'
      /\ base' = base /\ updated' = updated
  BY PersisterTasks DEF PersistEvents
<1>3. MarkLocals'
  BY DEF PersistEvents, TypeInv, TypeOK, TasksOK, Locals, MarkLocals, Persister, Process, Loop,
         persistVars
<1>4. stored' \in [EventId -> Event \union {NoEvent}]
  BY <1>1, WithEventsType DEF PersistEvents, TypeInv, TypeOK, EventsOK
<1>5. owner' \in [EntityEvent -> EventId \union {NoEvent}]
  BY <1>1, WithMembershipsType DEF PersistEvents, TypeInv, TypeOK, TablesOK
<1>6. TablesOK' /\ snapshot' = snapshot
  BY <1>5 DEF PersistEvents, TypeInv, TypeOK, TablesOK, persistVars
<1>7. faults' \in Nat /\ flushed' \in BOOLEAN /\ UNCHANGED unpersisted
  BY DEF PersistEvents, TypeInv, TypeOK, RestOK
<1> QED  BY <1>2, <1>3, <1>4, <1>6, <1>7, PersisterType DEF TypeInv, TypeOK, EventsOK

LEMMA SelectUnpublishedType ==
    ASSUME TypeInv, NEW p \in Persister, SelectUnpublished(p)
    PROVE  TypeInv'
<1> DEFINE ids == {event.id : event \in Target(p)}
           found == Unpublished(stored, published, ids)
<1>1. Target(p) \subseteq Event
  BY TargetType DEF SelectUnpublished, Persisting
<1>2. ids \subseteq EventId
  BY <1>1 DEF Event
<1>3. found \subseteq Version
  BY <1>2, UnpublishedType DEF TypeInv, TypeOK, EventsOK, TablesOK
<1>4. outbox' = [outbox EXCEPT ![p] = found] /\ Continue(p, found)
  BY DEF SelectUnpublished
<1> HIDE DEF found
<1>5. /\ TasksOK' /\ LoopLocals' /\ GroupLocals'
      /\ base' = base /\ updated' = updated
      /\ snapshot' \subseteq Event
      /\ lastFlushed' \in [EventId -> Nat]
      /\ pc'[p] # "mark" /\ \A q \in Persister \ {p} : pc'[q] = pc[q]
  BY <1>4, ContinueType DEF SelectUnpublished
<1>6. MarkLocals'
  BY <1>5 DEF SelectUnpublished, TypeInv, Locals, MarkLocals
<1>7. TablesOK' /\ stored' = stored
  BY <1>3, <1>4, <1>5 DEF SelectUnpublished, TypeInv, TypeOK, TablesOK, tableVars
<1>8. faults' \in Nat /\ flushed' \in BOOLEAN /\ UNCHANGED unpersisted
  BY DEF SelectUnpublished, TypeInv, TypeOK, RestOK
<1> QED  BY <1>5, <1>6, <1>7, <1>8, PersisterType DEF TypeInv, TypeOK, EventsOK

LEMMA PublishType ==
    ASSUME TypeInv, NEW p \in Persister, Publish(p)
    PROVE  TypeInv'
<1>1. PICK x \in outbox[p] :
        /\ current' = [current EXCEPT ![p] = x]
        /\ outbox' = [outbox EXCEPT ![p] = @ \ {x}]
        /\ announced' = [announced EXCEPT ![x.id] = StoredVersion(stored, x.id)]
  BY DEF Publish
<1>2. x \in Version /\ x.id \in EventId
  BY DEF TypeInv, TypeOK, TablesOK, Version
<1>3. StoredVersion(stored, x.id) \in Nat
  BY <1>2 DEF StoredVersion, TypeInv, TypeOK, EventsOK, Event
<1>4. /\ TasksOK' /\ LoopLocals' /\ GroupLocals'
      /\ base' = base /\ updated' = updated
  BY PersisterTasks DEF Publish
<1>5. MarkLocals'
  BY <1>1, <1>2 DEF Publish, TypeInv, TypeOK, TablesOK, TasksOK, Locals, MarkLocals, Persister,
        Process, Loop
<1>6. TablesOK' /\ snapshot' = snapshot /\ stored' = stored
  BY <1>1, <1>2, <1>3 DEF Publish, TypeInv, TypeOK, TablesOK
<1>7. faults' \in Nat /\ flushed' \in BOOLEAN /\ UNCHANGED unpersisted
  BY DEF Publish, TypeInv, TypeOK, RestOK
<1> QED  BY <1>4, <1>5, <1>6, <1>7, PersisterType DEF TypeInv, TypeOK, EventsOK

LEMMA MarkPublishedType ==
    ASSUME TypeInv, NEW p \in Persister, MarkPublished(p)
    PROVE  TypeInv'
<1>1. current[p] \in Version
  BY DEF MarkPublished, TypeInv, Locals, MarkLocals
<1>2. published' \in [EventId -> Nat]
  BY <1>1 DEF MarkPublished, WithMark, Version, TypeInv, TypeOK, TablesOK
<1>3. /\ TasksOK' /\ LoopLocals' /\ GroupLocals'
      /\ base' = base /\ updated' = updated
      /\ snapshot' \subseteq Event
      /\ lastFlushed' \in [EventId -> Nat]
      /\ pc'[p] # "mark" /\ \A q \in Persister \ {p} : pc'[q] = pc[q]
  BY ContinueType DEF MarkPublished
<1>4. MarkLocals'
  BY <1>3 DEF MarkPublished, TypeInv, TypeOK, TablesOK, Locals, MarkLocals
<1>5. TablesOK' /\ stored' = stored
  BY <1>2, <1>3 DEF MarkPublished, TypeInv, TypeOK, TablesOK
<1>6. faults' \in Nat /\ flushed' \in BOOLEAN /\ UNCHANGED unpersisted
  BY DEF MarkPublished, TypeInv, TypeOK, RestOK
<1> QED  BY <1>3, <1>4, <1>5, <1>6, PersisterType DEF TypeInv, TypeOK, EventsOK

LEMMA PersistFailsType ==
    ASSUME TypeInv, NEW p \in Persister, PersistFails(p)
    PROVE  TypeInv'
<1>1. /\ faults' \in Nat /\ flushed' \in BOOLEAN /\ UNCHANGED unpersisted
      /\ pc[p] \in Persisting
  BY DEF PersistFails, Fault, TypeInv, TypeOK, RestOK, Persisting
<1>2. layer' = layer /\ batch' = batch
  BY <1>1 DEF unpersisted
<1>3. /\ TablesOK' /\ snapshot' \subseteq Event /\ stored' = stored
      /\ \A q \in Persister : current'[q] = current[q] \/ q = p
  BY DEF PersistFails, NoFlush, TypeInv, TypeOK, TablesOK, EventsOK, tableVars, Persister
<1>4. CASE p = Consumer
  <2>1. /\ TasksOK' /\ LoopLocals' /\ GroupLocals'
        /\ base' = base /\ updated' = updated
    BY <1>4, PersisterTasks DEF PersistFails
  <2>2. MarkLocals'
    BY <1>3, <1>4 DEF PersistFails, TypeInv, TypeOK, TasksOK, Locals, MarkLocals, Persister,
          Process, Loop
  <2> QED  BY <1>1, <1>3, <2>1, <2>2, PersisterType DEF TypeInv, TypeOK, EventsOK
<1>5. CASE p # Consumer
  <2>1. p \in Group /\ queue[p] # <<>>
    BY <1>1, <1>5 DEF Persister, Persisting, TypeInv, Locals, GroupLocals
  <2>2. Leave(p) /\ enqueued' \subseteq enqueued
    BY <1>5 DEF PersistFails, FailMerge
  <2>3. /\ TasksOK'
        /\ base' \in [Group -> Event \union {NoEvent}]
        /\ updated' \in [Group -> Event \union {NoEvent}]
        /\ LoopLocals' /\ GroupLocals'
        /\ pc'[p] = "idle" /\ \A q \in Process \ {p} : pc'[q] = pc[q]
    BY <1>2, <2>1, <2>2, LeaveType
  <2>4. MarkLocals'
    BY <1>3, <2>3 DEF TypeInv, Locals, MarkLocals, Persister, Process, Loop
  <2> QED  BY <1>1, <1>3, <2>3, <2>4, PersisterType DEF TypeInv, TypeOK, EventsOK
<1> QED  BY <1>4, <1>5

LEMMA ScanType ==
    ASSUME TypeInv, ScanAll \/ ScanFails
    PROVE  TypeInv'
<1> DEFINE found == {active[g] : g \in Group} \ {NoEvent}
<1>1. found \subseteq Event
  BY DEF TypeInv, TypeOK, EventsOK
<1>2. /\ faults' \in Nat /\ flushed' \in BOOLEAN /\ UNCHANGED unpersisted
      /\ UNCHANGED <<enqueued, groupVars, outbox, current, tableVars>>
  <2>1. faults \in Nat
    BY DEF TypeInv, TypeOK, RestOK
  <2>2. faults' = faults \/ faults' = faults + 1
    BY DEF ScanAll, ScanFails, Fault
  <2>3. faults' \in Nat
    BY <2>1, <2>2
  <2>4. flushed' = TRUE
    BY DEF ScanAll, ScanFails
  <2>5. UNCHANGED unpersisted
    BY DEF ScanAll, ScanFails
  <2>6. UNCHANGED <<enqueued, groupVars, outbox, current, tableVars>>
    BY DEF ScanAll, ScanFails, persistVars
  <2> QED  BY <2>3, <2>4, <2>5, <2>6
<1>3. PICK place \in {"persist", "idle"} : pc' = [pc EXCEPT ![Consumer] = place]
  BY DEF ScanAll, ScanFails
<1>4. /\ snapshot' = snapshot \/ snapshot' = found
      /\ lastFlushed' = lastFlushed \/ lastFlushed' = FlushOf(found)
  BY DEF ScanAll, ScanFails, persistVars
<1>5. FlushOf(found) \in [EventId -> Nat]
  BY <1>1, FlushOfType
<1> HIDE DEF found
<1>6. /\ TasksOK' /\ LoopLocals' /\ GroupLocals'
      /\ base' = base /\ updated' = updated
  <2>1. Consumer \in Persister /\ pc[Consumer] = "scan"
    BY DEF ScanAll, ScanFails, Persister
  <2> QED  BY <1>2, <1>3, <2>1, PersisterTasks
<1>7. MarkLocals'
  BY <1>2, <1>3 DEF TypeInv, TypeOK, TasksOK, Locals, MarkLocals, Persister, Process, Loop
<1>8. snapshot' \subseteq Event /\ stored' = stored /\ TablesOK'
  BY <1>1, <1>2, <1>4, <1>5 DEF TypeInv, TypeOK, EventsOK, TablesOK, tableVars
<1> QED  BY <1>2, <1>6, <1>7, <1>8, PersisterType DEF TypeInv, TypeOK, EventsOK

(***************************************************************************)
(* The reading of nothing and the life of the layer.                       *)
(***************************************************************************)
LEMMA ReadNothingType == TypeInv /\ ReadNothing => TypeInv'
<1> SUFFICES ASSUME TypeInv, ReadNothing PROVE TypeInv'
  OBVIOUS
<1>1. /\ pc \in [Process -> Place] /\ Consumer \in Process /\ Consumer \in Loop
      /\ pc' = [pc EXCEPT ![Consumer] = "scan"]
  BY DEF ReadNothing, TypeInv, TypeOK, TasksOK, Process, Loop
<1>2. StreamOK'
  BY DEF ReadNothing, streamVars, TypeInv, TypeOK, StreamOK
<1>3. TasksOK'
  BY <1>1 DEF ReadNothing, TypeInv, TypeOK, TasksOK, unrouted, Place
<1>4. LoopLocals'
  BY <1>1 DEF ReadNothing, TypeInv, Locals, LoopLocals, Process, Loop
<1>5. GroupLocals' /\ MarkLocals'
  BY <1>1, <1>3, RoutedLocals DEF ReadNothing, TasksOK
<1>6. EventsOK' /\ TablesOK' /\ RestOK'
  BY UnroutedType DEF ReadNothing, TypeInv, TypeOK, RestOK
<1> QED  BY <1>2, <1>3, <1>4, <1>5, <1>6 DEF TypeInv, TypeOK, Locals

(* The loops stop where they are, the groups and their locals stay.        *)
LEMMA StoppedType ==
    ASSUME TypeInv, NoFlush, layer' \in {"up", "stopping", "closing", "down"},
           pc' \in [Process -> Place],
           pc'[Consumer] \in {"scan", "idle"},
           \A g \in Group : pc'[g] = pc[g],
           batch' \in [Loop -> Seq(Item)], LoopLocals',
           enqueued' \subseteq enqueued, faults' \in Nat, stops' \in Nat,
           UNCHANGED <<streamVars, groupVars, lastFlushed, stateVars, tableVars,
                       historyVars, timeVars, outages>>
    PROVE  TypeInv'
<1>1. StreamOK'
  BY DEF TypeInv, TypeOK, StreamOK, streamVars
<1>2. TasksOK'
  BY DEF TypeInv, TypeOK, TasksOK, groupVars
<1>3. EventsOK'
  BY DEF TypeInv, TypeOK, EventsOK, groupVars, NoFlush, stateVars, tableVars
<1>4. TablesOK'
  BY DEF TypeInv, TypeOK, TablesOK, NoFlush, tableVars, Persister
<1>5. RestOK'
  BY DEF TypeInv, TypeOK, RestOK, historyVars, timeVars
<1>6. GroupLocals'
  BY DEF TypeInv, Locals, GroupLocals, groupVars
<1>7. MarkLocals'
  BY DEF TypeInv, TypeOK, TablesOK, Locals, MarkLocals, NoFlush, Persister
<1> QED  BY <1>1, <1>2, <1>3, <1>4, <1>5, <1>6, <1>7 DEF TypeInv, TypeOK, Locals

LEMMA StopLoopsType ==
    ASSUME TypeInv, CrashLayer \/ Shutdown
    PROVE  TypeInv'
<1>1. StopLoops /\ layer' \in {"stopping", "closing"}
  BY DEF CrashLayer, Shutdown
<1>2. pc \in [Process -> Place] /\ stops \in Nat /\ faults \in Nat
  BY DEF TypeInv, TypeOK, TasksOK, RestOK
<1>3. /\ pc' \in [Process -> Place] /\ pc'[Consumer] = "scan" /\ pc'[Reclaimer] = "idle"
      /\ \A g \in Group : pc'[g] = pc[g]
  BY <1>1, <1>2 DEF StopLoops, Process, Loop, Place
<1>4. /\ batch' \in [Loop -> Seq(Item)] /\ LoopLocals'
      /\ enqueued' \subseteq enqueued
  <2>1. <<>> \in Seq(Item) /\ batch' = [l \in Loop |-> <<>>]
    BY <1>1, EmptySeq DEF StopLoops
  <2>2. batch' \in [Loop -> Seq(Item)]
    BY <2>1, Zenon
  <2>3. LoopLocals'
    BY <1>3 DEF LoopLocals, Loop
  <2>4. enqueued' \subseteq enqueued
    BY <1>1 DEF StopLoops
  <2> QED  BY <2>2, <2>3, <2>4
<1>5. stops' \in Nat
  BY <1>1, <1>2 DEF StopLoops
<1>6. faults' \in Nat
  BY <1>1, <1>2 DEF StopLoops
<1> QED  BY <1>1, <1>3, <1>4, <1>5, <1>6, StoppedType DEF StopLoops

LEMMA FinalFlushTimesOutType == TypeInv /\ FinalFlushTimesOut => TypeInv'
<1> SUFFICES ASSUME TypeInv, FinalFlushTimesOut PROVE TypeInv'
  OBVIOUS
<1>1. /\ pc \in [Process -> Place] /\ faults \in Nat /\ stops \in Nat
      /\ batch \in [Loop -> Seq(Item)]
      /\ layer \in {"up", "stopping", "closing", "down"}
  BY DEF TypeInv, TypeOK, TasksOK, RestOK
<1>2. /\ pc' \in [Process -> Place] /\ pc'[Consumer] = "idle" /\ pc'[Reclaimer] = pc[Reclaimer]
      /\ \A g \in Group : pc'[g] = pc[g]
  BY <1>1 DEF FinalFlushTimesOut, Process, Loop, Place
<1>3. LoopLocals'
  BY <1>2 DEF FinalFlushTimesOut, TypeInv, Locals, LoopLocals, Loop
<1>4. faults' \in Nat
  <2>1. faults' = faults \/ faults' = faults + 1
    BY DEF FinalFlushTimesOut, Fault
  <2> QED  BY <1>1, <2>1
<1> QED  BY <1>1, <1>2, <1>3, <1>4, StoppedType DEF FinalFlushTimesOut, groupVars

LEMMA EndProcessType ==
    ASSUME TypeInv, EndProcess, stops' \in Nat
    PROVE  TypeInv'
<1> USE DEF EndProcess
<1>1. StreamOK'
  BY DEF TypeInv, TypeOK, StreamOK, streamVars
<1>2. TasksOK'
  BY DEF TasksOK, Place
<1>3. EventsOK'
  BY DEF TypeInv, TypeOK, EventsOK, stateVars, tableVars
<1>4. TablesOK'
  BY DEF TypeInv, TypeOK, TablesOK, tableVars
<1>5. RestOK'
  BY DEF TypeInv, TypeOK, RestOK, historyVars
<1>6. Locals'
  BY DEF Locals, LoopLocals, GroupLocals, MarkLocals, Persisting, Loop, Process, Persister
<1> QED  BY <1>1, <1>2, <1>3, <1>4, <1>5, <1>6 DEF TypeInv, TypeOK

LEMMA EndType ==
    ASSUME TypeInv, Exit \/ Crash
    PROVE  TypeInv'
<1>1. stops \in Nat
  BY DEF TypeInv, TypeOK, RestOK
<1>2. EndProcess /\ (stops' = stops \/ stops' = stops + 1)
  BY DEF Exit, Crash
<1>3. stops' \in Nat
  BY <1>1, <1>2
<1> QED  BY <1>2, <1>3, EndProcessType

(* The layer's start and the outages of the stream Redis.                  *)
LEMMA EnvironmentType ==
    ASSUME TypeInv, StartLayer \/ StreamDown \/ StreamUp
    PROVE  TypeInv'
<1>1. /\ layer' \in {"up", layer} /\ streamUp' \in BOOLEAN
      /\ unread' = unread /\ deliveries' = deliveries /\ dead' = dead
      /\ UNCHANGED <<pc, batch, enqueued, groupVars, persistVars, stateVars, tableVars,
                     historyVars, timeVars, faults, stops>>
  BY DEF StartLayer, StreamDown, StreamUp, streamVars, failureVars, TypeInv, TypeOK, StreamOK
<1>2. outages' \in Nat
  <2>1. outages \in Nat
    BY DEF TypeInv, TypeOK, RestOK
  <2>2. outages' = outages \/ outages' = outages + 1
    BY DEF StartLayer, StreamDown, StreamUp, failureVars
  <2> QED  BY <2>1, <2>2
<1>3. StreamOK'
  BY <1>1 DEF TypeInv, TypeOK, StreamOK
<1>4. TasksOK'
  BY <1>1 DEF TypeInv, TypeOK, TasksOK, groupVars
<1>5. EventsOK' /\ TablesOK'
  BY <1>1 DEF TypeInv, TypeOK, EventsOK, TablesOK, groupVars, persistVars, stateVars, tableVars
<1>6. RestOK'
  BY <1>1, <1>2 DEF TypeInv, TypeOK, RestOK, historyVars, timeVars
<1>7. Locals'
  BY <1>1 DEF TypeInv, Locals, LoopLocals, GroupLocals, MarkLocals, groupVars, persistVars
<1> QED  BY <1>3, <1>4, <1>5, <1>6, <1>7 DEF TypeInv, TypeOK

LEMMA TickType == TypeInv /\ Tick => TypeInv'
<1> SUFFICES ASSUME TypeInv, Tick PROVE TypeInv'
  OBVIOUS
<1>1. UNCHANGED <<streamVars, layer, pc, batch, enqueued, groupVars, persistVars, tableVars,
                  historyVars, failureVars>>
  BY DEF Tick
<1>2. /\ StreamOK' /\ TasksOK' /\ TablesOK' /\ Locals'
      /\ snapshot' = snapshot /\ base' = base /\ updated' = updated /\ stored' = stored
  BY <1>1 DEF TypeInv, TypeOK, StreamOK, TasksOK, TablesOK, Locals, LoopLocals, GroupLocals,
        MarkLocals, streamVars, groupVars, persistVars, tableVars
<1>3. ttl' \in [Group -> Nat]
  <2>1. ttl \in [Group -> Nat]
    BY DEF TypeInv, TypeOK, EventsOK
  <2>2. ttl' = [g \in Group |-> IF ttl[g] > 0 THEN ttl[g] - 1 ELSE 0]
    BY DEF Tick
  <2> QED  BY <2>1, <2>2
<1>4. active' \in [Group -> Event \union {NoEvent}]
  BY DEF Tick, TypeInv, TypeOK, EventsOK
<1>5. EventsOK'
  BY <1>2, <1>3, <1>4 DEF TypeInv, TypeOK, EventsOK
<1>6. overdue' \in Nat
  <2>1. overdue \in Nat
    BY DEF TypeInv, TypeOK, RestOK
  <2>2. overdue' = overdue \/ overdue' = overdue + 1
    BY DEF Tick
  <2> QED  BY <2>1, <2>2
<1>7. flushed' = FALSE
  BY DEF Tick
<1>8. RestOK'
  BY <1>1, <1>6, <1>7 DEF TypeInv, TypeOK, RestOK, historyVars, failureVars
<1> QED  BY <1>2, <1>5, <1>8 DEF TypeInv, TypeOK

LEMMA TypeInductive == TypeInv /\ [Next]_vars => TypeInv'
<1> SUFFICES ASSUME TypeInv, [Next]_vars PROVE TypeInv'
  OBVIOUS
<1>1. CASE Read \/ ReadNothing \/ Claim
  BY <1>1, ReadType, ReadNothingType, ClaimType
<1>2. CASE \E l \in Loop : LoopStep(l) \/ FetchFails(l)
  BY <1>2, LoopStepType
<1>3. CASE \E g \in Group : GroupStep(g) \/ CheckFails(g) \/ UpsertFails(g)
  BY <1>3, GroupStepType
<1>4. CASE ScanAll \/ ScanFails
  BY <1>4, ScanType
<1>5. CASE \E p \in Persister : PersistStep(p) \/ PersistFails(p)
  BY <1>5, PersistEventsType, SelectUnpublishedType, PublishType, MarkPublishedType,
     PersistFailsType DEF PersistStep
<1>6. CASE CrashLayer \/ Shutdown
  BY <1>6, StopLoopsType
<1>7. CASE FinalFlushTimesOut
  BY <1>7, FinalFlushTimesOutType
<1>8. CASE Exit \/ Crash
  BY <1>8, EndType
<1>9. CASE StartLayer \/ StreamDown \/ StreamUp
  BY <1>9, EnvironmentType
<1>10. CASE Tick
  BY <1>10, TickType
<1>11. CASE UNCHANGED vars
  BY <1>11 DEF vars, streamVars, groupVars, persistVars, stateVars, tableVars, historyVars,
       timeVars, failureVars, TypeInv, TypeOK, StreamOK, TasksOK, EventsOK, TablesOK, RestOK,
       Locals, LoopLocals, GroupLocals, MarkLocals
<1> QED  BY <1>1, <1>2, <1>3, <1>4, <1>5, <1>6, <1>7, <1>8, <1>9, <1>10, <1>11 DEF Next

(* Every variable keeps its type: a time to live never turns negative, an  *)
(* announced item is always a version, and a group only persists and       *)
(* stores Events (_merge, _persist_and_publish).                           *)
THEOREM TypeCorrect == Spec => []TypeOK
<1>1. Init => TypeInv
  BY TypeInit
<1>2. TypeInv /\ [Next]_vars => TypeInv'
  BY TypeInductive
<1>3. TypeInv => TypeOK
  BY DEF TypeInv
<1> QED  BY <1>1, <1>2, <1>3, PTL DEF Spec

-----------------------------------------------------------------------------
(***************************************************************************)
(* The in-flight guard.  Who holds an EntityEvent is a loop that fetches   *)
(* its row or a place in a group's queue.                                  *)
(***************************************************************************)
LoopHolds(l, e) == pc[l] = "fetch" /\ Entity(l) = e
QueueHolds(g, i, e) ==
    i \in 1..Len(queue[g]) /\ EntityOf[queue[g][i]] = e /\ (i = 1 => pc[g] # "ack")

Held(e) ==
    \/ \E l \in Loop : LoopHolds(l, e)
    \/ \E g \in Group, i \in Nat : QueueHolds(g, i, e)

EntriesHeld == \A e \in EntityEvent : e \in enqueued => Held(e)

(* What Guarded(e) counts, in terms of the holders.                        *)
GuardExact(e) ==
    /\ \A l \in Loop : LoopHolds(l, e) => e \in enqueued
    /\ \A g \in Group, i \in Nat : QueueHolds(g, i, e) => e \in enqueued
    /\ e \in enqueued => Held(e)

HeldOnce(e) ==
    /\ \A l, k \in Loop : LoopHolds(l, e) /\ LoopHolds(k, e) => l = k
    /\ \A l \in Loop, g \in Group, i \in Nat : ~ (LoopHolds(l, e) /\ QueueHolds(g, i, e))
    /\ \A g, h \in Group, i, j \in Nat :
          QueueHolds(g, i, e) /\ QueueHolds(h, j, e) => g = h /\ i = j

(* Once the layer stops its loops route no more.                           *)
LoopsStop ==
    layer # "up" => \A l \in Loop : pc[l] \notin {"route", "dead letter", "fetch", "ack"}

(* A step that leaves no entry behind and unguards nothing but what it     *)
(* fails to acknowledge.                                                   *)
GuardKept ==
    /\ EntriesHeld => EntriesHeld'
    /\ \A e \in EntityEvent :
          GuardExact(e) /\ HeldOnce(e) => (GuardExact(e) /\ HeldOnce(e))' \/ AckCut(e)

LEMMA HoldersAre ==
    ASSUME NEW e \in EntityEvent
    PROVE  /\ \A l \in Loop : LoopHolds(l, e) <=> <<l, 0>> \in Holders(e)
           /\ \A g \in Group, i \in Nat \ {0} : QueueHolds(g, i, e) <=> <<g, i>> \in Holders(e)
           /\ \A h \in Holders(e) :
                 \/ \E l \in Loop : h = <<l, 0>> /\ LoopHolds(l, e)
                 \/ \E g \in Group, i \in Nat \ {0} : h = <<g, i>> /\ QueueHolds(g, i, e)
           /\ \A g \in Group, i \in Nat : QueueHolds(g, i, e) => i # 0
<1>1. \A h : h \in Holders(e) <=>
          \/ \E l \in Loop : h = <<l, 0>> /\ LoopHolds(l, e)
          \/ \E g \in Group, i \in Nat \ {0} : h = <<g, i>> /\ QueueHolds(g, i, e)
  BY DEF Holders, LoopHolds, QueueHolds
<1>2. \A g \in Group, i \in Nat : QueueHolds(g, i, e) => i # 0
  BY DEF QueueHolds
<1> QED  BY <1>1, <1>2

LEMMA EntriesAreHeld == enqueued \subseteq EntityEvent /\ EntriesHeld => GuardIsHeld
<1> SUFFICES ASSUME enqueued \subseteq EntityEvent, EntriesHeld, NEW e \in enqueued
             PROVE  Holders(e) # {}
  BY DEF GuardIsHeld
<1>1. e \in EntityEvent /\ Held(e)
  BY DEF EntriesHeld
<1> QED  BY <1>1, HoldersAre DEF Held

LEMMA GuardCounts ==
    ASSUME NEW e \in EntityEvent
    PROVE  Guarded(e) <=> GuardExact(e) /\ HeldOnce(e)
<1>1. /\ \A l \in Loop : LoopHolds(l, e) <=> <<l, 0>> \in Holders(e)
      /\ \A g \in Group, i \in Nat \ {0} : QueueHolds(g, i, e) <=> <<g, i>> \in Holders(e)
      /\ \A g \in Group, i \in Nat : QueueHolds(g, i, e) => i # 0
  BY HoldersAre
<1>2. \A h \in Holders(e) :
         \/ \E l \in Loop : h = <<l, 0>> /\ LoopHolds(l, e)
         \/ \E g \in Group, i \in Nat \ {0} : h = <<g, i>> /\ QueueHolds(g, i, e)
  BY HoldersAre
<1>3. Held(e) <=> Holders(e) # {}
  <2>1. Held(e) => Holders(e) # {}
    BY <1>1 DEF Held
  <2>2. Holders(e) # {} => Held(e)
    BY <1>2 DEF Held
  <2> QED  BY <2>1, <2>2
<1>4. (\A h, k \in Holders(e) : h = k) <=> HeldOnce(e)
  <2>1. ASSUME \A h, k \in Holders(e) : h = k
        PROVE  HeldOnce(e)
    <3>1. ASSUME NEW l \in Loop, NEW k \in Loop, LoopHolds(l, e), LoopHolds(k, e)
          PROVE  l = k
      <4>1. <<l, 0>> = <<k, 0>>
        BY <1>1, <2>1, <3>1
      <4> QED  BY <4>1
    <3>2. ASSUME NEW l \in Loop, NEW g \in Group, NEW i \in Nat,
                 LoopHolds(l, e), QueueHolds(g, i, e)
          PROVE  FALSE
      <4>1. i # 0 /\ <<l, 0>> = <<g, i>>
        BY <1>1, <2>1, <3>2
      <4> QED  BY <4>1
    <3>3. ASSUME NEW g \in Group, NEW h \in Group, NEW i \in Nat, NEW j \in Nat,
                 QueueHolds(g, i, e), QueueHolds(h, j, e)
          PROVE  g = h /\ i = j
      <4>1. <<g, i>> = <<h, j>>
        BY <1>1, <2>1, <3>3
      <4> QED  BY <4>1
    <3> QED  BY <3>1, <3>2, <3>3 DEF HeldOnce
  <2>2. ASSUME HeldOnce(e), NEW h \in Holders(e), NEW k \in Holders(e)
        PROVE  h = k
    BY <1>2, <2>2 DEF HeldOnce
  <2> QED  BY <2>1, <2>2
<1>5. GuardExact(e) <=> (e \in enqueued <=> Held(e))
  BY DEF GuardExact, Held
<1> QED  BY <1>3, <1>4, <1>5 DEF Guarded

LEMMA LoopIsNoGroup == \A l \in Loop : l \notin Group
BY DEF Loop

(***************************************************************************)
(* What may happen to the holders.                                         *)
(***************************************************************************)
LoopsKeep == \A l \in Loop, e \in EntityEvent : LoopHolds(l, e)' <=> LoopHolds(l, e)
QueuesKeep ==
    \A g \in Group, i \in Nat, e \in EntityEvent : QueueHolds(g, i, e)' <=> QueueHolds(g, i, e)

LEMMA HoldersKept ==
    ASSUME UNCHANGED enqueued, LoopsKeep, QueuesKeep
    PROVE  GuardKept
BY DEF GuardKept, EntriesHeld, GuardExact, HeldOnce, Held, LoopsKeep, QueuesKeep

(* on_success does not get through after the guard was released.           *)
LEMMA ReleasedAgain ==
    ASSUME LoopsKeep, QueuesKeep, enqueued' \subseteq enqueued,
           \A e \in EntityEvent : e \in enqueued /\ e \notin enqueued' => AckCut(e)
    PROVE  GuardKept
BY DEF GuardKept, EntriesHeld, GuardExact, HeldOnce, Held, LoopsKeep, QueuesKeep

LEMMA LoopTakes ==
    ASSUME NEW l \in Loop, NEW e \in EntityEvent \ enqueued, QueuesKeep,
           \A k \in Loop, f \in EntityEvent :
              LoopHolds(k, f)' <=> (LoopHolds(k, f) \/ (k = l /\ f = e)),
           enqueued' = enqueued \union {e}
    PROVE  GuardKept
BY DEF GuardKept, EntriesHeld, GuardExact, HeldOnce, Held, QueuesKeep

LEMMA LoopDrops ==
    ASSUME NEW l \in Loop, NEW e \in EntityEvent, LoopHolds(l, e),
           QueuesKeep,
           \A k \in Loop, f \in EntityEvent :
              LoopHolds(k, f)' <=> (LoopHolds(k, f) /\ k # l),
           enqueued' = enqueued \ {e}
    PROVE  GuardKept
<1>1. \A f \in EntityEvent : LoopHolds(l, f) => f = e
  BY DEF LoopHolds
<1> QED  BY <1>1 DEF GuardKept, EntriesHeld, GuardExact, HeldOnce, Held, QueuesKeep

LEMMA LoopPasses ==
    ASSUME NEW l \in Loop, NEW e \in EntityEvent, LoopHolds(l, e),
           NEW g \in Group, NEW n \in Nat, \A f \in EntityEvent : ~ QueueHolds(g, n, f),
           \A k \in Loop, f \in EntityEvent :
              LoopHolds(k, f)' <=> (LoopHolds(k, f) /\ k # l),
           \A h \in Group, i \in Nat, f \in EntityEvent :
              QueueHolds(h, i, f)' <=> (QueueHolds(h, i, f) \/ (h = g /\ i = n /\ f = e)),
           UNCHANGED enqueued
    PROVE  GuardKept
<1>1. \A f \in EntityEvent : LoopHolds(l, f) => f = e
  BY DEF LoopHolds
<1> QED  BY <1>1 DEF GuardKept, EntriesHeld, GuardExact, HeldOnce, Held

(* The group's first item is done with, and perhaps still acknowledged.    *)
LEMMA GroupSettles ==
    ASSUME NEW g \in Group, NEW e \in EntityEvent, QueueHolds(g, 1, e),
           LoopsKeep,
           \A h \in Group, i \in Nat, f \in EntityEvent :
              QueueHolds(h, i, f)' <=> (QueueHolds(h, i, f) /\ ~ (h = g /\ i = 1)),
           enqueued' = enqueued \ {e}
    PROVE  GuardKept
<1>1. \A f \in EntityEvent : QueueHolds(g, 1, f) => f = e
  BY DEF QueueHolds
<1> QED  BY <1>1 DEF GuardKept, EntriesHeld, GuardExact, HeldOnce, Held, LoopsKeep

LEMMA QueueShifts ==
    ASSUME NEW g \in Group, LoopsKeep,
           \A f \in EntityEvent : ~ QueueHolds(g, 0, f),
           \A i \in Nat, f \in EntityEvent :
              QueueHolds(g, i, f)' <=> i # 0 /\ QueueHolds(g, i + 1, f),
           \A h \in Group \ {g}, i \in Nat, f \in EntityEvent :
              QueueHolds(h, i, f)' <=> QueueHolds(h, i, f),
           NEW e \in EntityEvent,
           \A f \in EntityEvent : QueueHolds(g, 1, f) => f = e /\ enqueued' = enqueued \ {e},
           \/ UNCHANGED enqueued
           \/ enqueued' = enqueued \ {e} /\ (QueueHolds(g, 1, e) \/ AckCut(e))
    PROVE  GuardKept
<1>1. ASSUME NEW f \in EntityEvent, NEW i \in Nat, QueueHolds(g, i, f), i # 1
      PROVE  \E j \in Nat : j # 0 /\ i = j + 1 /\ QueueHolds(g, j, f)'
  <2>1. i # 0 /\ i - 1 \in Nat /\ i = (i - 1) + 1 /\ i - 1 # 0
    BY <1>1
  <2> QED  BY <1>1, <2>1
<1>2. ASSUME NEW f \in EntityEvent, f # e \/ ~ QueueHolds(g, 1, f)
      PROVE  Held(f) <=> Held(f)'
  <2>1. ~ QueueHolds(g, 1, f)
    BY <1>2
  <2> QED  BY <1>1, <2>1 DEF Held, LoopsKeep
<1>3. ASSUME NEW f \in EntityEvent, EntriesHeld, f \in enqueued'
      PROVE  Held(f)'
  <2>1. f \in enqueued /\ (f # e \/ ~ QueueHolds(g, 1, f))
    BY <1>3
  <2> QED  BY <1>2, <1>3, <2>1 DEF EntriesHeld
<1>4. ASSUME NEW f \in EntityEvent, GuardExact(f), HeldOnce(f)
      PROVE  (GuardExact(f) /\ HeldOnce(f))' \/ AckCut(f)
  <2>1. HeldOnce(f)'
    BY <1>4 DEF HeldOnce, LoopsKeep
  <2>2. CASE ~ QueueHolds(g, 1, f) /\ (f \in enqueued' <=> f \in enqueued)
    BY <1>2, <1>4, <2>1, <2>2 DEF GuardExact, LoopsKeep
  <2>3. CASE QueueHolds(g, 1, f)
    <3>1. /\ f \notin enqueued'
          /\ \A l \in Loop : ~ LoopHolds(l, f)
          /\ \A h \in Group, i \in Nat : QueueHolds(h, i, f) => h = g /\ i = 1
      BY <1>4, <2>3 DEF HeldOnce
    <3>2. \A h \in Group, i \in Nat : ~ QueueHolds(h, i, f)'
      BY <3>1
    <3>3. \A l \in Loop : ~ LoopHolds(l, f)'
      BY <3>1 DEF LoopsKeep
    <3> QED  BY <2>1, <3>1, <3>2, <3>3 DEF GuardExact
  <2> QED  BY <2>2, <2>3
<1> QED  BY <1>3, <1>4 DEF GuardKept, EntriesHeld

(***************************************************************************)
(* The loops.                                                              *)
(***************************************************************************)
LEMMA GroupPlaces ==
    ASSUME UNCHANGED queue, \A g \in Group : (pc'[g] = "ack") <=> (pc[g] = "ack")
    PROVE  QueuesKeep
BY DEF QueuesKeep, QueueHolds

(* A step of loop l leaves the other loop alone.                           *)
LEMMA OtherLoop ==
    ASSUME TypeInv, NEW l \in Loop, NEW next, pc' = [pc EXCEPT ![l] = next],
           \A k \in Loop \ {l} : batch'[k] = batch[k]
    PROVE  /\ \A k \in Loop \ {l}, e \in EntityEvent : LoopHolds(k, e)' <=> LoopHolds(k, e)
           /\ pc'[l] = next
           /\ \A p \in Process \ {l} : pc'[p] = pc[p]
<1>1. pc \in [Process -> Place] /\ \A k \in Loop : k \in Process
  BY DEF TypeInv, TypeOK, TasksOK, Process
<1> QED  BY <1>1 DEF LoopHolds, Entity, Msg

LEMMA LoopGuard ==
    ASSUME TypeInv, LoopsStop, NEW l \in Loop, LoopStep(l) \/ FetchFails(l)
    PROVE  LoopsStop' /\ GuardKept
<1>1. PICK next : pc' = [pc EXCEPT ![l] = next]
  BY DEF LoopStep, RouteToDeadLetter, SkipInFlight, RouteOne, EnqueueMerge, FindNoRow,
     PushDeadLetter, AckRouted, AckRoutedFails, FetchFails, NextMessage
<1>2. /\ layer' = layer
      /\ pc[l] \in {"route", "dead letter", "fetch", "ack"}
      /\ \A k \in Loop \ {l} : batch'[k] = batch[k]
  <2>1. layer' = layer /\ pc[l] \in {"route", "dead letter", "fetch", "ack"}
    BY DEF LoopStep, RouteToDeadLetter, SkipInFlight, RouteOne, EnqueueMerge, FindNoRow,
       PushDeadLetter, AckRouted, AckRoutedFails, FetchFails, unrouted
  <2>2. \/ batch' = batch
        \/ batch' = [batch EXCEPT ![l] = Tail(@)]
        \/ batch' = [batch EXCEPT ![l] = <<>>]
    BY DEF LoopStep, RouteToDeadLetter, SkipInFlight, RouteOne, EnqueueMerge, FindNoRow,
       PushDeadLetter, AckRouted, AckRoutedFails, FetchFails, NextMessage
  <2>3. batch \in [Loop -> Seq(Item)]
    BY DEF TypeInv, TypeOK, TasksOK
  <2> QED  BY <2>1, <2>2, <2>3
<1>3. /\ \A k \in Loop \ {l}, e \in EntityEvent : LoopHolds(k, e)' <=> LoopHolds(k, e)
      /\ pc'[l] = next
      /\ \A p \in Process \ {l} : pc'[p] = pc[p]
  BY <1>1, <1>2, OtherLoop
<1>4. LoopsStop'
  BY <1>2 DEF LoopsStop
<1>5. \A g \in Group : pc'[g] = pc[g]
  BY <1>3 DEF Process, Loop
<1>6. batch \in [Loop -> Seq(Item)] /\ Entity(l) \in EntityEvent \union {Malformed}
  <2>1. batch[l] \in Seq(Item) /\ batch[l] # <<>>
    BY <1>2 DEF TypeInv, TypeOK, TasksOK, Locals, LoopLocals
  <2>2. Head(batch[l]) \in Item
    BY <2>1, HeadTailProperties
  <2> QED  BY <2>2 DEF TypeInv, TypeOK, TasksOK, Entity, Msg, Item
<1>7. pc[l] # "fetch" => \A e \in EntityEvent : ~ LoopHolds(l, e)
  BY DEF LoopHolds
<1>8. next # "fetch" => \A e \in EntityEvent : ~ LoopHolds(l, e)'
  BY <1>3 DEF LoopHolds
<1>9. CASE \/ RouteToDeadLetter(l) \/ SkipInFlight(l) \/ PushDeadLetter(l)
           \/ AckRouted(l)
  <2>1. UNCHANGED <<queue, enqueued>> /\ pc[l] # "fetch"
    BY <1>9 DEF RouteToDeadLetter, SkipInFlight, PushDeadLetter, AckRouted
  <2>2. next # "fetch"
    BY <1>3, <1>9 DEF RouteToDeadLetter, SkipInFlight, PushDeadLetter, AckRouted,
       NextMessage, TypeInv, TypeOK, TasksOK, Process
  <2>3. LoopsKeep
    BY <1>3, <1>7, <1>8, <2>1, <2>2 DEF LoopsKeep
  <2> QED  BY <1>4, <1>5, <2>1, <2>3, GroupPlaces, HoldersKept
<1>10. CASE AckRoutedFails(l)
  <2>1. /\ UNCHANGED <<queue, layer>> /\ pc[l] = "ack" /\ pc'[l] = "idle" /\ ~streamUp
        /\ enqueued' = enqueued \ Released(l)
    BY <1>2, <1>10 DEF AckRoutedFails, TypeInv, TypeOK, TasksOK, Process
  <2>2. LoopsKeep
    BY <1>3, <1>7, <1>8, <2>1 DEF LoopsKeep
  <2>3. \A e \in EntityEvent : e \in enqueued /\ e \notin enqueued' => AckCut(e)
    BY <2>1, LoopIsNoGroup DEF Released, AckCut, Acked, Entity, Process
  <2> QED  BY <1>4, <1>5, <2>1, <2>2, <2>3, GroupPlaces, ReleasedAgain
<1>11. CASE RouteOne(l)
  <2>1. /\ UNCHANGED <<queue, batch>> /\ pc[l] = "route"
        /\ enqueued' = enqueued \union {Entity(l)}
        /\ Entity(l) \in EntityEvent \ enqueued
    BY <1>11 DEF RouteOne
  <2>2. next = "fetch"
    BY <1>3, <1>11 DEF RouteOne, TypeInv, TypeOK, TasksOK, Process
  <2>3. \A e \in EntityEvent : LoopHolds(l, e)' <=> e = Entity(l)
    BY <1>3, <2>1, <2>2 DEF LoopHolds, Entity, Msg
  <2>4. \A k \in Loop, f \in EntityEvent :
          LoopHolds(k, f)' <=> (LoopHolds(k, f) \/ (k = l /\ f = Entity(l)))
    BY <1>3, <1>7, <2>1, <2>3
  <2> QED  BY <1>4, <1>5, <2>1, <2>4, GroupPlaces, LoopTakes
<1>12. CASE FindNoRow(l) \/ FetchFails(l)
  <2>1. /\ UNCHANGED queue /\ pc[l] = "fetch"
        /\ enqueued' = enqueued \ {Entity(l)}
    BY <1>12 DEF FindNoRow, FetchFails
  <2>2. next # "fetch"
    BY <1>3, <1>12 DEF FindNoRow, FetchFails, NextMessage, TypeInv, TypeOK, TasksOK, Process
  <2>3. \A k \in Loop, f \in EntityEvent : LoopHolds(k, f)' <=> (LoopHolds(k, f) /\ k # l)
    BY <1>3, <1>8, <2>2
  <2>4. CASE Entity(l) \in EntityEvent
    <3>1. LoopHolds(l, Entity(l))
      BY <2>1 DEF LoopHolds
    <3> QED  BY <1>4, <1>5, <2>1, <2>3, <2>4, <3>1, GroupPlaces, LoopDrops
  <2>5. CASE Entity(l) = Malformed
    <3>1. enqueued' = enqueued
      BY <2>1, <2>5 DEF TypeInv, TypeOK, TasksOK
    <3>2. LoopsKeep
      BY <2>3, <2>5 DEF LoopsKeep, LoopHolds
    <3> QED  BY <1>4, <1>5, <2>1, <3>1, <3>2, GroupPlaces, HoldersKept
  <2> QED  BY <1>6, <2>4, <2>5
<1>13. CASE EnqueueMerge(l)
  <2>1. /\ UNCHANGED enqueued /\ pc[l] = "fetch" /\ Entity(l) \in Known
        /\ queue' = [queue EXCEPT ![GroupOf[Entity(l)]] = Append(@, Msg(l))]
    BY <1>13 DEF EnqueueMerge
  <2>2. next # "fetch"
    BY <1>3, <1>13 DEF EnqueueMerge, NextMessage, TypeInv, TypeOK, TasksOK, Process
  <2>3. \A k \in Loop, f \in EntityEvent : LoopHolds(k, f)' <=> (LoopHolds(k, f) /\ k # l)
    BY <1>3, <1>8, <2>2
  <2> DEFINE g == GroupOf[Entity(l)]
             n == Len(queue[g]) + 1
  <2>4. /\ Entity(l) \in EntityEvent /\ g \in Group /\ LoopHolds(l, Entity(l))
        /\ queue \in [Group -> Seq(Mergeable)]
    BY <2>1 DEF LoopHolds, TypeInv, TypeOK, TasksOK
  <2>5. g \in Group /\ n \in Nat /\ \A f \in EntityEvent : ~ QueueHolds(g, n, f)
    BY <2>4 DEF QueueHolds
  <2>6. queue[g] = <<>> => pc'[g] # "ack"
    BY <1>5, <2>4 DEF TypeInv, Locals, GroupLocals
  <2>7. \A h \in Group, i \in Nat, f \in EntityEvent :
          QueueHolds(h, i, f)' <=> (QueueHolds(h, i, f) \/ (h = g /\ i = n /\ f = Entity(l)))
    <3> SUFFICES ASSUME NEW h \in Group, NEW i \in Nat, NEW f \in EntityEvent
                 PROVE  QueueHolds(h, i, f)' <=>
                          (QueueHolds(h, i, f) \/ (h = g /\ i = n /\ f = Entity(l)))
      OBVIOUS
    <3>1. CASE h # g
      BY <1>5, <2>1, <2>4, <3>1 DEF QueueHolds
    <3>2. CASE h = g
      <4>1. queue'[g] = Append(queue[g], Msg(l))
        BY <2>1, <2>4
      <4>2. Len(queue'[g]) = n /\ queue[g] \in Seq(Mergeable)
        BY <2>4, <4>1
      <4>3. \A j \in 1..Len(queue[g]) : queue'[g][j] = queue[g][j]
        BY <4>1, <4>2
      <4>4. EntityOf[queue'[g][n]] = Entity(l)
        BY <4>1, <4>2 DEF Entity
      <4>5. CASE i = n
        BY <1>5, <2>4, <2>6, <3>2, <4>2, <4>4, <4>5 DEF QueueHolds
      <4>6. CASE i # n
        BY <1>5, <2>4, <3>2, <4>2, <4>3, <4>6 DEF QueueHolds
      <4> QED  BY <4>5, <4>6
    <3> QED  BY <3>1, <3>2
  <2> HIDE DEF g, n
  <2>8. Entity(l) \in EntityEvent /\ LoopHolds(l, Entity(l)) /\ UNCHANGED enqueued
    BY <2>1, <2>4
  <2>9. GuardKept
    BY <2>3, <2>5, <2>7, <2>8, LoopPasses
  <2> QED  BY <1>4, <2>9
<1> QED  BY <1>9, <1>11, <1>12, <1>13, <1>10 DEF LoopStep

(***************************************************************************)
(* The steps that pass nothing on.                                         *)
(***************************************************************************)
LEMMA Unmoved ==
    ASSUME LoopsStop, UNCHANGED <<enqueued, queue>>, LoopsStop',
           \A g \in Group : (pc'[g] = "ack") <=> (pc[g] = "ack"),
           \A l \in Loop : (pc'[l] = "fetch") <=> (pc[l] = "fetch"),
           \A l \in Loop : pc[l] = "fetch" => batch'[l] = batch[l]
    PROVE  LoopsStop' /\ GuardKept
<1>1. LoopsKeep
  BY DEF LoopsKeep, LoopHolds, Entity, Msg
<1> QED  BY <1>1, GroupPlaces, HoldersKept

(* p goes from an await that holds nothing it guards to another one.       *)
LEMMA OnlyOneMoves ==
    ASSUME TypeInv, LoopsStop, NEW p \in Process, NEW next,
           pc' = [pc EXCEPT ![p] = next],
           p \in Loop => pc[p] # "fetch" /\ next # "fetch",
           p \in Group => pc[p] # "ack" /\ next # "ack",
           p \in Loop /\ layer # "up" => next \notin {"route", "dead letter", "fetch", "ack"},
           \A l \in Loop \ {p} : batch'[l] = batch[l],
           UNCHANGED <<layer, enqueued, queue>>
    PROVE  LoopsStop' /\ GuardKept
<1>1. pc \in [Process -> Place]
  BY DEF TypeInv, TypeOK, TasksOK
<1>2. pc'[p] = next /\ \A q \in Process \ {p} : pc'[q] = pc[q]
  BY <1>1
<1>3. LoopsStop'
  BY <1>2 DEF LoopsStop, Process
<1>4. \A g \in Group : (pc'[g] = "ack") <=> (pc[g] = "ack")
  BY <1>2 DEF Process
<1>5. \A l \in Loop : /\ (pc'[l] = "fetch") <=> (pc[l] = "fetch")
                      /\ pc[l] = "fetch" => batch'[l] = batch[l]
  BY <1>2 DEF Process
<1> QED  BY <1>3, <1>4, <1>5, Unmoved

LEMMA ReadGuard ==
    ASSUME TypeInv, LoopsStop, Read \/ ReadNothing \/ Claim
    PROVE  LoopsStop' /\ GuardKept
<1>1. batch \in [Loop -> Seq(Item)] /\ Consumer \in Loop /\ Reclaimer \in Loop
  BY DEF TypeInv, TypeOK, TasksOK, Loop
<1>2. ASSUME NEW l \in Loop, NEW next, pc' = [pc EXCEPT ![l] = next],
             next \in {"route", "scan"}, layer = "up", pc[l] = "idle",
             UNCHANGED <<layer, enqueued, queue>>,
             \A k \in Loop \ {l} : batch'[k] = batch[k]
      PROVE  LoopsStop' /\ GuardKept
  BY <1>2, OnlyOneMoves DEF Process, Loop
<1>3. CASE Read
  <2>1. PICK b : batch' = [batch EXCEPT ![Consumer] = b]
    BY <1>3 DEF Read
  <2>2. \A k \in Loop \ {Consumer} : batch'[k] = batch[k]
    BY <1>1, <2>1
  <2> QED  BY <1>1, <1>2, <1>3, <2>2 DEF Read, unrouted
<1>4. CASE ReadNothing
  BY <1>1, <1>2, <1>4 DEF ReadNothing, unrouted
<1>5. CASE Claim
  <2>1. PICK b : batch' = [batch EXCEPT ![Reclaimer] = b]
    BY <1>5 DEF Claim
  <2>2. \A k \in Loop \ {Reclaimer} : batch'[k] = batch[k]
    BY <1>1, <2>1
  <2> QED  BY <1>1, <1>2, <1>5, <2>2 DEF Claim, unrouted
<1> QED  BY <1>3, <1>4, <1>5

(***************************************************************************)
(* The groups.                                                             *)
(***************************************************************************)
LEMMA GroupKeepsLoops ==
    ASSUME NEW g \in Group, TypeInv, NEW next, pc' = [pc EXCEPT ![g] = next], batch' = batch
    PROVE  /\ pc'[g] = next
           /\ \A h \in Group \ {g} : pc'[h] = pc[h]
           /\ LoopsKeep
           /\ LoopsStop /\ layer' = layer => LoopsStop'
<1>1. pc \in [Process -> Place] /\ g \in Process /\ g \notin Loop
  BY DEF TypeInv, TypeOK, TasksOK, Process, Loop
<1>2. \A l \in Loop : pc'[l] = pc[l]
  BY <1>1 DEF Process
<1>3. LoopsKeep
  BY <1>2 DEF LoopsKeep, LoopHolds, Entity, Msg
<1>4. LoopsStop /\ layer' = layer => LoopsStop'
  BY <1>2 DEF LoopsStop
<1> QED  BY <1>1, <1>3, <1>4 DEF Process

(* The item a group works on is held until its outcome is final.           *)
LEMMA WorkIsHeld ==
    ASSUME TypeInv, NEW g \in Group, pc[g] # "idle"
    PROVE  /\ queue[g] \in Seq(Mergeable) /\ queue[g] # <<>>
           /\ Work(g) \in EntityEvent
           /\ \A e \in EntityEvent : QueueHolds(g, 1, e) <=> pc[g] # "ack" /\ e = Work(g)
<1>1. queue[g] \in Seq(Mergeable) /\ queue[g] # <<>>
  BY DEF TypeInv, TypeOK, TasksOK, Locals, GroupLocals
<1>2. Head(queue[g]) \in Mergeable /\ Head(queue[g]) = queue[g][1] /\ 1 \in 1..Len(queue[g])
  BY <1>1, HeadTailProperties
<1> QED  BY <1>1, <1>2 DEF Mergeable, Work, QueueHolds

LEMMA SettleGuard ==
    ASSUME TypeInv, LoopsStop, NEW g \in Group, Settle(g), pc[g] \notin {"idle", "ack"},
           UNCHANGED <<layer, batch>>
    PROVE  LoopsStop' /\ GuardKept
<1>1. /\ Work(g) \in EntityEvent /\ QueueHolds(g, 1, Work(g))
      /\ \A e \in EntityEvent : QueueHolds(g, 1, e) <=> e = Work(g)
  BY WorkIsHeld
<1>2. /\ pc'[g] = "ack" /\ \A h \in Group \ {g} : pc'[h] = pc[h]
      /\ LoopsKeep /\ LoopsStop'
  BY GroupKeepsLoops DEF Settle
<1>3. \A h \in Group, i \in Nat, f \in EntityEvent :
         QueueHolds(h, i, f)' <=> (QueueHolds(h, i, f) /\ ~ (h = g /\ i = 1))
  BY <1>2 DEF Settle, QueueHolds
<1>4. enqueued' = enqueued \ {Work(g)}
  BY DEF Settle
<1> QED  BY <1>1, <1>2, <1>3, <1>4, GroupSettles

LEMMA LeaveGuard ==
    ASSUME TypeInv, LoopsStop, NEW g \in Group, Leave(g), pc[g] # "idle",
           UNCHANGED <<layer, batch>>,
           \/ enqueued' = enqueued \ {Work(g)} /\ (pc[g] = "ack" => ~streamUp)
           \/ UNCHANGED enqueued /\ pc[g] = "ack"
    PROVE  LoopsStop' /\ GuardKept
<1>1. /\ queue[g] \in Seq(Mergeable) /\ queue[g] # <<>> /\ Work(g) \in EntityEvent
      /\ \A e \in EntityEvent : QueueHolds(g, 1, e) <=> pc[g] # "ack" /\ e = Work(g)
  BY WorkIsHeld
<1>2. /\ pc'[g] = "idle" /\ \A h \in Group \ {g} : pc'[h] = pc[h]
      /\ LoopsKeep /\ LoopsStop'
  BY GroupKeepsLoops DEF Leave
<1>3. /\ queue'[g] = Tail(queue[g])
      /\ \A h \in Group \ {g} : queue'[h] = queue[h]
  BY DEF Leave, TypeInv, TypeOK, TasksOK
<1>4. /\ Len(queue'[g]) = Len(queue[g]) - 1 /\ Len(queue[g]) \in Nat
      /\ \A i \in 1..Len(queue'[g]) : queue'[g][i] = queue[g][i + 1]
  BY <1>1, <1>3, HeadTailProperties
<1>5. \A i \in Nat, f \in EntityEvent :
         QueueHolds(g, i, f)' <=> i # 0 /\ QueueHolds(g, i + 1, f)
  <2> SUFFICES ASSUME NEW i \in Nat, NEW f \in EntityEvent
               PROVE  QueueHolds(g, i, f)' <=> i # 0 /\ QueueHolds(g, i + 1, f)
    OBVIOUS
  <2>1. i \in 1..Len(queue'[g]) <=> i # 0 /\ i + 1 \in 1..Len(queue[g])
    BY <1>4
  <2>2. i # 0 => i + 1 # 1
    OBVIOUS
  <2> QED  BY <1>2, <1>4, <2>1, <2>2 DEF QueueHolds
<1>6. \A h \in Group \ {g}, i \in Nat, f \in EntityEvent :
         QueueHolds(h, i, f)' <=> QueueHolds(h, i, f)
  BY <1>2, <1>3 DEF QueueHolds
<1>7. \A f \in EntityEvent : ~ QueueHolds(g, 0, f)
  BY DEF QueueHolds
<1>8. pc[g] = "ack" /\ ~streamUp => AckCut(Work(g))
  BY <1>2, LoopIsNoGroup DEF AckCut, Acked, Work, Process
<1>9. /\ \A f \in EntityEvent :
            QueueHolds(g, 1, f) => f = Work(g) /\ enqueued' = enqueued \ {Work(g)}
      /\ \/ UNCHANGED enqueued
         \/ /\ enqueued' = enqueued \ {Work(g)}
            /\ QueueHolds(g, 1, Work(g)) \/ AckCut(Work(g))
  BY <1>1, <1>8
<1>10. GuardKept
  BY <1>1, <1>2, <1>5, <1>6, <1>7, <1>9, QueueShifts
<1> QED  BY <1>2, <1>10

LEMMA GroupGuard ==
    ASSUME TypeInv, LoopsStop, NEW g \in Group, GroupStep(g) \/ CheckFails(g) \/ UpsertFails(g)
    PROVE  LoopsStop' /\ GuardKept
<1>1. g \in Process /\ g \notin Loop
  BY DEF Process, Loop
<1>2. CASE GetActiveEvent(g) \/ Merge(g)
  <2>1. PICK next \in {"check", "persist", "upsert"} : pc' = [pc EXCEPT ![g] = next]
    BY <1>2 DEF GetActiveEvent, Merge
  <2>2. UNCHANGED <<layer, batch, enqueued, queue>> /\ pc[g] # "ack"
    BY <1>2 DEF GetActiveEvent, Merge, unmerged
  <2> QED  BY <1>1, <2>1, <2>2, OnlyOneMoves
<1>3. CASE SkipMerged(g) \/ SkipLate(g) \/ UpsertActiveEvent(g)
  BY <1>3, SettleGuard DEF SkipMerged, SkipLate, UpsertActiveEvent, unmerged
<1>4. CASE AckMerged(g) \/ AckMergedFails(g)
  BY <1>4, LeaveGuard DEF AckMerged, AckMergedFails, FailMerge, unmerged
<1>5. CASE CheckFails(g) \/ UpsertFails(g)
  BY <1>5, LeaveGuard DEF CheckFails, UpsertFails, FailMerge, unmerged
<1> QED  BY <1>2, <1>3, <1>4, <1>5 DEF GroupStep

(***************************************************************************)
(* The flush and _persist_and_publish.                                     *)
(***************************************************************************)
LEMMA PersistGuard ==
    ASSUME TypeInv, LoopsStop, NEW p \in Persister, PersistStep(p) \/ PersistFails(p)
    PROVE  LoopsStop' /\ GuardKept
<1>1. p \in Process /\ (p \in Loop => p = Consumer)
  BY DEF Persister, Process, Loop
<1>2. /\ UNCHANGED <<layer, batch>>
      /\ pc[p] \in {"persist", "select", "announce", "mark"}
  BY DEF PersistStep, PersistEvents, SelectUnpublished, Publish, MarkPublished, PersistFails,
     unpersisted
<1>3. CASE PersistStep(p) \/ p = Consumer
  <2>1. UNCHANGED <<enqueued, queue>>
    BY <1>3 DEF PersistStep, PersistEvents, SelectUnpublished, Publish, MarkPublished,
       PersistFails, groupVars
  <2>2. PICK next \in {"select", "announce", "idle", "upsert", "mark"} :
           pc' = [pc EXCEPT ![p] = next]
    BY <1>3 DEF PersistStep, PersistEvents, SelectUnpublished, Publish, MarkPublished,
       PersistFails, Continue
  <2> QED  BY <1>1, <1>2, <2>1, <2>2, OnlyOneMoves
<1>4. CASE PersistFails(p) /\ p # Consumer
  <2>1. p \in Group /\ FailMerge(p)
    BY <1>4 DEF Persister, PersistFails
  <2> QED  BY <1>2, <2>1, LeaveGuard DEF FailMerge
<1> QED  BY <1>3, <1>4

LEMMA ScanGuard ==
    ASSUME TypeInv, LoopsStop, ScanAll \/ ScanFails
    PROVE  LoopsStop' /\ GuardKept
<1>1. UNCHANGED <<layer, batch, enqueued, queue>> /\ pc[Consumer] = "scan"
  BY DEF ScanAll, ScanFails, unpersisted, groupVars
<1>2. PICK next \in {"idle", "persist"} : pc' = [pc EXCEPT ![Consumer] = next]
  BY DEF ScanAll, ScanFails
<1> QED  BY <1>1, <1>2, OnlyOneMoves DEF Process, Loop

(***************************************************************************)
(* The life of the layer and of the process.                               *)
(***************************************************************************)
LEMMA StopGuard ==
    ASSUME TypeInv, LoopsStop, CrashLayer \/ Shutdown
    PROVE  LoopsStop' /\ GuardKept
<1>1. StopLoops /\ UNCHANGED queue
  BY DEF CrashLayer, Shutdown, StopLoops, groupVars
<1>2. pc \in [Process -> Place]
  BY DEF TypeInv, TypeOK, TasksOK
<1>3. /\ pc'[Consumer] = "scan" /\ pc'[Reclaimer] = "idle"
      /\ \A g \in Group : pc'[g] = pc[g]
  BY <1>1, <1>2 DEF StopLoops, Process, Loop
<1>4. \A l \in Loop : pc'[l] \notin {"route", "dead letter", "fetch", "ack"}
  BY <1>3 DEF Loop
<1>5. LoopsStop'
  BY <1>4 DEF LoopsStop
<1>6. \A l \in Loop, e \in EntityEvent : ~ LoopHolds(l, e)'
  BY <1>4 DEF LoopHolds
<1>7. QueuesKeep
  BY <1>1, <1>3, GroupPlaces
<1>8. \A e \in EntityEvent :
         e \in enqueued' <=>
            e \in enqueued /\ ~ \E l \in Loop : pc[l] \in {"fetch", "ack"} /\ e \in Released(l)
  BY <1>1 DEF StopLoops
<1>9. ASSUME NEW e \in EntityEvent, NEW l \in Loop, pc[l] = "fetch"
      PROVE  e \in Released(l) <=> LoopHolds(l, e)
  BY <1>9 DEF Released, LoopHolds
<1>10. ASSUME NEW e \in EntityEvent, NEW l \in Loop, pc[l] = "ack", e \in Released(l)
       PROVE  AckCut(e)
  <2>1. layer' # layer
    BY DEF CrashLayer, Shutdown
  <2> QED  BY <1>4, <1>10, <2>1, LoopIsNoGroup DEF Released, AckCut, Acked, Entity, Process
<1>11. EntriesHeld => EntriesHeld'
  <2> SUFFICES ASSUME EntriesHeld, NEW e \in EntityEvent, e \in enqueued'
               PROVE  Held(e)'
    BY DEF EntriesHeld
  <2>1. Held(e) /\ \A l \in Loop : ~ LoopHolds(l, e)
    BY <1>8, <1>9 DEF EntriesHeld, LoopHolds
  <2> QED  BY <1>7, <2>1 DEF Held, QueuesKeep
<1>12. ASSUME NEW e \in EntityEvent, GuardExact(e), HeldOnce(e)
       PROVE  (GuardExact(e) /\ HeldOnce(e))' \/ AckCut(e)
  <2>1. HeldOnce(e)'
    BY <1>6, <1>7, <1>12 DEF HeldOnce, QueuesKeep
  <2>2. CASE \E l \in Loop : LoopHolds(l, e)
    <3>1. e \notin enqueued'
      BY <1>8, <1>9, <2>2 DEF LoopHolds
    <3>2. \A g \in Group, i \in Nat : ~ QueueHolds(g, i, e)'
      BY <1>7, <1>12, <2>2 DEF HeldOnce, QueuesKeep
    <3> QED  BY <1>6, <2>1, <3>1, <3>2 DEF GuardExact
  <2>3. CASE ~ \E l \in Loop : LoopHolds(l, e)
    <3>1. (e \in enqueued' <=> e \in enqueued) \/ AckCut(e)
      BY <1>8, <1>9, <1>10, <2>3
    <3> QED  BY <1>6, <1>7, <1>12, <2>1, <2>3, <3>1 DEF GuardExact, Held, QueuesKeep
  <2> QED  BY <2>2, <2>3
<1> QED  BY <1>5, <1>11, <1>12 DEF GuardKept

LEMMA FinalFlushGuard ==
    ASSUME TypeInv, LoopsStop, FinalFlushTimesOut
    PROVE  LoopsStop' /\ GuardKept
<1>1. /\ UNCHANGED <<layer, batch, enqueued, queue>> /\ layer # "up"
      /\ pc' = [pc EXCEPT ![Consumer] = "idle"]
  BY DEF FinalFlushTimesOut, groupVars
<1>2. Consumer \in Loop /\ Consumer \in Process /\ Consumer \notin Group
  BY DEF Loop, Process
<1>3. pc[Consumer] # "fetch"
  BY <1>1, <1>2 DEF LoopsStop
<1> QED  BY <1>1, <1>2, <1>3, OnlyOneMoves

LEMMA EndGuard ==
    ASSUME Exit \/ Crash
    PROVE  LoopsStop' /\ GuardKept
<1>1. /\ enqueued' = {} /\ \A p \in Process : pc'[p] = "idle"
      /\ \A g \in Group : queue'[g] = <<>>
  BY DEF Exit, Crash, EndProcess
<1>2. \A l \in Loop, e \in EntityEvent : ~ LoopHolds(l, e)'
  BY <1>1 DEF LoopHolds, Process
<1>3. \A g \in Group, i \in Nat, e \in EntityEvent : ~ QueueHolds(g, i, e)'
  BY <1>1 DEF QueueHolds
<1>4. LoopsStop'
  BY <1>1 DEF LoopsStop, Process
<1> QED  BY <1>1, <1>2, <1>3, <1>4 DEF GuardKept, EntriesHeld, GuardExact, HeldOnce, Held

LEMMA EnvironmentGuard ==
    ASSUME LoopsStop, StartLayer \/ StreamDown \/ StreamUp \/ Tick \/ UNCHANGED vars
    PROVE  LoopsStop' /\ GuardKept
<1>1. UNCHANGED <<pc, batch, enqueued, queue>> /\ layer' \in {layer, "up"}
  BY DEF StartLayer, StreamDown, StreamUp, Tick, vars, groupVars
<1>2. LoopsStop'
  BY <1>1 DEF LoopsStop
<1> QED  BY <1>1, <1>2, Unmoved

LEMMA GuardStep == TypeInv /\ LoopsStop /\ [Next]_vars => LoopsStop' /\ GuardKept
<1> SUFFICES ASSUME TypeInv, LoopsStop, [Next]_vars PROVE LoopsStop' /\ GuardKept
  OBVIOUS
<1>1. CASE Read \/ ReadNothing \/ Claim
  BY <1>1, ReadGuard
<1>2. CASE \E l \in Loop : LoopStep(l) \/ FetchFails(l)
  BY <1>2, LoopGuard
<1>3. CASE \E g \in Group : GroupStep(g) \/ CheckFails(g) \/ UpsertFails(g)
  BY <1>3, GroupGuard
<1>4. CASE ScanAll \/ ScanFails
  BY <1>4, ScanGuard
<1>5. CASE \E p \in Persister : PersistStep(p) \/ PersistFails(p)
  BY <1>5, PersistGuard
<1>6. CASE CrashLayer \/ Shutdown
  BY <1>6, StopGuard
<1>7. CASE FinalFlushTimesOut
  BY <1>7, FinalFlushGuard
<1>8. CASE Exit \/ Crash
  BY <1>8, EndGuard
<1>9. CASE StartLayer \/ StreamDown \/ StreamUp \/ Tick \/ UNCHANGED vars
  BY <1>9, EnvironmentGuard
<1> QED  BY <1>1, <1>2, <1>3, <1>4, <1>5, <1>6, <1>7, <1>8, <1>9 DEF Next

LEMMA LoopsStopInit == Init => LoopsStop
BY DEF Init, LoopsStop

(* No entry of _enqueued is left behind, whatever fails, stops, is         *)
(* cancelled or redelivered (_route_one, on_success, on_failure).          *)
THEOREM NoEntryLeaks == Spec => []GuardIsHeld
<1>1. Init => TypeInv /\ LoopsStop /\ EntriesHeld
  BY TypeInit, LoopsStopInit DEF Init, EntriesHeld
<1>2. TypeInv /\ LoopsStop /\ EntriesHeld /\ [Next]_vars
        => (TypeInv /\ LoopsStop /\ EntriesHeld)'
  BY TypeInductive, GuardStep DEF GuardKept
<1>3. TypeInv /\ EntriesHeld => GuardIsHeld
  BY EntriesAreHeld DEF TypeInv, TypeOK, TasksOK
<1> QED  BY <1>1, <1>2, <1>3, PTL DEF Spec

(* No step leaves an entry behind, and an EntityEvent held once and        *)
(* guarded stays so, but for an ack of it that fails after the guard was   *)
(* released (_on_success, on_failure).                                     *)
THEOREM HeldIsGuarded == Spec => OnlyAckUnguards
<1>1. Init => TypeInv /\ LoopsStop
  BY TypeInit, LoopsStopInit
<1>2. TypeInv /\ LoopsStop /\ [Next]_vars => (TypeInv /\ LoopsStop)'
  BY TypeInductive, GuardStep
<1>3. TypeInv /\ LoopsStop /\ [Next]_vars
        => [\A e \in EntityEvent : Guarded(e) => Guarded(e)' \/ AckCut(e)]_vars
  <2> SUFFICES ASSUME TypeInv, LoopsStop, [Next]_vars, NEW e \in EntityEvent, Guarded(e)
               PROVE  Guarded(e)' \/ AckCut(e)
    OBVIOUS
  <2>1. GuardExact(e) /\ HeldOnce(e)
    BY GuardCounts
  <2>2. (GuardExact(e) /\ HeldOnce(e))' \/ AckCut(e)
    BY <2>1, GuardStep DEF GuardKept
  <2>3. (GuardExact(e) /\ HeldOnce(e))' => Guarded(e)'
    BY GuardCounts, PTL
  <2> QED  BY <2>2, <2>3
<1>4. GuardIsHeld' /\ [\A e \in EntityEvent : Guarded(e) => Guarded(e)' \/ AckCut(e)]_vars
        => [/\ GuardIsHeld'
            /\ \A e \in EntityEvent : Guarded(e) => Guarded(e)' \/ AckCut(e)]_vars
  OBVIOUS
<1> QED  BY <1>1, <1>2, <1>3, <1>4, NoEntryLeaks, PTL DEF Spec, OnlyAckUnguards

(***************************************************************************)
(* The groups' queues are what GroupQueues promises.                       *)
(***************************************************************************)
waitingWork == [g \in Group |-> IF pc[g] = "idle" THEN queue[g] ELSE Tail(queue[g])]
runningWork == [g \in Group |-> IF pc[g] = "idle" THEN {} ELSE {Head(queue[g])}]

LEMMA QueuesStutter ==
    ASSUME UNCHANGED queue, \A g \in Group : (pc'[g] = "idle") <=> (pc[g] = "idle")
    PROVE  UNCHANGED Queues!groupQueues
<1>1. waitingWork' = waitingWork /\ runningWork' = runningWork
  BY DEF waitingWork, runningWork
<1> QED  BY <1>1 DEF Queues!groupQueues, waitingWork, runningWork

LEMMA LoopQueues ==
    ASSUME TypeInv, NEW l \in Loop, LoopStep(l) \/ FetchFails(l)
    PROVE  [Queues!Next]_(Queues!groupQueues)
<1>1. PICK next : pc' = [pc EXCEPT ![l] = next]
  BY DEF LoopStep, RouteToDeadLetter, SkipInFlight, RouteOne, EnqueueMerge, FindNoRow,
     PushDeadLetter, AckRouted, AckRoutedFails, FetchFails, NextMessage
<1>2. \A g \in Group : pc'[g] = pc[g]
  BY <1>1 DEF TypeInv, TypeOK, TasksOK, Process, Loop
<1>3. CASE UNCHANGED queue
  BY <1>2, <1>3, QueuesStutter
<1>4. CASE EnqueueMerge(l)
  <2> DEFINE h == GroupOf[Entity(l)]
             w == Msg(l)
  <2>1. /\ h \in Group /\ queue \in [Group -> Seq(Mergeable)]
        /\ queue' = [queue EXCEPT ![h] = Append(queue[h], w)]
        /\ Entity(l) \in EntityEvent
    BY <1>4 DEF EnqueueMerge, TypeInv, TypeOK, TasksOK
  <2>2. w \in Mergeable
    <3>1. batch[l] \in Seq(Item) /\ batch[l] # <<>> /\ EntityOf[w] \in Known
      BY <1>4 DEF EnqueueMerge, TypeInv, TypeOK, TasksOK, Locals, LoopLocals, Entity
    <3>2. Head(batch[l]) \in Item
      BY <3>1, HeadTailProperties
    <3> QED  BY <3>1, <3>2 DEF Mergeable, Msg, Item
  <2>3. pc[h] # "idle" => queue[h] # <<>>
    BY <2>1 DEF TypeInv, Locals, GroupLocals
  <2> HIDE DEF h, w
  <2>4. queue[h] \in Seq(Mergeable) /\ queue'[h] = Append(queue[h], w)
    BY <2>1
  <2>5. queue[h] # <<>> => /\ Tail(queue'[h]) = Append(Tail(queue[h]), w)
                           /\ Head(queue'[h]) = Head(queue[h])
    BY <2>2, <2>4
  <2>6. \A g \in Group \ {h} : queue'[g] = queue[g]
    BY <2>1
  <2>7. waitingWork' = [waitingWork EXCEPT ![h] = Append(waitingWork[h], w)]
    <3>1. waitingWork'[h] = Append(waitingWork[h], w)
      BY <1>2, <2>1, <2>3, <2>4, <2>5 DEF waitingWork
    <3>2. \A g \in Group \ {h} : waitingWork'[g] = waitingWork[g]
      BY <1>2, <2>6 DEF waitingWork
    <3> QED  BY <3>1, <3>2 DEF waitingWork
  <2>8. runningWork' = runningWork
    <3>1. \A g \in Group : (IF pc'[g] = "idle" THEN {} ELSE {Head(queue'[g])}) =
                           (IF pc[g] = "idle" THEN {} ELSE {Head(queue[g])})
      BY <1>2, <2>3, <2>5, <2>6
    <3> QED  BY <3>1 DEF runningWork
  <2>9. h = GroupOf[EntityOf[w]] /\ [m \in Mergeable |-> GroupOf[EntityOf[m]]][w] = h
    BY <2>2 DEF h, w, Entity
  <2>10. PICK m \in Mergeable : m = w
    BY <2>2
  <2>11. waitingWork' = [waitingWork EXCEPT
             ![[n \in Mergeable |-> GroupOf[EntityOf[n]]][m]] = Append(@, m)]
    BY <2>7, <2>9, <2>10
  <2>12. Queues!Enqueue(m)
    <3> HIDE DEF Mergeable
    <3> QED  BY ONLY <2>8, <2>11, Zenon DEF Queues!Enqueue, waitingWork, runningWork
  <2> QED  BY <2>12, Zenon DEF Queues!Next
<1> QED  BY <1>3, <1>4 DEF LoopStep, RouteToDeadLetter, SkipInFlight, RouteOne, FindNoRow,
            PushDeadLetter, AckRouted, AckRoutedFails, FetchFails

(* A group's step at its own place.                                        *)
LEMMA RunQueues ==
    ASSUME TypeInv, NEW g \in Group, pc[g] = "idle", queue[g] # <<>>, UNCHANGED queue,
           pc' = [pc EXCEPT ![g] = "check"]
    PROVE  Queues!Next
<1>1. pc'[g] = "check" /\ \A h \in Group \ {g} : pc'[h] = pc[h]
  BY DEF TypeInv, TypeOK, TasksOK, Process
<1>2. waitingWork[g] = queue[g]
  BY DEF waitingWork
<1>3. waitingWork' = [waitingWork EXCEPT ![g] = Tail(waitingWork[g])]
  BY <1>1 DEF waitingWork
<1>4. runningWork' = [runningWork EXCEPT ![g] = {Head(waitingWork[g])}]
  BY <1>1 DEF runningWork, waitingWork
<1>5. Queues!RunNext(g)
  BY <1>2, <1>3, <1>4 DEF Queues!RunNext, waitingWork, runningWork
<1> QED  BY <1>5 DEF Queues!Next

LEMMA FinishQueues ==
    ASSUME TypeInv, NEW g \in Group, pc[g] # "idle", Leave(g)
    PROVE  Queues!Next
<1>1. pc'[g] = "idle" /\ \A h \in Group \ {g} : pc'[h] = pc[h]
  BY DEF Leave, TypeInv, TypeOK, TasksOK, Process
<1>2. queue'[g] = Tail(queue[g]) /\ \A h \in Group \ {g} : queue'[h] = queue[h]
  BY DEF Leave, TypeInv, TypeOK, TasksOK
<1>3. waitingWork' = waitingWork
  <2>1. \A h \in Group : (IF pc'[h] = "idle" THEN queue'[h] ELSE Tail(queue'[h])) =
                         (IF pc[h] = "idle" THEN queue[h] ELSE Tail(queue[h]))
    BY <1>1, <1>2
  <2> QED  BY <2>1 DEF waitingWork
<1>4. runningWork' = [runningWork EXCEPT ![g] = {}]
  BY <1>1, <1>2 DEF runningWork
<1>5. Queues!Finish(g)
  BY <1>3, <1>4 DEF Queues!Finish, waitingWork, runningWork
<1> QED  BY <1>5 DEF Queues!Next

LEMMA GroupWorkQueues ==
    ASSUME TypeInv, NEW g \in Group, GroupStep(g) \/ CheckFails(g) \/ UpsertFails(g)
    PROVE  [Queues!Next]_(Queues!groupQueues)
<1>1. pc \in [Process -> Place] /\ g \in Process
  BY DEF TypeInv, TypeOK, TasksOK, Process
<1>2. CASE GetActiveEvent(g)
  BY <1>2, RunQueues DEF GetActiveEvent
<1>3. CASE SkipMerged(g) \/ SkipLate(g) \/ UpsertActiveEvent(g) \/ Merge(g)
  <2>1. PICK next \in {"ack", "persist", "upsert"} : pc' = [pc EXCEPT ![g] = next]
    BY <1>3 DEF SkipMerged, SkipLate, UpsertActiveEvent, Merge, Settle
  <2>2. UNCHANGED queue /\ pc[g] # "idle"
    BY <1>3 DEF SkipMerged, SkipLate, UpsertActiveEvent, Merge, Settle
  <2>3. \A h \in Group : (pc'[h] = "idle") <=> (pc[h] = "idle")
    BY <1>1, <2>1, <2>2 DEF Process
  <2> QED  BY <2>2, <2>3, QueuesStutter
<1>4. CASE AckMerged(g) \/ AckMergedFails(g) \/ CheckFails(g) \/ UpsertFails(g)
  BY <1>4, FinishQueues DEF AckMerged, AckMergedFails, CheckFails, UpsertFails, FailMerge
<1> QED  BY <1>2, <1>3, <1>4 DEF GroupStep

LEMMA PersistQueues ==
    ASSUME TypeInv, NEW p \in Persister, PersistStep(p) \/ PersistFails(p)
    PROVE  [Queues!Next]_(Queues!groupQueues)
<1>1. pc \in [Process -> Place] /\ p \in Process /\ Consumer \notin Group
  BY DEF TypeInv, TypeOK, TasksOK, Process, Persister, Loop
<1>2. CASE PersistStep(p) \/ p = Consumer
  <2>1. UNCHANGED queue /\ pc[p] # "idle"
    BY <1>2 DEF PersistStep, PersistEvents, SelectUnpublished, Publish, MarkPublished,
       PersistFails, groupVars
  <2>2. PICK next : pc' = [pc EXCEPT ![p] = next] /\ (p # Consumer => next # "idle")
    BY <1>2 DEF PersistStep, PersistEvents, SelectUnpublished, Publish, MarkPublished,
       PersistFails, Continue
  <2>3. \A h \in Group : (pc'[h] = "idle") <=> (pc[h] = "idle")
    BY <1>1, <2>1, <2>2 DEF Process
  <2> QED  BY <2>1, <2>3, QueuesStutter
<1>3. CASE PersistFails(p) /\ p # Consumer
  <2>1. p \in Group /\ Leave(p) /\ pc[p] # "idle"
    BY <1>3 DEF Persister, PersistFails, FailMerge
  <2> QED  BY <2>1, FinishQueues
<1> QED  BY <1>2, <1>3

(* Steps of the consumer loop and of the environment.                      *)
LEMMA OtherQueues ==
    ASSUME TypeInv,
           \/ Read \/ ReadNothing \/ Claim \/ ScanAll \/ ScanFails \/ CrashLayer \/ Shutdown
           \/ FinalFlushTimesOut \/ StartLayer \/ StreamDown \/ StreamUp \/ Tick
           \/ UNCHANGED vars
    PROVE  UNCHANGED Queues!groupQueues
<1>1. UNCHANGED queue
  BY DEF Read, ReadNothing, Claim, ScanAll, ScanFails, CrashLayer, Shutdown, StopLoops,
     FinalFlushTimesOut, StartLayer, StreamDown, StreamUp, Tick, vars, groupVars
<1>2. \A g \in Group : pc'[g] = pc[g]
  BY DEF Read, ReadNothing, Claim, ScanAll, ScanFails, CrashLayer, Shutdown, StopLoops,
     FinalFlushTimesOut, StartLayer, StreamDown, StreamUp, Tick, vars,
     TypeInv, TypeOK, TasksOK, Process, Loop
<1> QED  BY <1>1, <1>2, QueuesStutter

LEMMA EndQueues ==
    ASSUME Exit \/ Crash
    PROVE  Queues!Next
<1>1. /\ \A g \in Group : pc'[g] = "idle"
      /\ queue' = [g \in Group |-> <<>>]
  BY DEF Exit, Crash, EndProcess, Process
<1>2. /\ waitingWork' = [g \in Group |-> <<>>]
      /\ runningWork' = [g \in Group |-> {}]
  BY <1>1 DEF waitingWork, runningWork
<1>3. Queues!Close
  BY <1>2 DEF Queues!Close, Queues!Init, waitingWork, runningWork
<1> QED  BY <1>3 DEF Queues!Next

(* The groups are served as GroupPool serves them: one item at a time, in  *)
(* the order they were enqueued, and none is lost but when the process     *)
(* ends (process_entity_event, GroupCoroutine).                            *)
THEOREM GroupsAreQueues == Spec => ImplementsGroupQueues
<1>1. Init => Queues!Init
  BY DEF Init, Queues!Init, Process
<1>2. TypeInv /\ [Next]_vars => [Queues!Next]_(Queues!groupQueues)
  <2> SUFFICES ASSUME TypeInv, [Next]_vars PROVE [Queues!Next]_(Queues!groupQueues)
    OBVIOUS
  <2>1. CASE \E l \in Loop : LoopStep(l) \/ FetchFails(l)
    BY <2>1, LoopQueues
  <2>2. CASE \E g \in Group : GroupStep(g) \/ CheckFails(g) \/ UpsertFails(g)
    BY <2>2, GroupWorkQueues
  <2>3. CASE \E p \in Persister : PersistStep(p) \/ PersistFails(p)
    BY <2>3, PersistQueues
  <2>4. CASE Exit \/ Crash
    BY <2>4, EndQueues
  <2>5. CASE \/ Read \/ ReadNothing \/ Claim \/ ScanAll \/ ScanFails \/ CrashLayer \/ Shutdown
             \/ FinalFlushTimesOut \/ StartLayer \/ StreamDown \/ StreamUp \/ Tick
             \/ UNCHANGED vars
    BY <2>5, OtherQueues
  <2> QED  BY <2>1, <2>2, <2>3, <2>4, <2>5 DEF Next
<1> QED  BY <1>1, <1>2, TypeInit, TypeInductive, PTL DEF Spec, ImplementsGroupQueues, Queues!Spec
=============================================================================
