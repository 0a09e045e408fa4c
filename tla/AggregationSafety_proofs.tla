---------------------- MODULE AggregationSafety_proofs ----------------------
(***************************************************************************)
(* The promises of the Aggregation layer, for every window, timespan, set  *)
(* of messages, groups and EntityEvents, every order of arrival and        *)
(* whatever fails.                                                         *)
(*                                                                         *)
(* Acknowledged is merged: an EntityEvent enters an Event in a task's      *)
(* local variable, and AckInv follows it from there into the state Redis,  *)
(* the snapshots of the flush and the memberships, which is where a        *)
(* redelivery finds it.                                                    *)
(*                                                                         *)
(* Skipped is published: OutboxInv follows an Event a persister was given  *)
(* through its outbox to published_at, before the flush notes it as done   *)
(* or a merge puts another Event in its place.                             *)
(*                                                                         *)
(* Events are capped, continuous and newer than the one they replaced.     *)
(* Lemmas say what the two branches of merge_or_create make of an Event;   *)
(* only Merge makes one, and every other action copies or forgets what is  *)
(* there (WindowInv).                                                      *)
(*                                                                         *)
(* The tables are an EventLedger: all copies of one Event are versions on  *)
(* one line (LineInv), so each commit moves its row forward, and no mark   *)
(* overtakes its announcement (AnnounceInv).                               *)
(*                                                                         *)
(* The scores of the rows stay in range and only grow, because the rows do *)
(* (Rows, Members) and the sums over them are bounded (SumsTogether).      *)
(***************************************************************************)
EXTENDS Aggregation_proofs, EventScore, WellFoundedInduction

USE ConfigAssumption, MessageAssumption, GroupingAssumption, LimitAssumption,
    NoEventAssumption
    DEF ConfigAssumption, MessageAssumption, GroupingAssumption, LimitAssumption,
        NoEventAssumption

Of(event, entityEvents) == event # NoEvent => event.ees \subseteq entityEvents

(* Every copy of an Event is of EntityEvents that were merged, except the  *)
(* one a group is about to store, and so is every membership.              *)
CopiesMerged ==
    /\ \A g \in Group : Of(active[g], merged) /\ Of(base[g], merged)
    /\ \A event \in snapshot : Of(event, merged)

OwnersMerged == \A e \in EntityEvent : owner[e] # NoEvent => e \in merged

UpdatesMerged ==
    \A g \in Group : pc[g] \in Persisting \union {"upsert"} =>
        Of(updated[g], merged \union {Work(g)})

(* Whoever is about to acknowledge a message may.                          *)
GroupAcks == \A g \in Group : pc[g] = "ack" => Work(g) \in merged \union late
LoopAcks ==
    \A l \in Loop : pc[l] = "ack" => Msg(l) \in dead \/ Entity(l) \notin Known

Merging == CopiesMerged /\ OwnersMerged /\ UpdatesMerged /\ GroupAcks
AckInv == TypeInv /\ Merging /\ LoopAcks /\ AckedWasMerged

LEMMA AckInit == Init => AckInv
<1> SUFFICES ASSUME Init PROVE AckInv
  OBVIOUS
<1>1. TypeInv
  BY TypeInit
<1>2. Merging /\ LoopAcks
  BY DEF Init, Merging, CopiesMerged, OwnersMerged, UpdatesMerged, GroupAcks, LoopAcks, Of,
         Persisting, Process, Loop
<1>3. AckedWasMerged
  BY DEF Init, AckedWasMerged, Settled
<1> QED  BY <1>1, <1>2, <1>3 DEF AckInv

(* A step that settles no message but those it may.                        *)
LEMMA SettledKept ==
    ASSUME AckedWasMerged, dead \subseteq dead', merged \subseteq merged', late \subseteq late',
           NEW may \in SUBSET Message,
           \A m \in Message \ may : Settled(m)' => Settled(m),
           \A m \in may : m \in dead' \/ EntityOf[m] \notin Known
                          \/ EntityOf[m] \in merged' \union late'
    PROVE  AckedWasMerged'
BY DEF AckedWasMerged

(* A step that leaves the groups' tasks, the copies of Events and the      *)
(* memberships alone.                                                      *)
LEMMA MergingKept ==
    ASSUME TypeInv, Merging,
           \A g \in Group : pc'[g] = pc[g],
           \A g \in Group : queue[g] # <<>> => queue'[g] # <<>> /\ Head(queue'[g]) = Head(queue[g]),
           UNCHANGED <<base, updated, snapshot, active, owner, merged, late>>
    PROVE  Merging'
<1>1. CopiesMerged' /\ OwnersMerged'
  BY DEF Merging, CopiesMerged, OwnersMerged, Of
<1>2. \A g \in Group : pc[g] # "idle" => Work(g)' = Work(g)
  BY DEF Work, TypeInv, Locals, GroupLocals
<1>3. UpdatesMerged' /\ GroupAcks'
  BY <1>2 DEF Merging, UpdatesMerged, GroupAcks, Of, Persisting
<1> QED  BY <1>1, <1>3 DEF Merging

(***************************************************************************)
(* The loops.                                                              *)
(***************************************************************************)
LEMMA IntakeAcks == AckInv /\ (Read \/ ReadNothing \/ Claim) => AckInv'
<1> SUFFICES ASSUME AckInv, Read \/ ReadNothing \/ Claim PROVE AckInv'
  OBVIOUS
<1>1. TypeInv /\ TypeInv'
  BY ReadType, ReadNothingType, ClaimType DEF AckInv
<1>2. /\ pc \in [Process -> Place] /\ Consumer \in Process /\ Reclaimer \in Process
      /\ batch \in [Loop -> Seq(Item)]
      /\ \A g \in Group : g \in Process /\ g # Consumer /\ g # Reclaimer
      /\ deliveries \in [Message -> 0..AGG_MAX_RETRY]
  BY <1>1 DEF TypeInv, TypeOK, TasksOK, StreamOK, Process, Loop
<1>3. Merging'
  <2>1. UNCHANGED <<base, updated, snapshot, active, owner, merged, late>> /\ queue' = queue
    BY DEF Read, ReadNothing, Claim, unrouted, persistVars, stateVars, tableVars, historyVars
  <2>2. \A g \in Group : pc'[g] = pc[g]
    BY <1>2 DEF Read, ReadNothing, Claim
  <2> QED  BY <1>1, <2>1, <2>2, MergingKept DEF AckInv
<1>4. LoopAcks'
  <2>1. PICK l \in Loop :
          /\ pc'[l] # "ack"
          /\ \A k \in Loop \ {l} : pc'[k] = pc[k] /\ batch'[k] = batch[k]
    <3>1. CASE Read \/ ReadNothing
      BY <1>2, <3>1 DEF Read, ReadNothing, Loop
    <3>2. CASE Claim
      BY <1>2, <3>2 DEF Claim, Loop
    <3> QED  BY <3>1, <3>2
  <2>2. dead' = dead
    BY DEF Read, ReadNothing, Claim, streamVars
  <2> QED  BY <2>1, <2>2 DEF AckInv, LoopAcks, Msg, Entity
<1>5. \A m \in Message : Settled(m)' => Settled(m)
  <2>1. CASE Read
    BY <1>2, <2>1 DEF Read, Settled, Pending
  <2>2. CASE ReadNothing
    BY <2>2 DEF ReadNothing, streamVars, Settled, Pending
  <2>3. CASE Claim
    BY <1>2, <2>3 DEF Claim, Settled, Pending
  <2> QED  BY <2>1, <2>2, <2>3
<1>6. dead' = dead /\ merged' = merged /\ late' = late
  BY DEF Read, ReadNothing, Claim, streamVars, unrouted, historyVars
<1>7. AckedWasMerged'
  BY <1>5, <1>6 DEF AckInv, AckedWasMerged
<1> QED  BY <1>1, <1>3, <1>4, <1>7 DEF AckInv

(* What joins a queue does not come first.                                 *)
LEMMA AppendKeepsHead ==
    ASSUME NEW S, NEW q \in Seq(S), q # <<>>, NEW x \in S
    PROVE  Append(q, x) # <<>> /\ Head(Append(q, x)) = Head(q)
<1>1. Append(q, x) \in Seq(S) /\ Append(q, x) # <<>>
  BY AppendProperties
<1>2. Len(q) \in Nat \ {0}
  BY EmptySeq, LenProperties
<1>3. Append(q, x)[1] = q[1]
  BY <1>2, AppendProperties
<1>4. Head(q) = q[1] /\ Head(Append(q, x)) = Append(q, x)[1]
  BY <1>1, HeadTailProperties
<1> QED  BY <1>1, <1>3, <1>4

LEMMA LoopStepAcks ==
    ASSUME AckInv, NEW l \in Loop, LoopStep(l) \/ FetchFails(l)
    PROVE  AckInv'
<1>1. TypeInv /\ TypeInv'
  BY LoopStepType DEF AckInv
<1>2. /\ pc \in [Process -> Place] /\ l \in Process /\ batch \in [Loop -> Seq(Item)]
      /\ \A g \in Group : g \in Process /\ g # l
      /\ \A k \in Loop : k \in Process
      /\ queue \in [Group -> Seq(Mergeable)]
      /\ deliveries \in [Message -> 0..AGG_MAX_RETRY]
  BY <1>1 DEF TypeInv, TypeOK, TasksOK, StreamOK, Process, Loop
<1>3. batch[l] # <<>> /\ Msg(l) \in Message
  <2>1. batch[l] # <<>> /\ batch[l] \in Seq(Item)
    BY <1>1, <1>2 DEF LoopStep, RouteToDeadLetter, SkipInFlight, RouteOne, EnqueueMerge,
       FindNoRow, PushDeadLetter, AckRouted, AckRoutedFails, FetchFails, TypeInv, Locals,
       LoopLocals
  <2>2. Head(batch[l]) \in Item
    BY <2>1, HeadTailProperties
  <2> QED  BY <2>1, <2>2 DEF Msg, Item
<1>4. UNCHANGED unrouted
  BY DEF LoopStep, RouteToDeadLetter, SkipInFlight, RouteOne, EnqueueMerge, FindNoRow,
         PushDeadLetter, AckRouted, AckRoutedFails, FetchFails, unrouted
<1>5. \A p \in Process \ {l} : pc'[p] = pc[p]
  BY <1>2 DEF LoopStep, RouteToDeadLetter, SkipInFlight, RouteOne, EnqueueMerge, FindNoRow,
         PushDeadLetter, AckRouted, AckRoutedFails, FetchFails, NextMessage
<1>6. \A g \in Group : queue[g] # <<>> => queue'[g] # <<>> /\ Head(queue'[g]) = Head(queue[g])
  <2>1. CASE queue' = queue
    BY <2>1
  <2>2. CASE EnqueueMerge(l)
    <3> SUFFICES ASSUME NEW g \in Group, queue[g] # <<>>
                 PROVE  queue'[g] # <<>> /\ Head(queue'[g]) = Head(queue[g])
      OBVIOUS
    <3>1. Msg(l) \in Mergeable
      BY <1>3, <2>2 DEF EnqueueMerge, Entity, Mergeable
    <3>2. queue[g] \in Seq(Mergeable)
      BY <1>2
    <3>3. queue'[g] = queue[g] \/ queue'[g] = Append(queue[g], Msg(l))
      BY <1>2, <2>2 DEF EnqueueMerge
    <3>4. Append(queue[g], Msg(l)) # <<>> /\ Head(Append(queue[g], Msg(l))) = Head(queue[g])
      BY <3>1, <3>2, AppendKeepsHead
    <3> QED  BY <3>3, <3>4
  <2> QED  BY <2>1, <2>2 DEF LoopStep, RouteToDeadLetter, SkipInFlight, RouteOne, FindNoRow,
              PushDeadLetter, AckRouted, AckRoutedFails, FetchFails
<1>7. Merging'
  <2>1. \A g \in Group : pc'[g] = pc[g]
    BY <1>2, <1>5
  <2> QED  BY <1>1, <1>4, <1>6, <2>1, MergingKept
           DEF AckInv, unrouted, persistVars, stateVars, tableVars, historyVars
<1>8. LoopAcks'
  <2>1. \A k \in Loop \ {l} : pc'[k] = pc[k] /\ batch'[k] = batch[k]
    BY <1>2, <1>5 DEF LoopStep, RouteToDeadLetter, SkipInFlight, RouteOne, EnqueueMerge,
       FindNoRow, PushDeadLetter, AckRouted, AckRoutedFails, FetchFails, NextMessage
  <2>2. dead \subseteq dead'
    BY DEF LoopStep, RouteToDeadLetter, SkipInFlight, RouteOne, EnqueueMerge, FindNoRow,
       PushDeadLetter, AckRouted, AckRoutedFails, FetchFails, streamVars
  <2>3. pc'[l] = "ack" => batch' = batch /\ (Msg(l) \in dead' \/ Entity(l) \notin Known)
    BY <1>2 DEF LoopStep, RouteToDeadLetter, SkipInFlight, RouteOne, EnqueueMerge,
       FindNoRow, PushDeadLetter, AckRouted, AckRoutedFails, FetchFails, NextMessage
  <2>4. \A k \in Loop : batch'[k] = batch[k] => Msg(k)' = Msg(k) /\ Entity(k)' = Entity(k)
    BY DEF Msg, Entity
  <2> QED  BY <2>1, <2>2, <2>3, <2>4 DEF AckInv, LoopAcks
<1>9. AckedWasMerged'
  <2>1. CASE AckRouted(l)
    <3>1. Msg(l) \in dead' \/ EntityOf[Msg(l)] \notin Known
      BY <2>1 DEF AckInv, LoopAcks, AckRouted, Entity
    <3>2. \A m \in Message \ {Msg(l)} : Settled(m)' => Settled(m)
      BY <1>2, <2>1 DEF AckRouted, Acknowledge, Settled, Pending
    <3>3. dead' = dead /\ merged' = merged /\ late' = late
      BY <2>1 DEF AckRouted, unrouted, historyVars
    <3> QED  BY <1>3, <3>1, <3>2, <3>3 DEF AckInv, AckedWasMerged
  <2>2. CASE ~AckRouted(l)
    <3>1. unread' = unread /\ deliveries' = deliveries /\ dead \subseteq dead'
      BY <2>2 DEF LoopStep, RouteToDeadLetter, SkipInFlight, RouteOne, EnqueueMerge,
         FindNoRow, PushDeadLetter, AckRoutedFails, FetchFails, streamVars
    <3>2. merged' = merged /\ late' = late
      BY <1>4 DEF unrouted, historyVars
    <3> QED  BY <3>1, <3>2 DEF AckInv, AckedWasMerged, Settled, Pending
  <2> QED  BY <2>1, <2>2
<1> QED  BY <1>1, <1>7, <1>8, <1>9 DEF AckInv

(***************************************************************************)
(* The groups.                                                             *)
(***************************************************************************)
(* A merge adds the EntityEvent to a merged Event or starts one with it.   *)
LEMMA MergedOf ==
    ASSUME NEW event \in Event \union {NoEvent}, NEW e \in EntityEvent, NEW t, NEW freshId,
           NEW set, Of(event, set)
    PROVE  merge_or_create(event, e, t, freshId).ees \subseteq set \union {e}
BY DEF Of, merge_or_create, ExtendedBy, StartedBy

(* Another group's task is left alone, and more may be merged.             *)
LEMMA OtherGroups ==
    ASSUME TypeInv, Merging, NEW g \in Group,
           \A h \in Group \ {g} : pc'[h] = pc[h] /\ queue'[h] = queue[h] /\ updated'[h] = updated[h],
           merged \subseteq merged', late \subseteq late'
    PROVE  \A h \in Group \ {g} :
             /\ pc'[h] \in Persisting \union {"upsert"} =>
                  Of(updated'[h], merged' \union {EntityOf[Head(queue'[h])]})
             /\ pc'[h] = "ack" => EntityOf[Head(queue'[h])] \in merged' \union late'
BY DEF Merging, UpdatesMerged, GroupAcks, Of, Work

LEMMA GroupStepAcks ==
    ASSUME AckInv, NEW g \in Group, GroupStep(g) \/ CheckFails(g) \/ UpsertFails(g)
    PROVE  AckInv'
<1> USE DEF GroupStep, GetActiveEvent, SkipMerged, SkipLate, Merge, UpsertActiveEvent,
            AckMerged, AckMergedFails, CheckFails, UpsertFails, FailMerge
<1>1. TypeInv /\ TypeInv'
  BY GroupStepType DEF AckInv
<1>2. /\ pc \in [Process -> Place] /\ g \in Process
      /\ \A h \in Group : h \in Process
      /\ \A l \in Loop : l \in Process /\ l # g
      /\ queue \in [Group -> Seq(Mergeable)] /\ queue[g] # <<>>
      /\ base \in [Group -> Event \union {NoEvent}]
      /\ updated \in [Group -> Event \union {NoEvent}]
      /\ active \in [Group -> Event \union {NoEvent}]
      /\ deliveries \in [Message -> 0..AGG_MAX_RETRY]
  BY <1>1 DEF TypeInv, TypeOK, TasksOK, EventsOK, StreamOK, Process, Loop, Locals, GroupLocals
<1>3. Head(queue[g]) \in Message /\ Work(g) \in EntityEvent
  <2>1. queue[g] \in Seq(Mergeable)
    BY <1>2
  <2>2. Head(queue[g]) \in Mergeable
    BY <1>2, <2>1, HeadTailProperties
  <2> QED  BY <2>2 DEF Mergeable, Work
<1>4. UNCHANGED unmerged
  OBVIOUS
<1>5. merged \subseteq merged' /\ late \subseteq late'
  BY DEF Upserted, historyVars
<1>6. \A h \in Group \ {g} :
        pc'[h] = pc[h] /\ queue'[h] = queue[h] /\ updated'[h] = updated[h] /\ base'[h] = base[h]
  BY <1>2 DEF Settle, Leave
<1>7. CopiesMerged'
  <2>1. snapshot' = snapshot /\ Of(base'[g], merged')
    BY <1>2, <1>4, <1>5 DEF unmerged, persistVars, Settle, Leave, AckInv, Merging,
       CopiesMerged, Of
  <2>2. \A h \in Group : Of(active'[h], merged')
    <3>1. CASE UNCHANGED active
      BY <1>5, <3>1 DEF AckInv, Merging, CopiesMerged, Of
    <3>2. CASE pc[g] = "upsert" /\ Upserted(g)
      BY <1>2, <3>2 DEF Upserted, AckInv, Merging, CopiesMerged, UpdatesMerged, Of
    <3> QED  BY <3>1, <3>2 DEF stateVars
  <2> QED  BY <1>5, <1>6, <2>1, <2>2 DEF AckInv, Merging, CopiesMerged, Of
<1>8. OwnersMerged'
  BY <1>4, <1>5 DEF unmerged, tableVars, AckInv, Merging, OwnersMerged
<1>9. /\ pc'[g] \in Persisting \union {"upsert"} =>
           Of(updated'[g], merged' \union {EntityOf[Head(queue'[g])]})
      /\ pc'[g] = "ack" => EntityOf[Head(queue'[g])] \in merged' \union late'
  <2>1. CASE Merge(g)
    <3>1. Of(base[g], merged)
      BY DEF AckInv, Merging, CopiesMerged
    <3>2. PICK freshId :
            updated' = [updated EXCEPT ![g] =
                merge_or_create(base[g], Work(g), PublishedAt[Work(g)], freshId)]
      BY <2>1
    <3>3. updated'[g].ees \subseteq merged \union {Work(g)}
      BY <1>2, <1>3, <3>1, <3>2, MergedOf
    <3>4. pc'[g] \in {"persist", "upsert"} /\ queue' = queue
      BY <1>2, <2>1
    <3> QED  BY <1>5, <3>3, <3>4 DEF Of, Work
  <2>2. CASE SkipMerged(g)
    <3>1. Work(g) \in merged
      BY <1>3, <2>2 DEF IsMerged, IsMember, AckInv, Merging, CopiesMerged, OwnersMerged, Of
    <3> QED  BY <1>2, <1>5, <2>2, <3>1 DEF Settle, Persisting, Work
  <2>3. CASE SkipLate(g)
    BY <1>2, <2>3 DEF Settle, Persisting, Work
  <2>4. CASE UpsertActiveEvent(g)
    BY <1>2, <2>4 DEF Upserted, Settle, Persisting, Work
  <2>5. CASE GetActiveEvent(g)
    BY <1>2, <2>5 DEF Persisting
  <2>6. CASE Leave(g)
    BY <1>2, <2>6 DEF Leave, Persisting
  <2> QED  BY <2>1, <2>2, <2>3, <2>4, <2>5, <2>6
<1>10. UpdatesMerged' /\ GroupAcks'
  <2>1. Merging
    BY DEF AckInv
  <2>2. \A h \in Group \ {g} :
          /\ pc'[h] \in Persisting \union {"upsert"} =>
               Of(updated'[h], merged' \union {EntityOf[Head(queue'[h])]})
          /\ pc'[h] = "ack" => EntityOf[Head(queue'[h])] \in merged' \union late'
    BY <1>1, <1>5, <1>6, <2>1, OtherGroups
  <2> QED  BY <1>9, <2>2 DEF UpdatesMerged, GroupAcks, Work, Of, Persisting
<1>11. LoopAcks'
  BY <1>2, <1>4 DEF unmerged, AckInv, LoopAcks, Msg, Entity, Settle, Leave
<1>12. AckedWasMerged'
  <2>1. CASE AckMerged(g)
    <3>1. EntityOf[Head(queue[g])] \in merged \union late
      BY <2>1 DEF AckInv, Merging, GroupAcks, Work
    <3>2. \A m \in Message \ {Head(queue[g])} : Settled(m)' => Settled(m)
      BY <1>2, <1>4, <2>1 DEF unmerged, Acknowledge, Settled, Pending
    <3> QED  BY <1>3, <1>4, <1>5, <3>1, <3>2 DEF unmerged, AckInv, AckedWasMerged
  <2>2. CASE deliveries' = deliveries
    BY <1>4, <1>5, <2>2 DEF unmerged, AckInv, AckedWasMerged, Settled, Pending
  <2> QED  BY <2>1, <2>2
<1> QED  BY <1>1, <1>7, <1>8, <1>10, <1>11, <1>12 DEF AckInv, Merging

(***************************************************************************)
(* The steps that merge and acknowledge nothing: the flush, the stops, the *)
(* clock.                                                                  *)
(***************************************************************************)
LEMMA QuietAcks ==
    ASSUME AckInv, TypeInv',
           UNCHANGED <<unread, deliveries, dead, merged, late>>,
           \A g \in Group :
             \/ pc'[g] = "idle"
             \/ /\ queue'[g] = queue[g] /\ updated'[g] = updated[g]
                /\ pc'[g] \in Persisting \union {"upsert"} =>
                     pc[g] \in Persisting \union {"upsert"}
                /\ pc'[g] = "ack" => pc[g] = "ack",
           \A l \in Loop : pc'[l] = "ack" => pc[l] = "ack" /\ batch'[l] = batch[l],
           \A g \in Group : active'[g] \in {active[g], NoEvent} /\ base'[g] \in {base[g], NoEvent},
           \A event \in snapshot' : Of(event, merged),
           OwnersMerged'
    PROVE  AckInv'
<1>1. CopiesMerged'
  BY DEF AckInv, Merging, CopiesMerged, Of
<1>2. UpdatesMerged' /\ GroupAcks'
  BY DEF AckInv, Merging, UpdatesMerged, GroupAcks, Of, Work, Persisting
<1>3. LoopAcks'
  BY DEF AckInv, LoopAcks, Msg, Entity
<1>4. AckedWasMerged'
  BY DEF AckInv, AckedWasMerged, Settled, Pending
<1> QED  BY <1>1, <1>2, <1>3, <1>4 DEF AckInv, Merging

(* What a persister writes are Events of merged EntityEvents.              *)
LEMMA TargetMerged ==
    ASSUME AckInv, NEW p \in Persister, pc[p] \in Persisting
    PROVE  \A event \in Target(p) : event \in Event /\ event.ees \subseteq merged
<1>1. Target(p) \subseteq Event
  BY TargetType DEF AckInv
<1>2. CASE p = Consumer
  BY <1>1, <1>2 DEF Target, Changed, AckInv, Merging, CopiesMerged, Of
<1>3. CASE p # Consumer
  BY <1>1, <1>3 DEF Target, Persister, AckInv, Merging, CopiesMerged, Of
<1> QED  BY <1>2, <1>3

LEMMA PersistEventsAcks ==
    ASSUME AckInv, NEW p \in Persister, PersistEvents(p)
    PROVE  AckInv'
<1>1. \A event \in Target(p) : event.ees \subseteq merged
  BY TargetMerged DEF PersistEvents, Persisting
<1>2. OwnersMerged'
  BY <1>1 DEF PersistEvents, WithMemberships, OwnersMerged, AckInv, Merging, unpersisted,
     historyVars
<1>3. TypeInv' /\ TypeInv
  BY PersistEventsType DEF AckInv
<1>4. pc \in [Process -> Place] /\ p \in Process
  BY <1>3 DEF TypeInv, TypeOK, TasksOK, Process, Persister, Loop
<1> QED  BY <1>2, <1>3, <1>4, QuietAcks
         DEF PersistEvents, unpersisted, streamVars, stateVars, historyVars, groupVars,
             persistVars, Persisting, Process, Persister, Loop, AckInv, Merging, CopiesMerged

LEMMA ContinueAcks ==
    ASSUME AckInv, TypeInv', NEW p \in Persister, pc[p] \in Persisting, NEW left,
           Continue(p, left), UNCHANGED <<enqueued, groupVars, owner, unpersisted>>
    PROVE  AckInv'
<1>1. PICK place \in {"announce", "idle", "upsert"} : pc' = [pc EXCEPT ![p] = place]
  BY DEF Continue
<1>2. snapshot' = snapshot \/ snapshot' = {}
  BY DEF Continue
<1>3. OwnersMerged'
  BY DEF OwnersMerged, AckInv, Merging, unpersisted, historyVars
<1>4. pc \in [Process -> Place] /\ p \in Process
  BY DEF AckInv, TypeInv, TypeOK, TasksOK, Process, Persister, Loop
<1> QED  BY <1>1, <1>2, <1>3, <1>4, QuietAcks
         DEF unpersisted, streamVars, stateVars, historyVars, groupVars,
             Persisting, Process, Persister, Loop, AckInv, Merging, CopiesMerged

LEMMA AnnounceAcks ==
    ASSUME AckInv, NEW p \in Persister,
           SelectUnpublished(p) \/ Publish(p) \/ MarkPublished(p)
    PROVE  AckInv'
<1>1. TypeInv' /\ TypeInv
  BY SelectUnpublishedType, PublishType, MarkPublishedType DEF AckInv
<1>2. CASE SelectUnpublished(p)
  BY <1>1, <1>2, ContinueAcks DEF SelectUnpublished, tableVars, Persisting
<1>3. CASE MarkPublished(p)
  BY <1>1, <1>3, ContinueAcks DEF MarkPublished, Persisting
<1>4. CASE Publish(p)
  <2>1. pc \in [Process -> Place] /\ p \in Process
    BY <1>1 DEF TypeInv, TypeOK, TasksOK, Process, Persister, Loop
  <2>2. OwnersMerged'
    BY <1>4 DEF Publish, OwnersMerged, AckInv, Merging, unpersisted, historyVars
  <2> QED  BY <1>1, <1>4, <2>1, <2>2, QuietAcks
           DEF Publish, unpersisted, streamVars, stateVars, historyVars, groupVars,
               Persisting, Process, Persister, Loop, AckInv, Merging, CopiesMerged
<1> QED  BY <1>2, <1>3, <1>4

LEMMA PersistFailsAcks ==
    ASSUME AckInv, NEW p \in Persister, PersistFails(p)
    PROVE  AckInv'
<1>1. TypeInv' /\ TypeInv
  BY PersistFailsType DEF AckInv
<1>2. /\ pc \in [Process -> Place] /\ p \in Process
      /\ queue \in [Group -> Seq(Mergeable)]
      /\ base \in [Group -> Event \union {NoEvent}]
      /\ updated \in [Group -> Event \union {NoEvent}]
  BY <1>1 DEF TypeInv, TypeOK, TasksOK, EventsOK, Process, Persister, Loop
<1>3. OwnersMerged' /\ (snapshot' = snapshot \/ snapshot' = {})
  BY DEF PersistFails, NoFlush, OwnersMerged, AckInv, Merging, unpersisted, historyVars,
     tableVars
<1>4. /\ pc' = [pc EXCEPT ![p] = "idle"]
      /\ \A g \in Group \ {p} :
           base'[g] = base[g] /\ updated'[g] = updated[g] /\ queue'[g] = queue[g]
      /\ p \in Group => base'[p] \in {base[p], NoEvent}
  BY <1>2 DEF PersistFails, FailMerge, Leave, groupVars
<1> QED  BY <1>1, <1>2, <1>3, <1>4, QuietAcks
         DEF PersistFails, unpersisted, streamVars, stateVars, historyVars,
             Process, Persister, Loop, AckInv, Merging, CopiesMerged

LEMMA ScanAcks ==
    ASSUME AckInv, ScanAll \/ ScanFails
    PROVE  AckInv'
<1>1. TypeInv' /\ TypeInv
  BY ScanType DEF AckInv
<1>2. pc \in [Process -> Place]
  BY <1>1 DEF TypeInv, TypeOK, TasksOK
<1>3. PICK place \in {"persist", "idle"} : pc' = [pc EXCEPT ![Consumer] = place]
  BY DEF ScanAll, ScanFails
<1>4. \A event \in snapshot' : Of(event, merged)
  <2> DEFINE found == {active[g] : g \in Group} \ {NoEvent}
  <2>1. \A event \in found \union snapshot : Of(event, merged)
    BY DEF AckInv, Merging, CopiesMerged
  <2>2. snapshot' = found \/ snapshot' = snapshot
    BY DEF ScanAll, ScanFails, persistVars
  <2> QED  BY <2>1, <2>2
<1>5. UNCHANGED unpersisted /\ UNCHANGED groupVars /\ owner' = owner
  BY DEF ScanAll, ScanFails, tableVars
<1>6. OwnersMerged'
  BY <1>5 DEF OwnersMerged, AckInv, Merging, unpersisted, historyVars
<1> QED  BY <1>1, <1>2, <1>3, <1>4, <1>5, <1>6, QuietAcks
         DEF unpersisted, streamVars, stateVars, historyVars, groupVars, Process, Loop

LEMMA StopAcks ==
    ASSUME AckInv,
           \/ CrashLayer \/ Shutdown \/ FinalFlushTimesOut \/ Exit \/ Crash
           \/ StartLayer \/ StreamDown \/ StreamUp \/ Tick
    PROVE  AckInv'
<1> USE DEF Process, Loop, Persister
<1>1. TypeInv' /\ TypeInv
  BY StopLoopsType, FinalFlushTimesOutType, EndType, EnvironmentType, TickType DEF AckInv
<1>2. pc \in [Process -> Place]
  BY <1>1 DEF TypeInv, TypeOK, TasksOK
<1>3. UNCHANGED <<unread, deliveries, dead, merged, late, owner>>
  BY DEF CrashLayer, Shutdown, StopLoops, FinalFlushTimesOut, Exit, Crash, EndProcess,
     StartLayer, StreamDown, StreamUp, Tick, streamVars, historyVars, tableVars
<1>4. OwnersMerged' /\ (snapshot' = snapshot \/ snapshot' = {})
  BY <1>3 DEF OwnersMerged, AckInv, Merging, CrashLayer, Shutdown, StopLoops,
     FinalFlushTimesOut, Exit, Crash, EndProcess, StartLayer, StreamDown, StreamUp, Tick,
     NoFlush, persistVars
<1>5. \A event \in snapshot' : Of(event, merged)
  BY <1>4 DEF AckInv, Merging, CopiesMerged
<1>6. CASE CrashLayer \/ Shutdown \/ FinalFlushTimesOut
  <2>1. UNCHANGED groupVars /\ UNCHANGED stateVars
    BY <1>6 DEF CrashLayer, Shutdown, StopLoops, FinalFlushTimesOut
  <2>2. /\ \A g \in Group : pc'[g] = pc[g]
        /\ pc'[Consumer] # "ack"
        /\ pc'[Reclaimer] = "ack" => pc[Reclaimer] = "ack" /\ batch' = batch
    BY <1>2, <1>6 DEF CrashLayer, Shutdown, StopLoops, FinalFlushTimesOut
  <2> QED  BY <1>1, <1>3, <1>4, <1>5, <2>1, <2>2, QuietAcks DEF groupVars, stateVars
<1>7. CASE Exit \/ Crash
  <2>1. EndProcess
    BY <1>7 DEF Exit, Crash
  <2> QED  BY <1>1, <1>3, <1>4, <1>5, <2>1, QuietAcks DEF EndProcess, stateVars
<1>8. CASE StartLayer \/ StreamDown \/ StreamUp \/ Tick
  <2>1. UNCHANGED <<pc, batch, groupVars>>
    BY <1>8 DEF StartLayer, StreamDown, StreamUp, Tick
  <2>2. \A g \in Group : active'[g] \in {active[g], NoEvent}
    BY <1>8 DEF StartLayer, StreamDown, StreamUp, Tick, stateVars
  <2> QED  BY <1>1, <1>3, <1>4, <1>5, <2>1, <2>2, QuietAcks DEF groupVars
<1> QED  BY <1>6, <1>7, <1>8

LEMMA AckInductive == AckInv /\ [Next]_vars => AckInv'
<1> SUFFICES ASSUME AckInv, [Next]_vars PROVE AckInv'
  OBVIOUS
<1>1. CASE Read \/ ReadNothing \/ Claim
  BY <1>1, IntakeAcks
<1>2. CASE \E l \in Loop : LoopStep(l) \/ FetchFails(l)
  BY <1>2, LoopStepAcks
<1>3. CASE \E g \in Group : GroupStep(g) \/ CheckFails(g) \/ UpsertFails(g)
  BY <1>3, GroupStepAcks
<1>4. CASE ScanAll \/ ScanFails
  BY <1>4, ScanAcks
<1>5. CASE \E p \in Persister : PersistStep(p) \/ PersistFails(p)
  BY <1>5, PersistEventsAcks, AnnounceAcks, PersistFailsAcks DEF PersistStep
<1>6. CASE \/ CrashLayer \/ Shutdown \/ FinalFlushTimesOut \/ Exit \/ Crash
           \/ StartLayer \/ StreamDown \/ StreamUp \/ Tick
  BY <1>6, StopAcks
<1>7. CASE UNCHANGED vars
  <2>1. TypeInv'
    BY <1>7, TypeInductive DEF AckInv
  <2>2. OwnersMerged'
    BY <1>7 DEF vars, tableVars, historyVars, AckInv, Merging, OwnersMerged
  <2> QED  BY <1>7, <2>1, <2>2, QuietAcks
           DEF vars, streamVars, groupVars, persistVars, stateVars, tableVars, historyVars,
               AckInv, Merging, CopiesMerged
<1> QED  BY <1>1, <1>2, <1>3, <1>4, <1>5, <1>6, <1>7 DEF Next

(* A message is acknowledged only when its EntityEvent was merged, skipped *)
(* as late, or dead-lettered: no failure, stop or redelivery acknowledges  *)
(* what is lost (on_success, on_failure, ack).                             *)
THEOREM AckedIsMerged == Spec => []AckedWasMerged
<1>1. AckInv => AckedWasMerged
  BY DEF AckInv
<1> QED  BY <1>1, AckInit, AckInductive, PTL DEF Spec

(* Whatever an Event holds, in the state Redis or in the tables, is what   *)
(* some merge stored there (upsert_active_event, persist_events).          *)
THEOREM OnlyMergedIsStored == Spec => [](CopiesMerged /\ OwnersMerged)
<1>1. AckInv => CopiesMerged /\ OwnersMerged
  BY DEF AckInv, Merging
<1> QED  BY <1>1, AckInit, AckInductive, PTL DEF Spec

(***************************************************************************)
(* The outbox.  What a persister has left to announce, and what it has     *)
(* written of the Events it was given.                                     *)
(***************************************************************************)
(* No two groups, and no two Events of a flush, share an id.               *)
Ids(g) == {event.id : event \in {active[g], base[g], updated[g]} \ {NoEvent}}
Apart ==
    /\ \A g, h \in Group : g # h => Ids(g) \intersect Ids(h) = {}
    /\ \A event, other \in snapshot : event.id = other.id => event = other

(* What is or will be marked published is stored.                          *)
MarksStored ==
    /\ \A id \in EventId : published[id] <= StoredVersion(stored, id)
    /\ \A p \in Persister : \A x \in outbox[p] : x.ver <= StoredVersion(stored, x.id)
    /\ \A p \in Persister : pc[p] = "mark" =>
         current[p].ver <= StoredVersion(stored, current[p].id)

TargetStored ==
    \A p \in Persister : pc[p] = "select" =>
        \A event \in Target(p) : event.ver <= StoredVersion(stored, event.id)

(* x announces the Event at the version it was persisted at, or later.     *)
Announces(x, event) == x.id = event.id /\ event.ver <= x.ver

TargetDue ==
    \A p \in Persister : pc[p] \in {"announce", "mark"} =>
        \A event \in Target(p) :
            \/ event.ver <= published[event.id]
            \/ \E x \in outbox[p] : Announces(x, event)
            \/ pc[p] = "mark" /\ Announces(current[p], event)

FlushedMarked == \A id \in EventId : lastFlushed[id] <= published[id]

Publishing == MarksStored /\ TargetStored /\ TargetDue /\ FlushedMarked

(* While a group merges, its active Event is the one it has read, and it   *)
(* is published before another takes its place.                            *)
Replacing ==
    \A g \in Group :
        /\ pc[g] \in Persisting \union {"check", "upsert"} => active[g] \in {base[g], NoEvent}
        /\ pc[g] = "upsert" /\ base[g] # NoEvent /\ updated[g].id # base[g].id =>
             base[g].ver <= published[base[g].id]

OutboxInv == TypeInv /\ Apart /\ Publishing /\ Replacing

LEMMA OutboxInit == Init => OutboxInv
<1> SUFFICES ASSUME Init PROVE OutboxInv
  OBVIOUS
<1>1. TypeInv
  BY TypeInit
<1>2. Apart /\ Replacing
  BY DEF Init, Apart, Ids, Replacing, Persisting, Process
<1>3. Publishing
  BY DEF Init, Publishing, MarksStored, TargetStored, TargetDue, FlushedMarked, StoredVersion,
         Persister, Process, Loop
<1> QED  BY <1>1, <1>2, <1>3 DEF OutboxInv

(* A step that writes no table and brings no persister to an await before  *)
(* which it wrote one.                                                     *)
LEMMA PublishingKept ==
    ASSUME OutboxInv, UNCHANGED <<stored, published>>,
           \A p \in Persister :
             \/ pc'[p] \notin {"select", "announce", "mark"} /\ outbox'[p] \subseteq outbox[p]
             \/ /\ pc'[p] = pc[p] /\ outbox'[p] = outbox[p] /\ current'[p] = current[p]
                /\ IF p = Consumer THEN UNCHANGED <<snapshot, lastFlushed>>
                                   ELSE base'[p] = base[p],
           \A id \in EventId : lastFlushed'[id] <= published[id]
    PROVE  Publishing'
<1>1. MarksStored'
  BY DEF OutboxInv, Publishing, MarksStored, StoredVersion
<1>2. \A p \in Persister : pc'[p] \in {"select", "announce", "mark"} => Target(p)' = Target(p)
  BY DEF Target, Changed
<1>3. TargetStored'
  BY <1>2 DEF OutboxInv, Publishing, TargetStored, StoredVersion
<1>4. TargetDue'
  BY <1>2 DEF OutboxInv, Publishing, TargetDue, Announces
<1>5. FlushedMarked'
  BY DEF FlushedMarked
<1> QED  BY <1>1, <1>3, <1>4, <1>5 DEF Publishing

(* Tasks and copies of Events that stay, or are let go of.                 *)
LEMMA ApartKept ==
    ASSUME OutboxInv, snapshot' \subseteq snapshot,
           \A g \in Group :
             /\ active'[g] \in {active[g], NoEvent}
             /\ base'[g] \in {base[g], active[g], NoEvent}
             /\ updated'[g] \in {updated[g], NoEvent}
    PROVE  Apart'
<1>1. \A g \in Group : Ids(g)' \subseteq Ids(g)
  BY DEF Ids
<1> QED  BY <1>1 DEF OutboxInv, Apart

LEMMA ReplacingKept ==
    ASSUME OutboxInv, \A id \in EventId : published[id] <= published'[id],
           published \in [EventId -> Nat], published' \in [EventId -> Nat],
           base \in [Group -> Event \union {NoEvent}],
           \A g \in Group :
             \/ pc'[g] = "idle"
             \/ /\ pc'[g] = pc[g] /\ base'[g] = base[g] /\ updated'[g] = updated[g]
                /\ active'[g] \in {active[g], NoEvent}
    PROVE  Replacing'
<1> SUFFICES ASSUME NEW g \in Group, pc'[g] # "idle"
             PROVE  /\ pc'[g] \in Persisting \union {"check", "upsert"} =>
                         active'[g] \in {base'[g], NoEvent}
                    /\ pc'[g] = "upsert" /\ base'[g] # NoEvent /\ updated'[g].id # base'[g].id =>
                         base'[g].ver <= published'[base'[g].id]
  BY DEF Replacing, Persisting
<1>1. pc'[g] \in Persisting \union {"check", "upsert"} => active'[g] \in {base'[g], NoEvent}
  BY DEF OutboxInv, Replacing
<1>2. base[g] # NoEvent => base[g].id \in EventId /\ base[g].ver \in Nat
  BY DEF Event
<1>3. pc'[g] = "upsert" /\ base'[g] # NoEvent /\ updated'[g].id # base'[g].id =>
         base'[g].ver <= published'[base'[g].id]
  BY <1>2 DEF OutboxInv, Replacing
<1> QED  BY <1>1, <1>3

LEMMA LoopOutbox ==
    ASSUME OutboxInv,
           \/ Read \/ ReadNothing \/ Claim
           \/ \E l \in Loop : LoopStep(l) \/ FetchFails(l)
    PROVE  OutboxInv'
<1>1. TypeInv' /\ TypeInv
  BY ReadType, ReadNothingType, ClaimType, LoopStepType DEF OutboxInv
<1>2. /\ pc \in [Process -> Place]
      /\ base \in [Group -> Event \union {NoEvent}]
      /\ published \in [EventId -> Nat]
  BY <1>1 DEF TypeInv, TypeOK, TasksOK, EventsOK, TablesOK
<1>3. PICK l \in Loop :
        /\ \A p \in Process \ {l} : pc'[p] = pc[p]
        /\ pc'[l] \in {"idle", "route", "dead letter", "fetch", "ack", "scan"}
  <2>1. CASE Read \/ ReadNothing
    BY <1>2, <2>1 DEF Read, ReadNothing, Process, Loop
  <2>2. CASE Claim
    BY <1>2, <2>2 DEF Claim, Process, Loop
  <2>3. ASSUME NEW l \in Loop, LoopStep(l) \/ FetchFails(l)
        PROVE  /\ \A p \in Process \ {l} : pc'[p] = pc[p]
               /\ pc'[l] \in {"idle", "route", "dead letter", "fetch", "ack", "scan"}
    BY <1>2, <2>3 DEF LoopStep, RouteToDeadLetter, SkipInFlight, RouteOne, EnqueueMerge,
       FindNoRow, PushDeadLetter, AckRouted, AckRoutedFails, FetchFails, NextMessage, Process
  <2> QED  BY <2>1, <2>2, <2>3
<1>4. UNCHANGED unrouted
  BY DEF Read, ReadNothing, Claim, LoopStep, RouteToDeadLetter, SkipInFlight, RouteOne,
     EnqueueMerge, FindNoRow, PushDeadLetter, AckRouted, AckRoutedFails, FetchFails, unrouted
<1>5. /\ UNCHANGED <<base, updated, snapshot, outbox, current, lastFlushed, active, stored,
                     published>>
      /\ \A g \in Group : pc'[g] = pc[g]
  BY <1>3, <1>4 DEF unrouted, persistVars, stateVars, tableVars, Process, Loop
<1>6. Publishing'
  BY <1>3, <1>5, PublishingKept DEF Persister, Process, Loop, OutboxInv, Publishing,
     FlushedMarked
<1>7. Apart' /\ Replacing'
  BY <1>2, <1>5, ApartKept, ReplacingKept
<1> QED  BY <1>1, <1>6, <1>7 DEF OutboxInv

LEMMA StopOutbox ==
    ASSUME OutboxInv,
           \/ CrashLayer \/ Shutdown \/ FinalFlushTimesOut \/ Exit \/ Crash
           \/ StartLayer \/ StreamDown \/ StreamUp \/ Tick
    PROVE  OutboxInv'
<1>1. TypeInv' /\ TypeInv
  BY StopLoopsType, FinalFlushTimesOutType, EndType, EnvironmentType, TickType DEF OutboxInv
<1>2. /\ pc \in [Process -> Place]
      /\ base \in [Group -> Event \union {NoEvent}]
      /\ outbox \in [Persister -> SUBSET Version]
      /\ current \in [Persister -> Version \union {NoEvent}]
      /\ published \in [EventId -> Nat]
  BY <1>1 DEF TypeInv, TypeOK, TasksOK, EventsOK, TablesOK
<1>3. UNCHANGED <<stored, published>>
  BY DEF CrashLayer, Shutdown, StopLoops, FinalFlushTimesOut, Exit, Crash, EndProcess,
     StartLayer, StreamDown, StreamUp, Tick, tableVars
<1>4. FlushedMarked
  BY DEF OutboxInv, Publishing
<1>5. CASE CrashLayer \/ Shutdown \/ FinalFlushTimesOut
  <2>1. /\ UNCHANGED <<base, updated, active, lastFlushed>> /\ snapshot' = {}
        /\ NoFlush /\ pc'[Consumer] \in {"scan", "idle"}
        /\ \A g \in Group : pc'[g] = pc[g]
    BY <1>2, <1>5 DEF CrashLayer, Shutdown, StopLoops, FinalFlushTimesOut, groupVars,
       stateVars, NoFlush, Process, Loop
  <2>2. Publishing'
    BY <1>2, <1>3, <1>4, <2>1, PublishingKept DEF Persister, NoFlush, FlushedMarked
  <2>3. Apart' /\ Replacing'
    BY <1>2, <1>3, <2>1, ApartKept, ReplacingKept
  <2> QED  BY <1>1, <2>2, <2>3 DEF OutboxInv
<1>6. CASE Exit \/ Crash
  <2>1. EndProcess
    BY <1>6 DEF Exit, Crash
  <2>2. Publishing'
    BY <1>2, <1>3, <2>1, PublishingKept DEF EndProcess, Persister, Process, Loop
  <2>3. Apart' /\ Replacing'
    BY <1>2, <1>3, <2>1, ApartKept, ReplacingKept DEF EndProcess, Process, stateVars
  <2> QED  BY <1>1, <2>2, <2>3 DEF OutboxInv
<1>7. CASE StartLayer \/ StreamDown \/ StreamUp \/ Tick
  <2>1. /\ UNCHANGED <<pc, base, updated, snapshot, outbox, current, lastFlushed>>
        /\ \A g \in Group : active'[g] \in {active[g], NoEvent}
    BY <1>7 DEF StartLayer, StreamDown, StreamUp, Tick, groupVars, persistVars, stateVars
  <2>2. Publishing'
    BY <1>3, <1>4, <2>1, PublishingKept DEF FlushedMarked
  <2>3. Apart' /\ Replacing'
    BY <1>2, <1>3, <2>1, ApartKept, ReplacingKept
  <2> QED  BY <1>1, <2>2, <2>3 DEF OutboxInv
<1> QED  BY <1>5, <1>6, <1>7

LEMMA PersistFailsOutbox ==
    ASSUME OutboxInv, NEW p \in Persister, PersistFails(p)
    PROVE  OutboxInv'
<1>1. TypeInv' /\ TypeInv
  BY PersistFailsType DEF OutboxInv
<1>2. /\ pc \in [Process -> Place] /\ p \in Process
      /\ queue \in [Group -> Seq(Mergeable)]
      /\ base \in [Group -> Event \union {NoEvent}]
      /\ updated \in [Group -> Event \union {NoEvent}]
      /\ outbox \in [Persister -> SUBSET Version]
      /\ current \in [Persister -> Version \union {NoEvent}]
      /\ published \in [EventId -> Nat]
  BY <1>1 DEF TypeInv, TypeOK, TasksOK, EventsOK, TablesOK, Process, Persister, Loop
<1>3. /\ pc' = [pc EXCEPT ![p] = "idle"]
      /\ outbox' = [outbox EXCEPT ![p] = {}]
      /\ current' = [current EXCEPT ![p] = NoEvent]
      /\ snapshot' = IF p = Consumer THEN {} ELSE snapshot
      /\ \A g \in Group \ {p} : base'[g] = base[g] /\ updated'[g] = updated[g]
      /\ p \in Group => base'[p] = NoEvent /\ updated'[p] = NoEvent
      /\ UNCHANGED <<lastFlushed, stored, published, active>>
  BY <1>2 DEF PersistFails, NoFlush, FailMerge, Leave, groupVars, tableVars, unpersisted,
     stateVars, Persister
<1>4. Publishing'
  BY <1>2, <1>3, PublishingKept DEF Persister, Process, Loop, OutboxInv, Publishing,
     FlushedMarked
<1>5. Apart' /\ Replacing'
  <2>1. Apart'
    BY <1>3, ApartKept
  <2>2. Replacing'
    BY <1>2, <1>3, ReplacingKept DEF Process
  <2> QED  BY <2>1, <2>2
<1> QED  BY <1>1, <1>4, <1>5 DEF OutboxInv

(* The Event a merge makes has the id of the one it extends, or a new one. *)
LEMMA MergedId ==
    ASSUME NEW event, NEW e, NEW t, NEW freshId
    PROVE  \/ merge_or_create(event, e, t, freshId).id = freshId
           \/ event # NoEvent /\ merge_or_create(event, e, t, freshId).id = event.id
BY DEF merge_or_create, ExtendedBy, StartedBy

LEMMA FreshIsApart ==
    ASSUME NEW freshId \in FreshIds, NEW h \in Group
    PROVE  freshId \notin Ids(h)
<1>1. \A event \in {active[h], base[h], updated[h]} \ {NoEvent} : event \in Copies
  BY DEF Copies
<1> QED  BY <1>1 DEF FreshIds, Ids

LEMMA GroupApart ==
    ASSUME OutboxInv, NEW g \in Group, snapshot' = snapshot,
           \A h \in Group \ {g} :
             active'[h] = active[h] /\ base'[h] = base[h] /\ updated'[h] = updated[h],
           \A id \in Ids(g)' : id \in Ids(g) \/ \A h \in Group : id \notin Ids(h)
    PROVE  Apart'
<1>1. \A h \in Group \ {g} : Ids(h)' = Ids(h)
  BY DEF Ids
<1> QED  BY <1>1 DEF OutboxInv, Apart

LEMMA GroupStepOutbox ==
    ASSUME OutboxInv, NEW g \in Group, GroupStep(g) \/ CheckFails(g) \/ UpsertFails(g)
    PROVE  OutboxInv'
<1> USE DEF GroupStep, GetActiveEvent, SkipMerged, SkipLate, Merge, UpsertActiveEvent,
            AckMerged, AckMergedFails, CheckFails, UpsertFails, FailMerge
<1>1. TypeInv' /\ TypeInv
  BY GroupStepType DEF OutboxInv
<1>2. /\ pc \in [Process -> Place] /\ g \in Process
      /\ \A h \in Group : h \in Process
      /\ base \in [Group -> Event \union {NoEvent}]
      /\ updated \in [Group -> Event \union {NoEvent}]
      /\ active \in [Group -> Event \union {NoEvent}]
      /\ published \in [EventId -> Nat]
  BY <1>1 DEF TypeInv, TypeOK, TasksOK, EventsOK, TablesOK, Process
<1>3. /\ \A p \in Process \ {g} : pc'[p] = pc[p]
      /\ \A h \in Group \ {g} :
           base'[h] = base[h] /\ updated'[h] = updated[h] /\ active'[h] = active[h]
      /\ pc'[g] \in {"idle", "check", "persist", "upsert", "ack"}
  BY <1>2 DEF Settle, Leave, Upserted, stateVars
<1>4. UNCHANGED <<snapshot, outbox, current, lastFlushed, stored, published>>
  BY DEF unmerged, persistVars, tableVars
<1>5. Publishing'
  BY <1>2, <1>3, <1>4, PublishingKept DEF Persister, Process, Loop, OutboxInv, Publishing,
     FlushedMarked
<1>6. Apart'
  <2>1. CASE Merge(g)
    <3>1. PICK freshId \in FreshIds :
            updated' = [updated EXCEPT ![g] =
                merge_or_create(base[g], Work(g), PublishedAt[Work(g)], freshId)]
      BY <2>1
    <3> DEFINE made == merge_or_create(base[g], Work(g), PublishedAt[Work(g)], freshId)
    <3>2. \/ updated'[g].id = freshId
          \/ base[g] # NoEvent /\ updated'[g].id = base[g].id
      <4>1. updated'[g] = made
        BY <1>2, <3>1
      <4>2. made.id = freshId \/ (base[g] # NoEvent /\ made.id = base[g].id)
        BY MergedId
      <4> HIDE DEF made
      <4> QED  BY <4>1, <4>2
    <3>3. base' = base /\ active' = active
      BY <2>1 DEF stateVars
    <3>4. \A id \in Ids(g)' : id \in Ids(g) \/ id = freshId
      BY <3>2, <3>3 DEF Ids
    <3> QED  BY <1>3, <1>4, <3>4, FreshIsApart, GroupApart
  <2>2. CASE ~Merge(g)
    <3>1. /\ base'[g] \in {base[g], active[g], NoEvent}
          /\ updated'[g] \in {updated[g], NoEvent}
          /\ active'[g] \in {active[g], updated[g]}
      BY <1>2, <2>2 DEF Settle, Leave, Upserted, stateVars
    <3>2. Ids(g)' \subseteq Ids(g)
      BY <3>1 DEF Ids
    <3> QED  BY <1>3, <1>4, <3>2, GroupApart
  <2> QED  BY <2>1, <2>2
<1>7. Replacing'
  <2>1. \A h \in Group \ {g} :
          /\ pc'[h] \in Persisting \union {"check", "upsert"} => active'[h] \in {base'[h], NoEvent}
          /\ pc'[h] = "upsert" /\ base'[h] # NoEvent /\ updated'[h].id # base'[h].id =>
               base'[h].ver <= published'[base'[h].id]
    BY <1>2, <1>3, <1>4 DEF OutboxInv, Replacing
  <2>2. CASE GetActiveEvent(g)
    BY <1>2, <2>1, <2>2 DEF Replacing, stateVars, Persisting
  <2>3. CASE Merge(g)
    <3>1. base' = base /\ active' = active
      BY <2>3 DEF stateVars
    <3>2. active[g] \in {base[g], NoEvent}
      BY <2>3 DEF OutboxInv, Replacing
    <3>3. pc'[g] = "upsert" => base[g] = NoEvent \/ updated'[g].id = base[g].id
      BY <1>2, <2>3
    <3> QED  BY <2>1, <3>1, <3>2, <3>3 DEF Replacing
  <2>4. CASE pc'[g] \in {"idle", "ack"}
    BY <2>1, <2>4 DEF Replacing, Persisting
  <2> QED  BY <1>2, <2>2, <2>3, <2>4 DEF Settle, Leave
<1> QED  BY <1>1, <1>5, <1>6, <1>7 DEF OutboxInv

LEMMA ScanOutbox ==
    ASSUME OutboxInv, ScanAll \/ ScanFails
    PROVE  OutboxInv'
<1> DEFINE found == {active[g] : g \in Group} \ {NoEvent}
<1>1. TypeInv' /\ TypeInv
  BY ScanType DEF OutboxInv
<1>2. /\ pc \in [Process -> Place]
      /\ base \in [Group -> Event \union {NoEvent}]
      /\ active \in [Group -> Event \union {NoEvent}]
      /\ published \in [EventId -> Nat] /\ lastFlushed \in [EventId -> Nat]
  BY <1>1 DEF TypeInv, TypeOK, TasksOK, EventsOK, TablesOK
<1>3. PICK place \in {"persist", "idle"} : pc' = [pc EXCEPT ![Consumer] = place]
  BY DEF ScanAll, ScanFails
<1>4. /\ UNCHANGED <<base, updated, active, outbox, current, stored, published>>
      /\ \A g \in Group : pc'[g] = pc[g]
  BY <1>2, <1>3 DEF ScanAll, ScanFails, groupVars, persistVars, tableVars, unpersisted,
     stateVars, Process
<1>5. \A id \in EventId : lastFlushed'[id] <= published[id]
  <2>1. FlushedMarked
    BY DEF OutboxInv, Publishing
  <2>2. CASE lastFlushed' = lastFlushed
    BY <2>1, <2>2 DEF FlushedMarked
  <2>3. CASE Changed(found) = {} /\ lastFlushed' = FlushOf(found)
    <3> SUFFICES ASSUME NEW id \in EventId PROVE lastFlushed'[id] <= published[id]
      OBVIOUS
    <3>1. \A event \in found : lastFlushed[event.id] = event.ver
      BY <2>3 DEF Changed
    <3>2. lastFlushed'[id] = 0 \/ lastFlushed'[id] = lastFlushed[id]
      BY <2>3, <3>1 DEF FlushOf
    <3> QED  BY <1>2, <2>1, <3>2 DEF FlushedMarked
  <2> QED  BY <2>2, <2>3 DEF ScanAll, ScanFails, persistVars
<1>6. Publishing'
  BY <1>2, <1>3, <1>4, <1>5, PublishingKept DEF Persister, Process, Loop
<1>7. Apart'
  <2>1. \A g \in Group : Ids(g)' = Ids(g)
    BY <1>4 DEF Ids
  <2>2. \A a, b \in found : a.id = b.id => a = b
    <3>1. \A g \in Group : active[g] # NoEvent => active[g].id \in Ids(g)
      BY DEF Ids
    <3> QED  BY <3>1 DEF OutboxInv, Apart
  <2>3. snapshot' = found \/ snapshot' = snapshot
    BY DEF ScanAll, ScanFails, persistVars
  <2> QED  BY <2>1, <2>2, <2>3 DEF OutboxInv, Apart
<1>8. Replacing'
  BY <1>2, <1>4, ReplacingKept
<1> QED  BY <1>1, <1>6, <1>7, <1>8 DEF OutboxInv

(* A write moves no row back, and leaves none older than it wrote.         *)
LEMMA StoredGrows ==
    ASSUME TypeInv, NEW events \in SUBSET Event,
           \A event, other \in events : event.id = other.id => event = other,
           stored' = WithEvents(stored, events)
    PROVE  /\ \A id \in EventId : StoredVersion(stored, id) <= StoredVersion(stored', id)
           /\ \A event \in events : event.ver <= StoredVersion(stored', event.id)
<1>1. stored \in [EventId -> Event \union {NoEvent}]
  BY DEF TypeInv, TypeOK, EventsOK
<1>2. \A id \in EventId : stored[id] # NoEvent => stored[id].ver \in Nat
  BY <1>1 DEF Event
<1>3. \A event \in events : event.id \in EventId /\ event.ver \in Nat /\ event # NoEvent
  BY DEF Event
<1>4. ASSUME NEW event \in events
      PROVE  stored'[event.id] = IF Overwrites(stored, event) THEN event ELSE stored[event.id]
  <2>1. (CHOOSE other \in events : other.id = event.id) = event
    OBVIOUS
  <2>2. \A other \in events : other.id = event.id => other = event
    OBVIOUS
  <2> QED  BY <1>3, <2>1, <2>2 DEF WithEvents
<1>5. ASSUME NEW id \in EventId, \A event \in events : event.id # id
      PROVE  stored'[id] = stored[id]
  BY <1>5 DEF WithEvents
<1>6. ASSUME NEW event \in events
      PROVE  /\ StoredVersion(stored, event.id) <= StoredVersion(stored', event.id)
             /\ event.ver <= StoredVersion(stored', event.id)
  BY <1>2, <1>3, <1>4 DEF Overwrites, StoredVersion
<1>7. \A id \in EventId : StoredVersion(stored, id) <= StoredVersion(stored', id)
  BY <1>2, <1>5, <1>6 DEF StoredVersion
<1> QED  BY <1>6, <1>7

LEMMA TargetApart ==
    ASSUME OutboxInv, NEW p \in Persister
    PROVE  \A event, other \in Target(p) : event.id = other.id => event = other
BY DEF OutboxInv, Apart, Target, Changed

LEMMA StoredVersions ==
    ASSUME TypeInv
    PROVE  /\ \A id \in EventId : StoredVersion(stored, id) \in Nat
           /\ published \in [EventId -> Nat] /\ lastFlushed \in [EventId -> Nat]
           /\ \A p \in Persister : \A x \in outbox[p] : x.id \in EventId /\ x.ver \in Nat
           /\ \A p \in Persister : pc[p] = "mark" =>
                current[p].id \in EventId /\ current[p].ver \in Nat
           /\ \A p \in Persister : pc[p] \in Persisting =>
                \A event \in Target(p) : event.id \in EventId /\ event.ver \in Nat
<1>1. \A id \in EventId : StoredVersion(stored, id) \in Nat
  BY DEF TypeInv, TypeOK, EventsOK, StoredVersion, Event
<1>2. published \in [EventId -> Nat] /\ lastFlushed \in [EventId -> Nat]
  BY DEF TypeInv, TypeOK, TablesOK
<1>3. \A p \in Persister : \A x \in outbox[p] : x.id \in EventId /\ x.ver \in Nat
  BY DEF TypeInv, TypeOK, TablesOK, Version
<1>4. \A p \in Persister : pc[p] = "mark" =>
        current[p].id \in EventId /\ current[p].ver \in Nat
  BY DEF TypeInv, Locals, MarkLocals, Version
<1>5. \A p \in Persister : pc[p] \in Persisting =>
        \A event \in Target(p) : event.id \in EventId /\ event.ver \in Nat
  BY TargetType DEF Event
<1> QED  BY <1>1, <1>2, <1>3, <1>4, <1>5

LEMMA PersistEventsOutbox ==
    ASSUME OutboxInv, NEW p \in Persister, PersistEvents(p)
    PROVE  OutboxInv'
<1>1. TypeInv' /\ TypeInv
  BY PersistEventsType DEF OutboxInv
<1>2. /\ pc \in [Process -> Place] /\ p \in Process
      /\ base \in [Group -> Event \union {NoEvent}]
      /\ Target(p) \subseteq Event
  BY <1>1, TargetType DEF TypeInv, TypeOK, TasksOK, EventsOK, PersistEvents, Persisting,
     Process, Persister, Loop
<1>3. UNCHANGED <<base, updated, active, snapshot, outbox, current, lastFlushed, published>>
  BY DEF PersistEvents, groupVars, persistVars, unpersisted, stateVars
<1>4. /\ \A id \in EventId : StoredVersion(stored, id) <= StoredVersion(stored', id)
      /\ \A event \in Target(p) : event.ver <= StoredVersion(stored', event.id)
  BY <1>1, <1>2, StoredGrows, TargetApart DEF PersistEvents
<1>5. /\ pc[p] = "persist" /\ pc'[p] = "select"
      /\ \A q \in Process \ {p} : pc'[q] = pc[q]
      /\ \A q \in Persister : Target(q)' = Target(q)
  BY <1>2, <1>3 DEF PersistEvents, Target, Changed
<1>6. /\ \A id \in EventId : StoredVersion(stored, id) \in Nat /\ published[id] \in Nat
      /\ \A id \in EventId : StoredVersion(stored', id) \in Nat
      /\ \A q \in Persister : \A x \in outbox[q] : x.id \in EventId /\ x.ver \in Nat
      /\ \A q \in Persister : pc[q] = "mark" =>
           current[q].id \in EventId /\ current[q].ver \in Nat
      /\ \A q \in Persister : pc[q] \in Persisting =>
           \A event \in Target(q) : event.id \in EventId /\ event.ver \in Nat
  <2>1. \A id \in EventId : StoredVersion(stored', id) \in Nat
    BY <1>1 DEF TypeInv, TypeOK, EventsOK, StoredVersion, Event
  <2> QED  BY <1>1, <2>1, StoredVersions
<1>7. MarksStored'
  <2> SUFFICES /\ \A id \in EventId : published[id] <= StoredVersion(stored', id)
               /\ \A q \in Persister : \A x \in outbox[q] : x.ver <= StoredVersion(stored', x.id)
               /\ \A q \in Persister : pc'[q] = "mark" =>
                    current[q].ver <= StoredVersion(stored', current[q].id)
    BY <1>3 DEF MarksStored
  <2>1. \A id \in EventId : published[id] <= StoredVersion(stored', id)
    BY <1>4, <1>6 DEF OutboxInv, Publishing, MarksStored
  <2>2. \A q \in Persister : \A x \in outbox[q] : x.ver <= StoredVersion(stored', x.id)
    BY <1>4, <1>6 DEF OutboxInv, Publishing, MarksStored
  <2>3. \A q \in Persister : pc'[q] = "mark" => pc[q] = "mark"
    BY <1>5 DEF Persister, Process, Loop
  <2>4. \A q \in Persister : pc'[q] = "mark" =>
          current[q].ver <= StoredVersion(stored', current[q].id)
    BY <1>4, <1>6, <2>3 DEF OutboxInv, Publishing, MarksStored
  <2> QED  BY <2>1, <2>2, <2>4
<1>8. TargetStored'
  <2> SUFFICES ASSUME NEW q \in Persister, pc'[q] = "select", NEW event \in Target(q)
               PROVE  event.ver <= StoredVersion(stored', event.id)
    BY <1>5 DEF TargetStored
  <2>1. CASE q = p
    BY <1>4, <2>1
  <2>2. CASE q # p
    <3>1. pc[q] = "select"
      BY <1>5, <2>2 DEF Persister, Process, Loop
    <3> QED  BY <1>4, <1>6, <3>1 DEF OutboxInv, Publishing, TargetStored, Persisting
  <2> QED  BY <2>1, <2>2
<1>9. TargetDue'
  BY <1>3, <1>5 DEF OutboxInv, Publishing, TargetDue, Announces, Persister, Process, Loop
<1>10. FlushedMarked' /\ Apart'
  BY <1>3, ApartKept DEF OutboxInv, Publishing, FlushedMarked
<1>11. Replacing'
  BY <1>3, <1>5 DEF OutboxInv, Replacing, Persisting, Process
<1> QED  BY <1>1, <1>7, <1>8, <1>9, <1>10, <1>11 DEF OutboxInv, Publishing

(* A persister goes on with what is left of its outbox, which with what is *)
(* marked covers all it was given, or returns because nothing is left.     *)
LEMMA ContinueOutbox ==
    ASSUME OutboxInv, TypeInv', NEW p \in Persister, pc[p] \in {"select", "mark"}, NEW left,
           Continue(p, left),
           outbox' = [outbox EXCEPT ![p] = left],
           \A q \in Persister \ {p} : current'[q] = current[q],
           stored' = stored, UNCHANGED groupVars, UNCHANGED unpersisted,
           \A id \in EventId : /\ published[id] <= published'[id]
                               /\ published'[id] <= StoredVersion(stored, id),
           \A x \in left : x.ver <= StoredVersion(stored, x.id),
           \A event \in Target(p) :
             \/ event.ver <= published'[event.id]
             \/ \E x \in left : Announces(x, event)
    PROVE  OutboxInv'
<1>1. /\ pc \in [Process -> Place] /\ p \in Process
      /\ base \in [Group -> Event \union {NoEvent}]
      /\ outbox \in [Persister -> SUBSET Version]
      /\ snapshot \subseteq Event
      /\ published' \in [EventId -> Nat]
  BY DEF OutboxInv, TypeInv, TypeOK, TasksOK, EventsOK, TablesOK, Process, Persister, Loop
<1>2. UNCHANGED <<base, updated, active>>
  BY DEF groupVars, unpersisted, stateVars
<1>3. PICK place \in {"announce", "idle", "upsert"} :
        /\ pc' = [pc EXCEPT ![p] = place]
        /\ place = "idle" => p = Consumer /\ left = {} /\ lastFlushed' = FlushOf(snapshot)
                             /\ snapshot' = {}
        /\ place = "upsert" => p # Consumer /\ left = {}
        /\ place # "idle" => UNCHANGED <<snapshot, lastFlushed>>
  BY DEF Continue
<1>4. /\ \A id \in EventId : StoredVersion(stored, id) \in Nat
      /\ published \in [EventId -> Nat] /\ lastFlushed \in [EventId -> Nat]
      /\ \A q \in Persister : pc[q] \in Persisting =>
           \A event \in Target(q) : event.id \in EventId /\ event.ver \in Nat
  BY StoredVersions DEF OutboxInv
<1>5. /\ pc'[p] = place
      /\ \A q \in Persister \ {p} : pc'[q] = pc[q]
      /\ \A q \in Persister : pc'[q] \in {"select", "announce", "mark"} => Target(q)' = Target(q)
  <2>1. /\ pc'[p] = place
        /\ \A q \in Persister \ {p} : pc'[q] = pc[q]
    BY <1>1, <1>3 DEF Persister, Process, Loop
  <2>2. ASSUME NEW q \in Persister, pc'[q] \in {"select", "announce", "mark"}
        PROVE  Target(q)' = Target(q)
    <3>1. q = Consumer => UNCHANGED <<snapshot, lastFlushed>>
      BY <1>3, <2>1, <2>2
    <3> QED  BY <1>2, <3>1 DEF Target, Changed
  <2> QED  BY <2>1, <2>2
<1>6. MarksStored'
  <2>1. \A q \in Persister : outbox'[q] = outbox[q] \/ outbox'[q] = left
    BY <1>1
  <2>2. \A q \in Persister : pc'[q] = "mark" => pc[q] = "mark" /\ current'[q] = current[q]
    BY <1>5
  <2> QED  BY <2>1, <2>2 DEF OutboxInv, Publishing, MarksStored
<1>7. TargetStored'
  BY <1>5 DEF OutboxInv, Publishing, TargetStored
<1>8. TargetDue'
  <2> SUFFICES ASSUME NEW q \in Persister, pc'[q] \in {"announce", "mark"},
                      NEW event \in Target(q)
               PROVE  \/ event.ver <= published'[event.id]
                      \/ \E x \in outbox'[q] : Announces(x, event)
                      \/ pc'[q] = "mark" /\ Announces(current'[q], event)
    BY <1>5 DEF TargetDue, Announces
  <2>1. CASE q = p
    BY <1>1, <2>1
  <2>2. CASE q # p
    <3>1. pc'[q] = pc[q] /\ current'[q] = current[q] /\ outbox'[q] = outbox[q]
      BY <1>1, <1>5, <2>2
    <3>2. event.id \in EventId /\ event.ver \in Nat
      BY <1>4, <3>1 DEF Persisting
    <3> QED  BY <1>1, <1>4, <3>1, <3>2 DEF OutboxInv, Publishing, TargetDue
  <2> QED  BY <2>1, <2>2
<1>9. FlushedMarked'
  <2> SUFFICES ASSUME NEW id \in EventId PROVE lastFlushed'[id] <= published'[id]
    BY DEF FlushedMarked
  <2>1. lastFlushed[id] <= published'[id]
    BY <1>1, <1>4 DEF OutboxInv, Publishing, FlushedMarked
  <2>2. CASE place = "idle"
    <3>1. p = Consumer /\ left = {} /\ lastFlushed' = FlushOf(snapshot)
      BY <1>3, <2>2
    <3>2. ASSUME NEW event \in snapshot, event.id = id
          PROVE  event.ver <= published'[id]
      <4>1. CASE lastFlushed[id] = event.ver
        BY <2>1, <4>1
      <4>2. CASE lastFlushed[id] # event.ver
        BY <3>1, <3>2, <4>2 DEF Target, Changed
      <4> QED  BY <4>1, <4>2
    <3>3. CASE \E event \in snapshot : event.id = id
      BY <3>1, <3>2, <3>3 DEF FlushOf
    <3>4. CASE ~ \E event \in snapshot : event.id = id
      BY <1>1, <3>1, <3>4 DEF FlushOf
    <3> QED  BY <3>3, <3>4
  <2>3. CASE place # "idle"
    BY <1>3, <2>1, <2>3
  <2> QED  BY <2>2, <2>3
<1>10. Apart'
  <2>1. snapshot' \subseteq snapshot
    BY <1>3
  <2> QED  BY <1>2, <2>1, ApartKept
<1>11. Replacing'
  <2> SUFFICES ASSUME NEW g \in Group
               PROVE  /\ pc'[g] \in Persisting \union {"check", "upsert"} =>
                           active[g] \in {base[g], NoEvent}
                      /\ pc'[g] = "upsert" /\ base[g] # NoEvent /\ updated[g].id # base[g].id =>
                           base[g].ver <= published'[base[g].id]
    BY <1>2 DEF Replacing
  <2>1. CASE g # p
    <3>1. pc'[g] = pc[g]
      BY <1>5, <2>1 DEF Persister
    <3>2. base[g] # NoEvent => base[g].id \in EventId /\ base[g].ver \in Nat
      BY <1>1 DEF Event
    <3> QED  BY <1>1, <1>4, <3>1, <3>2 DEF OutboxInv, Replacing
  <2>2. CASE g = p
    <3>1. pc[g] \in Persisting /\ Target(p) = {base[g]}
      BY <2>2 DEF Persisting, Target
    <3>2. pc'[g] = "upsert" => base[g].ver <= published'[base[g].id]
      BY <1>3, <1>5, <2>2, <3>1
    <3> QED  BY <3>1, <3>2 DEF OutboxInv, Replacing
  <2> QED  BY <2>1, <2>2
<1> QED  BY <1>6, <1>7, <1>8, <1>9, <1>10, <1>11 DEF OutboxInv, Publishing

LEMMA SelectUnpublishedOutbox ==
    ASSUME OutboxInv, NEW p \in Persister, SelectUnpublished(p)
    PROVE  OutboxInv'
<1> DEFINE ids == {event.id : event \in Target(p)}
           found == Unpublished(stored, published, ids)
<1>1. TypeInv' /\ TypeInv
  BY SelectUnpublishedType DEF OutboxInv
<1>2. /\ outbox' = [outbox EXCEPT ![p] = found] /\ Continue(p, found) /\ pc[p] = "select"
      /\ UNCHANGED <<current, stored, published, groupVars, unpersisted>>
  BY DEF SelectUnpublished, tableVars
<1>3. /\ \A id \in EventId : StoredVersion(stored, id) \in Nat
      /\ published \in [EventId -> Nat]
      /\ \A event \in Target(p) : event.id \in EventId /\ event.ver \in Nat
  BY <1>1, <1>2, StoredVersions DEF Persisting
<1>4. \A id \in ids : id \in EventId /\ (published[id] < StoredVersion(stored, id) =>
                                          stored[id].ver = StoredVersion(stored, id))
  BY <1>3 DEF StoredVersion
<1>5. \A x \in found : x.ver <= StoredVersion(stored, x.id)
  BY <1>3, <1>4 DEF Unpublished
<1>6. ASSUME NEW event \in Target(p)
      PROVE  event.ver <= published[event.id] \/ \E x \in found : Announces(x, event)
  <2>1. event.ver <= StoredVersion(stored, event.id)
    BY <1>2 DEF OutboxInv, Publishing, TargetStored
  <2>2. CASE published[event.id] < StoredVersion(stored, event.id)
    <3>1. [id |-> event.id, ver |-> stored[event.id].ver] \in found
      BY <2>2 DEF Unpublished
    <3> QED  BY <1>4, <2>1, <2>2, <3>1 DEF Announces
  <2>3. CASE ~(published[event.id] < StoredVersion(stored, event.id))
    BY <1>3, <2>1, <2>3
  <2> QED  BY <2>2, <2>3
<1>7. \A id \in EventId : published[id] <= published[id]
                          /\ published[id] <= StoredVersion(stored, id)
  BY <1>3 DEF OutboxInv, Publishing, MarksStored
<1> HIDE DEF found
<1> QED  BY <1>1, <1>2, <1>5, <1>6, <1>7, ContinueOutbox

LEMMA PublishOutbox ==
    ASSUME OutboxInv, NEW p \in Persister, Publish(p)
    PROVE  OutboxInv'
<1>1. TypeInv' /\ TypeInv
  BY PublishType DEF OutboxInv
<1>2. /\ pc \in [Process -> Place] /\ p \in Process
      /\ outbox \in [Persister -> SUBSET Version]
      /\ current \in [Persister -> Version \union {NoEvent}]
      /\ base \in [Group -> Event \union {NoEvent}]
      /\ published \in [EventId -> Nat]
  BY <1>1 DEF TypeInv, TypeOK, TasksOK, EventsOK, TablesOK, Process, Persister, Loop
<1>3. PICK x \in outbox[p] :
        /\ current' = [current EXCEPT ![p] = x]
        /\ outbox' = [outbox EXCEPT ![p] = @ \ {x}]
  BY DEF Publish
<1>4. /\ pc[p] = "announce" /\ pc' = [pc EXCEPT ![p] = "mark"]
      /\ UNCHANGED <<base, updated, active, snapshot, lastFlushed, stored, published>>
  BY DEF Publish, groupVars, unpersisted, stateVars
<1>5. /\ pc'[p] = "mark" /\ current'[p] = x /\ outbox'[p] = outbox[p] \ {x}
      /\ \A q \in Persister \ {p} :
           pc'[q] = pc[q] /\ current'[q] = current[q] /\ outbox'[q] = outbox[q]
      /\ \A q \in Persister : Target(q)' = Target(q)
  BY <1>2, <1>3, <1>4 DEF Persister, Process, Loop, Target, Changed
<1>6. MarksStored'
  <2>1. \A q \in Persister : outbox'[q] \subseteq outbox[q]
    BY <1>5
  <2>2. \A q \in Persister : pc'[q] = "mark" =>
          current'[q].ver <= StoredVersion(stored, current'[q].id)
    BY <1>5 DEF OutboxInv, Publishing, MarksStored
  <2> QED  BY <1>4, <2>1, <2>2 DEF OutboxInv, Publishing, MarksStored
<1>7. TargetStored'
  BY <1>4, <1>5 DEF OutboxInv, Publishing, TargetStored
<1>8. TargetDue'
  <2> SUFFICES ASSUME NEW q \in Persister, pc'[q] \in {"announce", "mark"},
                      NEW event \in Target(q)
               PROVE  \/ event.ver <= published[event.id]
                      \/ \E y \in outbox'[q] : Announces(y, event)
                      \/ pc'[q] = "mark" /\ Announces(current'[q], event)
    BY <1>4, <1>5 DEF TargetDue, Announces
  <2>1. CASE q = p
    BY <1>4, <1>5, <2>1 DEF OutboxInv, Publishing, TargetDue
  <2>2. CASE q # p
    BY <1>5, <2>2 DEF OutboxInv, Publishing, TargetDue
  <2> QED  BY <2>1, <2>2
<1>9. FlushedMarked' /\ Apart'
  BY <1>4, ApartKept DEF OutboxInv, Publishing, FlushedMarked
<1>10. Replacing'
  BY <1>2, <1>4 DEF OutboxInv, Replacing, Persisting, Process
<1> QED  BY <1>1, <1>6, <1>7, <1>8, <1>9, <1>10 DEF OutboxInv, Publishing

LEMMA MarkPublishedOutbox ==
    ASSUME OutboxInv, NEW p \in Persister, MarkPublished(p)
    PROVE  OutboxInv'
<1>1. TypeInv' /\ TypeInv
  BY MarkPublishedType DEF OutboxInv
<1>2. /\ pc[p] = "mark" /\ Continue(p, outbox[p])
      /\ published' = WithMark(published, current[p].id, current[p].ver)
      /\ current' = [current EXCEPT ![p] = NoEvent]
      /\ UNCHANGED <<outbox, stored, groupVars, unpersisted>>
  BY DEF MarkPublished
<1>3. /\ outbox \in [Persister -> SUBSET Version]
      /\ current \in [Persister -> Version \union {NoEvent}]
  BY <1>1 DEF TypeInv, TypeOK, TablesOK
<1>4. /\ \A id \in EventId : StoredVersion(stored, id) \in Nat
      /\ published \in [EventId -> Nat]
      /\ current[p].id \in EventId /\ current[p].ver \in Nat
      /\ \A event \in Target(p) : event.id \in EventId /\ event.ver \in Nat
  BY <1>1, <1>2, StoredVersions DEF Persisting
<1>5. /\ \A id \in EventId : published[id] <= published'[id]
      /\ current[p].ver <= published'[current[p].id]
      /\ \A id \in EventId : published'[id] = published[id]
                             \/ (id = current[p].id /\ published'[id] = current[p].ver)
  BY <1>2, <1>4 DEF WithMark
<1>6. \A id \in EventId : published'[id] <= StoredVersion(stored, id)
  BY <1>2, <1>4, <1>5 DEF OutboxInv, Publishing, MarksStored
<1>7. ASSUME NEW event \in Target(p)
      PROVE  event.ver <= published'[event.id] \/ \E x \in outbox[p] : Announces(x, event)
  <2>1. published[event.id] \in Nat /\ published'[event.id] \in Nat
    BY <1>1, <1>4 DEF TypeInv, TypeOK, TablesOK
  <2>2. \/ event.ver <= published[event.id]
        \/ \E x \in outbox[p] : Announces(x, event)
        \/ Announces(current[p], event)
    BY <1>2 DEF OutboxInv, Publishing, TargetDue
  <2> QED  BY <1>4, <1>5, <2>1, <2>2 DEF Announces
<1>8. outbox' = [outbox EXCEPT ![p] = outbox[p]]
  BY <1>2, <1>3
<1>9. \A x \in outbox[p] : x.ver <= StoredVersion(stored, x.id)
  BY DEF OutboxInv, Publishing, MarksStored
<1> QED  BY <1>1, <1>2, <1>3, <1>5, <1>6, <1>7, <1>8, <1>9, ContinueOutbox

LEMMA OutboxInductive == OutboxInv /\ [Next]_vars => OutboxInv'
<1> SUFFICES ASSUME OutboxInv, [Next]_vars PROVE OutboxInv'
  OBVIOUS
<1>1. CASE \/ Read \/ ReadNothing \/ Claim
           \/ \E l \in Loop : LoopStep(l) \/ FetchFails(l)
  BY <1>1, LoopOutbox
<1>2. CASE \E g \in Group : GroupStep(g) \/ CheckFails(g) \/ UpsertFails(g)
  BY <1>2, GroupStepOutbox
<1>3. CASE ScanAll \/ ScanFails
  BY <1>3, ScanOutbox
<1>4. CASE \E p \in Persister : PersistStep(p) \/ PersistFails(p)
  BY <1>4, PersistEventsOutbox, SelectUnpublishedOutbox, PublishOutbox, MarkPublishedOutbox,
     PersistFailsOutbox DEF PersistStep
<1>5. CASE \/ CrashLayer \/ Shutdown \/ FinalFlushTimesOut \/ Exit \/ Crash
           \/ StartLayer \/ StreamDown \/ StreamUp \/ Tick
  BY <1>5, StopOutbox
<1>6. CASE UNCHANGED vars
  <2>1. TypeInv'
    BY <1>6, TypeInductive DEF OutboxInv
  <2>2. UNCHANGED <<pc, base, updated, active, snapshot, outbox, current, lastFlushed, stored,
                    published>>
    BY <1>6 DEF vars, groupVars, persistVars, stateVars, tableVars
  <2>3. Publishing'
    BY <2>2, PublishingKept DEF OutboxInv, Publishing, FlushedMarked
  <2>4. Apart' /\ Replacing'
    BY <2>2, ApartKept DEF OutboxInv, Replacing
  <2> QED  BY <2>1, <2>3, <2>4 DEF OutboxInv
<1> QED  BY <1>1, <1>2, <1>3, <1>4, <1>5, <1>6 DEF Next

(* What flush leaves out next time, because it is noted in _last_flushed,  *)
(* is marked published, and what is marked is stored.                      *)
THEOREM FlushedWasPublished == Spec => []FlushedIsPublished
<1>1. OutboxInv => FlushedIsPublished
  BY DEF OutboxInv, Publishing, MarksStored, FlushedMarked, FlushedIsPublished
<1> QED  BY <1>1, OutboxInit, OutboxInductive, PTL DEF Spec

(* Only the upsert of a merge puts another Event in a group's slot.        *)
LEMMA OnlyUpsertReplaces ==
    ASSUME TypeInv, Next, NEW g \in Group,
           active[g] # NoEvent, active'[g] # NoEvent, active'[g].id # active[g].id
    PROVE  pc[g] = "upsert" /\ active'[g] = updated[g]
<1>1. active \in [Group -> Event \union {NoEvent}]
  BY DEF TypeInv, TypeOK, EventsOK
<1>2. ASSUME active'[g] \in {active[g], NoEvent} PROVE FALSE
  BY <1>2
<1>3. CASE \/ Read \/ ReadNothing \/ Claim \/ ScanAll \/ ScanFails
           \/ \E l \in Loop : LoopStep(l) \/ FetchFails(l)
           \/ \E p \in Persister : PersistStep(p) \/ PersistFails(p)
  BY <1>2, <1>3 DEF Read, ReadNothing, Claim, ScanAll, ScanFails, LoopStep,
     RouteToDeadLetter, SkipInFlight, RouteOne, EnqueueMerge, FindNoRow, PushDeadLetter,
     AckRouted, AckRoutedFails, FetchFails, PersistStep, PersistEvents,
     SelectUnpublished, Publish, MarkPublished, PersistFails, unrouted, unpersisted,
     stateVars
<1>4. CASE \/ CrashLayer \/ Shutdown \/ FinalFlushTimesOut \/ Exit \/ Crash
           \/ StartLayer \/ StreamDown \/ StreamUp \/ Tick
  BY <1>2, <1>4 DEF CrashLayer, Shutdown, StopLoops, FinalFlushTimesOut, Exit, Crash,
     EndProcess, StartLayer, StreamDown, StreamUp, Tick, stateVars
<1>5. ASSUME NEW h \in Group, GroupStep(h) \/ CheckFails(h) \/ UpsertFails(h)
      PROVE  pc[g] = "upsert" /\ active'[g] = updated[g]
  <2>1. active' # active
    BY <1>2
  <2>2. pc[h] = "upsert" /\ Upserted(h)
    BY <1>5, <2>1 DEF GroupStep, GetActiveEvent, SkipMerged, SkipLate, Merge,
       UpsertActiveEvent, AckMerged, AckMergedFails, CheckFails, UpsertFails, stateVars
  <2> QED  BY <1>1, <1>2, <2>2 DEF Upserted
<1> QED  BY <1>3, <1>4, <1>5 DEF Next

(* Only a merge that replaces an Event puts another in its place, and by   *)
(* then the replaced one is marked published with all its merges (_merge). *)
THEOREM ReplacedWasPublished == Spec => ReplacedIsPublished
<1> DEFINE Step ==
      \A g \in Group :
          active[g] # NoEvent /\ active'[g] # NoEvent /\ active'[g].id # active[g].id
            => published[active[g].id] >= active[g].ver
<1>1. OutboxInv /\ [Next]_vars => [Step]_vars
  <2> SUFFICES ASSUME OutboxInv, Next, NEW g \in Group,
                      active[g] # NoEvent, active'[g] # NoEvent,
                      active'[g].id # active[g].id
               PROVE  published[active[g].id] >= active[g].ver
    BY DEF OutboxInv
  <2>1. active \in [Group -> Event \union {NoEvent}]
    BY DEF OutboxInv, TypeInv, TypeOK, EventsOK
  <2>2. pc[g] = "upsert" /\ active'[g] = updated[g]
    BY OnlyUpsertReplaces DEF OutboxInv
  <2>3. active[g] = base[g]
    BY <2>2 DEF OutboxInv, Replacing
  <2>4. base[g].ver \in Nat /\ published[base[g].id] \in Nat
    BY <2>1, <2>3 DEF Event, OutboxInv, TypeInv, TypeOK, TablesOK
  <2> QED  BY <2>2, <2>3, <2>4 DEF OutboxInv, Replacing
<1>2. Spec => [][Step]_vars
  BY <1>1, OutboxInit, OutboxInductive, PTL DEF Spec
<1> QED  BY <1>2 DEF ReplacedIsPublished
-----------------------------------------------------------------------------

(* first and last are the publication times of the earliest and the latest *)
(* EntityEvent of the Event.                                               *)
SpanTracks(event) ==
    /\ \A e \in event.ees : PublishedAt[e] \in event.first..event.last
    /\ \E e \in event.ees : PublishedAt[e] = event.first
    /\ \E e \in event.ees : PublishedAt[e] = event.last

Good(event) ==
    event \in Event /\ SpanTracks(event) /\ Capped(event) /\ Continuous(event)

GoodOrNone(event) == event # NoEvent => Good(event)

WindowInv ==
    /\ \A event \in snapshot : Good(event)
    /\ \A g \in Group :
         GoodOrNone(active[g]) /\ GoodOrNone(base[g]) /\ GoodOrNone(updated[g])
    /\ \A id \in EventId : GoodOrNone(stored[id])

(* A new Event is of one EntityEvent.                                      *)
LEMMA StartedIsGood ==
    ASSUME NEW e \in EntityEvent, NEW id \in EventId
    PROVE  Good(StartedBy(e, PublishedAt[e], id))
BY DEF Good, Event, SpanTracks, Capped, Continuous, StartedBy

(* An EntityEvent that extends an Event keeps what is good about it.       *)
LEMMA ExtendedIsGood ==
    ASSUME NEW event, Good(event), NEW e \in EntityEvent,
           Extends(event, PublishedAt[e])
    PROVE  Good(ExtendedBy(event, e, PublishedAt[e]))
<1> DEFINE t == PublishedAt[e]
           new == ExtendedBy(event, e, t)
<1>1. /\ event \in Event /\ t \in Int
      /\ event.first \in Int /\ event.last \in Int /\ event.ees \subseteq EntityEvent
      /\ event.id \in EventId /\ event.ver \in Nat
  BY DEF Good, Event
<1>2. /\ new \in Event
      /\ new.first = Earlier(event.first, t) /\ new.last = Later(event.last, t)
      /\ new.ees = event.ees \union {e}
  <2>1. Earlier(event.first, t) \in Int /\ Later(event.last, t) \in Int
    BY <1>1 DEF Earlier, Later
  <2> QED  BY <1>1, <2>1 DEF Event, ExtendedBy
<1>3. SpanTracks(new)
  <2>1. \A f \in new.ees : PublishedAt[f] \in new.first..new.last
    BY <1>1, <1>2 DEF Good, SpanTracks, Earlier, Later
  <2>2. \E f \in new.ees : PublishedAt[f] = new.first
    BY <1>1, <1>2 DEF Good, SpanTracks, Earlier
  <2>3. \E f \in new.ees : PublishedAt[f] = new.last
    BY <1>1, <1>2 DEF Good, SpanTracks, Later
  <2> QED  BY <2>1, <2>2, <2>3 DEF SpanTracks
<1>4. Capped(new)
  BY <1>1, <1>2 DEF Capped, Extends, SpanWith, Earlier, Later
<1>5. Continuous(new)
  <2>1. PICK l \in event.ees : PublishedAt[l] = event.last
    BY DEF Good, SpanTracks
  <2>2. Distance(t, event.last) <= SLIDING_WINDOW
    BY DEF Extends
  <2> SUFFICES ASSUME NEW f \in new.ees, PublishedAt[f] # new.last
               PROVE  \E h \in new.ees :
                         /\ PublishedAt[h] > PublishedAt[f]
                         /\ PublishedAt[h] - PublishedAt[f] <= SLIDING_WINDOW
    BY DEF Continuous
  <2>3. CASE f = e
    <3>1. t < event.last /\ event.last - t <= SLIDING_WINDOW
      BY <1>1, <1>2, <2>2, <2>3 DEF Later, Distance
    <3> QED  BY <1>2, <2>1, <2>3, <3>1
  <2>4. CASE f \in event.ees /\ PublishedAt[f] = event.last
    <3>1. event.last < t /\ t - event.last <= SLIDING_WINDOW
      BY <1>1, <1>2, <2>2, <2>4 DEF Later, Distance
    <3> QED  BY <1>2, <2>4, <3>1
  <2>5. CASE f \in event.ees /\ PublishedAt[f] # event.last
    BY <1>2, <2>5 DEF Good, Continuous
  <2> QED  BY <1>2, <2>3, <2>4, <2>5
<1> QED  BY <1>2, <1>3, <1>4, <1>5 DEF Good

(* The item a busy group works at.                                         *)
LEMMA WorkType ==
    ASSUME TypeInv, NEW g \in Group, pc[g] # "idle"
    PROVE  Work(g) \in EntityEvent
<1>1. queue[g] \in Seq(Mergeable) /\ queue[g] # <<>>
  BY DEF TypeInv, TypeOK, TasksOK, Locals, GroupLocals
<1>2. Head(queue[g]) \in Mergeable
  BY <1>1, HeadTailProperties
<1> QED  BY <1>2 DEF Work, Mergeable

LEMMA WindowInit == Init => WindowInv
BY DEF Init, WindowInv, GoodOrNone

(* A merge makes a good Event of what it has read.                         *)
LEMMA MergeWindow ==
    ASSUME TypeInv, WindowInv, NEW g \in Group, Merge(g)
    PROVE  WindowInv'
<1>1. Work(g) \in EntityEvent
  BY WorkType DEF Merge
<1>2. PICK freshId \in FreshIds :
        updated' = [updated EXCEPT ![g] =
            merge_or_create(base[g], Work(g), PublishedAt[Work(g)], freshId)]
  BY DEF Merge
<1>3. freshId \in EventId
  BY DEF FreshIds
<1>4. Good(merge_or_create(base[g], Work(g), PublishedAt[Work(g)], freshId))
  <2>1. CASE base[g] # NoEvent /\ Extends(base[g], PublishedAt[Work(g)])
    BY <1>1, <2>1, ExtendedIsGood DEF merge_or_create, WindowInv, GoodOrNone
  <2>2. CASE ~(base[g] # NoEvent /\ Extends(base[g], PublishedAt[Work(g)]))
    BY <1>1, <1>3, <2>2, StartedIsGood DEF merge_or_create
  <2> QED  BY <2>1, <2>2
<1>5. updated \in [Group -> Event \union {NoEvent}]
  BY DEF TypeInv, TypeOK, EventsOK
<1>6. UNCHANGED <<base, active, snapshot, stored>>
  BY DEF Merge, stateVars, unmerged, persistVars, tableVars
<1> HIDE DEF Good
<1>7. \A h \in Group : GoodOrNone(updated'[h])
  BY <1>2, <1>4, <1>5 DEF WindowInv, GoodOrNone
<1> QED  BY <1>6, <1>7 DEF WindowInv

LEMMA GroupWindow ==
    ASSUME TypeInv, WindowInv, NEW g \in Group,
           GroupStep(g) \/ CheckFails(g) \/ UpsertFails(g)
    PROVE  WindowInv'
<1>1. /\ active \in [Group -> Event \union {NoEvent}]
      /\ base \in [Group -> Event \union {NoEvent}]
      /\ updated \in [Group -> Event \union {NoEvent}]
  BY DEF TypeInv, TypeOK, EventsOK
<1>2. CASE Merge(g)
  BY <1>2, MergeWindow
<1>3. CASE ~ Merge(g)
  <2>1. UNCHANGED <<snapshot, stored>>
    BY <1>3 DEF GroupStep, GetActiveEvent, SkipMerged, SkipLate, UpsertActiveEvent, AckMerged,
       AckMergedFails, CheckFails, UpsertFails, unmerged, persistVars, tableVars
  <2>2. /\ \A h \in Group : base'[h] \in {base[h], active[h], NoEvent}
        /\ \A h \in Group : updated'[h] \in {updated[h], NoEvent}
    BY <1>1, <1>3 DEF GroupStep, GetActiveEvent, SkipMerged, SkipLate, UpsertActiveEvent,
       AckMerged, AckMergedFails, CheckFails, UpsertFails, FailMerge, Settle, Leave
  <2>3. \A h \in Group : active'[h] \in {active[h], updated[h]}
    BY <1>1, <1>3 DEF GroupStep, GetActiveEvent, SkipMerged, SkipLate, UpsertActiveEvent,
       AckMerged, AckMergedFails, CheckFails, UpsertFails, Upserted, stateVars
  <2> QED  BY <2>1, <2>2, <2>3 DEF WindowInv, GoodOrNone
<1> QED  BY <1>2, <1>3

LEMMA PersistWindow ==
    ASSUME TypeInv, WindowInv, NEW p \in Persister, PersistStep(p) \/ PersistFails(p)
    PROVE  WindowInv'
<1>1. UNCHANGED active /\ snapshot' \subseteq snapshot
  BY DEF PersistStep, PersistEvents, SelectUnpublished, Publish, MarkPublished, PersistFails,
     Continue, NoFlush, unpersisted, stateVars, persistVars
<1>2. /\ \A h \in Group : base'[h] \in {base[h], NoEvent}
      /\ \A h \in Group : updated'[h] \in {updated[h], NoEvent}
  BY DEF PersistStep, PersistEvents, SelectUnpublished, Publish, MarkPublished, PersistFails,
     FailMerge, Leave, groupVars, TypeInv, TypeOK, EventsOK
<1>3. \A id \in EventId : GoodOrNone(stored'[id])
  <2>1. CASE PersistEvents(p)
    <3>1. Target(p) \subseteq Event /\ pc[p] = "persist"
      BY <2>1, TargetType DEF PersistEvents, Persisting
    <3>2. \A event \in Target(p) : Good(event)
      BY <3>1 DEF Target, Changed, WindowInv, GoodOrNone, Persister
    <3>3. SUFFICES ASSUME NEW id \in EventId, \E event \in Target(p) : event.id = id
                   PROVE  Good(CHOOSE event \in Target(p) : event.id = id)
      BY <2>1 DEF PersistEvents, WithEvents, WindowInv, GoodOrNone
    <3>4. (CHOOSE event \in Target(p) : event.id = id) \in Target(p)
      BY <3>3
    <3> QED  BY <3>2, <3>4
  <2>2. CASE ~ PersistEvents(p)
    <3>1. UNCHANGED stored
      BY <2>2 DEF PersistStep, SelectUnpublished, Publish, MarkPublished, PersistFails,
         tableVars
    <3> QED  BY <3>1 DEF WindowInv
  <2> QED  BY <2>1, <2>2
<1> QED  BY <1>1, <1>2, <1>3 DEF WindowInv, GoodOrNone

(* The other actions copy an active Event into the snapshot at most.       *)
LEMMA OtherWindow ==
    ASSUME TypeInv, WindowInv,
           \/ Read \/ ReadNothing \/ Claim \/ ScanAll \/ ScanFails
           \/ \E l \in Loop : LoopStep(l) \/ FetchFails(l)
           \/ CrashLayer \/ Shutdown \/ FinalFlushTimesOut \/ Exit \/ Crash
           \/ StartLayer \/ StreamDown \/ StreamUp \/ Tick \/ UNCHANGED vars
    PROVE  WindowInv'
<1>1. CASE \/ Read \/ ReadNothing \/ Claim \/ ScanFails
           \/ \E l \in Loop : LoopStep(l) \/ FetchFails(l)
           \/ StartLayer \/ StreamDown \/ StreamUp \/ UNCHANGED vars
  <2>1. UNCHANGED <<snapshot, active, base, updated, stored>>
    BY <1>1 DEF Read, ReadNothing, Claim, ScanFails, LoopStep, RouteToDeadLetter,
       SkipInFlight, RouteOne, EnqueueMerge, FindNoRow, PushDeadLetter, AckRouted,
       AckRoutedFails, FetchFails, StartLayer, StreamDown, StreamUp, vars, unrouted,
       unpersisted, groupVars, persistVars, stateVars, tableVars
  <2> QED  BY <2>1 DEF WindowInv
<1>2. CASE ScanAll
  <2>1. UNCHANGED <<active, base, updated, stored>>
    BY <1>2 DEF ScanAll, groupVars, tableVars, unpersisted, stateVars
  <2>2. snapshot' = snapshot \/ snapshot' = {active[g] : g \in Group} \ {NoEvent}
    BY <1>2, Zenon DEF ScanAll
  <2>3. \A event \in snapshot' : event \in snapshot \/ \E g \in Group : event = active[g] /\ event # NoEvent
    BY <2>2
  <2> QED  BY <2>1, <2>3 DEF WindowInv, GoodOrNone
<1>3. CASE CrashLayer \/ Shutdown \/ FinalFlushTimesOut
  <2>1. UNCHANGED <<active, base, updated, stored>> /\ snapshot' = {}
    BY <1>3 DEF CrashLayer, Shutdown, StopLoops, FinalFlushTimesOut, NoFlush, groupVars,
       stateVars, tableVars
  <2> QED  BY <2>1 DEF WindowInv
<1>4. CASE Exit \/ Crash
  <2>1. /\ UNCHANGED <<active, stored>> /\ snapshot' = {}
        /\ \A g \in Group : base'[g] = NoEvent /\ updated'[g] = NoEvent
    BY <1>4 DEF Exit, Crash, EndProcess, stateVars, tableVars
  <2> QED  BY <2>1 DEF WindowInv, GoodOrNone
<1>5. CASE Tick
  <2>1. /\ UNCHANGED <<snapshot, base, updated, stored>>
        /\ \A g \in Group : active'[g] \in {active[g], NoEvent}
    BY <1>5 DEF Tick, groupVars, persistVars, tableVars
  <2> QED  BY <2>1 DEF WindowInv, GoodOrNone
<1> QED  BY <1>1, <1>2, <1>3, <1>4, <1>5

LEMMA WindowStep == TypeInv /\ WindowInv /\ [Next]_vars => WindowInv'
BY GroupWindow, PersistWindow, OtherWindow DEF Next

(* Every copy of an Event and every row is good; the next two follow.      *)
THEOREM EventsAreGood == Spec => []WindowInv
BY TypeInit, TypeInductive, WindowInit, WindowStep, PTL DEF Spec

(* No Event reaches the maximum timespan.                                  *)
THEOREM EventsAreCapped == Spec => []HardCap
<1>1. WindowInv => HardCap
  BY DEF WindowInv, GoodOrNone, Good, HardCap, Events
<1> QED  BY <1>1, EventsAreGood, PTL

(* No Event spans a silence longer than the sliding window.                *)
THEOREM EventsAreContinuous == Spec => []NoSilence
<1>1. WindowInv => NoSilence
  BY DEF WindowInv, GoodOrNone, Good, NoSilence, Events
<1> QED  BY <1>1, EventsAreGood, PTL

(***************************************************************************)
(* The Event that takes over a group's slot starts after the one it        *)
(* replaces ended, when the window is shorter than the maximum timespan.   *)
(* Merge decides it from base, which stays what the group has read until   *)
(* the upsert; Replacing (OutboxInv) says that the slot does too.          *)
(***************************************************************************)
Newer ==
    \A g \in Group :
        pc[g] \in Persisting \union {"upsert"} /\ base[g] # NoEvent
          => updated[g].id = base[g].id \/ updated[g].first > base[g].last

(* Neither late nor an extension: published after the Event ended.         *)
LEMMA StartedIsLater ==
    ASSUME SLIDING_WINDOW < EVENT_MAX_TIMESPAN,
           NEW event, Good(event), NEW t \in Int, ~is_late(event, t), ~Extends(event, t)
    PROVE  t > event.last
<1>1. /\ event.first \in Int /\ event.last \in Int
      /\ event.last - event.first < EVENT_MAX_TIMESPAN
      /\ event.last - t <= SLIDING_WINDOW
  BY DEF Good, Event, Capped, is_late
<1>2. SUFFICES ASSUME t <= event.last PROVE FALSE
  BY <1>1
<1>3. Later(t, event.last) = event.last /\ Distance(t, event.last) = event.last - t
  BY <1>1, <1>2 DEF Later, Distance
<1>4. SpanWith(event, t) >= EVENT_MAX_TIMESPAN
  BY <1>1, <1>3 DEF Extends, SpanWith, Earlier
<1>5. Earlier(t, event.first) \in {t, event.first}
  BY DEF Earlier
<1> QED  BY <1>1, <1>3, <1>4, <1>5 DEF SpanWith

LEMMA MergeNewer ==
    ASSUME SLIDING_WINDOW < EVENT_MAX_TIMESPAN, TypeInv, WindowInv,
           NEW g \in Group, Merge(g), base'[g] # NoEvent
    PROVE  updated'[g].id = base'[g].id \/ updated'[g].first > base'[g].last
<1>1. Work(g) \in EntityEvent /\ PublishedAt[Work(g)] \in Int
  BY WorkType DEF Merge
<1>2. /\ base' = base /\ Good(base[g])
      /\ ~is_late(base[g], PublishedAt[Work(g)])
  BY DEF Merge, IsLate, WindowInv, GoodOrNone
<1>3. updated \in [Group -> Event \union {NoEvent}]
  BY DEF TypeInv, TypeOK, EventsOK
<1>4. PICK freshId \in FreshIds :
        updated'[g] = merge_or_create(base[g], Work(g), PublishedAt[Work(g)], freshId)
  BY <1>3 DEF Merge
<1>5. CASE Extends(base[g], PublishedAt[Work(g)])
  BY <1>2, <1>4, <1>5 DEF merge_or_create, ExtendedBy
<1>6. CASE ~ Extends(base[g], PublishedAt[Work(g)])
  BY <1>1, <1>2, <1>4, <1>6, StartedIsLater DEF merge_or_create, StartedBy
<1> QED  BY <1>5, <1>6

(* Only Merge decides; until the upsert the others leave base and updated  *)
(* alone or forget base.                                                   *)
LEMMA NewerStep ==
    ASSUME SLIDING_WINDOW < EVENT_MAX_TIMESPAN, TypeInv, WindowInv, Newer, [Next]_vars
    PROVE  Newer'
<1> SUFFICES ASSUME NEW g \in Group,
                    pc'[g] \in Persisting \union {"upsert"}, base'[g] # NoEvent
             PROVE  updated'[g].id = base'[g].id \/ updated'[g].first > base'[g].last
  BY DEF Newer
<1> DEFINE Kept == /\ pc[g] \in Persisting \union {"upsert"}
                   /\ base'[g] = base[g] /\ updated'[g] = updated[g]
<1>1. Kept => updated'[g].id = base'[g].id \/ updated'[g].first > base'[g].last
  BY DEF Newer
<1>2. /\ Group \subseteq DOMAIN pc /\ Group \subseteq DOMAIN base
      /\ Group \subseteq DOMAIN updated
  BY DEF TypeInv, TypeOK, TasksOK, EventsOK, Process
<1>3. CASE UNCHANGED <<base, updated>> /\ pc'[g] = pc[g]
  BY <1>1, <1>3
<1>4. CASE \/ Read \/ ReadNothing \/ Claim \/ ScanAll \/ ScanFails
           \/ \E l \in Loop : LoopStep(l) \/ FetchFails(l)
           \/ StartLayer \/ StreamDown \/ StreamUp \/ Tick \/ UNCHANGED vars
  <2>1. UNCHANGED <<base, updated>>
    BY <1>4 DEF Read, ReadNothing, Claim, ScanAll, ScanFails, LoopStep,
       RouteToDeadLetter, SkipInFlight, RouteOne, EnqueueMerge, FindNoRow, PushDeadLetter,
       AckRouted, AckRoutedFails, FetchFails, StartLayer, StreamDown, StreamUp, Tick, vars,
       unrouted, unpersisted, groupVars, persistVars, stateVars
  <2>2. pc'[g] = pc[g]
    <3>1. CASE \E l \in Loop : LoopStep(l) \/ FetchFails(l)
      <4>1. PICK l \in Loop : LoopStep(l) \/ FetchFails(l)
        BY <3>1
      <4>2. UNCHANGED pc \/ \E to : pc' = [pc EXCEPT ![l] = to]
        BY <4>1 DEF LoopStep, RouteToDeadLetter, SkipInFlight, RouteOne, EnqueueMerge,
           FindNoRow, PushDeadLetter, AckRouted, AckRoutedFails, FetchFails, NextMessage
      <4>3. l # g
        BY DEF Loop
      <4> QED  BY <1>2, <4>2, <4>3
    <3>2. CASE Read \/ ReadNothing \/ Claim \/ ScanAll \/ ScanFails
      BY <1>2, <3>2 DEF Read, ReadNothing, Claim, ScanAll, ScanFails
    <3>3. CASE StartLayer \/ StreamDown \/ StreamUp \/ Tick \/ UNCHANGED vars
      BY <3>3 DEF StartLayer, StreamDown, StreamUp, Tick, vars
    <3> QED  BY <1>4, <3>1, <3>2, <3>3
  <2> QED  BY <1>3, <2>1, <2>2
<1>5. CASE CrashLayer \/ Shutdown \/ FinalFlushTimesOut \/ Exit \/ Crash
  <2>1. CASE Exit \/ Crash
    BY <2>1 DEF Exit, Crash, EndProcess
  <2>2. CASE CrashLayer \/ Shutdown \/ FinalFlushTimesOut
    <3>1. UNCHANGED <<base, updated>>
      BY <2>2 DEF CrashLayer, Shutdown, StopLoops, FinalFlushTimesOut, groupVars
    <3>2. pc'[g] = pc[g]
      BY <1>2, <2>2 DEF CrashLayer, Shutdown, StopLoops, FinalFlushTimesOut, NoFlush, Loop
    <3> QED  BY <1>3, <3>1, <3>2
  <2> QED  BY <1>5, <2>1, <2>2
<1>6. ASSUME NEW h \in Group, GroupStep(h) \/ CheckFails(h) \/ UpsertFails(h)
      PROVE  updated'[g].id = base'[g].id \/ updated'[g].first > base'[g].last
  <2>1. CASE h # g
    <3>1. UNCHANGED <<pc[g], base[g], updated[g]>>
      BY <1>2, <1>6, <2>1 DEF GroupStep, GetActiveEvent, SkipMerged, SkipLate, Merge,
         UpsertActiveEvent, AckMerged, AckMergedFails, CheckFails, UpsertFails, FailMerge,
         Settle, Leave
    <3> QED  BY <1>1, <3>1
  <2>2. CASE h = g /\ Merge(g)
    BY <2>2, MergeNewer
  <2>3. CASE h = g /\ ~ Merge(g)
    BY <1>2, <1>6, <2>3 DEF GroupStep, GetActiveEvent, SkipMerged, SkipLate,
       UpsertActiveEvent, AckMerged, AckMergedFails, CheckFails, UpsertFails, FailMerge,
       Settle, Leave, Persisting
  <2> QED  BY <2>1, <2>2, <2>3
<1>7. ASSUME NEW p \in Persister, PersistStep(p) \/ PersistFails(p)
      PROVE  updated'[g].id = base'[g].id \/ updated'[g].first > base'[g].last
  <2>1. pc[p] \in Persisting
    BY <1>7 DEF PersistStep, PersistEvents, SelectUnpublished, Publish, MarkPublished,
       PersistFails, Persisting
  <2>2. CASE PersistFails(p) /\ p = g
    BY <1>2, <2>2 DEF PersistFails, FailMerge, Leave, NoFlush
  <2>3. CASE p # g
    <3>1. UNCHANGED <<pc[g], base[g], updated[g]>>
      BY <1>2, <1>7, <2>3 DEF PersistStep, PersistEvents, SelectUnpublished, Publish,
         MarkPublished, PersistFails, Continue, NoFlush, FailMerge, Leave, groupVars,
         unpersisted
    <3> QED  BY <1>1, <3>1
  <2>4. CASE PersistStep(p) /\ p = g
    <3>1. UNCHANGED <<base, updated>>
      BY <2>4 DEF PersistStep, PersistEvents, SelectUnpublished, Publish, MarkPublished,
         groupVars, unpersisted
    <3> QED  BY <1>1, <2>1, <2>4, <3>1
  <2> QED  BY <1>7, <2>2, <2>3, <2>4
<1> QED  BY <1>4, <1>5, <1>6, <1>7 DEF Next

(* A replacement starts after the Event it replaces ended: the late check  *)
(* of _merge does keep an older Event from closing the live one early.     *)
THEOREM ReplacementsAreNewer ==
    ASSUME SLIDING_WINDOW < EVENT_MAX_TIMESPAN
    PROVE  Spec => ReplacementIsNewer
<1> DEFINE Step ==
      \A g \in Group :
          active[g] # NoEvent /\ active'[g] # NoEvent /\ active'[g].id # active[g].id
            => active'[g].first > active[g].last
<1>1. OutboxInv /\ Newer /\ [Next]_vars => [Step]_vars
  <2> SUFFICES ASSUME OutboxInv, Newer, [Next]_vars, NEW g \in Group,
                      active[g] # NoEvent, active'[g] # NoEvent,
                      active'[g].id # active[g].id
               PROVE  active'[g].first > active[g].last
    OBVIOUS
  <2>1. pc[g] = "upsert" /\ active'[g] = updated[g]
    <3>1. Next
      BY DEF vars, stateVars
    <3> QED  BY <3>1, OnlyUpsertReplaces DEF OutboxInv
  <2>2. active[g] = base[g]
    BY <2>1 DEF OutboxInv, Replacing
  <2> QED  BY <2>1, <2>2 DEF Newer
<1>2. Init => Newer
  BY DEF Init, Newer, Persisting, Process
<1>3. TypeInv /\ WindowInv /\ Newer /\ [Next]_vars => Newer'
  BY NewerStep
<1>4. Spec => []TypeInv
  BY TypeInit, TypeInductive, PTL DEF Spec
<1>5. Spec => []OutboxInv
  BY OutboxInit, OutboxInductive, PTL DEF Spec
<1>6. ReplacementIsNewer <=> [][Step]_vars
  BY DEF ReplacementIsNewer
<1> HIDE DEF Step
<1> QED  BY <1>1, <1>2, <1>3, <1>4, <1>5, <1>6, EventsAreGood, PTL DEF Spec

(***************************************************************************)
(* The stored Events are the ledger their readers count on.  Whatever copy *)
(* of an Event a persister commits, it is the row or a later version of    *)
(* it, because all copies of one Event are on one line: the row and the    *)
(* flush's copies come from the group's slot, the slot follows what a      *)
(* merge makes of it, and another group has no copy (Apart).               *)
(***************************************************************************)
Below(a, b) ==
    \/ a = b
    \/ /\ a.ver < b.ver /\ a.ees \subseteq b.ees
       /\ b.first <= a.first /\ a.last <= b.last

Behind(a, b) == a # NoEvent /\ b # NoEvent /\ a.id = b.id => Below(a, b)

(* A group's own copies: the slot, what its task read of it and made.      *)
OwnLine ==
    \A g \in Group :
        /\ base[g] # NoEvent => active[g] \in {base[g], NoEvent}
        /\ Behind(base[g], updated[g]) /\ Behind(active[g], updated[g])

(* No copy outside is ahead of a group's own.                              *)
BehindGroups(event) ==
    \A g \in Group :
        Behind(event, active[g]) /\ Behind(event, base[g]) /\ Behind(event, updated[g])

RowLine ==
    /\ \A id \in EventId : BehindGroups(stored[id])
    /\ \A event \in snapshot : BehindGroups(event)
    /\ \A event \in snapshot :
         Behind(event, stored[event.id]) \/ Behind(stored[event.id], event)

Stamped(event) == event # NoEvent => event.ver > 0

RowsKeyed ==
    \A id \in EventId : stored[id] # NoEvent =>
        /\ stored[id].id = id
        /\ \A e \in stored[id].ees : owner[e] # NoEvent

CopiesStamped ==
    /\ \A event \in snapshot : Stamped(event)
    /\ \A g \in Group : Stamped(active[g]) /\ Stamped(base[g]) /\ Stamped(updated[g])
    /\ \A id \in EventId : Stamped(stored[id])

LineInv == OwnLine /\ RowLine /\ RowsKeyed /\ CopiesStamped

LEMMA BelowTransitive ==
    ASSUME NEW a \in Event, NEW b \in Event, NEW c \in Event, Below(a, b), Below(b, c)
    PROVE  Below(a, c)
BY DEF Below, Event

LEMMA BehindThrough ==
    ASSUME NEW a \in Event \union {NoEvent}, NEW b \in Event, NEW c \in Event,
           Behind(a, b), b.id = c.id, Below(b, c)
    PROVE  Behind(a, c)
BY BelowTransitive DEF Behind

LEMMA EventTypes ==
    ASSUME TypeInv
    PROVE  /\ active \in [Group -> Event \union {NoEvent}]
           /\ base \in [Group -> Event \union {NoEvent}]
           /\ updated \in [Group -> Event \union {NoEvent}]
           /\ stored \in [EventId -> Event \union {NoEvent}]
           /\ snapshot \subseteq Event
BY DEF TypeInv, TypeOK, EventsOK

LEMMA LineInit == Init => LineInv
BY DEF Init, LineInv, OwnLine, RowLine, BehindGroups, Behind, RowsKeyed, CopiesStamped, Stamped

(* A step that only lets go of copies.                                     *)
LEMMA LineKept ==
    ASSUME LineInv, UNCHANGED <<stored, owner>>, snapshot' \subseteq snapshot,
           \A g \in Group :
             /\ active'[g] \in {active[g], NoEvent}
             /\ base'[g] \in {base[g], NoEvent}
             /\ updated'[g] \in {updated[g], NoEvent}
    PROVE  LineInv'
<1>1. OwnLine'
  BY DEF LineInv, OwnLine, Behind
<1>2. \A event : BehindGroups(event) => BehindGroups(event)'
  BY DEF BehindGroups, Behind
<1>3. RowLine'
  BY <1>2 DEF LineInv, RowLine
<1>4. RowsKeyed' /\ CopiesStamped'
  BY DEF LineInv, RowsKeyed, CopiesStamped, Stamped
<1> QED  BY <1>1, <1>3, <1>4 DEF LineInv

(* What a merge makes is on the line of what it was made of, or starts one *)
(* of its own.                                                             *)
LEMMA MadeLine ==
    ASSUME NEW event \in Event \union {NoEvent}, NEW e \in EntityEvent, NEW t \in Int,
           NEW freshId \in EventId
    PROVE  LET made == merge_or_create(event, e, t, freshId)
           IN  /\ made \in Event /\ made.ver > 0
               /\ \/ event # NoEvent /\ made.id = event.id /\ Below(event, made)
                  \/ made.id = freshId
<1> DEFINE made == merge_or_create(event, e, t, freshId)
<1>1. CASE event # NoEvent /\ Extends(event, t)
  <2>1. /\ event.first \in Int /\ event.last \in Int /\ event.ees \subseteq EntityEvent
        /\ event.id \in EventId /\ event.ver \in Nat
    BY <1>1 DEF Event
  <2>2. made = ExtendedBy(event, e, t)
    BY <1>1 DEF merge_or_create
  <2>3. /\ Earlier(event.first, t) \in Int /\ Later(event.last, t) \in Int
        /\ Earlier(event.first, t) <= event.first /\ event.last <= Later(event.last, t)
    BY <2>1 DEF Earlier, Later
  <2>4. ExtendedBy(event, e, t) \in Event
    BY <2>1, <2>3 DEF ExtendedBy, Event
  <2>5. Below(event, ExtendedBy(event, e, t))
    BY <2>1, <2>3 DEF Below, ExtendedBy
  <2> QED  BY <1>1, <2>1, <2>2, <2>4, <2>5 DEF ExtendedBy
<1>2. CASE ~(event # NoEvent /\ Extends(event, t))
  BY <1>2 DEF merge_or_create, StartedBy, Event
<1> QED  BY <1>1, <1>2

LEMMA MergeLine ==
    ASSUME TypeInv, LineInv, NEW g \in Group, Merge(g)
    PROVE  LineInv'
<1>1. PICK freshId \in FreshIds :
        updated' = [updated EXCEPT ![g] =
            merge_or_create(base[g], Work(g), PublishedAt[Work(g)], freshId)]
  BY DEF Merge
<1>2. UNCHANGED <<base, active, snapshot, stored, owner>>
  BY DEF Merge, stateVars, unmerged, persistVars, tableVars
<1> DEFINE made == merge_or_create(base[g], Work(g), PublishedAt[Work(g)], freshId)
<1>3. /\ made \in Event /\ made.ver > 0
      /\ \/ base[g] # NoEvent /\ made.id = base[g].id /\ Below(base[g], made)
         \/ made.id = freshId
  <2>1. Work(g) \in EntityEvent /\ PublishedAt[Work(g)] \in Int /\ freshId \in EventId
    BY WorkType DEF Merge, FreshIds
  <2> QED  BY <2>1, EventTypes, MadeLine
<1>4. updated'[g] = made /\ \A h \in Group \ {g} : updated'[h] = updated[h]
  BY <1>1, EventTypes
<1> HIDE DEF made
<1>5. ASSUME NEW a \in Event \union {NoEvent}, Behind(a, base[g]),
             a # NoEvent => a.id # freshId
      PROVE  Behind(a, made)
  <2>1. CASE made.id = freshId
    BY <1>5, <2>1 DEF Behind
  <2>2. CASE base[g] # NoEvent /\ made.id = base[g].id /\ Below(base[g], made)
    BY <1>3, <1>5, <2>2, EventTypes, BehindThrough
  <2> QED  BY <1>3, <2>1, <2>2
<1>6. /\ \A event \in snapshot : event.id # freshId
      /\ \A h \in Group : base[h] # NoEvent => base[h].id # freshId
      /\ \A h \in Group : active[h] # NoEvent => active[h].id # freshId
      /\ \A id \in EventId : stored[id] # NoEvent => stored[id].id # freshId
  <2>1. /\ \A event \in snapshot : event # NoEvent => event \in Copies
        /\ \A h \in Group : base[h] # NoEvent => base[h] \in Copies
        /\ \A h \in Group : active[h] # NoEvent => active[h] \in Copies
    BY DEF Copies
  <2>2. \A event \in snapshot : event # NoEvent
    BY EventTypes
  <2> HIDE DEF Copies
  <2>3. stored[freshId] = NoEvent /\ \A event \in Copies : event.id # freshId
    BY DEF FreshIds
  <2> QED  BY <2>1, <2>2, <2>3 DEF LineInv, RowsKeyed
<1>7. Behind(base[g], made) /\ Behind(active[g], made)
  <2>1. Behind(base[g], base[g])
    BY DEF Behind, Below
  <2>2. Behind(active[g], base[g])
    BY DEF LineInv, OwnLine, Behind, Below
  <2> QED  BY <1>5, <1>6, <2>1, <2>2, EventTypes
<1>8. OwnLine'
  BY <1>2, <1>4, <1>7 DEF LineInv, OwnLine
<1>9. ASSUME NEW a \in Event \union {NoEvent}, BehindGroups(a), a # NoEvent => a.id # freshId
      PROVE  BehindGroups(a)'
  BY <1>2, <1>4, <1>5, <1>9 DEF BehindGroups
<1>10. RowLine'
  BY <1>2, <1>6, <1>9, EventTypes DEF LineInv, RowLine
<1>11. RowsKeyed' /\ CopiesStamped'
  BY <1>2, <1>3, <1>4 DEF LineInv, RowsKeyed, CopiesStamped, Stamped
<1> QED  BY <1>8, <1>10, <1>11 DEF LineInv

(* The slot is read, and written with what was made of it.                 *)
LEMMA ReadLine ==
    ASSUME TypeInv, LineInv, NEW g \in Group, GetActiveEvent(g)
    PROVE  LineInv'
<1>1. /\ base'[g] = active[g] /\ \A h \in Group \ {g} : base'[h] = base[h]
      /\ UNCHANGED <<updated, active, snapshot, stored, owner>>
  BY EventTypes DEF GetActiveEvent, stateVars, unmerged, persistVars, tableVars
<1>2. OwnLine'
  BY <1>1 DEF LineInv, OwnLine
<1>3. \A event : BehindGroups(event) => BehindGroups(event)'
  BY <1>1 DEF BehindGroups
<1>4. RowLine'
  BY <1>1, <1>3 DEF LineInv, RowLine
<1>5. RowsKeyed' /\ CopiesStamped'
  BY <1>1 DEF LineInv, RowsKeyed, CopiesStamped
<1> QED  BY <1>2, <1>4, <1>5 DEF LineInv

LEMMA UpsertLine ==
    ASSUME TypeInv, LineInv, NEW g \in Group,
           \A h \in Group \ {g} :
             active'[h] = active[h] /\ base'[h] = base[h] /\ updated'[h] = updated[h],
           active'[g] \in {active[g], updated[g]}, base'[g] = NoEvent, updated'[g] = NoEvent,
           UNCHANGED <<snapshot, stored, owner>>
    PROVE  LineInv'
<1>1. OwnLine'
  BY DEF LineInv, OwnLine, Behind
<1>2. \A event : BehindGroups(event) => BehindGroups(event)'
  BY DEF BehindGroups, Behind
<1>3. RowLine'
  BY <1>2 DEF LineInv, RowLine
<1>4. RowsKeyed' /\ CopiesStamped'
  BY DEF LineInv, RowsKeyed, CopiesStamped, Stamped
<1> QED  BY <1>1, <1>3, <1>4 DEF LineInv

LEMMA GroupLine ==
    ASSUME TypeInv, LineInv, NEW g \in Group, GroupStep(g) \/ CheckFails(g) \/ UpsertFails(g)
    PROVE  LineInv'
<1>1. CASE GetActiveEvent(g)
  BY <1>1, ReadLine
<1>2. CASE Merge(g)
  BY <1>2, MergeLine
<1>3. CASE SkipMerged(g) \/ SkipLate(g) \/ UpsertActiveEvent(g) \/ AckMerged(g)
           \/ AckMergedFails(g) \/ CheckFails(g) \/ UpsertFails(g)
  <2>1. UNCHANGED <<snapshot, stored, owner>>
    BY <1>3 DEF SkipMerged, SkipLate, UpsertActiveEvent, AckMerged, AckMergedFails,
       CheckFails, UpsertFails, unmerged, persistVars, tableVars
  <2>2. /\ base'[g] = NoEvent /\ updated'[g] = NoEvent
        /\ \A h \in Group \ {g} : base'[h] = base[h] /\ updated'[h] = updated[h]
    BY <1>3, EventTypes DEF SkipMerged, SkipLate, UpsertActiveEvent, AckMerged,
       AckMergedFails, CheckFails, UpsertFails, FailMerge, Settle, Leave
  <2>3. /\ active'[g] \in {active[g], updated[g]}
        /\ \A h \in Group \ {g} : active'[h] = active[h]
    BY <1>3, EventTypes DEF SkipMerged, SkipLate, UpsertActiveEvent, AckMerged,
       AckMergedFails, CheckFails, UpsertFails, Upserted, stateVars
  <2> QED  BY <2>1, <2>2, <2>3, UpsertLine
<1> QED  BY <1>1, <1>2, <1>3 DEF GroupStep

(* A flush copies the slots, each at the head of its line.                 *)
LEMMA ScanLine ==
    ASSUME OutboxInv, LineInv, ScanAll
    PROVE  LineInv'
<1>1. UNCHANGED <<active, base, updated, stored, owner>>
  BY DEF ScanAll, groupVars, tableVars, unpersisted, stateVars
<1>2. CASE snapshot' \subseteq snapshot
  BY <1>1, <1>2, LineKept
<1>3. CASE snapshot' = {active[g] : g \in Group} \ {NoEvent}
  <2>1. ASSUME NEW g \in Group, active[g] # NoEvent
        PROVE  BehindGroups(active[g])
    <3> SUFFICES ASSUME NEW h \in Group
                 PROVE  /\ Behind(active[g], active[h]) /\ Behind(active[g], base[h])
                        /\ Behind(active[g], updated[h])
      BY DEF BehindGroups
    <3>1. CASE h = g
      BY <3>1 DEF LineInv, OwnLine, Behind, Below
    <3>2. CASE h # g
      <4>1. \A event \in {active[h], base[h], updated[h]} : event # NoEvent => event.id \in Ids(h)
        BY DEF Ids
      <4>2. active[g].id \in Ids(g)
        BY <2>1 DEF Ids
      <4>3. Ids(g) \intersect Ids(h) = {}
        BY <3>2 DEF OutboxInv, Apart
      <4> QED  BY <4>1, <4>2, <4>3 DEF Behind
    <3> QED  BY <3>1, <3>2
  <2>2. ASSUME NEW g \in Group, active[g] # NoEvent
        PROVE  Behind(stored[active[g].id], active[g])
    <3>1. active[g].id \in EventId
      BY <2>2, EventTypes DEF OutboxInv, Event
    <3> QED  BY <3>1 DEF LineInv, RowLine, BehindGroups
  <2>3. \A event \in snapshot' : \E g \in Group : event = active[g] /\ active[g] # NoEvent
    BY <1>3
  <2>4. \A event \in snapshot' :
          BehindGroups(event) /\ Behind(stored[event.id], event) /\ Stamped(event)
    BY <2>1, <2>2, <2>3 DEF LineInv, CopiesStamped
  <2>5. \A event : BehindGroups(event) => BehindGroups(event)'
    BY <1>1 DEF BehindGroups
  <2>6. RowLine'
    BY <1>1, <2>4, <2>5 DEF LineInv, RowLine
  <2>7. OwnLine' /\ RowsKeyed' /\ CopiesStamped'
    BY <1>1, <2>4 DEF LineInv, OwnLine, RowsKeyed, CopiesStamped
  <2> QED  BY <2>6, <2>7 DEF LineInv
<1> QED  BY <1>2, <1>3 DEF ScanAll

(* What a persister is given is on the line of the row it writes.          *)
LEMMA TargetLine ==
    ASSUME OutboxInv, LineInv, NEW p \in Persister, pc[p] = "persist", NEW event \in Target(p)
    PROVE  /\ event \in Event /\ event.ver > 0
           /\ BehindGroups(event)
           /\ Behind(event, stored[event.id]) \/ Behind(stored[event.id], event)
           /\ \A other \in snapshot : Behind(event, other) \/ Behind(other, event)
<1>1. event \in Event /\ event # NoEvent /\ event.id \in EventId
  BY TargetType DEF Persisting, OutboxInv, Event
<1>2. CASE p = Consumer
  <2>1. event \in snapshot
    BY <1>2 DEF Target, Changed
  <2>2. \A other \in snapshot : Behind(event, other)
    BY <2>1 DEF OutboxInv, Apart, Behind, Below
  <2> QED  BY <1>1, <2>1, <2>2 DEF LineInv, RowLine, CopiesStamped, Stamped
<1>3. CASE p # Consumer
  <2>1. p \in Group /\ event = base[p]
    BY <1>3 DEF Target, Persister
  <2>2. BehindGroups(event)
    <3> SUFFICES ASSUME NEW h \in Group
                 PROVE  /\ Behind(event, active[h]) /\ Behind(event, base[h])
                        /\ Behind(event, updated[h])
      BY DEF BehindGroups
    <3>1. CASE h = p
      BY <1>1, <2>1, <3>1 DEF LineInv, OwnLine, Behind, Below
    <3>2. CASE h # p
      <4>1. \A other \in {active[h], base[h], updated[h]} : other # NoEvent => other.id \in Ids(h)
        BY DEF Ids
      <4>2. event.id \in Ids(p)
        BY <1>1, <2>1 DEF Ids
      <4>3. Ids(p) \intersect Ids(h) = {}
        BY <2>1, <3>2 DEF OutboxInv, Apart
      <4> QED  BY <4>1, <4>2, <4>3 DEF Behind
    <3> QED  BY <3>1, <3>2
  <2>3. Behind(stored[event.id], event) /\ \A other \in snapshot : Behind(other, event)
    BY <1>1, <2>1 DEF LineInv, RowLine, BehindGroups
  <2> QED  BY <1>1, <2>1, <2>2, <2>3 DEF LineInv, CopiesStamped, Stamped
<1> QED  BY <1>2, <1>3

(* The rows after a commit.                                                *)
LEMMA RowsWritten ==
    ASSUME OutboxInv, NEW p \in Persister, PersistEvents(p), NEW id \in EventId
    PROVE  \/ /\ stored'[id] = stored[id]
              /\ \A event \in Target(p) : event.id = id => ~Overwrites(stored, event)
           \/ \E event \in Target(p) :
                event.id = id /\ Overwrites(stored, event) /\ stored'[id] = event
<1>1. \A event, other \in Target(p) : event.id = other.id => event = other
  BY TargetApart
<1>2. stored' = WithEvents(stored, Target(p))
  BY DEF PersistEvents
<1>3. CASE \E event \in Target(p) : event.id = id /\ Overwrites(stored, event)
  <2>1. PICK event \in Target(p) : event.id = id /\ Overwrites(stored, event)
    BY <1>3
  <2>2. (CHOOSE other \in Target(p) : other.id = id) = event
    BY <1>1, <2>1
  <2> QED  BY <1>2, <2>1, <2>2 DEF WithEvents
<1>4. CASE ~ \E event \in Target(p) : event.id = id /\ Overwrites(stored, event)
  BY <1>2, <1>4 DEF WithEvents
<1> QED  BY <1>3, <1>4

LEMMA MembersWritten ==
    ASSUME NEW p \in Persister, PersistEvents(p), NEW e \in EntityEvent
    PROVE  \/ owner'[e] = owner[e] /\ (owner[e] # NoEvent \/ \A event \in Target(p) : e \notin event.ees)
           \/ /\ owner[e] = NoEvent
              /\ \E event \in Target(p) : e \in event.ees /\ owner'[e] = event.id
<1>1. owner' = WithMemberships(owner, Target(p))
  BY DEF PersistEvents
<1>2. CASE owner[e] = NoEvent /\ \E event \in Target(p) : e \in event.ees
  <2>1. (CHOOSE event \in Target(p) : e \in event.ees) \in Target(p)
    BY <1>2
  <2>2. e \in (CHOOSE event \in Target(p) : e \in event.ees).ees
    BY <1>2
  <2> QED  BY <1>1, <1>2, <2>1, <2>2 DEF WithMemberships
<1>3. CASE ~(owner[e] = NoEvent /\ \E event \in Target(p) : e \in event.ees)
  BY <1>1, <1>3 DEF WithMemberships
<1> QED  BY <1>2, <1>3

LEMMA PersistEventsLine ==
    ASSUME OutboxInv, LineInv, NEW p \in Persister, PersistEvents(p)
    PROVE  LineInv'
<1>1. UNCHANGED <<base, updated, active, snapshot>>
  BY DEF PersistEvents, groupVars, persistVars, unpersisted, stateVars
<1>2. pc[p] = "persist" /\ TypeInv
  BY DEF PersistEvents, OutboxInv
<1>3. \A id \in EventId :
        \/ stored'[id] = stored[id]
        \/ stored'[id] \in Target(p) /\ stored'[id].id = id
  BY RowsWritten
<1>4. \A event : BehindGroups(event) => BehindGroups(event)'
  BY <1>1 DEF BehindGroups
<1>5. RowLine'
  <2>1. \A id \in EventId : BehindGroups(stored'[id])
    BY <1>2, <1>3, TargetLine DEF LineInv, RowLine
  <2>2. \A event \in snapshot :
          Behind(event, stored'[event.id]) \/ Behind(stored'[event.id], event)
    <3> SUFFICES ASSUME NEW event \in snapshot
                 PROVE  Behind(event, stored'[event.id]) \/ Behind(stored'[event.id], event)
      OBVIOUS
    <3>1. event.id \in EventId
      BY <1>2, EventTypes DEF Event
    <3>2. CASE stored'[event.id] = stored[event.id]
      BY <3>2 DEF LineInv, RowLine
    <3>3. CASE stored'[event.id] \in Target(p)
      BY <1>2, <3>3, TargetLine
    <3> QED  BY <1>3, <3>1, <3>2, <3>3
  <2> QED  BY <1>1, <1>4, <2>1, <2>2 DEF LineInv, RowLine
<1>6. RowsKeyed'
  <2> SUFFICES ASSUME NEW id \in EventId, stored'[id] # NoEvent
               PROVE  /\ stored'[id].id = id
                      /\ \A e \in stored'[id].ees : owner'[e] # NoEvent
    BY DEF RowsKeyed
  <2>1. \A e \in EntityEvent : owner[e] # NoEvent => owner'[e] # NoEvent
    BY MembersWritten
  <2>2. stored'[id] = stored[id] => stored[id] \in Event
    BY <1>2, EventTypes
  <2>3. CASE stored'[id] = stored[id]
    <3>1. stored[id].ees \subseteq EntityEvent
      BY <2>2, <2>3 DEF Event
    <3> QED  BY <2>1, <2>3, <3>1 DEF LineInv, RowsKeyed
  <2>4. CASE stored'[id] \in Target(p) /\ stored'[id].id = id
    <3>1. stored'[id].ees \subseteq EntityEvent
      BY <1>2, <2>4, TargetLine DEF Event
    <3>2. \A event \in Target(p) : event.id # NoEvent
      BY <1>2, TargetLine DEF Event
    <3>3. ASSUME NEW e \in stored'[id].ees PROVE owner'[e] # NoEvent
      <4>1. e \in EntityEvent
        BY <3>1
      <4> QED  BY <2>4, <3>2, <4>1, MembersWritten
    <3> QED  BY <2>4, <3>3
  <2> QED  BY <1>3, <2>3, <2>4
<1>7. OwnLine' /\ CopiesStamped'
  <2>1. \A id \in EventId : Stamped(stored'[id])
    BY <1>2, <1>3, TargetLine DEF LineInv, CopiesStamped, Stamped
  <2> QED  BY <1>1, <2>1 DEF LineInv, OwnLine, CopiesStamped
<1> QED  BY <1>5, <1>6, <1>7 DEF LineInv

LEMMA OtherLine ==
    ASSUME TypeInv, LineInv,
           \/ Read \/ ReadNothing \/ Claim \/ ScanFails
           \/ \E l \in Loop : LoopStep(l) \/ FetchFails(l)
           \/ \E p \in Persister : SelectUnpublished(p) \/ Publish(p) \/ MarkPublished(p)
                                   \/ PersistFails(p)
           \/ CrashLayer \/ Shutdown \/ FinalFlushTimesOut \/ Exit \/ Crash
           \/ StartLayer \/ StreamDown \/ StreamUp \/ Tick \/ UNCHANGED vars
    PROVE  LineInv'
<1>1. CASE \/ Read \/ ReadNothing \/ Claim \/ ScanFails
           \/ \E l \in Loop : LoopStep(l) \/ FetchFails(l)
           \/ StartLayer \/ StreamDown \/ StreamUp \/ UNCHANGED vars
  <2>1. UNCHANGED <<snapshot, active, base, updated, stored, owner>>
    BY <1>1 DEF Read, ReadNothing, Claim, ScanFails, LoopStep, RouteToDeadLetter,
       SkipInFlight, RouteOne, EnqueueMerge, FindNoRow, PushDeadLetter, AckRouted,
       AckRoutedFails, FetchFails, StartLayer, StreamDown, StreamUp, vars, unrouted,
       unpersisted, groupVars, persistVars, stateVars, tableVars
  <2> QED  BY <2>1, LineKept
<1>2. CASE \E p \in Persister : SelectUnpublished(p) \/ Publish(p) \/ MarkPublished(p)
                                \/ PersistFails(p)
  <2>1. PICK p \in Persister : SelectUnpublished(p) \/ Publish(p) \/ MarkPublished(p)
                               \/ PersistFails(p)
    BY <1>2
  <2>2. UNCHANGED <<active, stored, owner>> /\ snapshot' \subseteq snapshot
    BY <2>1 DEF SelectUnpublished, Publish, MarkPublished, PersistFails, Continue, NoFlush,
       unpersisted, stateVars, tableVars
  <2>3. \A h \in Group : base'[h] \in {base[h], NoEvent} /\ updated'[h] \in {updated[h], NoEvent}
    BY <2>1, EventTypes DEF SelectUnpublished, Publish, MarkPublished, PersistFails,
       FailMerge, Leave, groupVars
  <2> QED  BY <2>2, <2>3, LineKept
<1>3. CASE CrashLayer \/ Shutdown \/ FinalFlushTimesOut
  <2>1. UNCHANGED <<active, base, updated, stored, owner>> /\ snapshot' = {}
    BY <1>3 DEF CrashLayer, Shutdown, StopLoops, FinalFlushTimesOut, NoFlush, groupVars,
       stateVars, tableVars
  <2> QED  BY <2>1, LineKept
<1>4. CASE Exit \/ Crash
  <2>1. /\ UNCHANGED <<active, stored, owner>> /\ snapshot' = {}
        /\ \A g \in Group : base'[g] = NoEvent /\ updated'[g] = NoEvent
    BY <1>4 DEF Exit, Crash, EndProcess, stateVars, tableVars
  <2> QED  BY <2>1, LineKept
<1>5. CASE Tick
  <2>1. /\ UNCHANGED <<snapshot, base, updated, stored, owner>>
        /\ \A g \in Group : active'[g] \in {active[g], NoEvent}
    BY <1>5 DEF Tick, groupVars, persistVars, tableVars
  <2> QED  BY <2>1, LineKept
<1> QED  BY <1>1, <1>2, <1>3, <1>4, <1>5

LEMMA LineStep == OutboxInv /\ LineInv /\ [Next]_vars => LineInv'
<1> SUFFICES ASSUME OutboxInv, LineInv, [Next]_vars PROVE LineInv'
  OBVIOUS
<1>1. CASE ScanAll
  BY <1>1, ScanLine
<1>2. CASE \E p \in Persister : PersistEvents(p)
  BY <1>2, PersistEventsLine
<1>3. CASE \E g \in Group : GroupStep(g) \/ CheckFails(g) \/ UpsertFails(g)
  BY <1>3, GroupLine DEF OutboxInv
<1> QED  BY <1>1, <1>2, <1>3, OtherLine DEF Next, PersistStep, OutboxInv

(* What is announced is in its row, and what is marked was announced.      *)
AnnounceInv ==
    /\ \A id \in EventId : announced[id] <= StoredVersion(stored, id)
    /\ \A p \in Persister : \A x \in outbox[p] : stored[x.id] # NoEvent
    /\ \A p \in Persister : pc[p] = "mark" => current[p].ver <= announced[current[p].id]

LEMMA AnnounceInit == Init => AnnounceInv
BY DEF Init, AnnounceInv, StoredVersion, Persister, Process, Loop

LEMMA AnnounceKept ==
    ASSUME TypeInv, AnnounceInv, announced' = announced,
           \A id \in EventId : StoredVersion(stored, id) <= StoredVersion(stored', id),
           \A id \in EventId : StoredVersion(stored', id) \in Nat,
           \A id \in EventId : stored[id] # NoEvent => stored'[id] # NoEvent,
           \A p \in Persister :
             /\ \A x \in outbox'[p] : x \in outbox[p] \/ (x.id \in EventId /\ stored'[x.id] # NoEvent)
             /\ pc'[p] = "mark" => pc[p] = "mark" /\ current'[p] = current[p]
    PROVE  AnnounceInv'
<1>1. announced \in [EventId -> Nat] /\ \A p \in Persister : outbox[p] \subseteq Version
  BY DEF TypeInv, TypeOK, TablesOK
<1>2. \A id \in EventId : announced[id] <= StoredVersion(stored', id)
  BY <1>1, StoredVersions DEF AnnounceInv
<1>3. \A p \in Persister : \A x \in outbox'[p] : stored'[x.id] # NoEvent
  BY <1>1 DEF AnnounceInv, Version
<1> QED  BY <1>2, <1>3 DEF AnnounceInv

(* Of the steps that write no row, only Publish announces, and a persister *)
(* comes to its mark from there alone.                                     *)
LEMMA QuietAnnounce ==
    ASSUME TypeInv, AnnounceInv, stored' = stored, announced' = announced,
           \A p \in Persister :
             /\ \A x \in outbox'[p] : x \in outbox[p] \/ (x.id \in EventId /\ stored[x.id] # NoEvent)
             /\ pc'[p] = "mark" => pc[p] = "mark" /\ current'[p] = current[p]
    PROVE  AnnounceInv'
<1>1. \A id \in EventId : StoredVersion(stored, id) \in Nat
  BY StoredVersions
<1>2. \A id \in EventId : StoredVersion(stored, id) <= StoredVersion(stored', id)
  BY <1>1
<1> QED  BY <1>1, <1>2, AnnounceKept DEF StoredVersion

LEMMA LoopAnnounce ==
    ASSUME TypeInv, AnnounceInv,
           \/ Read \/ ReadNothing \/ Claim \/ ScanAll \/ ScanFails
           \/ \E l \in Loop : LoopStep(l) \/ FetchFails(l)
           \/ CrashLayer \/ Shutdown \/ FinalFlushTimesOut \/ Exit \/ Crash
           \/ StartLayer \/ StreamDown \/ StreamUp \/ Tick \/ UNCHANGED vars
    PROVE  AnnounceInv' /\ UNCHANGED <<stored, owner, announced, published>>
<1>0. /\ pc \in [Process -> Place] /\ Persister \subseteq Process /\ Loop \subseteq Process
      /\ outbox \in [Persister -> SUBSET Version] /\ Consumer \in Persister
      /\ current \in [Persister -> Version \union {NoEvent}]
  BY DEF TypeInv, TypeOK, TasksOK, TablesOK, Persister, Process, Loop
<1>1. CASE \E l \in Loop : LoopStep(l) \/ FetchFails(l)
  <2>1. PICK l \in Loop : LoopStep(l) \/ FetchFails(l)
    BY <1>1
  <2>2. UNCHANGED <<stored, owner, announced, published, outbox, current>>
    BY <2>1 DEF LoopStep, RouteToDeadLetter, SkipInFlight, RouteOne, EnqueueMerge, FindNoRow,
       PushDeadLetter, AckRouted, AckRoutedFails, FetchFails, unrouted, persistVars, tableVars
  <2>3. PICK next : next # "mark" /\ pc' = [pc EXCEPT ![l] = next]
    BY <2>1 DEF LoopStep, RouteToDeadLetter, SkipInFlight, RouteOne, EnqueueMerge, FindNoRow,
       PushDeadLetter, AckRouted, AckRoutedFails, FetchFails, NextMessage
  <2>4. \A p \in Persister : pc'[p] = "mark" => pc[p] = "mark"
    BY <1>0, <2>3
  <2> QED  BY <2>2, <2>4, QuietAnnounce
<1>2. CASE Read \/ ReadNothing \/ Claim \/ ScanAll \/ ScanFails
  <2>1. UNCHANGED <<stored, owner, announced, published, outbox, current>>
    BY <1>2 DEF Read, ReadNothing, Claim, ScanAll, ScanFails, unrouted, persistVars, tableVars
  <2>2. \A p \in Persister : pc'[p] = "mark" => pc[p] = "mark"
    BY <1>0, <1>2 DEF Read, ReadNothing, Claim, ScanAll, ScanFails
  <2> QED  BY <2>1, <2>2, QuietAnnounce
<1>3. CASE CrashLayer \/ Shutdown \/ FinalFlushTimesOut
  <2>1. UNCHANGED <<stored, owner, announced, published>>
    BY <1>3 DEF CrashLayer, Shutdown, StopLoops, FinalFlushTimesOut, tableVars
  <2>2. NoFlush
    BY <1>3 DEF CrashLayer, Shutdown, StopLoops, FinalFlushTimesOut
  <2>3. \A p \in Persister : outbox'[p] \subseteq outbox[p]
    BY <1>0, <2>2 DEF NoFlush
  <2>4. pc'[Consumer] # "mark" /\ \A p \in Persister \ {Consumer} : pc'[p] = pc[p]
    BY <1>0, <1>3 DEF CrashLayer, Shutdown, StopLoops, FinalFlushTimesOut, Persister, Loop
  <2>5. \A p \in Persister \ {Consumer} : current'[p] = current[p]
    BY <1>0, <2>2 DEF NoFlush
  <2> QED  BY <2>1, <2>3, <2>4, <2>5, QuietAnnounce
<1>4. CASE Exit \/ Crash
  <2>1. /\ UNCHANGED <<stored, owner, announced, published>>
        /\ \A p \in Persister : outbox'[p] = {} /\ pc'[p] = "idle"
    BY <1>0, <1>4 DEF Exit, Crash, EndProcess, tableVars
  <2> QED  BY <2>1, QuietAnnounce
<1>5. CASE StartLayer \/ StreamDown \/ StreamUp \/ Tick \/ UNCHANGED vars
  <2>1. UNCHANGED <<stored, owner, announced, published, outbox, current, pc>>
    BY <1>5 DEF StartLayer, StreamDown, StreamUp, Tick, vars, persistVars, tableVars
  <2> QED  BY <2>1, QuietAnnounce
<1> QED  BY <1>1, <1>2, <1>3, <1>4, <1>5

LEMMA GroupAnnounce ==
    ASSUME TypeInv, AnnounceInv, NEW g \in Group,
           GroupStep(g) \/ CheckFails(g) \/ UpsertFails(g)
    PROVE  AnnounceInv' /\ UNCHANGED <<stored, owner, announced, published>>
<1>1. UNCHANGED <<stored, owner, announced, published, outbox, current>>
  BY DEF GroupStep, GetActiveEvent, SkipMerged, SkipLate, Merge, UpsertActiveEvent, AckMerged,
     AckMergedFails, CheckFails, UpsertFails, unmerged, persistVars, tableVars
<1>2. PICK next \in {"check", "ack", "persist", "upsert", "idle"} : pc' = [pc EXCEPT ![g] = next]
  BY DEF GroupStep, GetActiveEvent, SkipMerged, SkipLate, Merge, UpsertActiveEvent, AckMerged,
     AckMergedFails, CheckFails, UpsertFails, FailMerge, Settle, Leave
<1>3. \A p \in Persister : pc'[p] = "mark" => pc[p] = "mark"
  BY <1>2 DEF TypeInv, TypeOK, TasksOK, Persister, Process, Loop
<1> QED  BY <1>1, <1>3, QuietAnnounce

LEMMA SelectAnnounce ==
    ASSUME TypeInv, AnnounceInv, NEW p \in Persister, SelectUnpublished(p) \/ PersistFails(p)
    PROVE  AnnounceInv' /\ UNCHANGED <<stored, owner, announced, published>>
<1>0. /\ pc \in [Process -> Place] /\ Persister \subseteq Process
      /\ outbox \in [Persister -> SUBSET Version]
      /\ published \in [EventId -> Nat]
      /\ current \in [Persister -> Version \union {NoEvent}]
  BY DEF TypeInv, TypeOK, TasksOK, TablesOK, Persister, Process, Loop
<1>1. CASE PersistFails(p)
  <2>1. UNCHANGED <<stored, owner, announced, published>>
    BY <1>1 DEF PersistFails, tableVars
  <2>2. /\ outbox' = [outbox EXCEPT ![p] = {}] /\ current' = [current EXCEPT ![p] = NoEvent]
        /\ pc' = [pc EXCEPT ![p] = "idle"]
    BY <1>1 DEF PersistFails, NoFlush, FailMerge, Leave
  <2>3. \A q \in Persister : outbox'[q] \subseteq outbox[q]
    BY <1>0, <2>2
  <2>4. \A q \in Persister : pc'[q] = "mark" => pc[q] = "mark" /\ current'[q] = current[q]
    BY <1>0, <2>2
  <2> QED  BY <2>1, <2>3, <2>4, QuietAnnounce
<1>2. CASE SelectUnpublished(p)
  <2> DEFINE found == Unpublished(stored, published, {event.id : event \in Target(p)})
  <2>1. UNCHANGED <<stored, owner, announced, published, current>>
    BY <1>2 DEF SelectUnpublished, tableVars
  <2>2. outbox' = [outbox EXCEPT ![p] = found] /\ Continue(p, found)
    BY <1>2 DEF SelectUnpublished
  <2>3. \A x \in found : x.id \in EventId /\ stored[x.id] # NoEvent
    <3>1. \A event \in Target(p) : event.id \in EventId
      BY <1>2, TargetType DEF SelectUnpublished, Persisting, Event
    <3>2. \A x \in found : \E event \in Target(p) :
            x.id = event.id /\ published[event.id] < StoredVersion(stored, event.id)
      BY DEF Unpublished
    <3>3. \A id \in EventId : published[id] < StoredVersion(stored, id) => stored[id] # NoEvent
      BY <1>0 DEF StoredVersion
    <3> HIDE DEF found
    <3> QED  BY <3>1, <3>2, <3>3
  <2> HIDE DEF found
  <2>4. \A q \in Persister : pc'[q] = "mark" => pc[q] = "mark"
    BY <1>0, <2>2 DEF Continue
  <2>5. \A q \in Persister : \A x \in outbox'[q] :
          x \in outbox[q] \/ (x.id \in EventId /\ stored[x.id] # NoEvent)
    BY <1>0, <2>2, <2>3
  <2> QED  BY <2>1, <2>4, <2>5, QuietAnnounce
<1> QED  BY <1>1, <1>2

(***************************************************************************)
(* Each write is a step of the ledger.                                     *)
(***************************************************************************)
LEMMA PublishLedger ==
    ASSUME OutboxInv, AnnounceInv, NEW p \in Persister, Publish(p)
    PROVE  AnnounceInv' /\ Ledger!Next
<1>1. PICK x \in outbox[p] :
        /\ current' = [current EXCEPT ![p] = x]
        /\ outbox' = [outbox EXCEPT ![p] = @ \ {x}]
        /\ announced' = [announced EXCEPT ![x.id] = StoredVersion(stored, x.id)]
  BY DEF Publish
<1>2. /\ pc' = [pc EXCEPT ![p] = "mark"]
      /\ UNCHANGED <<stored, owner, published>>
  BY DEF Publish
<1>3. /\ pc \in [Process -> Place] /\ p \in Process /\ Persister \subseteq Process
      /\ outbox \in [Persister -> SUBSET Version]
      /\ current \in [Persister -> Version \union {NoEvent}]
      /\ announced \in [EventId -> Nat]
  BY DEF OutboxInv, TypeInv, TypeOK, TasksOK, TablesOK, Persister, Process, Loop
<1>4. x \in Version /\ x.id \in EventId /\ x.ver \in Nat
  BY <1>3 DEF Version
<1>5. /\ \A id \in EventId : StoredVersion(stored, id) \in Nat
      /\ \A q \in Persister : pc[q] = "mark" => current[q].id \in EventId /\ current[q].ver \in Nat
  BY StoredVersions DEF OutboxInv
<1>6. x.ver <= StoredVersion(stored, x.id) /\ stored[x.id] # NoEvent
  BY DEF OutboxInv, Publishing, MarksStored, AnnounceInv
<1>7. \A id \in EventId :
        announced[id] <= announced'[id] /\ announced'[id] <= StoredVersion(stored, id)
        /\ announced'[id] \in Nat
  BY <1>1, <1>3, <1>4, <1>5 DEF AnnounceInv
<1>8. AnnounceInv'
  <2>1. \A id \in EventId : announced'[id] <= StoredVersion(stored', id)
    BY <1>2, <1>7
  <2>2. \A q \in Persister : \A y \in outbox'[q] : stored'[y.id] # NoEvent
    BY <1>1, <1>2, <1>3 DEF AnnounceInv
  <2>3. ASSUME NEW q \in Persister, pc'[q] = "mark"
        PROVE  current'[q].ver <= announced'[current'[q].id]
    <3>1. CASE q = p
      BY <1>1, <1>3, <1>4, <1>6, <3>1
    <3>2. CASE q # p
      <4>1. pc[q] = "mark" /\ current'[q] = current[q]
        BY <1>1, <1>2, <1>3, <2>3, <3>2
      <4> QED  BY <1>3, <1>5, <1>7, <4>1 DEF AnnounceInv
    <3> QED  BY <3>1, <3>2
  <2> QED  BY <2>1, <2>2, <2>3 DEF AnnounceInv
<1>9. PICK id \in EventId : id = x.id
  BY <1>4
<1>10. announced' = [announced EXCEPT ![id] = stored[id].ver]
  BY <1>1, <1>6, <1>9 DEF StoredVersion
<1>11. Ledger!Announce(id)
  BY <1>2, <1>6, <1>9, <1>10 DEF Ledger!Announce
<1> QED  BY <1>8, <1>11 DEF Ledger!Next

LEMMA MarkLedger ==
    ASSUME OutboxInv, AnnounceInv, NEW p \in Persister, MarkPublished(p)
    PROVE  AnnounceInv' /\ [Ledger!Next]_(Ledger!ledger)
<1>1. /\ published' = WithMark(published, current[p].id, current[p].ver)
      /\ current' = [current EXCEPT ![p] = NoEvent]
      /\ Continue(p, outbox[p])
      /\ UNCHANGED <<outbox, stored, owner, announced>>
      /\ pc[p] = "mark"
  BY DEF MarkPublished
<1>2. /\ pc \in [Process -> Place] /\ Persister \subseteq Process
      /\ published \in [EventId -> Nat]
      /\ current \in [Persister -> Version \union {NoEvent}]
  BY DEF OutboxInv, TypeInv, TypeOK, TasksOK, TablesOK, Persister, Process, Loop
<1>3. current[p].id \in EventId /\ current[p].ver \in Nat
  BY <1>1, StoredVersions DEF OutboxInv
<1>4. AnnounceInv'
  <2>1. \A q \in Persister : pc'[q] = "mark" => pc[q] = "mark" /\ current'[q] = current[q]
    BY <1>1, <1>2 DEF Continue
  <2> QED  BY <1>1, <2>1, QuietAnnounce DEF OutboxInv
<1>5. PICK id \in EventId : id = current[p].id
  BY <1>3
<1>6. PICK ver \in Nat : ver = current[p].ver
  BY <1>3
<1>7. published' = [published EXCEPT ![id] = IF published[id] < ver THEN ver ELSE published[id]]
  BY <1>1, <1>5, <1>6 DEF WithMark
<1>8. ver <= announced[id]
  BY <1>1, <1>5, <1>6 DEF AnnounceInv
<1>9. CASE published[id] < ver
  <2>1. published' = [published EXCEPT ![id] = ver] /\ published'[id] = ver
    BY <1>2, <1>7, <1>9
  <2>2. Ledger!Mark(id)
    BY <1>1, <1>8, <1>9, <2>1 DEF Ledger!Mark
  <2> QED  BY <1>4, <2>2 DEF Ledger!Next
<1>10. CASE ~(published[id] < ver)
  <2>1. published' = published
    BY <1>2, <1>7, <1>10
  <2> QED  BY <1>1, <1>4, <2>1 DEF Ledger!ledger
<1> QED  BY <1>9, <1>10

LEMMA PersistLedger ==
    ASSUME OutboxInv, LineInv, AnnounceInv, LineInv', NEW p \in Persister, PersistEvents(p)
    PROVE  AnnounceInv' /\ Ledger!Next
<1>1. /\ UNCHANGED <<outbox, current, announced, published>>
      /\ pc[p] = "persist" /\ pc' = [pc EXCEPT ![p] = "select"]
  BY DEF PersistEvents, persistVars
<1>2. TypeInv /\ TypeInv'
  BY PersistEventsType DEF OutboxInv
<1>3. /\ stored \in [EventId -> Event \union {NoEvent}]
      /\ pc \in [Process -> Place] /\ Persister \subseteq Process
      /\ \A id \in EventId : StoredVersion(stored, id) \in Nat
  BY <1>2, StoredVersions DEF TypeInv, TypeOK, TasksOK, EventsOK, Persister, Process, Loop
<1>4. \A id \in EventId : StoredVersion(stored', id) \in Nat
  BY <1>2 DEF TypeInv, TypeOK, EventsOK, StoredVersion, Event
<1>5. ASSUME NEW id \in EventId, stored'[id] # stored[id]
      PROVE  Ledger!Grows(id)
  <2>1. PICK event \in Target(p) :
          event.id = id /\ Overwrites(stored, event) /\ stored'[id] = event
    BY <1>5, RowsWritten
  <2>2. /\ event \in Event
        /\ Behind(event, stored[id]) \/ Behind(stored[id], event)
    BY <1>1, <2>1, TargetLine
  <2>3. StoredVersion(stored, id) < event.ver
    BY <2>1 DEF Overwrites
  <2>4. stored[id] # NoEvent =>
          /\ stored[id].ees \subseteq event.ees
          /\ event.first <= stored[id].first /\ stored[id].last <= event.last
    <3> SUFFICES ASSUME stored[id] # NoEvent
                 PROVE  /\ stored[id].ees \subseteq event.ees
                        /\ event.first <= stored[id].first /\ stored[id].last <= event.last
      OBVIOUS
    <3>1. stored[id] \in Event /\ stored[id].id = id /\ event # NoEvent
      BY <1>3, <2>2 DEF LineInv, RowsKeyed
    <3>2. stored[id].ver < event.ver /\ stored[id].ver \in Nat /\ event.ver \in Nat
      BY <2>2, <2>3, <3>1 DEF StoredVersion, Event
    <3>3. Below(event, stored[id]) \/ Below(stored[id], event)
      BY <2>1, <2>2, <3>1 DEF Behind
    <3> QED  BY <3>2, <3>3 DEF Below
  <2> QED  BY <2>1, <2>2, <2>3, <2>4
           DEF Ledger!Grows, Ledger!Event, Event, Ledger!StoredVersion, StoredVersion
<1>6. ASSUME NEW e \in EntityEvent, owner'[e] # owner[e]
      PROVE  Ledger!Joins(e)
  <2>1. PICK event \in Target(p) :
          owner[e] = NoEvent /\ e \in event.ees /\ owner'[e] = event.id
    BY <1>6, MembersWritten
  <2>2. PICK id \in EventId : id = event.id
    BY <1>1, TargetLine DEF Event
  <2>3. /\ event \in Event /\ event # NoEvent /\ event.ver > 0 /\ event.ver \in Nat
        /\ Behind(event, stored[id]) \/ Behind(stored[id], event)
    BY <1>1, <2>2, TargetLine DEF Event
  <2>4. stored'[id] # NoEvent /\ e \in stored'[id].ees
    <3>1. CASE stored'[id] = event
      BY <2>1, <2>3, <3>1
    <3>2. CASE stored'[id] = stored[id] /\ ~Overwrites(stored, event)
      <4>1. event.ver <= StoredVersion(stored, id)
        BY <1>3, <2>2, <2>3, <3>2 DEF Overwrites
      <4>2. stored[id] # NoEvent
        BY <2>3, <4>1 DEF StoredVersion
      <4>3. stored[id] \in Event /\ stored[id].id = id /\ event.ver <= stored[id].ver
        BY <1>3, <4>1, <4>2 DEF LineInv, RowsKeyed, StoredVersion
      <4>4. Below(event, stored[id]) \/ Below(stored[id], event)
        BY <2>2, <2>3, <4>2, <4>3 DEF Behind
      <4>5. stored[id].ver \in Nat
        BY <4>3 DEF Event
      <4>6. event.ees \subseteq stored[id].ees
        BY <2>3, <4>3, <4>4, <4>5 DEF Below
      <4> QED  BY <2>1, <3>2, <4>2, <4>6
    <3>3. \A other \in Target(p) : other.id = event.id => other = event
      BY TargetApart
    <3> QED  BY <2>2, <3>1, <3>2, <3>3, RowsWritten
  <2> QED  BY <2>1, <2>2, <2>4 DEF Ledger!Joins
<1>7. \A id \in EventId : stored'[id] # NoEvent =>
        \A e \in stored'[id].ees : owner'[e] # NoEvent
  BY DEF LineInv, RowsKeyed
<1>8. Ledger!Persist
  BY <1>1, <1>5, <1>6, <1>7 DEF Ledger!Persist
<1>9. AnnounceInv'
  <2>1. \A id \in EventId : StoredVersion(stored, id) <= StoredVersion(stored', id)
    <3>1. Target(p) \subseteq Event
      BY <1>1, <1>2, TargetType DEF Persisting
    <3> QED  BY <1>2, <3>1, StoredGrows, TargetApart DEF PersistEvents
  <2>2. \A id \in EventId : stored[id] # NoEvent => stored'[id] # NoEvent
    <3>1. ASSUME NEW id \in EventId, stored'[id] # stored[id]
          PROVE  stored'[id] # NoEvent
      <4>1. stored'[id] \in Event
        BY <1>1, <3>1, RowsWritten, TargetLine
      <4> QED  BY <4>1
    <3> QED  BY <3>1
  <2>3. \A q \in Persister : pc'[q] = "mark" => pc[q] = "mark"
    BY <1>1, <1>3
  <2>4. \A q \in Persister : \A x \in outbox'[q] : x \in outbox[q]
    BY <1>1
  <2> QED  BY <1>1, <1>2, <1>4, <2>1, <2>2, <2>3, <2>4, AnnounceKept
<1> QED  BY <1>8, <1>9 DEF Ledger!Next

LEMMA LedgerOfStep ==
    OutboxInv /\ LineInv /\ AnnounceInv /\ [Next]_vars
      => AnnounceInv' /\ [Ledger!Next]_(Ledger!ledger)
<1> SUFFICES ASSUME OutboxInv, LineInv, AnnounceInv, [Next]_vars
             PROVE  AnnounceInv' /\ [Ledger!Next]_(Ledger!ledger)
  OBVIOUS
<1>1. TypeInv /\ LineInv'
  BY LineStep DEF OutboxInv
<1>2. CASE \/ Read \/ ReadNothing \/ Claim \/ ScanAll \/ ScanFails
           \/ \E l \in Loop : LoopStep(l) \/ FetchFails(l)
           \/ CrashLayer \/ Shutdown \/ FinalFlushTimesOut \/ Exit \/ Crash
           \/ StartLayer \/ StreamDown \/ StreamUp \/ Tick \/ UNCHANGED vars
  BY <1>1, <1>2, LoopAnnounce DEF Ledger!ledger
<1>3. CASE \E g \in Group : GroupStep(g) \/ CheckFails(g) \/ UpsertFails(g)
  BY <1>1, <1>3, GroupAnnounce DEF Ledger!ledger
<1>4. CASE \E p \in Persister : SelectUnpublished(p) \/ PersistFails(p)
  BY <1>1, <1>4, SelectAnnounce DEF Ledger!ledger
<1>5. CASE \E p \in Persister : PersistEvents(p)
  BY <1>1, <1>5, PersistLedger
<1>6. CASE \E p \in Persister : Publish(p)
  BY <1>6, PublishLedger
<1>7. CASE \E p \in Persister : MarkPublished(p)
  BY <1>7, MarkLedger
<1> QED  BY <1>2, <1>3, <1>4, <1>5, <1>6, <1>7 DEF Next, PersistStep

(* The tables are the ledger: rows and memberships only grow, in one       *)
(* transaction, and no mark overtakes its announcement, whatever order the *)
(* flush and the groups write in and whatever fails (persist_events,       *)
(* _persist_and_publish).                                                  *)
THEOREM LedgerIsKept == Spec => ImplementsLedger
<1>1. Init => Ledger!Init
  BY DEF Init, Ledger!Init
<1>2. Spec => []OutboxInv
  BY OutboxInit, OutboxInductive, PTL DEF Spec
<1> QED  BY <1>1, <1>2, LineInit, LineStep, AnnounceInit, LedgerOfStep, PTL
         DEF Spec, ImplementsLedger, Ledger!Spec

(***************************************************************************)
(* The ledger the Aggregation layer keeps is the feed the Scoring layer    *)
(* relies on: what Aggregation is checked to implement and what Scoring is *)
(* built on fit together.                                                  *)
(***************************************************************************)
rowVersion == [id \in EventId |-> StoredVersion(stored, id)]

Feed == INSTANCE EventFeed WITH
    Event <- EventId,
    Version <- Nat,
    version <- rowVersion

(* A stored row has a version above 0.                                     *)
StoredInv ==
    /\ \A id \in EventId : stored[id] # NoEvent => stored[id].ver \in Nat \ {0}
    /\ announced \in [EventId -> Nat]
    /\ published \in [EventId -> Nat]

LEMMA RowVersions ==
    ASSUME StoredInv
    PROVE  /\ rowVersion \in [EventId -> Nat]
           /\ \A id \in EventId : rowVersion[id] = StoredVersion(stored, id)
  BY DEF StoredInv, rowVersion, StoredVersion

LEMMA LedgerStep == StoredInv /\ [Ledger!Next]_(Ledger!ledger) => StoredInv' /\ [Feed!Next]_(Feed!feed)
<1> SUFFICES ASSUME StoredInv, [Ledger!Next]_(Ledger!ledger)
             PROVE  StoredInv' /\ [Feed!Next]_(Feed!feed)
  OBVIOUS
<1>1. CASE UNCHANGED Ledger!ledger
  <2>1. UNCHANGED <<stored, announced, published>>
    BY <1>1 DEF Ledger!ledger
  <2>2. StoredInv' /\ UNCHANGED rowVersion
    BY <2>1 DEF StoredInv, rowVersion, StoredVersion
  <2> QED  BY <2>1, <2>2 DEF Feed!feed
<1>2. CASE Ledger!Persist
  <2>1. UNCHANGED <<announced, published>>
    BY <1>2 DEF Ledger!Persist
  <2>2. \A id \in EventId : stored'[id] = stored[id] \/ Ledger!Grows(id)
    BY <1>2 DEF Ledger!Persist
  <2>3. ASSUME NEW id \in EventId, stored'[id] # NoEvent
        PROVE  stored'[id].ver \in Nat \ {0}
    <3>1. CASE stored'[id] = stored[id]
      BY <2>3, <3>1 DEF StoredInv
    <3>2. CASE Ledger!Grows(id)
      <4>1. stored'[id].ver \in Nat /\ StoredVersion(stored, id) < stored'[id].ver
        BY <3>2 DEF Ledger!Grows, Ledger!Event, Ledger!StoredVersion, StoredVersion
      <4>2. StoredVersion(stored, id) \in Nat
        BY RowVersions
      <4> QED  BY <4>1, <4>2
    <3> QED  BY <2>2, <3>1, <3>2
  <2>4. StoredInv'
    BY <2>1, <2>3 DEF StoredInv
  <2>5. rowVersion' \in [EventId -> Nat]
    BY <2>4 DEF StoredInv, rowVersion, StoredVersion
  <2>6. ASSUME NEW id \in EventId
        PROVE  rowVersion[id] <= rowVersion'[id]
    <3>1. rowVersion[id] \in Nat /\ rowVersion'[id] \in Nat
      BY <2>5, RowVersions
    <3>2. CASE stored'[id] = stored[id]
      BY <3>1, <3>2 DEF rowVersion, StoredVersion
    <3>3. CASE Ledger!Grows(id)
      <4>1. stored'[id] # NoEvent
        BY <3>3, NoEventAssumption DEF Ledger!Grows, Ledger!Event, Event
      <4>2. rowVersion'[id] = stored'[id].ver /\ rowVersion[id] = StoredVersion(stored, id)
        BY <4>1 DEF rowVersion, StoredVersion
      <4> QED  BY <3>1, <3>3, <4>2 DEF Ledger!Grows, Ledger!StoredVersion, StoredVersion
    <3> QED  BY <2>2, <3>2, <3>3
  <2>7. Feed!Persist
    BY <2>1, <2>5, <2>6 DEF Feed!Persist
  <2> QED  BY <2>4, <2>7 DEF Feed!Next
<1>3. ASSUME NEW id \in EventId, Ledger!Announce(id)
      PROVE  StoredInv' /\ Feed!Announce(id)
  <2>1. /\ stored[id] # NoEvent /\ UNCHANGED <<stored, published>>
        /\ announced' = [announced EXCEPT ![id] = stored[id].ver]
    BY <1>3 DEF Ledger!Announce
  <2>2. UNCHANGED rowVersion /\ rowVersion[id] = stored[id].ver /\ stored[id].ver \in Nat \ {0}
    BY <2>1 DEF StoredInv, rowVersion, StoredVersion
  <2>3. StoredInv'
    BY <2>1, <2>2 DEF StoredInv
  <2>4. Feed!Announce(id)
    BY <2>1, <2>2 DEF Feed!Announce
  <2> QED  BY <2>3, <2>4
<1>4. ASSUME NEW id \in EventId, Ledger!Mark(id)
      PROVE  StoredInv' /\ Feed!Mark(id)
  <2>1. /\ published[id] < published'[id] /\ published'[id] <= announced[id]
        /\ published'[id] \in Nat
        /\ published' = [published EXCEPT ![id] = published'[id]]
        /\ UNCHANGED <<stored, announced>>
    BY <1>4 DEF Ledger!Mark
  <2>2. UNCHANGED rowVersion
    BY <2>1 DEF rowVersion, StoredVersion
  <2>3. PICK v \in Nat : v = published'[id]
    BY <2>1
  <2>4. published' = [published EXCEPT ![id] = v] /\ published[id] < v /\ v <= announced[id]
    BY <2>1, <2>3
  <2>5. StoredInv'
    BY <2>1, <2>4 DEF StoredInv
  <2>6. Feed!Mark(id)
    BY <2>1, <2>2, <2>4 DEF Feed!Mark
  <2> QED  BY <2>5, <2>6
<1> QED  BY <1>1, <1>2, <1>3, <1>4 DEF Ledger!Next, Feed!Next

(* Every behaviour of the ledger is one of the feed: rows only move to     *)
(* later versions, announcements say what is stored, and marks never run   *)
(* ahead of them (persist_events, _persist_and_publish).                   *)
THEOREM LedgerFeeds == Ledger!Spec => Feed!Spec
<1>1. Ledger!Init => StoredInv /\ Feed!Init
  BY DEF Ledger!Init, StoredInv, Feed!Init, rowVersion, StoredVersion
<1> QED  BY <1>1, LedgerStep, PTL DEF Ledger!Spec, Feed!Spec

(* So what the layer announces, the Scoring layer may rely on.             *)
THEOREM FeedIsKept == Spec => Feed!Spec
BY LedgerIsKept, LedgerFeeds DEF ImplementsLedger
-----------------------------------------------------------------------------
(***************************************************************************)
(* Nothing is lost, and no EntityEvent gets into two Events, as long as    *)
(* every key outlives a flush.  A merged EntityEvent is then a member or   *)
(* in its group's slot, which is where the next merge of it looks: so what *)
(* Merge takes in is in no other copy of an Event, whatever snapshots the  *)
(* flush has in its hands.                                                 *)
(***************************************************************************)
Mine(g) == {m \in Mergeable : GroupOf[EntityOf[m]] = g}
QueuesOfGroup == \A g \in Group : queue[g] \in Seq(Mine(g))

OfGroup(event, g) == event # NoEvent => \A e \in event.ees : GroupOf[e] = g
CopiesOfGroup ==
    \A g \in Group : OfGroup(active[g], g) /\ OfGroup(base[g], g) /\ OfGroup(updated[g], g)

WorkMade == \A g \in Group : pc[g] \in Persisting \union {"upsert"} => Work(g) \in updated[g].ees

GroupInv == QueuesOfGroup /\ CopiesOfGroup /\ WorkMade

LEMMA GroupInit == Init => GroupInv
<1>1. Init => \A g \in Group : queue[g] = <<>> /\ pc[g] = "idle"
  BY DEF Init, Process
<1>2. \A g \in Group : <<>> \in Seq(Mine(g))
  BY EmptySeq
<1>3. Init => QueuesOfGroup /\ WorkMade
  BY <1>1, <1>2 DEF QueuesOfGroup, WorkMade, Persisting
<1>4. Init => CopiesOfGroup
  BY DEF Init, CopiesOfGroup, OfGroup
<1> QED  BY <1>3, <1>4 DEF GroupInv

(* What a group takes from its queue is its own.                           *)
LEMMA MineShifts ==
    ASSUME NEW g \in Group, NEW q \in Seq(Mine(g))
    PROVE  /\ q # <<>> => Tail(q) \in Seq(Mine(g)) /\ Head(q) \in Mine(g)
           /\ \A m \in Mine(g) : Append(q, m) \in Seq(Mine(g))
           /\ \A m \in Mine(g) : q # <<>> => Head(Append(q, m)) = Head(q)
<1> DEFINE S == Mine(g)
<1> HIDE DEF S
<1>1. q \in Seq(S)
  BY DEF S
<1>2. q # <<>> => Tail(q) \in Seq(S) /\ Head(q) \in S
  BY <1>1, HeadTailProperties
<1>3. ASSUME NEW m \in S
      PROVE  Append(q, m) \in Seq(S) /\ (q # <<>> => Head(Append(q, m)) = Head(q))
  BY <1>1
<1> QED  BY <1>2, <1>3 DEF S

LEMMA WorkIsMine ==
    ASSUME TypeInv, GroupInv, NEW g \in Group, pc[g] # "idle"
    PROVE  queue[g] # <<>> /\ Work(g) \in EntityEvent /\ GroupOf[Work(g)] = g
<1>1. queue[g] \in Seq(Mine(g)) /\ queue[g] # <<>>
  BY DEF GroupInv, QueuesOfGroup, TypeInv, Locals, GroupLocals
<1>2. Head(queue[g]) \in Mine(g)
  BY <1>1, MineShifts
<1> QED  BY <1>1, <1>2, WorkType DEF Mine, Work

(* A step at which no group makes an Event.                                *)
LEMMA GroupKept ==
    ASSUME GroupInv, QueuesOfGroup',
           \A g \in Group :
             /\ active'[g] \in {active[g], updated[g], NoEvent}
             /\ base'[g] \in {base[g], active[g], NoEvent}
             /\ updated'[g] \in {updated[g], NoEvent}
             /\ pc'[g] \in Persisting \union {"upsert"} =>
                  /\ pc[g] \in Persisting \union {"upsert"}
                  /\ updated'[g] = updated[g] /\ Head(queue'[g]) = Head(queue[g])
    PROVE  GroupInv'
<1>1. CopiesOfGroup'
  BY DEF GroupInv, CopiesOfGroup, OfGroup
<1>2. WorkMade'
  BY DEF GroupInv, WorkMade, Work
<1> QED  BY <1>1, <1>2 DEF GroupInv

LEMMA MergedEntities ==
    ASSUME NEW event \in Event \union {NoEvent}, NEW e \in EntityEvent, NEW t \in Int,
           NEW freshId \in EventId
    PROVE  LET made == merge_or_create(event, e, t, freshId)
           IN  \/ made.id = freshId /\ made.ees = {e}
               \/ event # NoEvent /\ made.id = event.id /\ made.ees = event.ees \union {e}
BY DEF merge_or_create, ExtendedBy, StartedBy

LEMMA MergeMakes ==
    ASSUME TypeInv, NEW g \in Group, Merge(g)
    PROVE  \E freshId \in FreshIds :
             /\ updated'[g] \in Event
             /\ \/ updated'[g].id = freshId /\ updated'[g].ees = {Work(g)}
                \/ /\ base[g] # NoEvent /\ updated'[g].id = base[g].id
                   /\ updated'[g].ees = base[g].ees \union {Work(g)}
<1>1. PICK freshId \in FreshIds :
        updated' = [updated EXCEPT ![g] =
            merge_or_create(base[g], Work(g), PublishedAt[Work(g)], freshId)]
  BY DEF Merge
<1> DEFINE made == merge_or_create(base[g], Work(g), PublishedAt[Work(g)], freshId)
<1>2. updated'[g] = made
  BY <1>1, EventTypes
<1>3. Work(g) \in EntityEvent /\ PublishedAt[Work(g)] \in Int /\ freshId \in EventId
  <2>1. pc[g] # "idle"
    BY DEF Merge
  <2> QED  BY <2>1, WorkType DEF FreshIds
<1>4. made \in Event
  BY <1>3, EventTypes, MadeLine
<1>5. \/ made.id = freshId /\ made.ees = {Work(g)}
      \/ base[g] # NoEvent /\ made.id = base[g].id /\ made.ees = base[g].ees \union {Work(g)}
  <2>1. base[g] \in Event \union {NoEvent}
    BY EventTypes
  <2> QED  BY <1>3, <2>1, MergedEntities
<1> QED  BY <1>2, <1>4, <1>5

LEMMA MergeGroup ==
    ASSUME TypeInv, GroupInv, NEW g \in Group, Merge(g)
    PROVE  GroupInv'
<1>1. UNCHANGED <<active, base, queue>>
  BY DEF Merge, stateVars
<1>2. \A h \in Group \ {g} : updated'[h] = updated[h] /\ pc'[h] = pc[h]
  BY EventTypes DEF Merge, TypeInv, TypeOK, TasksOK, Process
<1>3. Work(g) \in EntityEvent /\ GroupOf[Work(g)] = g
  BY WorkIsMine DEF Merge
<1>4. updated'[g] # NoEvent /\ Work(g) \in updated'[g].ees /\ OfGroup(updated'[g], g)
  <2>1. updated'[g] \in Event
    BY MergeMakes
  <2>2. \/ updated'[g].ees = {Work(g)}
        \/ base[g] # NoEvent /\ updated'[g].ees = base[g].ees \union {Work(g)}
    BY MergeMakes
  <2>3. base[g] # NoEvent => \A e \in base[g].ees : GroupOf[e] = g
    BY DEF GroupInv, CopiesOfGroup, OfGroup
  <2>4. updated'[g] # NoEvent /\ \A e \in updated'[g].ees : GroupOf[e] = g
    BY <1>3, <2>1, <2>2, <2>3
  <2> QED  BY <2>2, <2>4 DEF OfGroup
<1>5. QueuesOfGroup'
  BY <1>1 DEF GroupInv, QueuesOfGroup, Mine, Mergeable
<1>6. CopiesOfGroup'
  BY <1>1, <1>2, <1>4 DEF GroupInv, CopiesOfGroup
<1>7. WorkMade'
  BY <1>1, <1>2, <1>4 DEF GroupInv, WorkMade, Work
<1> QED  BY <1>5, <1>6, <1>7 DEF GroupInv

LEMMA GroupStepGroup ==
    ASSUME TypeInv, GroupInv, NEW g \in Group, GroupStep(g) \/ CheckFails(g) \/ UpsertFails(g)
    PROVE  GroupInv'
<1>1. CASE Merge(g)
  BY <1>1, MergeGroup
<1>2. CASE ~ Merge(g)
  <2>1. /\ \A h \in Group : h \in Process
        /\ pc \in [Process -> Place] /\ queue \in [Group -> Seq(Mergeable)]
    BY DEF TypeInv, TypeOK, TasksOK, Process
  <2>2. \A h \in Group :
          /\ base'[h] \in {base[h], active[h], NoEvent}
          /\ updated'[h] \in {updated[h], NoEvent}
    BY <1>2, EventTypes DEF GroupStep, GetActiveEvent, SkipMerged, SkipLate, UpsertActiveEvent,
       AckMerged, AckMergedFails, CheckFails, UpsertFails, FailMerge, Settle, Leave
  <2>3. \A h \in Group : active'[h] \in {active[h], updated[h]}
    BY <1>2, EventTypes DEF GroupStep, GetActiveEvent, SkipMerged, SkipLate, UpsertActiveEvent,
       AckMerged, AckMergedFails, CheckFails, UpsertFails, Upserted, stateVars
  <2>4. /\ pc'[g] \notin Persisting \union {"upsert"}
        /\ \A h \in Group \ {g} :
             pc'[h] = pc[h] /\ updated'[h] = updated[h] /\ queue'[h] = queue[h]
    BY <1>2, <2>1, EventTypes DEF GroupStep, GetActiveEvent, SkipMerged, SkipLate,
       UpsertActiveEvent, AckMerged, AckMergedFails, CheckFails, UpsertFails, FailMerge,
       Settle, Leave, Persisting
  <2>5. queue'[g] = queue[g] \/ (queue[g] # <<>> /\ queue'[g] = Tail(queue[g]))
    <3>1. pc[g] # "idle" => queue[g] # <<>>
      BY DEF TypeInv, Locals, GroupLocals
    <3>2. queue'[g] = queue[g] \/ (pc[g] # "idle" /\ queue'[g] = Tail(queue[g]))
      <4>1. CASE Leave(g)
        BY <2>1, <4>1 DEF Leave, GroupStep, GetActiveEvent, SkipMerged, SkipLate, Merge,
           UpsertActiveEvent, AckMerged, AckMergedFails, CheckFails, UpsertFails
      <4>2. CASE ~ Leave(g)
        BY <1>2, <4>2 DEF GroupStep, GetActiveEvent, SkipMerged, SkipLate,
           UpsertActiveEvent, AckMerged, AckMergedFails, CheckFails, UpsertFails, FailMerge,
           Settle
      <4> QED  BY <4>1, <4>2
    <3> QED  BY <3>1, <3>2
  <2>6. QueuesOfGroup'
    <3>1. \A h \in Group : queue[h] \in Seq(Mine(h))
      BY DEF GroupInv, QueuesOfGroup
    <3>2. queue'[g] \in Seq(Mine(g))
      <4>1. queue[g] \in Seq(Mine(g))
        BY <3>1
      <4>2. queue[g] # <<>> => Tail(queue[g]) \in Seq(Mine(g))
        BY <4>1, MineShifts, Zenon
      <4> QED  BY <2>5, <4>1, <4>2, Zenon
    <3>3. \A h \in Group \ {g} : queue'[h] \in Seq(Mine(h))
      BY <2>4, <3>1, Zenon
    <3>4. \A h \in Group : queue'[h] \in Seq(Mine(h))
      BY <3>2, <3>3, Zenon
    <3> QED  BY <3>4 DEF QueuesOfGroup, Mine, Mergeable
  <2> QED  BY <2>2, <2>3, <2>4, <2>6, GroupKept
<1> QED  BY <1>1, <1>2

LEMMA LoopGroup ==
    ASSUME TypeInv, GroupInv, NEW l \in Loop, LoopStep(l) \/ FetchFails(l)
    PROVE  GroupInv'
<1>1. \A g \in Group : g \in Process /\ g # l
  BY DEF Process, Loop
<1>2. pc \in [Process -> Place] /\ queue \in [Group -> Seq(Mergeable)]
  BY DEF TypeInv, TypeOK, TasksOK
<1>3. UNCHANGED <<active, base, updated>> /\ \A g \in Group : pc'[g] = pc[g]
  BY <1>1, <1>2 DEF LoopStep, RouteToDeadLetter, SkipInFlight, RouteOne, EnqueueMerge,
     FindNoRow, PushDeadLetter, AckRouted, AckRoutedFails, FetchFails, NextMessage,
     unrouted, stateVars
<1>4. ASSUME NEW g \in Group
      PROVE  \/ queue'[g] = queue[g]
             \/ \E m \in Mine(g) : queue'[g] = Append(queue[g], m)
  <2>1. CASE EnqueueMerge(l)
    <3>1. Entity(l) \in Known /\ batch[l] # <<>> /\ batch[l] \in Seq(Item)
      BY <2>1 DEF EnqueueMerge, TypeInv, TypeOK, TasksOK, Locals, LoopLocals
    <3>2. Msg(l) \in Message
      <4>1. Head(batch[l]) \in Item
        BY <3>1, HeadTailProperties
      <4> QED  BY <4>1 DEF Msg, Item
    <3>3. Msg(l) \in Mine(GroupOf[Entity(l)])
      BY <3>1, <3>2 DEF Mine, Mergeable, Entity
    <3>4. queue' = [queue EXCEPT ![GroupOf[Entity(l)]] = Append(@, Msg(l))]
      BY <2>1 DEF EnqueueMerge
    <3> QED  BY <1>2, <3>3, <3>4
  <2>2. CASE ~ EnqueueMerge(l)
    BY <2>2 DEF LoopStep, RouteToDeadLetter, SkipInFlight, RouteOne, FindNoRow,
       PushDeadLetter, AckRouted, AckRoutedFails, FetchFails
  <2> QED  BY <2>1, <2>2
<1>5. \A g \in Group : queue[g] \in Seq(Mine(g))
  BY DEF GroupInv, QueuesOfGroup
<1>6. QueuesOfGroup'
  <2>1. ASSUME NEW g \in Group PROVE queue'[g] \in Seq(Mine(g))
    <3>1. \A m \in Mine(g) : Append(queue[g], m) \in Seq(Mine(g))
      BY <1>5, MineShifts
    <3> QED  BY <1>4, <1>5, <3>1, Zenon
  <2> QED  BY <2>1 DEF QueuesOfGroup, Mine, Mergeable
<1>7. ASSUME NEW g \in Group, pc[g] # "idle" PROVE Head(queue'[g]) = Head(queue[g])
  <2>1. queue[g] # <<>>
    BY <1>7 DEF TypeInv, Locals, GroupLocals
  <2>2. \A m \in Mine(g) : Head(Append(queue[g], m)) = Head(queue[g])
    BY <1>5, <2>1, MineShifts
  <2>3. CASE queue'[g] = queue[g]
    BY <2>3
  <2>4. CASE \E m \in Mine(g) : queue'[g] = Append(queue[g], m)
    <3>1. PICK m \in Mine(g) : queue'[g] = Append(queue[g], m)
      BY <2>4
    <3>2. Head(Append(queue[g], m)) = Head(queue[g])
      BY <2>2
    <3> QED  BY <3>1, <3>2
  <2> QED  BY <1>4, <2>3, <2>4
<1> QED  BY <1>3, <1>6, <1>7, GroupKept DEF Persisting

LEMMA PersistGroup ==
    ASSUME TypeInv, GroupInv, NEW p \in Persister, PersistStep(p) \/ PersistFails(p)
    PROVE  GroupInv'
<1>1. /\ \A g \in Group : g \in Process /\ g # Consumer
      /\ p \in Process /\ pc[p] \in Persisting
      /\ pc \in [Process -> Place] /\ queue \in [Group -> Seq(Mergeable)]
  BY DEF TypeInv, TypeOK, TasksOK, Process, Loop, Persister, Persisting, PersistStep,
     PersistEvents, SelectUnpublished, Publish, MarkPublished, PersistFails
<1>2. active' = active
  BY DEF PersistStep, PersistEvents, SelectUnpublished, Publish, MarkPublished, PersistFails,
     unpersisted, stateVars
<1>3. CASE PersistFails(p) /\ p # Consumer
  <2>1. p \in Group /\ FailMerge(p)
    BY <1>3 DEF PersistFails, Persister
  <2>2. /\ pc'[p] = "idle" /\ queue'[p] = Tail(queue[p])
        /\ base'[p] = NoEvent /\ updated'[p] = NoEvent
        /\ \A g \in Group \ {p} :
             /\ pc'[g] = pc[g] /\ queue'[g] = queue[g]
             /\ base'[g] = base[g] /\ updated'[g] = updated[g]
    BY <1>1, <2>1, EventTypes DEF FailMerge, Leave
  <2>3. queue[p] # <<>>
    BY <1>1, <2>1 DEF TypeInv, Locals, GroupLocals, Persisting
  <2>4. QueuesOfGroup'
    <3>1. \A g \in Group : queue[g] \in Seq(Mine(g))
      BY DEF GroupInv, QueuesOfGroup
    <3>2. Tail(queue[p]) \in Seq(Mine(p))
      BY <2>1, <2>3, <3>1, MineShifts
    <3>3. \A g \in Group : queue'[g] \in Seq(Mine(g))
      BY <2>2, <3>1, <3>2, Zenon
    <3> QED  BY <3>3 DEF QueuesOfGroup, Mine, Mergeable
  <2> QED  BY <1>2, <2>1, <2>2, <2>4, GroupKept DEF Persisting
<1>4. CASE PersistStep(p) \/ (PersistFails(p) /\ p = Consumer)
  <2>1. UNCHANGED <<queue, base, updated>>
    BY <1>4 DEF PersistStep, PersistEvents, SelectUnpublished, Publish, MarkPublished,
       PersistFails, groupVars
  <2>2. \A g \in Group : pc'[g] = pc[g] \/ pc[g] \in Persisting
    BY <1>1, <1>4 DEF PersistStep, PersistEvents, SelectUnpublished, Publish, MarkPublished,
       PersistFails, Continue
  <2>3. QueuesOfGroup'
    BY <2>1 DEF GroupInv, QueuesOfGroup, Mine, Mergeable
  <2> QED  BY <1>2, <2>1, <2>2, <2>3, GroupKept
<1> QED  BY <1>3, <1>4

LEMMA OtherGroup ==
    ASSUME TypeInv, GroupInv,
           \/ Read \/ ReadNothing \/ Claim \/ ScanAll \/ ScanFails
           \/ CrashLayer \/ Shutdown \/ FinalFlushTimesOut \/ Exit \/ Crash
           \/ StartLayer \/ StreamDown \/ StreamUp \/ Tick \/ UNCHANGED vars
    PROVE  GroupInv'
<1>1. /\ \A g \in Group : g \in Process /\ g \notin Loop
      /\ pc \in [Process -> Place] /\ {Consumer, Reclaimer} \subseteq Loop
  BY DEF TypeInv, TypeOK, TasksOK, Process, Loop
<1>2. CASE Exit \/ Crash
  <2>1. /\ active' = active
        /\ \A g \in Group : /\ pc'[g] = "idle" /\ queue'[g] = <<>>
                             /\ base'[g] = NoEvent /\ updated'[g] = NoEvent
    BY <1>1, <1>2 DEF Exit, Crash, EndProcess, stateVars
  <2>2. QueuesOfGroup'
    <3>1. \A g \in Group : queue'[g] \in Seq(Mine(g))
      BY <2>1, EmptySeq
    <3> QED  BY <3>1 DEF QueuesOfGroup, Mine, Mergeable
  <2> QED  BY <2>1, <2>2, GroupKept DEF Persisting
<1>3. CASE \/ Read \/ ReadNothing \/ Claim \/ ScanAll \/ ScanFails
           \/ CrashLayer \/ Shutdown \/ FinalFlushTimesOut
           \/ StartLayer \/ StreamDown \/ StreamUp \/ Tick \/ UNCHANGED vars
  <2>1. UNCHANGED <<queue, base, updated>>
    BY <1>3 DEF Read, ReadNothing, Claim, ScanAll, ScanFails, CrashLayer, Shutdown, StopLoops,
       FinalFlushTimesOut, StartLayer, StreamDown, StreamUp, Tick, vars, groupVars, unrouted
  <2>2. \A g \in Group : pc'[g] = pc[g]
    BY <1>1, <1>3 DEF Read, ReadNothing, Claim, ScanAll, ScanFails, CrashLayer, Shutdown,
       StopLoops, FinalFlushTimesOut, StartLayer, StreamDown, StreamUp, Tick, vars, Loop
  <2>3. \A g \in Group : active'[g] \in {active[g], NoEvent}
    BY <1>3 DEF Read, ReadNothing, Claim, ScanAll, ScanFails, CrashLayer, Shutdown, StopLoops,
       FinalFlushTimesOut, StartLayer, StreamDown, StreamUp, Tick, vars, stateVars, unrouted,
       unpersisted
  <2>4. QueuesOfGroup'
    BY <2>1 DEF GroupInv, QueuesOfGroup, Mine, Mergeable
  <2> QED  BY <2>1, <2>2, <2>3, <2>4, GroupKept
<1> QED  BY <1>2, <1>3

LEMMA GroupInductive == TypeInv /\ GroupInv /\ [Next]_vars => GroupInv'
BY GroupStepGroup, LoopGroup, PersistGroup, OtherGroup DEF Next


(* A merged EntityEvent is where the next merge of it looks: it is a       *)
(* member, or its group's active Event holds it.                           *)
MergedIsHeld == \A e \in merged : owner[e] # NoEvent \/ ActivelyIn(e)

(* KeyOutlivesFlush, of one step.                                          *)
Outlives ==
    \A g \in Group :
        active[g] # NoEvent /\ active'[g] = NoEvent
          => StoredVersion(stored, active[g].id) >= active[g].ver

(* A copy of a group's that is stored at its version is the row.           *)
LEMMA StoredIsOwned ==
    ASSUME OutboxInv, LineInv, NEW g \in Group, NEW event \in {active[g], base[g]},
           event # NoEvent, StoredVersion(stored, event.id) >= event.ver
    PROVE  \A e \in event.ees : owner[e] # NoEvent
<1>1. /\ event \in Event /\ event.id \in EventId /\ event.ver \in Nat
      /\ stored[event.id] \in Event \union {NoEvent}
  BY EventTypes DEF OutboxInv, Event
<1>2. event.ver > 0
  BY DEF LineInv, CopiesStamped, Stamped
<1>3. stored[event.id] # NoEvent /\ stored[event.id].ver >= event.ver
  BY <1>1, <1>2 DEF StoredVersion
<1>4. stored[event.id].id = event.id /\ stored[event.id].ver \in Nat
  BY <1>1, <1>3 DEF LineInv, RowsKeyed, Event
<1>5. Behind(stored[event.id], event)
  BY <1>1 DEF LineInv, RowLine, BehindGroups
<1>6. Below(stored[event.id], event)
  BY <1>3, <1>4, <1>5 DEF Behind
<1>7. stored[event.id] = event
  BY <1>1, <1>3, <1>4, <1>6 DEF Below
<1> QED  BY <1>1, <1>3, <1>7 DEF LineInv, RowsKeyed

LEMMA HeldKept ==
    ASSUME TypeInv, MergedIsHeld, merged' = merged, active' = active,
           \A e \in EntityEvent : owner[e] # NoEvent => owner'[e] # NoEvent
    PROVE  MergedIsHeld'
<1>1. merged \subseteq EntityEvent
  BY DEF TypeInv, TypeOK, RestOK
<1> QED  BY <1>1 DEF MergedIsHeld, ActivelyIn

(* The upsert takes over what the active Event held, or the row has it.    *)
LEMMA SlotTakenOver ==
    ASSUME OutboxInv, LineInv, NEW g \in Group, pc[g] = "upsert",
           NEW e, active[g] # NoEvent, e \in active[g].ees
    PROVE  owner[e] # NoEvent \/ e \in updated[g].ees
<1>1. active[g] = base[g]
  BY DEF OutboxInv, Replacing
<1>2. base[g] \in Event /\ base[g].id \in EventId /\ base[g].ver \in Nat
  BY <1>1, EventTypes DEF OutboxInv, Event
<1>3. updated[g] \in Event /\ updated[g] # NoEvent
  BY DEF OutboxInv, TypeInv, Locals, GroupLocals
<1>4. CASE updated[g].id = base[g].id
  <2>1. Below(base[g], updated[g])
    BY <1>1, <1>3, <1>4 DEF LineInv, OwnLine, Behind
  <2> QED  BY <1>1, <2>1 DEF Below
<1>5. CASE updated[g].id # base[g].id
  <2>1. base[g].ver <= published[base[g].id]
    BY <1>1, <1>5 DEF OutboxInv, Replacing
  <2>2. published[base[g].id] <= StoredVersion(stored, base[g].id)
    BY <1>2 DEF OutboxInv, Publishing, MarksStored
  <2>3. /\ published[base[g].id] \in Nat
        /\ stored[base[g].id] \in Event \union {NoEvent}
    BY <1>2, EventTypes DEF OutboxInv, TypeInv, TypeOK, TablesOK
  <2>4. StoredVersion(stored, base[g].id) \in Nat
    BY <2>3 DEF StoredVersion, Event
  <2>5. StoredVersion(stored, base[g].id) >= base[g].ver
    BY <1>2, <2>1, <2>2, <2>3, <2>4
  <2> QED  BY <1>1, <2>5, StoredIsOwned
<1> QED  BY <1>4, <1>5

LEMMA UpsertHeld ==
    ASSUME OutboxInv, LineInv, GroupInv, MergedIsHeld, NEW g \in Group, pc[g] = "upsert",
           Upserted(g), UNCHANGED owner
    PROVE  MergedIsHeld'
<1>1. /\ updated[g] \in Event /\ active'[g] = updated[g]
      /\ \A h \in Group \ {g} : active'[h] = active[h]
      /\ merged' = merged \union {Work(g)}
  BY EventTypes DEF OutboxInv, TypeInv, Locals, GroupLocals, Upserted
<1>2. updated[g] # NoEvent
  BY <1>1
<1>3. \E h \in Group : active'[h] # NoEvent /\ Work(g) \in active'[h].ees
  <2>1. Work(g) \in updated[g].ees
    BY DEF GroupInv, WorkMade
  <2> QED  BY <1>1, <1>2, <2>1
<1>4. ASSUME NEW e, active[g] # NoEvent, e \in active[g].ees
      PROVE  owner[e] # NoEvent \/ e \in updated[g].ees
  BY <1>4, SlotTakenOver
<1>5. ASSUME NEW e \in merged PROVE owner'[e] # NoEvent \/ ActivelyIn(e)'
  <2>1. CASE owner[e] # NoEvent
    BY <2>1
  <2>2. CASE \E h \in Group \ {g} : active[h] # NoEvent /\ e \in active[h].ees
    BY <1>1, <2>2 DEF ActivelyIn
  <2>3. CASE active[g] # NoEvent /\ e \in active[g].ees
    BY <1>1, <1>2, <1>4, <2>3 DEF ActivelyIn
  <2> QED  BY <2>1, <2>2, <2>3 DEF MergedIsHeld, ActivelyIn
<1>6. \A e \in merged' : owner'[e] # NoEvent \/ ActivelyIn(e)'
  <2>1. \A e \in merged' : e \in merged \/ e = Work(g)
    BY <1>1
  <2>2. TAKE e \in merged'
  <2>3. CASE e = Work(g)
    BY <1>3, <2>3 DEF ActivelyIn
  <2> QED  BY <1>5, <2>1, <2>2, <2>3
<1> QED  BY <1>6 DEF MergedIsHeld, ActivelyIn

LEMMA ExpiryHeld ==
    ASSUME OutboxInv, LineInv, MergedIsHeld, Tick, Outlives
    PROVE  MergedIsHeld'
<1>1. merged' = merged /\ owner' = owner
  BY DEF Tick, historyVars, tableVars
<1>2. \A g \in Group : active'[g] \in {active[g], NoEvent}
  BY DEF Tick
<1>3. ASSUME NEW e \in merged, owner[e] = NoEvent
      PROVE  ActivelyIn(e)'
  <2>1. PICK g \in Group : active[g] # NoEvent /\ e \in active[g].ees
    BY <1>3 DEF MergedIsHeld, ActivelyIn
  <2>2. CASE active'[g] = NoEvent
    BY <1>3, <2>1, <2>2, StoredIsOwned DEF Outlives
  <2>3. CASE active'[g] = active[g]
    BY <2>1, <2>3 DEF ActivelyIn
  <2> QED  BY <1>2, <2>2, <2>3
<1> QED  BY <1>1, <1>3 DEF MergedIsHeld, ActivelyIn

LEMMA OwnersStay ==
    ASSUME OutboxInv, NEW p \in Persister, PersistEvents(p), NEW e \in EntityEvent,
           owner[e] # NoEvent
    PROVE  owner'[e] # NoEvent
BY MembersWritten

LEMMA HeldStep ==
    OutboxInv /\ LineInv /\ GroupInv /\ MergedIsHeld /\ [Next]_vars /\ [Outlives]_vars
      => MergedIsHeld'
<1> SUFFICES ASSUME OutboxInv, LineInv, GroupInv, MergedIsHeld, [Next]_vars, [Outlives]_vars
             PROVE  MergedIsHeld'
  OBVIOUS
<1>1. TypeInv
  BY DEF OutboxInv
<1>2. CASE \/ Read \/ ReadNothing \/ Claim \/ ScanAll \/ ScanFails
           \/ \E l \in Loop : LoopStep(l) \/ FetchFails(l)
           \/ \E p \in Persister : SelectUnpublished(p) \/ Publish(p) \/ MarkPublished(p)
                                   \/ PersistFails(p)
  <2>1. UNCHANGED <<merged, active, owner>>
    BY <1>2 DEF Read, ReadNothing, Claim, ScanAll, ScanFails, LoopStep,
       RouteToDeadLetter, SkipInFlight, RouteOne, EnqueueMerge, FindNoRow, PushDeadLetter,
       AckRouted, AckRoutedFails, FetchFails, SelectUnpublished, Publish, MarkPublished,
       PersistFails, unrouted, unpersisted, stateVars, historyVars, tableVars
  <2> QED  BY <1>1, <2>1, HeldKept
<1>3. CASE \/ CrashLayer \/ Shutdown \/ FinalFlushTimesOut \/ Exit \/ Crash
           \/ StartLayer \/ StreamDown \/ StreamUp \/ UNCHANGED vars
  <2>1. UNCHANGED <<merged, active, owner>>
    BY <1>3 DEF CrashLayer, Shutdown, StopLoops, FinalFlushTimesOut, Exit, Crash,
       EndProcess, StartLayer, StreamDown, StreamUp, vars, stateVars, historyVars, tableVars
  <2> QED  BY <1>1, <2>1, HeldKept
<1>4. CASE Tick
  <2>1. CASE Outlives
    BY <1>4, <2>1, ExpiryHeld
  <2>2. CASE UNCHANGED vars
    BY <1>3, <2>2
  <2> QED  BY <2>1, <2>2
<1>5. CASE \E p \in Persister : PersistEvents(p)
  <2>1. PICK p \in Persister : PersistEvents(p)
    BY <1>5
  <2>2. UNCHANGED <<merged, active>>
    BY <2>1 DEF PersistEvents, unpersisted, stateVars, historyVars
  <2> QED  BY <1>1, <2>1, <2>2, OwnersStay, HeldKept
<1>6. CASE \E g \in Group : GroupStep(g) \/ CheckFails(g) \/ UpsertFails(g)
  <2>1. PICK g \in Group : GroupStep(g) \/ CheckFails(g) \/ UpsertFails(g)
    BY <1>6
  <2>2. owner' = owner
    BY <2>1 DEF GroupStep, GetActiveEvent, SkipMerged, SkipLate, Merge, UpsertActiveEvent,
       AckMerged, AckMergedFails, CheckFails, UpsertFails, unmerged, tableVars
  <2>3. UNCHANGED <<merged, active>> \/ (pc[g] = "upsert" /\ Upserted(g))
    BY <2>1 DEF GroupStep, GetActiveEvent, SkipMerged, SkipLate, Merge, UpsertActiveEvent,
       AckMerged, AckMergedFails, CheckFails, UpsertFails, stateVars, historyVars
  <2> QED  BY <1>1, <2>2, <2>3, HeldKept, UpsertHeld
<1> QED  BY <1>2, <1>3, <1>4, <1>5, <1>6 DEF Next, PersistStep

(***************************************************************************)
(* Every copy of an Event outside the tables keeps its EntityEvents to     *)
(* itself: another Event shares none of them, and a member among them is a *)
(* member of that Event.  A row holds exactly its members.                 *)
(***************************************************************************)
CopiesDisjoint ==
    \A event, other \in Copies : event.ees \intersect other.ees # {} => event.id = other.id
OwnMembers == \A event \in Copies : \A e \in event.ees : owner[e] \in {NoEvent, event.id}
RowsHold ==
    /\ \A e \in EntityEvent : owner[e] # NoEvent =>
         stored[owner[e]] # NoEvent /\ e \in stored[owner[e]].ees
    /\ \A id \in EventId : stored[id] # NoEvent =>
         \A e \in stored[id].ees : owner[e] = id

Exclusive == CopiesDisjoint /\ OwnMembers /\ RowsHold

LEMMA ExclusiveInit == Init => Exclusive
BY DEF Init, Exclusive, CopiesDisjoint, OwnMembers, RowsHold, Copies

LEMMA CopiesType == TypeInv => Copies \subseteq Event
BY EventTypes DEF Copies

(* Copies are passed on and dropped.                                       *)
LEMMA ExclusiveKept ==
    ASSUME Exclusive, UNCHANGED <<stored, owner>>, Copies' \subseteq Copies
    PROVE  Exclusive'
<1> USE DEF Exclusive
<1> DEFINE C == Copies'
<1> HIDE DEF C
<1>1. C \subseteq Copies
  BY DEF C
<1>2. /\ \A event, other \in C : event.ees \intersect other.ees # {} => event.id = other.id
      /\ \A event \in C : \A e \in event.ees : owner'[e] \in {NoEvent, event.id}
  BY <1>1 DEF CopiesDisjoint, OwnMembers
<1>3. CopiesDisjoint' /\ OwnMembers'
  BY <1>2 DEF C, CopiesDisjoint, OwnMembers
<1>4. RowsHold'
  BY DEF RowsHold
<1> QED  BY <1>3, <1>4

(* No copy but the one Merge replaces has what Merge takes in.             *)
LEMMA WorkIsNew ==
    ASSUME AckInv, OutboxInv, GroupInv, MergedIsHeld, NEW g \in Group, Merge(g)
    PROVE  /\ owner[Work(g)] = NoEvent
           /\ \A event \in snapshot : Work(g) \notin event.ees
           /\ \A h \in Group : \A event \in {active[h], base[h]} :
                 event # NoEvent => Work(g) \notin event.ees
           /\ \A h \in Group \ {g} : updated[h] # NoEvent => Work(g) \notin updated[h].ees
<1>1. /\ pc[g] = "check" /\ owner[Work(g)] = NoEvent
      /\ base[g] # NoEvent => Work(g) \notin base[g].ees
  BY DEF Merge, IsMerged, IsMember
<1>2. GroupOf[Work(g)] = g
  BY <1>1, WorkIsMine DEF OutboxInv
<1>3. \A h \in Group \ {g} : \A event \in {active[h], base[h], updated[h]} :
        event # NoEvent => Work(g) \notin event.ees
  BY <1>2 DEF GroupInv, CopiesOfGroup, OfGroup
<1>4. active[g] # NoEvent => Work(g) \notin active[g].ees
  BY <1>1 DEF OutboxInv, Replacing
<1>5. ~ActivelyIn(Work(g))
  BY <1>3, <1>4 DEF ActivelyIn
<1>6. ASSUME NEW event \in snapshot PROVE Work(g) \notin event.ees
  <2>1. event # NoEvent
    BY EventTypes DEF OutboxInv
  <2>2. event.ees \subseteq merged
    BY <2>1 DEF AckInv, Merging, CopiesMerged, Of
  <2> QED  BY <1>1, <1>5, <2>2 DEF MergedIsHeld
<1> QED  BY <1>1, <1>3, <1>4, <1>6

LEMMA MergeExclusive ==
    ASSUME AckInv, OutboxInv, GroupInv, MergedIsHeld, Exclusive, NEW g \in Group, Merge(g)
    PROVE  Exclusive'
<1>1. UNCHANGED <<active, base, snapshot, stored, owner>>
  BY DEF Merge, stateVars, unmerged, persistVars, tableVars
<1>2. \A h \in Group \ {g} : updated'[h] = updated[h]
  BY EventTypes DEF Merge, OutboxInv
<1> DEFINE made == updated'[g]
           Rest == {event \in Copies : Work(g) \notin event.ees}
<1>3. PICK freshId \in FreshIds :
        /\ made \in Event
        /\ \/ made.id = freshId /\ made.ees = {Work(g)}
           \/ /\ base[g] # NoEvent /\ made.id = base[g].id
              /\ made.ees = base[g].ees \union {Work(g)}
  BY MergeMakes DEF OutboxInv
<1>4. Copies' \subseteq Rest \union {made}
  <2> SUFFICES ASSUME NEW event \in Copies', event # made PROVE event \in Rest
    OBVIOUS
  <2>1. /\ event # NoEvent
        /\ \/ event \in snapshot
           \/ \E h \in Group : event = active[h] \/ event = base[h]
           \/ \E h \in Group \ {g} : event = updated[h]
    BY <1>1, <1>2 DEF Copies
  <2>2. event \in Copies
    BY <2>1 DEF Copies
  <2> QED  BY <2>1, <2>2, WorkIsNew
<1>5. base[g] # NoEvent => base[g] \in Rest
  BY WorkIsNew DEF Copies
<1>6. owner[Work(g)] = NoEvent
  BY WorkIsNew
<1> HIDE DEF made
<1>7. ASSUME NEW event \in Rest, event.ees \intersect made.ees # {}
      PROVE  event.id = made.id
  <2>1. event \in Copies /\ Work(g) \notin event.ees
    OBVIOUS
  <2>2. /\ base[g] # NoEvent /\ base[g] \in Copies /\ made.id = base[g].id
        /\ made.ees = base[g].ees \union {Work(g)}
    BY <1>3, <1>5, <1>7, <2>1
  <2>3. event.ees \intersect base[g].ees # {}
    BY <1>7, <2>1, <2>2
  <2> QED  BY <2>1, <2>2, <2>3 DEF Exclusive, CopiesDisjoint
<1>8. \A e \in made.ees : owner[e] \in {NoEvent, made.id}
  BY <1>3, <1>5, <1>6 DEF Exclusive, OwnMembers
<1>9. \A event, other \in Rest \union {made} :
        event.ees \intersect other.ees # {} => event.id = other.id
  <2>1. \A event, other \in Rest : event.ees \intersect other.ees # {} => event.id = other.id
    BY DEF Exclusive, CopiesDisjoint
  <2> QED  BY <1>7, <2>1
<1>10. \A event \in Rest \union {made} : \A e \in event.ees : owner[e] \in {NoEvent, event.id}
  BY <1>8 DEF Exclusive, OwnMembers
<1> DEFINE C == Copies'
<1> HIDE DEF C, Rest
<1>11. C \subseteq Rest \union {made}
  BY <1>4 DEF C
<1>12. CopiesDisjoint' /\ OwnMembers'
  <2>1. \A event, other \in C : event.ees \intersect other.ees # {} => event.id = other.id
    BY <1>9, <1>11
  <2>2. \A event \in C : \A e \in event.ees : owner'[e] \in {NoEvent, event.id}
    BY <1>1, <1>10, <1>11
  <2> QED  BY <2>1, <2>2 DEF C, CopiesDisjoint, OwnMembers
<1>13. RowsHold'
  BY <1>1 DEF Exclusive, RowsHold
<1> QED  BY <1>12, <1>13 DEF Exclusive

LEMMA TargetCopies ==
    ASSUME TypeInv, NEW p \in Persister, pc[p] \in Persisting
    PROVE  Target(p) \subseteq Copies /\ Target(p) \subseteq Event
<1>1. Target(p) \subseteq Event
  BY TargetType
<1>2. \A event \in Target(p) : event \in snapshot \/ \E g \in Group : event = base[g]
  BY DEF Target, Changed, Persister
<1> QED  BY <1>1, <1>2 DEF Copies

(* The row a persister leaves has all that the one it found had, and all   *)
(* that the copy it was given has.                                         *)
LEMMA RowsTakeIn ==
    ASSUME OutboxInv, LineInv, NEW p \in Persister, PersistEvents(p), NEW id \in EventId
    PROVE  /\ stored[id] # NoEvent =>
                stored'[id] # NoEvent /\ stored[id].ees \subseteq stored'[id].ees
           /\ \A event \in Target(p) : event.id = id =>
                stored'[id] # NoEvent /\ event.ees \subseteq stored'[id].ees
<1>1. pc[p] = "persist" /\ stored[id] \in Event \union {NoEvent}
  BY EventTypes DEF PersistEvents, OutboxInv
<1>2. stored[id] # NoEvent => stored[id].id = id /\ stored[id].ver \in Nat
  BY <1>1 DEF LineInv, RowsKeyed, Event
<1>3. ASSUME NEW event \in Target(p), event.id = id
      PROVE  /\ event # NoEvent /\ event.ver \in Nat /\ event.ver > 0
             /\ stored[id] # NoEvent => Below(event, stored[id]) \/ Below(stored[id], event)
  <2>1. event \in Event /\ event.ver > 0
    BY <1>1, TargetLine
  <2>2. Behind(event, stored[event.id]) \/ Behind(stored[event.id], event)
    BY <1>1, TargetLine
  <2> QED  BY <1>2, <1>3, <2>1, <2>2 DEF Behind, Event
<1>4. CASE /\ stored'[id] = stored[id]
           /\ \A event \in Target(p) : event.id = id => ~Overwrites(stored, event)
  <2>1. ASSUME NEW event \in Target(p), event.id = id
        PROVE  stored[id] # NoEvent /\ event.ees \subseteq stored[id].ees
    <3>1. event.ver <= StoredVersion(stored, id)
      BY <1>1, <1>3, <1>4, <2>1 DEF Overwrites, StoredVersion, Event
    <3>2. stored[id] # NoEvent /\ event.ver <= stored[id].ver
      BY <1>3, <2>1, <3>1 DEF StoredVersion
    <3>3. Below(event, stored[id]) \/ Below(stored[id], event)
      BY <1>3, <2>1, <3>2
    <3> QED  BY <1>2, <1>3, <2>1, <3>2, <3>3 DEF Below
  <2> QED  BY <1>4, <2>1
<1>5. ASSUME NEW event \in Target(p), event.id = id, Overwrites(stored, event),
             stored'[id] = event
      PROVE  /\ stored[id] # NoEvent =>
                  stored'[id] # NoEvent /\ stored[id].ees \subseteq stored'[id].ees
             /\ \A other \in Target(p) : other.id = id =>
                  stored'[id] # NoEvent /\ other.ees \subseteq stored'[id].ees
  <2>1. ASSUME stored[id] # NoEvent PROVE stored[id].ees \subseteq event.ees
    <3>1. stored[id].ver < event.ver
      BY <1>5, <2>1 DEF Overwrites, StoredVersion
    <3>2. Below(event, stored[id]) \/ Below(stored[id], event)
      BY <1>3, <1>5, <2>1
    <3> QED  BY <1>2, <1>3, <1>5, <2>1, <3>1, <3>2 DEF Below
  <2>2. \A other \in Target(p) : other.id = id => other = event
    BY <1>5, TargetApart
  <2> QED  BY <1>3, <1>5, <2>1, <2>2
<1> QED  BY <1>4, <1>5, RowsWritten

LEMMA PersistExclusive ==
    ASSUME OutboxInv, LineInv, Exclusive, NEW p \in Persister, PersistEvents(p)
    PROVE  Exclusive'
<1>1. UNCHANGED <<active, base, updated, snapshot>>
  BY DEF PersistEvents, groupVars, persistVars, unpersisted, stateVars
<1>2. pc[p] \in Persisting /\ TypeInv
  BY DEF PersistEvents, Persisting, OutboxInv
<1>3. Copies' = Copies
  BY <1>1 DEF Copies
<1>4. Copies \subseteq Event /\ Target(p) \subseteq Copies
  BY <1>2, CopiesType, TargetCopies
<1> HIDE DEF Copies
<1>5. CopiesDisjoint'
  BY <1>3 DEF Exclusive, CopiesDisjoint
<1>6. ASSUME NEW event \in Copies, NEW e \in event.ees
      PROVE  owner'[e] \in {NoEvent, event.id}
  <2>1. e \in EntityEvent
    BY <1>4 DEF Event
  <2>2. owner[e] \in {NoEvent, event.id}
    BY DEF Exclusive, OwnMembers
  <2>3. ASSUME NEW other \in Target(p), e \in other.ees PROVE other.id = event.id
    <3>1. e \in other.ees \intersect event.ees
      BY <2>3
    <3> QED  BY <1>4, <3>1 DEF Exclusive, CopiesDisjoint
  <2> QED  BY <2>1, <2>2, <2>3, MembersWritten
<1>7. OwnMembers'
  BY <1>3, <1>6 DEF OwnMembers
<1>8. ASSUME NEW e \in EntityEvent, owner'[e] # NoEvent
      PROVE  stored'[owner'[e]] # NoEvent /\ e \in stored'[owner'[e]].ees
  <2>1. CASE owner[e] # NoEvent
    <3>1. owner'[e] = owner[e] /\ owner[e] \in EventId
      BY <2>1, MembersWritten, <1>2 DEF TypeInv, TypeOK, TablesOK
    <3>2. stored[owner[e]] # NoEvent /\ e \in stored[owner[e]].ees
      BY <2>1 DEF Exclusive, RowsHold
    <3> QED  BY <3>1, <3>2, RowsTakeIn
  <2>2. CASE owner[e] = NoEvent
    <3>1. PICK event \in Target(p) : e \in event.ees /\ owner'[e] = event.id
      BY <1>8, <2>2, MembersWritten
    <3>2. event.id \in EventId
      BY <1>4 DEF Event
    <3> QED  BY <3>1, <3>2, RowsTakeIn
  <2> QED  BY <2>1, <2>2
<1>9. ASSUME NEW id \in EventId, stored'[id] # NoEvent, NEW e \in stored'[id].ees
      PROVE  owner'[e] = id
  <2>1. CASE stored'[id] = stored[id]
    <3>1. e \in EntityEvent
      BY <1>2, <1>9, <2>1, EventTypes DEF Event
    <3>2. owner[e] = id /\ owner[e] # NoEvent
      BY <1>9, <2>1 DEF Exclusive, RowsHold
    <3> QED  BY <3>1, <3>2, MembersWritten
  <2>2. CASE stored'[id] \in Target(p) /\ stored'[id].id = id
    <3>1. e \in EntityEvent /\ stored'[id] \in Copies
      BY <1>4, <2>2 DEF Event
    <3>2. owner'[e] \in {NoEvent, id}
      BY <1>6, <2>2, <3>1
    <3>3. owner'[e] # NoEvent
      <4>1. \A event \in Target(p) : event.id # NoEvent
        BY <1>4 DEF Event
      <4> QED  BY <2>2, <3>1, <4>1, MembersWritten
    <3> QED  BY <3>2, <3>3
  <2> QED  BY <2>1, <2>2, RowsWritten
<1>10. RowsHold'
  BY <1>8, <1>9 DEF RowsHold
<1> QED  BY <1>5, <1>7, <1>10 DEF Exclusive

LEMMA OtherExclusive ==
    ASSUME TypeInv, Exclusive, Next, \A g \in Group : ~ Merge(g),
           \A p \in Persister : ~ PersistEvents(p)
    PROVE  Exclusive'
<1>1. UNCHANGED <<stored, owner>>
  BY DEF Next, Read, ReadNothing, Claim, ScanAll, ScanFails, LoopStep, RouteToDeadLetter,
     SkipInFlight, RouteOne, EnqueueMerge, FindNoRow, PushDeadLetter, AckRouted,
     AckRoutedFails, FetchFails, GroupStep, GetActiveEvent, SkipMerged, SkipLate,
     UpsertActiveEvent, AckMerged, AckMergedFails, CheckFails, UpsertFails, PersistStep,
     SelectUnpublished, Publish, MarkPublished, PersistFails, CrashLayer, Shutdown,
     StopLoops, FinalFlushTimesOut, Exit, Crash, EndProcess, StartLayer, StreamDown,
     StreamUp, Tick, unrouted, unmerged, unpersisted, tableVars
<1>2. /\ \A event \in snapshot' : event \in snapshot \/ \E g \in Group : event = active[g]
      /\ \A g \in Group :
           /\ active'[g] \in {active[g], updated[g], NoEvent}
           /\ base'[g] \in {base[g], active[g], NoEvent}
           /\ updated'[g] \in {updated[g], NoEvent}
  <2>1. CASE \/ Read \/ ReadNothing \/ Claim \/ ScanAll \/ ScanFails
             \/ \E l \in Loop : LoopStep(l) \/ FetchFails(l)
    <3>1. UNCHANGED <<active, base, updated>>
      BY <2>1 DEF Read, ReadNothing, Claim, ScanAll, ScanFails, LoopStep, RouteToDeadLetter,
         SkipInFlight, RouteOne, EnqueueMerge, FindNoRow, PushDeadLetter, AckRouted,
         AckRoutedFails, FetchFails, unrouted, unpersisted, groupVars, stateVars
    <3>2. snapshot' = snapshot \/ snapshot' = {active[g] : g \in Group} \ {NoEvent}
      BY <2>1, Zenon DEF Read, ReadNothing, Claim, ScanAll, ScanFails, LoopStep,
         RouteToDeadLetter, SkipInFlight, RouteOne, EnqueueMerge, FindNoRow, PushDeadLetter,
         AckRouted, AckRoutedFails, FetchFails, unrouted, persistVars
    <3> QED  BY <3>1, <3>2
  <2>2. CASE \E g \in Group : GroupStep(g) \/ CheckFails(g) \/ UpsertFails(g)
    <3>1. PICK g \in Group : GroupStep(g) \/ CheckFails(g) \/ UpsertFails(g)
      BY <2>2
    <3>2. /\ \A h \in Group : base'[h] \in {base[h], active[h], NoEvent}
          /\ \A h \in Group : updated'[h] \in {updated[h], NoEvent}
      BY <3>1, EventTypes DEF GroupStep, GetActiveEvent, SkipMerged, SkipLate,
         UpsertActiveEvent, AckMerged, AckMergedFails, CheckFails, UpsertFails, FailMerge,
         Settle, Leave
    <3>3. \A h \in Group : active'[h] \in {active[h], updated[h]}
      BY <3>1, EventTypes DEF GroupStep, GetActiveEvent, SkipMerged, SkipLate,
         UpsertActiveEvent, AckMerged, AckMergedFails, CheckFails, UpsertFails, Upserted,
         stateVars
    <3>4. snapshot' = snapshot
      BY <3>1 DEF GroupStep, GetActiveEvent, SkipMerged, SkipLate, UpsertActiveEvent,
         AckMerged, AckMergedFails, CheckFails, UpsertFails, unmerged, persistVars
    <3> QED  BY <3>2, <3>3, <3>4
  <2>3. CASE \E p \in Persister : PersistStep(p) \/ PersistFails(p)
    <3>1. PICK p \in Persister : PersistStep(p) \/ PersistFails(p)
      BY <2>3
    <3>2. active' = active /\ snapshot' \subseteq snapshot
      BY <3>1 DEF PersistStep, PersistEvents, SelectUnpublished, Publish, MarkPublished,
         PersistFails, Continue, NoFlush, unpersisted, stateVars, persistVars
    <3>3. /\ \A h \in Group : base'[h] \in {base[h], NoEvent}
          /\ \A h \in Group : updated'[h] \in {updated[h], NoEvent}
      BY <3>1, EventTypes DEF PersistStep, PersistEvents, SelectUnpublished, Publish,
         MarkPublished, PersistFails, FailMerge, Leave, groupVars
    <3> QED  BY <3>2, <3>3
  <2>4. CASE \/ CrashLayer \/ Shutdown \/ FinalFlushTimesOut \/ Exit \/ Crash
             \/ StartLayer \/ StreamDown \/ StreamUp \/ Tick
    <3>1. snapshot' \subseteq snapshot
      BY <2>4 DEF CrashLayer, Shutdown, StopLoops, FinalFlushTimesOut, NoFlush, Exit, Crash,
         EndProcess, StartLayer, StreamDown, StreamUp, Tick, persistVars
    <3>2. \A g \in Group :
            /\ active'[g] \in {active[g], NoEvent} /\ base'[g] \in {base[g], NoEvent}
            /\ updated'[g] \in {updated[g], NoEvent}
      BY <2>4 DEF CrashLayer, Shutdown, StopLoops, FinalFlushTimesOut, Exit, Crash,
         EndProcess, StartLayer, StreamDown, StreamUp, Tick, groupVars, stateVars
    <3> QED  BY <3>1, <3>2
  <2> QED  BY <2>1, <2>2, <2>3, <2>4 DEF Next
<1>3. Copies' \subseteq Copies
  <2> SUFFICES ASSUME NEW event \in Copies' PROVE event \in Copies
    OBVIOUS
  <2>1. /\ event # NoEvent
        /\ \/ event \in snapshot'
           \/ \E g \in Group : event \in {active'[g], base'[g], updated'[g]}
    BY DEF Copies
  <2>2. \/ event \in snapshot
        \/ \E g \in Group : event \in {active[g], base[g], updated[g]}
    BY <1>2, <2>1
  <2> QED  BY <2>1, <2>2 DEF Copies
<1> QED  BY <1>1, <1>3, ExclusiveKept

LEMMA ExclusiveStep ==
    AckInv /\ OutboxInv /\ LineInv /\ GroupInv /\ MergedIsHeld /\ Exclusive /\ [Next]_vars
      => Exclusive'
<1> SUFFICES ASSUME AckInv, OutboxInv, LineInv, GroupInv, MergedIsHeld, Exclusive, [Next]_vars
             PROVE  Exclusive'
  OBVIOUS
<1>1. CASE UNCHANGED vars
  BY <1>1, ExclusiveKept DEF vars, tableVars, groupVars, persistVars, stateVars, Copies
<1>2. CASE Next
  <2>1. CASE \E g \in Group : Merge(g)
    BY <2>1, MergeExclusive
  <2>2. CASE \E p \in Persister : PersistEvents(p)
    BY <2>2, PersistExclusive
  <2> QED  BY <1>2, <2>1, <2>2, OtherExclusive DEF OutboxInv
<1> QED  BY <1>1, <1>2

(* What holds of every behaviour, whatever expires.                        *)
LEMMA SafetyInvariants == Spec => [](AckInv /\ OutboxInv /\ LineInv /\ GroupInv)
<1>1. Spec => [](AckInv /\ OutboxInv)
  BY AckInit, AckInductive, OutboxInit, OutboxInductive, PTL DEF Spec
<1>2. AckInv => TypeInv
  BY DEF AckInv
<1> QED  BY <1>1, <1>2, LineInit, LineStep, GroupInit, GroupInductive, PTL DEF Spec

LEMMA HeldAndExclusive == Spec /\ KeyOutlivesFlush => [](MergedIsHeld /\ Exclusive)
<1>1. Init => MergedIsHeld
  BY DEF Init, MergedIsHeld
<1>2. KeyOutlivesFlush => [][Outlives]_vars
  BY PTL DEF KeyOutlivesFlush, Outlives
<1> QED  BY <1>1, <1>2, SafetyInvariants, HeldStep, ExclusiveInit, ExclusiveStep, PTL DEF Spec

(* As long as every key outlives a flush (KeyOutlivesFlush), whatever      *)
(* fails, stops or comes twice, an acknowledged EntityEvent that was not   *)
(* late is in the state Redis or in Postgres.                              *)
THEOREM OutlivedLosesNothing == Spec /\ KeyOutlivesFlush => []NothingAckedIsLost
<1>1. AckInv /\ MergedIsHeld => NothingAckedIsLost
  BY DEF AckInv, AckedWasMerged, MergedIsHeld, NothingAckedIsLost
<1> QED  BY <1>1, SafetyInvariants, HeldAndExclusive, PTL

(* As long as every key outlives a flush, the row of an Event has exactly  *)
(* its members, although loops, flushes and groups write both from         *)
(* snapshots of different ages (persist_events).                           *)
THEOREM OutlivedRowsMatch == Spec /\ KeyOutlivesFlush => []RowsMatchMemberships
<1>1. OutboxInv /\ Exclusive => RowsMatchMemberships
  <2> SUFFICES ASSUME OutboxInv, Exclusive, NEW id \in EventId, stored[id] # NoEvent
               PROVE  stored[id].ees = {e \in EntityEvent : owner[e] = id}
    BY DEF RowsMatchMemberships
  <2>1. stored[id].ees \subseteq EntityEvent
    BY EventTypes DEF OutboxInv, Event
  <2> QED  BY <2>1 DEF Exclusive, RowsHold
<1> QED  BY <1>1, SafetyInvariants, HeldAndExclusive, PTL
-----------------------------------------------------------------------------
(***************************************************************************)
(* How many failures a key outlives.  It lives Grace flush intervals after *)
(* a merge; in each the flush either reads it, or one of the failures that *)
(* are left is used up.                                                    *)
(***************************************************************************)
Grace == (Earlier(SLIDING_WINDOW, 1) + 2 * DB_FLUSH_INTERVAL) \div DB_FLUSH_INTERVAL

FailuresLeft == (MaxFaults - faults) + (MaxStops - stops) + (MaxOverdue - overdue)

Budget == faults <= MaxFaults /\ stops <= MaxStops /\ overdue <= MaxOverdue

Persisted(event) == event.ver <= StoredVersion(stored, event.id)

Flushing == snapshot # {} => pc[Consumer] \in Persisting

(* How long the active Event may have to wait for the end of a flush that  *)
(* stores it.                                                              *)
Patience(g) ==
    FailuresLeft + (IF active[g] \in snapshot THEN 0 ELSE 1) + (IF flushed THEN 1 ELSE 0)

InTime ==
    \A g \in Group : active[g] # NoEvent /\ ~Persisted(active[g]) => ttl[g] >= Patience(g)

TimeInv == Budget /\ Flushing /\ InTime

(* Only once nothing can fail any more does a key expire in a flush's      *)
(* hands.                                                                  *)
MergedIsInHand ==
    \A e \in merged :
        \/ owner[e] # NoEvent \/ ActivelyIn(e)
        \/ FailuresLeft = 0 /\ \E event \in snapshot : e \in event.ees

SafetyInv == AckInv /\ OutboxInv /\ LineInv /\ GroupInv

LEMMA TtlGrace ==
    ASSUME NEW event \in Event, event.last - event.first < EVENT_MAX_TIMESPAN
    PROVE  ttl_for(event) \div DB_FLUSH_INTERVAL >= Grace
<1>1. event.last \in Int /\ event.first \in Int
  BY DEF Event
<1>2. ttl_for(event) >= Earlier(SLIDING_WINDOW, 1) + 2 * DB_FLUSH_INTERVAL
  BY <1>1 DEF ttl_for, Earlier
<1>3. /\ ttl_for(event) \in Int
      /\ Earlier(SLIDING_WINDOW, 1) + 2 * DB_FLUSH_INTERVAL \in Int
  BY <1>1 DEF ttl_for, Earlier
<1>4. \A a, b \in Int : a >= b => a \div DB_FLUSH_INTERVAL >= b \div DB_FLUSH_INTERVAL
  OBVIOUS
<1> QED  BY <1>2, <1>3, <1>4 DEF Grace

LEMMA TimeTypes ==
    ASSUME TypeInv
    PROVE  /\ faults \in Nat /\ stops \in Nat /\ overdue \in Nat /\ FailuresLeft \in Int
           /\ ttl \in [Group -> Nat] /\ flushed \in BOOLEAN /\ merged \subseteq EntityEvent
           /\ pc \in [Process -> Place] /\ Consumer \in Process /\ Consumer \in Persister
           /\ \A g \in Group : g # Consumer
BY DEF TypeInv, TypeOK, RestOK, EventsOK, TasksOK, FailuresLeft, Process, Loop, Persister

LEMMA TimeInit == Init => TimeInv /\ MergedIsInHand
BY DEF Init, TimeInv, Budget, Flushing, InTime, MergedIsInHand

(* What a step spends.                                                     *)
Spends ==
    /\ faults' >= faults /\ stops' >= stops /\ overdue' >= overdue
    /\ Budget'

LEMMA LeftOrder ==
    ASSUME NEW f \in Nat, NEW s \in Nat, NEW o \in Nat,
           NEW f1 \in Nat, NEW s1 \in Nat, NEW o1 \in Nat,
           f <= f1, s <= s1, o <= o1, f1 <= MaxFaults, s1 <= MaxStops, o1 <= MaxOverdue
    PROVE  LET before == (MaxFaults - f) + (MaxStops - s) + (MaxOverdue - o)
               after == (MaxFaults - f1) + (MaxStops - s1) + (MaxOverdue - o1)
           IN  /\ after \in Nat /\ before \in Nat /\ after <= before
               /\ f < f1 \/ s < s1 \/ o < o1 => after < before
<1>1. MaxFaults \in Nat /\ MaxStops \in Nat /\ MaxOverdue \in Nat
  OBVIOUS
<1>2. \A a, b, c \in Nat : f1 <= a /\ s1 <= b /\ o1 <= c =>
        LET before == (a - f) + (b - s) + (c - o)
            after == (a - f1) + (b - s1) + (c - o1)
        IN  /\ after \in Nat /\ before \in Nat /\ after <= before
            /\ f < f1 \/ s < s1 \/ o < o1 => after < before
  OBVIOUS
<1> QED  BY <1>1, <1>2

LEMMA SpentLeft ==
    ASSUME TypeInv, TypeInv', Budget, Spends
    PROVE  /\ FailuresLeft \in Nat /\ FailuresLeft' \in Nat
           /\ FailuresLeft' <= FailuresLeft
           /\ faults < faults' \/ stops < stops' \/ overdue < overdue'
                => FailuresLeft' < FailuresLeft
<1>1. faults \in Nat /\ stops \in Nat /\ overdue \in Nat
  BY TimeTypes
<1>2. faults' \in Nat /\ stops' \in Nat /\ overdue' \in Nat
  BY DEF TypeInv, TypeOK, RestOK
<1>3. /\ faults <= faults' /\ stops <= stops' /\ overdue <= overdue'
      /\ faults' <= MaxFaults /\ stops' <= MaxStops /\ overdue' <= MaxOverdue
  BY <1>1, <1>2 DEF Spends, Budget
<1> QED  BY <1>1, <1>2, <1>3, LeftOrder DEF FailuresLeft

LEMMA FaultSpends ==
    ASSUME TypeInv, TypeInv', Budget, Spends,
           Fault \/ (stops < MaxStops /\ stops' = stops + 1)
    PROVE  FailuresLeft' < FailuresLeft
<1>1. faults \in Nat /\ stops \in Nat
  BY TimeTypes
<1>2. faults < faults' \/ stops < stops'
  BY <1>1 DEF Fault
<1> QED  BY <1>2, SpentLeft

LEMMA SpendStep == TypeInv /\ Budget /\ [Next]_vars => Spends
<1> SUFFICES ASSUME TypeInv, Budget, [Next]_vars PROVE Spends
  OBVIOUS
<1>1. faults \in Nat /\ stops \in Nat /\ overdue \in Nat
  BY TimeTypes
<1>2. SUFFICES /\ faults' = faults \/ Fault
               /\ stops' = stops \/ (stops < MaxStops /\ stops' = stops + 1)
               /\ overdue' = overdue \/ (overdue < MaxOverdue /\ overdue' = overdue + 1)
  BY <1>1 DEF Budget, Spends, Fault
<1>3. CASE \/ Read \/ ReadNothing \/ Claim \/ ScanAll \/ ScanFails
           \/ \E l \in Loop : LoopStep(l) \/ FetchFails(l)
  BY <1>3 DEF Read, ReadNothing, Claim, ScanAll, ScanFails, LoopStep, RouteToDeadLetter,
     SkipInFlight, RouteOne, EnqueueMerge, FindNoRow, PushDeadLetter, AckRouted,
     AckRoutedFails, FetchFails, unrouted, unpersisted, timeVars
<1>4. CASE \E g \in Group : GroupStep(g) \/ CheckFails(g) \/ UpsertFails(g)
  BY <1>4 DEF GroupStep, GetActiveEvent, SkipMerged, SkipLate, Merge, UpsertActiveEvent,
     AckMerged, AckMergedFails, CheckFails, UpsertFails, unmerged, timeVars
<1>5. CASE \E p \in Persister : PersistStep(p) \/ PersistFails(p)
  BY <1>5 DEF PersistStep, PersistEvents, SelectUnpublished, Publish, MarkPublished,
     PersistFails, unpersisted
<1>6. CASE \/ CrashLayer \/ Shutdown \/ FinalFlushTimesOut \/ Exit \/ Crash
           \/ StartLayer \/ StreamDown \/ StreamUp \/ Tick \/ UNCHANGED vars
  BY <1>6 DEF CrashLayer, Shutdown, StopLoops, FinalFlushTimesOut, Exit, Crash, EndProcess,
     StartLayer, StreamDown, StreamUp, Tick, vars, timeVars, failureVars
<1> QED  BY <1>3, <1>4, <1>5, <1>6 DEF Next

(* A flush is under way as long as it has a snapshot.                      *)
LEMMA FlushingStep == TypeInv /\ Flushing /\ [Next]_vars => Flushing'
<1> SUFFICES ASSUME TypeInv, Flushing, [Next]_vars PROVE Flushing'
  OBVIOUS
<1>1. /\ pc \in [Process -> Place] /\ Consumer \in Process /\ Reclaimer # Consumer
      /\ \A g \in Group : g # Consumer
  BY TimeTypes
<1>2. CASE \/ Read \/ ReadNothing \/ Claim \/ ScanAll \/ ScanFails
           \/ \E l \in Loop : LoopStep(l) \/ FetchFails(l)
  <2>1. CASE pc'[Consumer] = pc[Consumer] /\ UNCHANGED snapshot
    BY <2>1 DEF Flushing
  <2>2. CASE pc'[Consumer] \in Persisting
    BY <2>2 DEF Flushing
  <2>3. CASE pc[Consumer] \notin Persisting /\ UNCHANGED snapshot
    BY <2>3 DEF Flushing
  <2>4. CASE Read \/ ReadNothing \/ Claim \/ ScanAll \/ ScanFails
    BY <1>1, <2>1, <2>2, <2>3, <2>4 DEF Read, ReadNothing, Claim, ScanAll, ScanFails, Loop,
       unrouted, persistVars, Persisting
  <2>5. CASE \E l \in Loop : LoopStep(l) \/ FetchFails(l)
    BY <1>1, <2>1, <2>2, <2>3, <2>5 DEF LoopStep, RouteToDeadLetter, SkipInFlight, RouteOne,
       EnqueueMerge, FindNoRow, PushDeadLetter, AckRouted, AckRoutedFails, FetchFails,
       NextMessage, Loop, unrouted, persistVars, Persisting
  <2> QED  BY <1>2, <2>4, <2>5
<1>3. CASE \E g \in Group : GroupStep(g) \/ CheckFails(g) \/ UpsertFails(g)
  <2>1. pc'[Consumer] = pc[Consumer] /\ UNCHANGED snapshot
    BY <1>1, <1>3 DEF GroupStep, GetActiveEvent, SkipMerged, SkipLate, Merge,
       UpsertActiveEvent, AckMerged, AckMergedFails, CheckFails, UpsertFails, FailMerge,
       Settle, Leave, unmerged, persistVars
  <2> QED  BY <2>1 DEF Flushing
<1>4. CASE \E p \in Persister : PersistStep(p) \/ PersistFails(p)
  <2>1. PICK p \in Persister : PersistStep(p) \/ PersistFails(p)
    BY <1>4
  <2>2. p \in Process
    BY DEF Persister, Process, Loop
  <2>3. CASE p = Consumer
    BY <1>1, <2>1, <2>3 DEF PersistStep, PersistEvents, SelectUnpublished, Publish,
       MarkPublished, PersistFails, Continue, NoFlush, Flushing, Persisting
  <2>4. CASE p # Consumer
    <3>1. pc'[Consumer] = pc[Consumer] /\ UNCHANGED snapshot
      BY <1>1, <2>1, <2>2, <2>4 DEF PersistStep, PersistEvents, SelectUnpublished, Publish,
         MarkPublished, PersistFails, Continue, FailMerge, Leave, persistVars
    <3> QED  BY <3>1 DEF Flushing
  <2> QED  BY <2>3, <2>4
<1>5. CASE \/ CrashLayer \/ Shutdown \/ FinalFlushTimesOut \/ Exit \/ Crash
           \/ StartLayer \/ StreamDown \/ StreamUp \/ Tick \/ UNCHANGED vars
  BY <1>1, <1>5 DEF CrashLayer, Shutdown, StopLoops, FinalFlushTimesOut, NoFlush, Exit, Crash,
     EndProcess, StartLayer, StreamDown, StreamUp, Tick, vars, persistVars, Flushing
<1> QED  BY <1>2, <1>3, <1>4, <1>5 DEF Next

(* A copy the flush has read that is stored at its version is in its row.  *)
LEMMA FlushedIsOwned ==
    ASSUME OutboxInv, LineInv, NEW event \in snapshot, Persisted(event)
    PROVE  \A e \in event.ees : owner[e] # NoEvent
<1>1. /\ event \in Event /\ event # NoEvent /\ event.id \in EventId /\ event.ver \in Nat
      /\ stored[event.id] \in Event \union {NoEvent}
  BY EventTypes DEF OutboxInv, Event
<1>2. event.ver > 0
  BY <1>1 DEF LineInv, CopiesStamped, Stamped
<1>3. stored[event.id] # NoEvent /\ event.ver <= stored[event.id].ver
  BY <1>1, <1>2 DEF Persisted, StoredVersion
<1>4. /\ stored[event.id].id = event.id /\ stored[event.id].ver \in Nat
      /\ \A e \in stored[event.id].ees : owner[e] # NoEvent
  BY <1>1, <1>3 DEF LineInv, RowsKeyed, Event
<1>5. Behind(event, stored[event.id]) \/ Behind(stored[event.id], event)
  BY DEF LineInv, RowLine
<1>6. Below(event, stored[event.id]) \/ Below(stored[event.id], event)
  BY <1>1, <1>3, <1>4, <1>5 DEF Behind
<1>7. event.ees \subseteq stored[event.id].ees
  BY <1>1, <1>3, <1>4, <1>6 DEF Below
<1> QED  BY <1>4, <1>7

(* What is noted as flushed is stored.                                     *)
LEMMA NotedIsPersisted ==
    ASSUME OutboxInv, NEW event \in Event, lastFlushed[event.id] = event.ver
    PROVE  Persisted(event)
<1>1. event.id \in EventId /\ event.ver \in Nat
  BY DEF Event
<1>2. /\ lastFlushed[event.id] <= published[event.id]
      /\ published[event.id] <= StoredVersion(stored, event.id)
  BY <1>1 DEF OutboxInv, Publishing, FlushedMarked, MarksStored
<1>3. published[event.id] \in Nat /\ StoredVersion(stored, event.id) \in Nat
  BY <1>1, StoredVersions DEF OutboxInv
<1> QED  BY <1>1, <1>2, <1>3 DEF Persisted

(* A flush that is announcing has stored what it read.                     *)
LEMMA AnnouncedIsPersisted ==
    ASSUME OutboxInv, pc[Consumer] = "announce", NEW event \in snapshot
    PROVE  Persisted(event)
<1>1. event \in Event /\ event.id \in EventId /\ event.ver \in Nat /\ TypeInv
  BY EventTypes DEF OutboxInv, Event
<1>2. Consumer \in Persister
  BY DEF Persister
<1>3. /\ published[event.id] \in Nat /\ StoredVersion(stored, event.id) \in Nat
      /\ \A x \in outbox[Consumer] : x.ver \in Nat
  BY <1>1, <1>2, StoredVersions
<1>4. CASE event \in Target(Consumer)
  <2>1. \/ event.ver <= published[event.id]
        \/ \E x \in outbox[Consumer] : Announces(x, event)
    BY <1>2, <1>4 DEF OutboxInv, Publishing, TargetDue
  <2>2. /\ published[event.id] <= StoredVersion(stored, event.id)
        /\ \A x \in outbox[Consumer] : x.ver <= StoredVersion(stored, x.id)
    BY <1>1, <1>2 DEF OutboxInv, Publishing, MarksStored
  <2> QED  BY <1>1, <1>3, <2>1, <2>2 DEF Announces, Persisted
<1>5. CASE event \notin Target(Consumer)
  <2>1. lastFlushed[event.id] = event.ver
    BY <1>5 DEF Target, Changed
  <2> QED  BY <1>1, <2>1, NotedIsPersisted
<1> QED  BY <1>4, <1>5

(* A flush that ends well has stored what it read.                         *)
LEMMA DoneIsPersisted ==
    ASSUME OutboxInv, OutboxInv', lastFlushed' = FlushOf(snapshot), stored' = stored,
           NEW event \in snapshot
    PROVE  Persisted(event)
<1>1. event \in Event /\ event.id \in EventId /\ event.ver \in Nat
  BY EventTypes DEF OutboxInv, Event
<1>2. (CHOOSE other \in snapshot : other.id = event.id) = event
  BY DEF OutboxInv, Apart
<1>3. lastFlushed'[event.id] = event.ver
  BY <1>1, <1>2 DEF FlushOf
<1>4. /\ lastFlushed'[event.id] <= published'[event.id]
      /\ published'[event.id] <= StoredVersion(stored', event.id)
  BY <1>1 DEF OutboxInv, Publishing, FlushedMarked, MarksStored
<1>5. published'[event.id] \in Nat /\ StoredVersion(stored, event.id) \in Nat
  <2>1. published' \in [EventId -> Nat]
    BY DEF OutboxInv, TypeInv, TypeOK, TablesOK
  <2> QED  BY <1>1, <2>1, StoredVersions DEF OutboxInv
<1> QED  BY <1>1, <1>3, <1>4, <1>5 DEF Persisted

(* What becomes of a flush's snapshot in a step that starts none.          *)
SnapshotFate ==
    \A event \in snapshot :
        event \in snapshot' \/ FailuresLeft' < FailuresLeft \/ Persisted(event)

LEMMA PersisterFate ==
    ASSUME OutboxInv, OutboxInv', Budget, Spends, NEW p \in Persister,
           PersistStep(p) \/ PersistFails(p)
    PROVE  SnapshotFate
<1>1. CASE PersistFails(p)
  <2>1. FailuresLeft' < FailuresLeft
    BY <1>1, FaultSpends DEF PersistFails, OutboxInv
  <2> QED  BY <2>1 DEF SnapshotFate
<1>2. CASE PersistStep(p) /\ snapshot' = snapshot
  BY <1>2 DEF SnapshotFate
<1>3. CASE PersistStep(p) /\ snapshot' # snapshot
  <2>1. lastFlushed' = FlushOf(snapshot) /\ stored' = stored
    BY <1>3 DEF PersistStep, PersistEvents, SelectUnpublished, Publish, MarkPublished,
       Continue, persistVars, tableVars
  <2> QED  BY <2>1, DoneIsPersisted DEF SnapshotFate
<1> QED  BY <1>1, <1>2, <1>3

LEMMA OtherFate ==
    ASSUME OutboxInv, OutboxInv', TimeInv, Spends,
           \/ Read \/ ReadNothing \/ Claim \/ ScanFails
           \/ \E l \in Loop : LoopStep(l) \/ FetchFails(l)
           \/ \E g \in Group : GroupStep(g) \/ CheckFails(g) \/ UpsertFails(g)
           \/ CrashLayer \/ Shutdown \/ FinalFlushTimesOut \/ Exit \/ Crash
           \/ StartLayer \/ StreamDown \/ StreamUp \/ Tick \/ UNCHANGED vars
    PROVE  SnapshotFate
<1>1. CASE \/ Read \/ ReadNothing \/ Claim \/ ScanFails
           \/ \E l \in Loop : LoopStep(l) \/ FetchFails(l)
           \/ \E g \in Group : GroupStep(g) \/ CheckFails(g) \/ UpsertFails(g)
           \/ StartLayer \/ StreamDown \/ StreamUp \/ Tick \/ UNCHANGED vars
  <2>1. snapshot' = snapshot
    BY <1>1 DEF Read, ReadNothing, Claim, ScanFails, LoopStep, RouteToDeadLetter,
       SkipInFlight, RouteOne, EnqueueMerge, FindNoRow, PushDeadLetter, AckRouted,
       AckRoutedFails, FetchFails, GroupStep, GetActiveEvent, SkipMerged, SkipLate, Merge,
       UpsertActiveEvent, AckMerged, AckMergedFails, CheckFails, UpsertFails, StartLayer,
       StreamDown, StreamUp, Tick, vars, unrouted, unmerged, persistVars
  <2> QED  BY <2>1 DEF SnapshotFate
<1>2. CASE CrashLayer \/ Shutdown \/ Crash
  <2>1. FailuresLeft' < FailuresLeft
    BY <1>2, FaultSpends DEF CrashLayer, Shutdown, StopLoops, Crash, OutboxInv, TimeInv
  <2> QED  BY <2>1 DEF SnapshotFate
<1>3. CASE Exit
  <2>1. snapshot = {}
    BY <1>3 DEF Exit, TimeInv, Flushing, Persisting
  <2> QED  BY <2>1 DEF SnapshotFate
<1>4. CASE FinalFlushTimesOut
  <2>1. CASE pc[Consumer] = "announce"
    BY <2>1, AnnouncedIsPersisted DEF SnapshotFate
  <2>2. CASE pc[Consumer] # "announce"
    <3>1. FailuresLeft' < FailuresLeft
      BY <1>4, <2>2, FaultSpends DEF FinalFlushTimesOut, OutboxInv, TimeInv
    <3> QED  BY <3>1 DEF SnapshotFate
  <2> QED  BY <2>1, <2>2
<1> QED  BY <1>1, <1>2, <1>3, <1>4

LEMMA LeftNat == ASSUME TypeInv, Budget PROVE FailuresLeft \in Nat
BY TimeTypes, LeftOrder DEF Budget, FailuresLeft

(* InTime, of one group after a step.                                      *)
LEMMA InTimeGroups ==
    ASSUME \A g \in Group :
             active'[g] # NoEvent /\ ~(active'[g].ver <= StoredVersion(stored', active'[g].id))
               => ttl'[g] >= FailuresLeft' + (IF active'[g] \in snapshot' THEN 0 ELSE 1)
                               + (IF flushed' THEN 1 ELSE 0)
    PROVE  InTime'
BY DEF InTime, Patience, Persisted

LEMMA GroupInTime ==
    ASSUME TypeInv, TypeInv', Budget, InTime, Spends, SnapshotFate, flushed' => flushed,
           \A id \in EventId : StoredVersion(stored, id) <= StoredVersion(stored', id),
           NEW g \in Group, active[g] # NoEvent,
           ~(active[g].ver <= StoredVersion(stored', active[g].id))
    PROVE  ttl[g] >= FailuresLeft' + (IF active[g] \in snapshot' THEN 0 ELSE 1)
                       + (IF flushed' THEN 1 ELSE 0)
<1>1. active[g].id \in EventId /\ active[g].ver \in Nat
  BY EventTypes DEF Event
<1>2. ~Persisted(active[g])
  <2>1. StoredVersion(stored, active[g].id) \in Nat /\ StoredVersion(stored', active[g].id) \in Nat
    <3>1. stored' \in [EventId -> Event \union {NoEvent}]
      BY DEF TypeInv, TypeOK, EventsOK
    <3> QED  BY <1>1, <3>1, StoredVersions DEF StoredVersion, Event
  <2> QED  BY <1>1, <2>1 DEF Persisted
<1>3. ttl[g] >= Patience(g) /\ ttl[g] \in Nat
  BY <1>2, TimeTypes DEF InTime
<1>4. active[g] \in snapshot => active[g] \in snapshot' \/ FailuresLeft' < FailuresLeft
  BY <1>2 DEF SnapshotFate
<1>5. /\ FailuresLeft \in Nat /\ FailuresLeft' \in Nat /\ FailuresLeft' <= FailuresLeft
      /\ flushed \in BOOLEAN /\ flushed' \in BOOLEAN
  BY SpentLeft, TimeTypes DEF TypeInv, TypeOK, RestOK
<1> QED  BY <1>3, <1>4, <1>5 DEF Patience

LEMMA InTimeKept ==
    ASSUME TypeInv, TypeInv', Budget, InTime, Spends, SnapshotFate, UNCHANGED <<active, ttl>>,
           flushed' => flushed,
           \A id \in EventId : StoredVersion(stored, id) <= StoredVersion(stored', id)
    PROVE  InTime'
BY GroupInTime, InTimeGroups

(* Rows only get newer.                                                    *)
LEMMA RowsGrow ==
    ASSUME OutboxInv, NEW p \in Persister, PersistStep(p) \/ PersistFails(p)
    PROVE  \A id \in EventId : StoredVersion(stored, id) <= StoredVersion(stored', id)
<1>1. CASE PersistEvents(p)
  <2>1. pc[p] \in Persisting /\ TypeInv /\ stored' = WithEvents(stored, Target(p))
    BY <1>1 DEF PersistEvents, Persisting, OutboxInv
  <2>2. Target(p) \in SUBSET Event
    BY <2>1, TargetCopies
  <2>3. \A event, other \in Target(p) : event.id = other.id => event = other
    BY TargetApart
  <2> HIDE DEF Target
  <2> QED  BY <2>1, <2>2, <2>3, StoredGrows
<1>2. CASE ~PersistEvents(p)
  <2>1. stored' = stored
    BY <1>2 DEF PersistStep, SelectUnpublished, Publish, MarkPublished, PersistFails, tableVars
  <2> QED  BY <2>1, StoredVersions DEF OutboxInv
<1> QED  BY <1>1, <1>2

LEMMA PersisterInTime ==
    ASSUME OutboxInv, OutboxInv', TimeInv, Spends, NEW p \in Persister,
           PersistStep(p) \/ PersistFails(p)
    PROVE  InTime'
<1>1. UNCHANGED <<active, ttl, flushed>>
  BY DEF PersistStep, PersistEvents, SelectUnpublished, Publish, MarkPublished, PersistFails,
     unpersisted, stateVars
<1> QED  BY <1>1, RowsGrow, PersisterFate, InTimeKept DEF OutboxInv, TimeInv

LEMMA ScanAllInTime ==
    ASSUME OutboxInv, OutboxInv', TimeInv, Spends, ScanAll
    PROVE  InTime'
<1> DEFINE found == {active[g] : g \in Group} \ {NoEvent}
<1>1. /\ UNCHANGED <<active, ttl, stored, faults, stops, overdue>> /\ flushed' = TRUE
      /\ FailuresLeft' = FailuresLeft
  BY DEF ScanAll, unpersisted, stateVars, tableVars, FailuresLeft
<1>2. snapshot = {}
  BY DEF ScanAll, TimeInv, Flushing, Persisting
<1> SUFFICES ASSUME NEW g \in Group, active[g] # NoEvent, ~Persisted(active[g])
             PROVE  ttl[g] >= FailuresLeft + (IF active[g] \in snapshot' THEN 0 ELSE 1) + 1
  BY <1>1, InTimeGroups DEF Persisted
<1>3. active[g] \in Event /\ active[g] \in found
  BY EventTypes DEF OutboxInv
<1>4. active[g] \in Changed(found)
  BY <1>3, NotedIsPersisted DEF Changed
<1>5. active[g] \in snapshot'
  BY <1>3, <1>4 DEF ScanAll
<1>6. ttl[g] >= FailuresLeft + 1 + (IF flushed THEN 1 ELSE 0)
  BY <1>2 DEF TimeInv, InTime, Patience
<1>7. ttl[g] \in Nat /\ FailuresLeft \in Nat /\ flushed \in BOOLEAN
  BY TimeTypes, LeftNat DEF OutboxInv, TimeInv
<1> QED  BY <1>5, <1>6, <1>7

LEMMA ScanFailsInTime ==
    ASSUME OutboxInv, OutboxInv', TimeInv, Spends, ScanFails
    PROVE  InTime'
<1>1. UNCHANGED <<active, ttl, stored, snapshot>> /\ flushed' = TRUE /\ Fault
  BY DEF ScanFails, unpersisted, stateVars, tableVars, persistVars
<1>2. FailuresLeft' < FailuresLeft /\ FailuresLeft' \in Nat
  BY <1>1, FaultSpends, SpentLeft DEF OutboxInv, TimeInv
<1> SUFFICES ASSUME NEW g \in Group, active[g] # NoEvent, ~Persisted(active[g])
             PROVE  ttl[g] >= FailuresLeft' + (IF active[g] \in snapshot THEN 0 ELSE 1) + 1
  BY <1>1, InTimeGroups DEF Persisted
<1>3. ttl[g] >= Patience(g)
  BY DEF TimeInv, InTime
<1>4. ttl[g] \in Nat /\ FailuresLeft \in Nat /\ flushed \in BOOLEAN
  BY TimeTypes, LeftNat DEF OutboxInv, TimeInv
<1> QED  BY <1>2, <1>3, <1>4 DEF Patience

(* What a merge stores outlives all the failures there can be.             *)
LEMMA UpsertedInTime ==
    ASSUME OutboxInv, OutboxInv', TimeInv, Spends,
           2 + MaxFaults + MaxStops + MaxOverdue <= Grace,
           NEW g \in Group, pc[g] = "upsert", Upserted(g), UNCHANGED <<stored, snapshot, flushed>>
    PROVE  InTime'
<1>1. /\ updated[g] \in Event /\ active'[g] = updated[g]
      /\ \A h \in Group \ {g} : active'[h] = active[h] /\ ttl'[h] = ttl[h]
      /\ ttl'[g] = ttl_for(updated[g]) \div DB_FLUSH_INTERVAL
  BY EventTypes, TimeTypes DEF OutboxInv, TypeInv, Locals, GroupLocals, Upserted
<1>2. updated[g].last - updated[g].first < EVENT_MAX_TIMESPAN
  BY DEF OutboxInv, TypeInv, Locals, GroupLocals, Persisting
<1>3. ttl'[g] >= Grace /\ ttl'[g] \in Nat
  <2>1. ttl' \in [Group -> Nat]
    BY DEF OutboxInv, TypeInv, TypeOK, EventsOK
  <2> QED  BY <1>1, <1>2, <2>1, TtlGrace
<1>4. FailuresLeft' \in Nat /\ FailuresLeft' <= MaxFaults + MaxStops + MaxOverdue
  <2>1. faults' \in Nat /\ stops' \in Nat /\ overdue' \in Nat
    BY DEF OutboxInv, TypeInv, TypeOK, RestOK
  <2>2. FailuresLeft' \in Nat
    BY SpentLeft DEF OutboxInv, TimeInv
  <2>3. MaxFaults \in Nat /\ MaxStops \in Nat /\ MaxOverdue \in Nat
    OBVIOUS
  <2>4. \A a, b, c, f, s, o \in Nat : (a - f) + (b - s) + (c - o) <= a + b + c
    OBVIOUS
  <2> QED  BY <2>1, <2>2, <2>3, <2>4 DEF FailuresLeft
<1>5. ttl'[g] >= 2 + FailuresLeft'
  <2>1. Grace \in Int
    <3>1. /\ Earlier(SLIDING_WINDOW, 1) + 2 * DB_FLUSH_INTERVAL \in Int
          /\ DB_FLUSH_INTERVAL \in Int /\ DB_FLUSH_INTERVAL > 0
      BY DEF Earlier
    <3> QED  BY <3>1 DEF Grace
  <2>2. MaxFaults + MaxStops + MaxOverdue \in Nat
    OBVIOUS
  <2> QED  BY <1>3, <1>4, <2>1, <2>2
<1>6. \A id \in EventId : StoredVersion(stored, id) <= StoredVersion(stored', id)
  BY StoredVersions DEF OutboxInv
<1>7. SnapshotFate
  BY DEF SnapshotFate
<1> SUFFICES ASSUME NEW h \in Group, active'[h] # NoEvent,
                    ~(active'[h].ver <= StoredVersion(stored', active'[h].id))
             PROVE  ttl'[h] >= FailuresLeft' + (IF active'[h] \in snapshot' THEN 0 ELSE 1)
                                 + (IF flushed' THEN 1 ELSE 0)
  BY InTimeGroups
<1>8. CASE h = g
  BY <1>3, <1>4, <1>5, <1>8
<1>9. CASE h # g
  BY <1>1, <1>6, <1>7, <1>9, GroupInTime DEF OutboxInv, TimeInv
<1> QED  BY <1>8, <1>9

LEMMA TickInTime ==
    ASSUME OutboxInv, OutboxInv', TimeInv, Spends, Tick
    PROVE  InTime'
<1>1. UNCHANGED <<stored, snapshot, faults, stops>> /\ flushed' = FALSE
  BY DEF Tick, tableVars, persistVars, failureVars
<1>2. /\ flushed => FailuresLeft' <= FailuresLeft
      /\ ~flushed => FailuresLeft' < FailuresLeft
      /\ FailuresLeft \in Nat /\ FailuresLeft' \in Nat /\ flushed \in BOOLEAN
  <2>1. ~flushed => overdue < overdue'
    BY TimeTypes DEF Tick, OutboxInv
  <2> QED  BY <2>1, SpentLeft, TimeTypes DEF OutboxInv, TimeInv
<1> SUFFICES ASSUME NEW g \in Group, active'[g] # NoEvent,
                    ~(active'[g].ver <= StoredVersion(stored', active'[g].id))
             PROVE  ttl'[g] >= FailuresLeft' + (IF active'[g] \in snapshot' THEN 0 ELSE 1)
                                 + (IF flushed' THEN 1 ELSE 0)
  BY InTimeGroups
<1>3. active'[g] = active[g] /\ ttl[g] > 1 /\ ttl'[g] = ttl[g] - 1 /\ ttl[g] \in Nat
  BY TimeTypes DEF Tick, OutboxInv
<1>4. ~Persisted(active[g])
  BY <1>1, <1>3 DEF Persisted
<1>5. ttl[g] >= Patience(g)
  BY <1>3, <1>4 DEF TimeInv, InTime
<1> QED  BY <1>1, <1>2, <1>3, <1>5 DEF Patience

LEMMA InTimeStep ==
    ASSUME OutboxInv, OutboxInv', TimeInv, Spends, [Next]_vars,
           2 + MaxFaults + MaxStops + MaxOverdue <= Grace
    PROVE  InTime'
<1>1. CASE \/ Read \/ ReadNothing \/ Claim
           \/ \E l \in Loop : LoopStep(l) \/ FetchFails(l)
           \/ CrashLayer \/ Shutdown \/ FinalFlushTimesOut \/ Exit \/ Crash
           \/ StartLayer \/ StreamDown \/ StreamUp \/ UNCHANGED vars
  <2>1. UNCHANGED <<active, ttl, stored>>
    BY <1>1 DEF Read, ReadNothing, Claim, LoopStep, RouteToDeadLetter, SkipInFlight, RouteOne,
       EnqueueMerge, FindNoRow, PushDeadLetter, AckRouted, AckRoutedFails, FetchFails,
       CrashLayer, Shutdown, StopLoops, FinalFlushTimesOut, Exit, Crash, EndProcess,
       StartLayer, StreamDown, StreamUp, vars, unrouted, stateVars, tableVars
  <2>2. flushed' = flushed \/ ~flushed'
    BY <1>1 DEF Read, ReadNothing, Claim, LoopStep, RouteToDeadLetter, SkipInFlight, RouteOne,
       EnqueueMerge, FindNoRow, PushDeadLetter, AckRouted, AckRoutedFails, FetchFails,
       CrashLayer, Shutdown, StopLoops, FinalFlushTimesOut, Exit, Crash, EndProcess,
       StartLayer, StreamDown, StreamUp, vars, unrouted, timeVars
  <2>3. SnapshotFate
    BY <1>1, OtherFate
  <2>4. \A id \in EventId : StoredVersion(stored, id) <= StoredVersion(stored', id)
    BY <2>1, StoredVersions DEF OutboxInv
  <2> QED  BY <2>1, <2>2, <2>3, <2>4, InTimeKept DEF OutboxInv, TimeInv
<1>2. ASSUME NEW g \in Group, GroupStep(g) \/ CheckFails(g) \/ UpsertFails(g)
      PROVE  InTime'
  <2>1. UNCHANGED <<stored, snapshot, flushed>>
    BY <1>2 DEF GroupStep, GetActiveEvent, SkipMerged, SkipLate, Merge, UpsertActiveEvent,
       AckMerged, AckMergedFails, CheckFails, UpsertFails, unmerged, tableVars, persistVars,
       timeVars
  <2>2. CASE pc[g] = "upsert" /\ Upserted(g)
    BY <2>1, <2>2, UpsertedInTime
  <2>3. CASE UNCHANGED <<active, ttl>>
    <3>1. \A id \in EventId : StoredVersion(stored, id) <= StoredVersion(stored', id)
      BY <2>1, StoredVersions DEF OutboxInv
    <3>2. SnapshotFate
      BY <2>1 DEF SnapshotFate
    <3> QED  BY <2>1, <2>3, <3>1, <3>2, InTimeKept DEF OutboxInv, TimeInv
  <2> QED  BY <1>2, <2>2, <2>3 DEF GroupStep, GetActiveEvent, SkipMerged, SkipLate, Merge,
           UpsertActiveEvent, AckMerged, AckMergedFails, CheckFails, UpsertFails, stateVars
<1> QED  BY <1>1, <1>2, ScanAllInTime, ScanFailsInTime, PersisterInTime, TickInTime DEF Next

(* What is merged stays in hand: a flush lets go of what it has read when  *)
(* it is stored, or something has failed.                                  *)
LEMMA HandKept ==
    ASSUME OutboxInv, OutboxInv', LineInv, Budget, Spends, MergedIsInHand, SnapshotFate,
           UNCHANGED <<merged, active>>,
           \A e \in EntityEvent : owner[e] # NoEvent => owner'[e] # NoEvent
    PROVE  MergedIsInHand'
<1>1. merged \subseteq EntityEvent
  BY DEF OutboxInv, TypeInv, TypeOK, RestOK
<1>2. FailuresLeft \in Nat /\ FailuresLeft' \in Nat /\ FailuresLeft' <= FailuresLeft
  BY SpentLeft DEF OutboxInv
<1>3. ASSUME NEW e \in merged, NEW event \in snapshot, e \in event.ees, FailuresLeft = 0
      PROVE  owner'[e] # NoEvent \/ (FailuresLeft' = 0 /\ event \in snapshot')
  <2>1. event \in snapshot' \/ Persisted(event)
    BY <1>2, <1>3 DEF SnapshotFate
  <2>2. Persisted(event) => owner[e] # NoEvent
    BY <1>3, FlushedIsOwned
  <2> QED  BY <1>1, <1>2, <1>3, <2>1, <2>2
<1> SUFFICES ASSUME NEW e \in merged
             PROVE  \/ owner'[e] # NoEvent \/ ActivelyIn(e)
                    \/ FailuresLeft' = 0 /\ \E event \in snapshot' : e \in event.ees
  BY DEF MergedIsInHand, ActivelyIn
<1> QED  BY <1>1, <1>3 DEF MergedIsInHand

LEMMA UpsertHand ==
    ASSUME OutboxInv, OutboxInv', LineInv, GroupInv, Budget, Spends, MergedIsInHand,
           NEW g \in Group, pc[g] = "upsert", Upserted(g), UNCHANGED <<owner, snapshot>>
    PROVE  MergedIsInHand'
<1>1. /\ updated[g] \in Event /\ active'[g] = updated[g] /\ updated[g] # NoEvent
      /\ \A h \in Group \ {g} : active'[h] = active[h]
      /\ merged' = merged \union {Work(g)}
  BY EventTypes DEF OutboxInv, TypeInv, Locals, GroupLocals, Upserted
<1>2. Work(g) \in updated[g].ees
  BY DEF GroupInv, WorkMade
<1>3. FailuresLeft = 0 => FailuresLeft' = 0
  BY SpentLeft DEF OutboxInv
<1> SUFFICES ASSUME NEW e \in merged'
             PROVE  \/ owner[e] # NoEvent
                    \/ \E h \in Group : active'[h] # NoEvent /\ e \in active'[h].ees
                    \/ FailuresLeft' = 0 /\ \E event \in snapshot : e \in event.ees
  BY DEF MergedIsInHand, ActivelyIn
<1>4. CASE e \in updated[g].ees
  BY <1>1, <1>4
<1>5. CASE \E h \in Group \ {g} : active[h] # NoEvent /\ e \in active[h].ees
  BY <1>1, <1>5
<1>6. CASE active[g] # NoEvent /\ e \in active[g].ees
  BY <1>4, <1>6, SlotTakenOver
<1>7. CASE e \in merged
  BY <1>3, <1>5, <1>6, <1>7 DEF MergedIsInHand, ActivelyIn
<1> QED  BY <1>1, <1>2, <1>4, <1>7

LEMMA TickHand ==
    ASSUME OutboxInv, OutboxInv', LineInv, TimeInv, Spends, MergedIsInHand, Tick
    PROVE  MergedIsInHand'
<1>1. UNCHANGED <<merged, owner, snapshot, faults, stops>>
  BY DEF Tick, historyVars, tableVars, persistVars, failureVars
<1>2. /\ FailuresLeft' <= FailuresLeft /\ (~flushed => FailuresLeft' < FailuresLeft)
      /\ FailuresLeft \in Nat /\ FailuresLeft' \in Nat /\ flushed \in BOOLEAN
  <2>1. ~flushed => overdue < overdue'
    BY TimeTypes DEF Tick, OutboxInv
  <2> QED  BY <2>1, SpentLeft, TimeTypes DEF OutboxInv, TimeInv
<1> SUFFICES ASSUME NEW e \in merged, owner[e] = NoEvent
             PROVE  \/ \E g \in Group : active'[g] # NoEvent /\ e \in active'[g].ees
                    \/ FailuresLeft' = 0 /\ \E event \in snapshot : e \in event.ees
  BY <1>1 DEF MergedIsInHand, ActivelyIn
<1>3. ASSUME NEW g \in Group, active[g] # NoEvent, e \in active[g].ees, active'[g] # active[g]
      PROVE  FailuresLeft' = 0 /\ active[g] \in snapshot
  <2>1. ttl[g] \in Nat /\ ~(ttl[g] > 1)
    BY <1>3, TimeTypes DEF Tick, OutboxInv
  <2>2. ~Persisted(active[g])
    <3>1. active[g].ver \in Nat /\ StoredVersion(stored, active[g].id) \in Nat
      BY <1>3, EventTypes, StoredVersions DEF OutboxInv, Event
    <3> QED  BY <1>3, <3>1, StoredIsOwned DEF Persisted
  <2>3. ttl[g] >= Patience(g)
    BY <1>3, <2>2 DEF TimeInv, InTime
  <2> QED  BY <1>2, <2>1, <2>3 DEF Patience
<1>4. CASE ActivelyIn(e)
  BY <1>3, <1>4 DEF ActivelyIn
<1>5. CASE FailuresLeft = 0 /\ \E event \in snapshot : e \in event.ees
  BY <1>2, <1>5
<1> QED  BY <1>4, <1>5 DEF MergedIsInHand

LEMMA HandStep ==
    ASSUME OutboxInv, OutboxInv', LineInv, GroupInv, TimeInv, Spends, MergedIsInHand,
           [Next]_vars
    PROVE  MergedIsInHand'
<1>1. CASE \/ Read \/ ReadNothing \/ Claim \/ ScanAll \/ ScanFails
           \/ \E l \in Loop : LoopStep(l) \/ FetchFails(l)
           \/ CrashLayer \/ Shutdown \/ FinalFlushTimesOut \/ Exit \/ Crash
           \/ StartLayer \/ StreamDown \/ StreamUp \/ UNCHANGED vars
  <2>1. UNCHANGED <<merged, active, owner>>
    BY <1>1 DEF Read, ReadNothing, Claim, ScanAll, ScanFails, LoopStep, RouteToDeadLetter,
       SkipInFlight, RouteOne, EnqueueMerge, FindNoRow, PushDeadLetter, AckRouted,
       AckRoutedFails, FetchFails, CrashLayer, Shutdown, StopLoops, FinalFlushTimesOut, Exit,
       Crash, EndProcess, StartLayer, StreamDown, StreamUp, vars, unrouted, unpersisted,
       stateVars, tableVars, historyVars
  <2>2. CASE ScanAll
    <3>1. SnapshotFate
      BY <2>2 DEF ScanAll, TimeInv, Flushing, Persisting, SnapshotFate
    <3> QED  BY <2>1, <3>1, HandKept DEF TimeInv
  <2>3. CASE ~ScanAll
    <3>1. SnapshotFate
      BY <1>1, <2>3, OtherFate
    <3> QED  BY <2>1, <3>1, HandKept DEF TimeInv
  <2> QED  BY <2>2, <2>3
<1>2. ASSUME NEW g \in Group, GroupStep(g) \/ CheckFails(g) \/ UpsertFails(g)
      PROVE  MergedIsInHand'
  <2>1. UNCHANGED <<owner, snapshot>>
    BY <1>2 DEF GroupStep, GetActiveEvent, SkipMerged, SkipLate, Merge, UpsertActiveEvent,
       AckMerged, AckMergedFails, CheckFails, UpsertFails, unmerged, tableVars, persistVars
  <2>2. CASE pc[g] = "upsert" /\ Upserted(g)
    BY <2>1, <2>2, UpsertHand DEF TimeInv
  <2>3. CASE UNCHANGED <<active, merged>>
    <3>1. SnapshotFate
      BY <2>1 DEF SnapshotFate
    <3> QED  BY <2>1, <2>3, <3>1, HandKept DEF TimeInv
  <2> QED  BY <1>2, <2>2, <2>3 DEF GroupStep, GetActiveEvent, SkipMerged, SkipLate, Merge,
           UpsertActiveEvent, AckMerged, AckMergedFails, CheckFails, UpsertFails, stateVars,
           historyVars
<1>3. ASSUME NEW p \in Persister, PersistStep(p) \/ PersistFails(p)
      PROVE  MergedIsInHand'
  <2>1. UNCHANGED <<active, merged>>
    BY <1>3 DEF PersistStep, PersistEvents, SelectUnpublished, Publish, MarkPublished,
       PersistFails, unpersisted, stateVars, historyVars
  <2>2. \A e \in EntityEvent : owner[e] # NoEvent => owner'[e] # NoEvent
    <3>1. CASE PersistEvents(p)
      BY <3>1, MembersWritten
    <3>2. CASE ~PersistEvents(p)
      BY <1>3, <3>2 DEF PersistStep, SelectUnpublished, Publish, MarkPublished, PersistFails,
         tableVars
    <3> QED  BY <3>1, <3>2
  <2>3. SnapshotFate
    BY <1>3, PersisterFate DEF TimeInv
  <2> QED  BY <2>1, <2>2, <2>3, HandKept DEF TimeInv
<1> QED  BY <1>1, <1>2, <1>3, TickHand DEF Next

LEMMA GraceStep ==
    ASSUME 2 + MaxFaults + MaxStops + MaxOverdue <= Grace
    PROVE  SafetyInv /\ SafetyInv' /\ TimeInv /\ MergedIsInHand /\ [Next]_vars
             => TimeInv' /\ MergedIsInHand'
<1> SUFFICES ASSUME SafetyInv, SafetyInv', TimeInv, MergedIsInHand, [Next]_vars
             PROVE  TimeInv' /\ MergedIsInHand'
  OBVIOUS
<1>1. OutboxInv /\ OutboxInv' /\ LineInv /\ GroupInv /\ TypeInv
  BY DEF SafetyInv, OutboxInv
<1>2. Spends
  BY <1>1, SpendStep DEF TimeInv
<1>3. Flushing'
  BY <1>1, FlushingStep DEF TimeInv
<1>4. InTime'
  BY <1>1, <1>2, InTimeStep
<1>5. MergedIsInHand'
  BY <1>1, <1>2, HandStep
<1> QED  BY <1>2, <1>3, <1>4, <1>5 DEF TimeInv, Spends

(* With no more failures than the grace period outlives, whatever fails,   *)
(* stops or comes twice, an acknowledged EntityEvent that was not late is  *)
(* in the state Redis, in Postgres, or in the hands of a flush with which  *)
(* nothing can go wrong any more (ttl_for).                                *)
THEOREM GraceLosesNothing ==
    ASSUME 2 + MaxFaults + MaxStops + MaxOverdue <= Grace
    PROVE  Spec => []NothingAckedIsLost
<1>1. Init => TimeInv /\ MergedIsInHand
  BY TimeInit
<1>2. SafetyInv /\ MergedIsInHand => NothingAckedIsLost
  BY DEF SafetyInv, AckInv, AckedWasMerged, MergedIsInHand, NothingAckedIsLost
<1>3. Spec => []SafetyInv
  BY SafetyInvariants DEF SafetyInv
<1>4. SafetyInv /\ SafetyInv' /\ TimeInv /\ MergedIsInHand /\ [Next]_vars
        => TimeInv' /\ MergedIsInHand'
  BY GraceStep
<1> QED  BY <1>1, <1>2, <1>3, <1>4, PTL DEF Spec
-----------------------------------------------------------------------------
(***************************************************************************)
(* The arithmetic of the scores.  compute_sentiment_aggregation folds over *)
(* a set of EntityEvents; such a fold is a function that solves a          *)
(* recursion (SumExists), and what it sums to is bounded by the least set  *)
(* that would exceed the bound (SumsTogether).                             *)
(***************************************************************************)
(* Every set of natural numbers that is not empty has a least one.         *)
LEMMA LeastNumber ==
    ASSUME NEW T \in SUBSET Nat, T # {}
    PROVE  \E k \in T : \A m \in T : k <= m
<1> DEFINE R == OpToRel(<, Nat)
<1>1. IsWellFoundedOn(R, Nat)
  BY NatLessThanWellFounded, Zenon
<1>2. \A x, y \in Nat : <<x, y>> \in R <=> x < y
  BY DEF OpToRel
<1> HIDE DEF R
<1>3. PICK k \in T : \A y \in T : ~ (<<y, k>> \in R)
  BY <1>1, WFMin
<1>4. ASSUME NEW m \in T PROVE k <= m
  <2>1. k \in Nat /\ m \in Nat
    OBVIOUS
  <2>2. ~ (m < k)
    BY <1>2, <1>3, <2>1
  <2> QED  BY <2>1, <2>2
<1> QED  BY <1>4

(* The values of a dimension of the score, and of the sentiment.           *)
Dimension == 0..1000

(* Rounding down keeps the order.                                          *)
LEMMA DivMonotone ==
    ASSUME NEW a \in Int, NEW b \in Int, NEW t \in Nat \ {0}, a <= b
    PROVE  a \div t <= b \div t
OBVIOUS

(* A mean of scores up to 10, and a signed one that is no stronger.        *)
LEMMA MeanInRange ==
    ASSUME NEW t \in Nat \ {0}, NEW s \in Int, NEW g \in Int,
           0 <= s, s <= 10 * t, -s <= g, g <= s
    PROVE  /\ (s * 100) \div t \in Dimension
           /\ (g * 100) \div t \in -((s * 100) \div t) - 1 .. (s * 100) \div t
BY DEF Dimension

(* Every source of a row has a weight.                                     *)
LEMMA WeightsInRange ==
    ASSUME NEW sources
    PROVE  /\ DOMAIN get_source_weights(sources) = sources
           /\ \A s \in sources : get_source_weights(sources)[s] \in 0..9
BY DEF get_source_weights, SOURCE_TIER, DEFAULT_TIER_WEIGHTS

(* One step of a sum of F over s, from the sums over smaller sets.         *)
FoldStep(h, F, s) ==
    IF s = {} THEN 0 ELSE F[CHOOSE y \in s : TRUE] + h[s \ {CHOOSE y \in s : TRUE}]

IsSum(h, S, F) == h = [s \in SUBSET S |-> FoldStep(h, F, s)]

(* What compute_sentiment_aggregation adds up.                             *)
WeightsOf(S, weights) == [e \in S |-> WeightOf(e, weights)]
StrengthsOf(S, weights) == [e \in S |-> SentimentOf[e].score * WeightOf(e, weights)]
SignsOf(S, weights) ==
    [e \in S |-> SentimentOf[e].score * DIRECTION_COEFFICIENT[SentimentOf[e].label]
                   * WeightOf(e, weights)]

TotalWeight(S, weights) == MapThenSumSet(LAMBDA e : WeightOf(e, weights), S)
TotalStrength(S, weights) ==
    MapThenSumSet(LAMBDA e : SentimentOf[e].score * WeightOf(e, weights), S)
TotalSigned(S, weights) ==
    MapThenSumSet(LAMBDA e : SentimentOf[e].score * DIRECTION_COEFFICIENT[SentimentOf[e].label]
                    * WeightOf(e, weights), S)

(* Each of the three is a sum in this sense.                               *)
LEMMA TotalIsFold ==
    ASSUME NEW S, NEW weights, NEW h, IsSum(h, S, WeightsOf(S, weights))
    PROVE  \E k : /\ IsSum(k, S, WeightsOf(S, weights))
                  /\ TotalWeight(S, weights) = k[S]
<1> DEFINE Body(k) ==
      [s \in SUBSET S |-> IF s = {} THEN 0
         ELSE WeightOf(CHOOSE x \in s : TRUE, weights) + k[s \ {CHOOSE x \in s : TRUE}]]
    k == CHOOSE iter : iter = Body(iter)
<1>1. ASSUME NEW iter PROVE IsSum(iter, S, WeightsOf(S, weights)) <=> iter = Body(iter)
  <2>1. ASSUME NEW s \in SUBSET S, s # {}
        PROVE  WeightsOf(S, weights)[CHOOSE x \in s : TRUE] = WeightOf(CHOOSE x \in s : TRUE, weights)
    BY <2>1 DEF WeightsOf
  <2>2. [s \in SUBSET S |-> FoldStep(iter, WeightsOf(S, weights), s)] = Body(iter)
    BY <2>1 DEF FoldStep
  <2>3. IsSum(iter, S, WeightsOf(S, weights)) <=>
          iter = [s \in SUBSET S |-> FoldStep(iter, WeightsOf(S, weights), s)]
    BY Zenon DEF IsSum
  <2> QED  BY <2>2, <2>3, Zenon
<1>2. k = Body(k)
  <2> HIDE DEF Body
  <2>1. h = Body(h)
    BY <1>1
  <2> QED  BY <2>1, Zenon
<1>3. TotalWeight(S, weights) = k[S]
  BY Zenon DEF TotalWeight, MapThenSumSet, MapThenFoldSet
<1> QED  BY <1>1, <1>2, <1>3

LEMMA StrengthIsFold ==
    ASSUME NEW S, NEW weights, NEW h, IsSum(h, S, StrengthsOf(S, weights))
    PROVE  \E k : /\ IsSum(k, S, StrengthsOf(S, weights))
                  /\ TotalStrength(S, weights) = k[S]
<1> DEFINE Body(k) ==
      [s \in SUBSET S |-> IF s = {} THEN 0
         ELSE SentimentOf[CHOOSE x \in s : TRUE].score
                * WeightOf(CHOOSE x \in s : TRUE, weights) + k[s \ {CHOOSE x \in s : TRUE}]]
    k == CHOOSE iter : iter = Body(iter)
<1>1. ASSUME NEW iter PROVE IsSum(iter, S, StrengthsOf(S, weights)) <=> iter = Body(iter)
  <2>1. ASSUME NEW s \in SUBSET S, s # {}
        PROVE  StrengthsOf(S, weights)[CHOOSE x \in s : TRUE] =
                 SentimentOf[CHOOSE x \in s : TRUE].score
                   * WeightOf(CHOOSE x \in s : TRUE, weights)
    BY <2>1 DEF StrengthsOf
  <2>2. [s \in SUBSET S |-> FoldStep(iter, StrengthsOf(S, weights), s)] = Body(iter)
    BY <2>1 DEF FoldStep
  <2>3. IsSum(iter, S, StrengthsOf(S, weights)) <=>
          iter = [s \in SUBSET S |-> FoldStep(iter, StrengthsOf(S, weights), s)]
    BY Zenon DEF IsSum
  <2> QED  BY <2>2, <2>3, Zenon
<1>2. k = Body(k)
  <2> HIDE DEF Body
  <2>1. h = Body(h)
    BY <1>1
  <2> QED  BY <2>1, Zenon
<1>3. TotalStrength(S, weights) = k[S]
  BY Zenon DEF TotalStrength, MapThenSumSet, MapThenFoldSet
<1> QED  BY <1>1, <1>2, <1>3

LEMMA SignIsFold ==
    ASSUME NEW S, NEW weights, NEW h, IsSum(h, S, SignsOf(S, weights))
    PROVE  \E k : /\ IsSum(k, S, SignsOf(S, weights))
                  /\ TotalSigned(S, weights) = k[S]
<1> DEFINE Body(k) ==
      [s \in SUBSET S |-> IF s = {} THEN 0
         ELSE SentimentOf[CHOOSE x \in s : TRUE].score
                * DIRECTION_COEFFICIENT[SentimentOf[CHOOSE x \in s : TRUE].label]
                * WeightOf(CHOOSE x \in s : TRUE, weights) + k[s \ {CHOOSE x \in s : TRUE}]]
    k == CHOOSE iter : iter = Body(iter)
<1>1. ASSUME NEW iter PROVE IsSum(iter, S, SignsOf(S, weights)) <=> iter = Body(iter)
  <2>1. ASSUME NEW s \in SUBSET S, s # {}
        PROVE  SignsOf(S, weights)[CHOOSE x \in s : TRUE] =
                 SentimentOf[CHOOSE x \in s : TRUE].score
                * DIRECTION_COEFFICIENT[SentimentOf[CHOOSE x \in s : TRUE].label]
                * WeightOf(CHOOSE x \in s : TRUE, weights)
    BY <2>1 DEF SignsOf
  <2>2. [s \in SUBSET S |-> FoldStep(iter, SignsOf(S, weights), s)] = Body(iter)
    BY <2>1 DEF FoldStep
  <2>3. IsSum(iter, S, SignsOf(S, weights)) <=>
          iter = [s \in SUBSET S |-> FoldStep(iter, SignsOf(S, weights), s)]
    BY Zenon DEF IsSum
  <2> QED  BY <2>2, <2>3, Zenon
<1>2. k = Body(k)
  <2> HIDE DEF Body
  <2>1. h = Body(h)
    BY <1>1
  <2> QED  BY <2>1, Zenon
<1>3. TotalSigned(S, weights) = k[S]
  BY Zenon DEF TotalSigned, MapThenSumSet, MapThenFoldSet
<1> QED  BY <1>1, <1>2, <1>3

(* A step of a sum takes one element away.                                 *)
LEMMA ChosenIn ==
    ASSUME NEW S, IsFiniteSet(S), NEW s \in SUBSET S, s # {}
    PROVE  /\ (CHOOSE y \in s : TRUE) \in s
           /\ s \ {CHOOSE y \in s : TRUE} \in SUBSET S
           /\ IsFiniteSet(s) /\ Cardinality(s) \in Nat \ {0}
           /\ Cardinality(s \ {CHOOSE y \in s : TRUE}) = Cardinality(s) - 1
<1> DEFINE x == CHOOSE y \in s : TRUE
<1>1. x \in s
  OBVIOUS
<1>2. IsFiniteSet(s)
  BY FS_Subset
<1> HIDE DEF x
<1>3. Cardinality(s) \in Nat \ {0}
  BY <1>2, FS_CardinalityType, FS_EmptySet
<1>4. Cardinality(s \ {x}) = Cardinality(s) - 1
  BY <1>1, <1>2, <1>3, FS_RemoveElement
<1> QED  BY <1>1, <1>2, <1>3, <1>4 DEF x

(* h sums F over the subsets of up to n elements.                          *)
Reaches(h, S, F, n) ==
    h \in [SUBSET S -> Int] /\
    \A s \in SUBSET S : Cardinality(s) <= n => h[s] = FoldStep(h, F, s)

(* The recursion of a fold over a finite set has a solution.               *)
LEMMA SumExists ==
    ASSUME NEW S, IsFiniteSet(S), NEW F \in [S -> Int]
    PROVE  \E h \in [SUBSET S -> Int] : IsSum(h, S, F)
<1>1. \A s \in SUBSET S : IsFiniteSet(s) /\ Cardinality(s) \in Nat
                          /\ (Cardinality(s) = 0 <=> s = {})
  BY FS_Subset, FS_CardinalityType, FS_EmptySet
<1>2. ASSUME NEW h \in [SUBSET S -> Int], NEW s \in SUBSET S
      PROVE  FoldStep(h, F, s) \in Int
  BY ChosenIn DEF FoldStep
<1>3. \E h : Reaches(h, S, F, 0)
  <2> DEFINE h == [s \in SUBSET S |-> 0]
  <2>1. \A s \in SUBSET S : Cardinality(s) <= 0 => s = {}
    BY <1>1
  <2>2. \A s \in SUBSET S : h[s] = 0
    OBVIOUS
  <2>3. h \in [SUBSET S -> Int]
    OBVIOUS
  <2> HIDE DEF h
  <2>4. FoldStep(h, F, {}) = 0
    BY DEF FoldStep
  <2> QED  BY <2>1, <2>2, <2>3, <2>4 DEF Reaches
<1>4. ASSUME NEW n \in Nat, NEW h, Reaches(h, S, F, n)
      PROVE  \E k : Reaches(k, S, F, n + 1)
  <2> DEFINE k == [s \in SUBSET S |-> FoldStep(h, F, s)]
  <2>1. h \in [SUBSET S -> Int] /\ k \in [SUBSET S -> Int]
    BY <1>2, <1>4 DEF Reaches
  <2>2. ASSUME NEW s \in SUBSET S, Cardinality(s) <= n + 1, s # {}
        PROVE  FoldStep(k, F, s) = FoldStep(h, F, s)
    <3> DEFINE r == s \ {CHOOSE y \in s : TRUE}
    <3>1. r \in SUBSET S /\ Cardinality(r) = Cardinality(s) - 1 /\ Cardinality(s) \in Nat
      BY <2>2, ChosenIn
    <3>2. Cardinality(r) <= n
      BY <2>2, <3>1
    <3>3. h[r] = FoldStep(h, F, r)
      BY <1>4, <3>1, <3>2 DEF Reaches
    <3>4. k[r] = h[r]
      BY <3>1, <3>3
    <3> QED  BY <2>2, <3>4 DEF FoldStep
  <2>3. ASSUME NEW s \in SUBSET S, s = {} PROVE FoldStep(k, F, s) = FoldStep(h, F, s)
    BY <2>3 DEF FoldStep
  <2>4. \A s \in SUBSET S : k[s] = FoldStep(h, F, s)
    OBVIOUS
  <2> HIDE DEF k
  <2> QED  BY <2>1, <2>2, <2>3, <2>4 DEF Reaches
<1>5. \A n \in Nat : \E h : Reaches(h, S, F, n)
  <2> DEFINE T == {n \in Nat : ~ \E h : Reaches(h, S, F, n)}
  <2> SUFFICES T = {}
    OBVIOUS
  <2>1. ASSUME T # {} PROVE FALSE
    <3>1. PICK n \in T : \A m \in T : n <= m
      BY <2>1, LeastNumber
    <3>2. n # 0
      BY <1>3
    <3>3. n - 1 \in Nat /\ n - 1 \notin T
      BY <3>1, <3>2
    <3>4. \E h : Reaches(h, S, F, (n - 1) + 1)
      BY <1>4, <3>3
    <3>5. (n - 1) + 1 = n
      OBVIOUS
    <3> QED  BY <3>4, <3>5
  <2> QED  BY <2>1
<1>6. PICK h : Reaches(h, S, F, Cardinality(S))
  BY <1>1, <1>5
<1>7. \A s \in SUBSET S : Cardinality(s) <= Cardinality(S)
  BY FS_Subset
<1>8. h = [s \in SUBSET S |-> FoldStep(h, F, s)]
  BY <1>6, <1>7 DEF Reaches
<1> QED  BY <1>6, <1>8 DEF Reaches, IsSum

(* Weights, strengths and signed strengths summed over the same elements.  *)
LEMMA SumsTogether ==
    ASSUME NEW S, IsFiniteSet(S), NEW A, NEW B, NEW C, NEW a, NEW b, NEW c,
           IsSum(a, S, A), IsSum(b, S, B), IsSum(c, S, C),
           \A e \in S : /\ A[e] \in Int /\ B[e] \in Int /\ C[e] \in Int
                        /\ 0 <= B[e] /\ B[e] <= 10 * A[e]
                        /\ -B[e] <= C[e] /\ C[e] <= B[e]
    PROVE  /\ a[S] \in Int /\ b[S] \in Int /\ c[S] \in Int
           /\ 0 <= b[S] /\ b[S] <= 10 * a[S] /\ -b[S] <= c[S] /\ c[S] <= b[S]
<1> DEFINE Fine(s) == /\ a[s] \in Int /\ b[s] \in Int /\ c[s] \in Int
                      /\ 0 <= b[s] /\ b[s] <= 10 * a[s] /\ -b[s] <= c[s] /\ c[s] <= b[s]
    T == {n \in Nat : \E s \in SUBSET S : Cardinality(s) = n /\ ~Fine(s)}
<1>1. /\ \A s \in SUBSET S : a[s] = FoldStep(a, A, s)
      /\ \A s \in SUBSET S : b[s] = FoldStep(b, B, s)
      /\ \A s \in SUBSET S : c[s] = FoldStep(c, C, s)
  BY DEF IsSum
<1>2. ASSUME T # {} PROVE FALSE
  <2>1. PICK n \in T : \A m \in T : n <= m
    BY <1>2, LeastNumber
  <2>2. PICK s \in SUBSET S : Cardinality(s) = n /\ ~Fine(s)
    OBVIOUS
  <2>3. CASE s = {}
    <3>1. FoldStep(a, A, {}) = 0 /\ FoldStep(b, B, {}) = 0 /\ FoldStep(c, C, {}) = 0
      BY DEF FoldStep
    <3>2. a[s] = 0 /\ b[s] = 0 /\ c[s] = 0
      BY <1>1, <2>3, <3>1
    <3> QED  BY <2>2, <3>2
  <2>4. CASE s # {}
    <3> DEFINE x == CHOOSE y \in s : TRUE
               r == s \ {x}
    <3>1. x \in S /\ r \in SUBSET S /\ Cardinality(s) \in Nat \ {0}
          /\ Cardinality(r) = Cardinality(s) - 1
      BY <2>4, ChosenIn
    <3>2. a[s] = A[x] + a[r] /\ b[s] = B[x] + b[r] /\ c[s] = C[x] + c[r]
      BY <1>1, <2>4 DEF FoldStep
    <3> HIDE DEF x, r
    <3>3. Fine(r)
      <4>1. Cardinality(r) \in Nat /\ ~(n <= Cardinality(r))
        BY <2>2, <3>1
      <4>2. Cardinality(r) \notin T
        BY <2>1, <4>1
      <4> QED  BY <3>1, <4>1, <4>2
    <3>4. /\ A[x] \in Int /\ B[x] \in Int /\ C[x] \in Int
          /\ 0 <= B[x] /\ B[x] <= 10 * A[x] /\ -B[x] <= C[x] /\ C[x] <= B[x]
      BY <3>1
    <3> QED  BY <2>2, <3>2, <3>3, <3>4
  <2> QED  BY <2>3, <2>4
<1>3. S \in SUBSET S /\ Cardinality(S) \in Nat
  BY FS_CardinalityType
<1> QED  BY <1>2, <1>3
(* The mean sentiment is a score, and signed it is no stronger, up to the  *)
(* rounding of a division.                                                 *)
LEMMA SentimentInRange ==
    ASSUME NEW E, SentimentOf \in [E -> Sentiment], NEW S \in SUBSET E, IsFiniteSet(S),
           NEW sources, NEW sentiment,
           sentiment = compute_sentiment_aggregation(S, get_source_weights(sources))
    PROVE  /\ sentiment.strength \in Dimension
           /\ sentiment.signed \in -sentiment.strength - 1 .. sentiment.strength
<1> DEFINE w == get_source_weights(sources)
           A == WeightsOf(S, w)
           B == StrengthsOf(S, w)
           C == SignsOf(S, w)
           total == TotalWeight(S, w)
           strength == TotalStrength(S, w)
           signed == TotalSigned(S, w)
<1>1. ASSUME NEW e \in S
      PROVE  /\ A[e] \in Int /\ B[e] \in Int /\ C[e] \in Int
             /\ 0 <= B[e] /\ B[e] <= 10 * A[e] /\ -B[e] <= C[e] /\ C[e] <= B[e]
  <2> DEFINE v == WeightOf(e, w)
             s == SentimentOf[e].score
             d == DIRECTION_COEFFICIENT[SentimentOf[e].label]
  <2>1. v \in 0..9
    BY WeightsInRange DEF WeightOf
  <2>2. SentimentOf[e] \in Sentiment
    OBVIOUS
  <2>3. s \in 0..10 /\ d \in {-1, 0, 1}
    BY <2>2 DEF Sentiment, DIRECTION_COEFFICIENT
  <2>4. A[e] = v /\ B[e] = s * v /\ C[e] = s * d * v
    BY DEF WeightsOf, StrengthsOf, SignsOf
  <2> HIDE DEF v, s, d, A, B, C
  <2>5. s * v \in Int /\ 0 <= s * v /\ s * v <= 10 * v
    BY <2>1, <2>3
  <2>6. s * d * v = s * v \/ s * d * v = 0 \/ s * d * v = -(s * v)
    BY <2>1, <2>3
  <2> QED  BY <2>1, <2>4, <2>5, <2>6
<1>2. A \in [S -> Int] /\ B \in [S -> Int] /\ C \in [S -> Int]
  BY <1>1 DEF WeightsOf, StrengthsOf, SignsOf
<1>3. PICK a : IsSum(a, S, A) /\ total = a[S]
  <2>1. PICK h : IsSum(h, S, A)
    BY <1>2, SumExists
  <2> QED  BY <2>1, TotalIsFold
<1>4. PICK b : IsSum(b, S, B) /\ strength = b[S]
  <2>1. PICK h : IsSum(h, S, B)
    BY <1>2, SumExists
  <2> QED  BY <2>1, StrengthIsFold
<1>5. PICK c : IsSum(c, S, C) /\ signed = c[S]
  <2>1. PICK h : IsSum(h, S, C)
    BY <1>2, SumExists
  <2> QED  BY <2>1, SignIsFold
<1>6. sentiment = IF total = 0 THEN [signed |-> 0, strength |-> 0]
                  ELSE [signed |-> (signed * 100) \div total,
                        strength |-> (strength * 100) \div total]
  BY Zenon DEF compute_sentiment_aggregation, TotalWeight, TotalStrength, TotalSigned
<1> HIDE DEF total, strength, signed, A, B, C
<1>7. /\ total \in Int /\ strength \in Int /\ signed \in Int
      /\ 0 <= strength /\ strength <= 10 * total
      /\ -strength <= signed /\ signed <= strength
  BY <1>1, <1>3, <1>4, <1>5, SumsTogether
<1>8. CASE total = 0
  <2>1. sentiment.strength = 0 /\ sentiment.signed = 0
    BY <1>6, <1>8
  <2>2. 0 \in Dimension
    BY DEF Dimension
  <2> QED  BY <2>1, <2>2
<1>9. CASE total # 0
  <2>1. total \in Nat \ {0}
    BY <1>7, <1>9
  <2>2. /\ (strength * 100) \div total \in Dimension
        /\ (signed * 100) \div total \in -((strength * 100) \div total) - 1
                                           .. (strength * 100) \div total
    BY <1>7, <2>1, MeanInRange
  <2>3. /\ sentiment.strength = (strength * 100) \div total
        /\ sentiment.signed = (signed * 100) \div total
    BY <1>6, <1>9
  <2> QED  BY <2>2, <2>3
<1> QED  BY <1>8, <1>9

(* The greatest element of a set of numbers.                               *)
LEMMA GreatestOf ==
    ASSUME NEW n \in Nat, NEW T \in SUBSET (0..n), T # {}
    PROVE  Max(T) \in T /\ \A m \in T : m <= Max(T)
<1> DEFINE U == {m \in 0..n : n - m \in T}
<1>1. U \in SUBSET Nat /\ U # {}
  <2>1. PICK m \in T : TRUE
    OBVIOUS
  <2>2. n - m \in 0..n /\ n - (n - m) = m
    OBVIOUS
  <2>3. n - m \in U
    BY <2>2
  <2>4. \A x \in U : x \in Nat
    OBVIOUS
  <2> HIDE DEF U
  <2> QED  BY <2>3, <2>4
<1>2. PICK k \in U : \A m \in U : k <= m
  BY <1>1, LeastNumber
<1>3. ASSUME NEW m \in T  PROVE n - k >= m
  <2>1. n - m \in 0..n /\ n - (n - m) = m
    OBVIOUS
  <2>2. n - m \in U
    BY <2>1
  <2>3. k <= n - m /\ k \in 0..n
    BY <1>2, <2>2
  <2> QED  BY <2>3
<1>4. n - k \in T
  OBVIOUS
<1>5. \E x \in T : \A y \in T : x >= y
  BY <1>3, <1>4
<1>6. Max(T) \in T /\ \A y \in T : Max(T) >= y
  BY <1>5 DEF Max
<1> QED  BY <1>6

(* More sources never make an Event colder, however many are active.       *)
LEMMA HeatGrows ==
    ASSUME NEW m \in Nat, NEW n \in Nat, m <= n
    PROVE  /\ source_heat_score(m) \in Dimension
           /\ source_heat_score(m) <= source_heat_score(n)
<1>1. ASSUME NEW x \in Nat
      PROVE  source_heat_score(x) = IF (x * 1000) \div TOTAL_ACTIVE_SOURCES <= 1000
                                      THEN (x * 1000) \div TOTAL_ACTIVE_SOURCES ELSE 1000
  <2>1. (x * 1000) \div TOTAL_ACTIVE_SOURCES \in Int
    BY ActiveSourcesAssumption
  <2>2. ASSUME NEW y \in Int PROVE Min({1000, y}) = IF y <= 1000 THEN y ELSE 1000
    BY DEF Min
  <2> QED  BY <2>1, <2>2 DEF source_heat_score
<1>2. /\ (m * 1000) \div TOTAL_ACTIVE_SOURCES \in Nat
      /\ (n * 1000) \div TOTAL_ACTIVE_SOURCES \in Nat
  BY ActiveSourcesAssumption
<1>3. (m * 1000) \div TOTAL_ACTIVE_SOURCES <= (n * 1000) \div TOTAL_ACTIVE_SOURCES
  BY ActiveSourcesAssumption, DivMonotone
<1> DEFINE a == (m * 1000) \div TOTAL_ACTIVE_SOURCES
           b == (n * 1000) \div TOTAL_ACTIVE_SOURCES
<1>4. /\ source_heat_score(m) = IF a <= 1000 THEN a ELSE 1000
      /\ source_heat_score(n) = IF b <= 1000 THEN b ELSE 1000
  BY <1>1
<1>5. a \in Nat /\ b \in Nat /\ a <= b
  BY <1>2, <1>3
<1> HIDE DEF a, b
<1> QED  BY <1>4, <1>5 DEF Dimension

(* source_authority_score of a row with these sources.                     *)
Authority(sources) == Max({100 * get_source_weights(sources)[s] : s \in sources})

(* Nor do they take authority away.                                        *)
LEMMA AuthorityGrows ==
    ASSUME NEW more, NEW sources \in SUBSET more, sources # {}
    PROVE  /\ Authority(sources) \in 0..900
           /\ Authority(sources) <= Authority(more)
<1> DEFINE T == {100 * get_source_weights(sources)[s] : s \in sources}
           U == {100 * get_source_weights(more)[s] : s \in more}
<1>1. \A s \in sources : get_source_weights(sources)[s] = get_source_weights(more)[s]
  BY DEF get_source_weights
<1>2. T \subseteq U
  BY <1>1
<1> DEFINE k == 900
<1>3. U \in SUBSET (0..k) /\ T # {} /\ k \in Nat
  <2>1. ASSUME NEW s \in more PROVE 100 * get_source_weights(more)[s] \in 0..k
    <3>1. get_source_weights(more)[s] \in 0..9
      BY WeightsInRange
    <3> QED  BY <3>1
  <2> QED  BY <2>1
<1> HIDE DEF T, U, k
<1>4. /\ Max(T) \in T /\ \A m \in T : m <= Max(T)
      /\ Max(U) \in U /\ \A m \in U : m <= Max(U)
  BY <1>2, <1>3, GreatestOf
<1>5. Authority(sources) = Max(T) /\ Authority(more) = Max(U)
  BY DEF Authority, T, U
<1>6. Max(T) \in 0..k /\ Max(T) <= Max(U)
  BY <1>2, <1>3, <1>4
<1> QED  BY <1>5, <1>6 DEF k

LEMMA MaximumIsInt == MAX_BASE_RULE_SCORE \in Int
BY DEF MAX_BASE_RULE_SCORE

(* The four dimensions weighted are within the maximum.                    *)
LEMMA RuleInRange ==
    ASSUME NEW typeScore \in Dimension, NEW sources, sources # {}, IsFiniteSet(sources),
           NEW sentiment, sentiment.strength \in Dimension, NEW score,
           score = compute_rule_score(typeScore, sources, sentiment, get_source_weights(sources))
    PROVE  /\ base_rule_score(score) \in Int
           /\ 0 <= base_rule_score(score) /\ base_rule_score(score) <= MAX_BASE_RULE_SCORE
<1>1. Authority(sources) \in 0..900
  BY AuthorityGrows
<1>2. source_heat_score(Cardinality(sources)) \in Dimension
  <2>1. Cardinality(sources) \in Nat
    BY FS_CardinalityType
  <2> DEFINE n == Cardinality(sources)
  <2>2. n \in Nat /\ n <= n
    BY <2>1
  <2> HIDE DEF n
  <2>3. source_heat_score(n) \in Dimension
    BY <2>2, HeatGrows
  <2> QED  BY <2>3 DEF n
<1>3. /\ score.event_type_score = typeScore
      /\ score.source_authority_score = Authority(sources)
      /\ score.sentiment_strength_score = sentiment.strength
      /\ score.source_heat_score = source_heat_score(Cardinality(sources))
  BY DEF compute_rule_score, Authority
<1>4. base_rule_score(score) = typeScore * 30 + Authority(sources) * 25
        + sentiment.strength * 15 + source_heat_score(Cardinality(sources)) * 10
  BY <1>3 DEF base_rule_score
<1> DEFINE a == Authority(sources)
           b == sentiment.strength
           h == source_heat_score(Cardinality(sources))
<1>5. /\ a \in 0..900 /\ b \in Dimension /\ h \in Dimension
      /\ base_rule_score(score) = typeScore * 30 + a * 25 + b * 15 + h * 10
  BY <1>1, <1>2, <1>4
<1> HIDE DEF a, b, h
<1> QED  BY <1>5 DEF MAX_BASE_RULE_SCORE, Dimension

(* The impact has the sign the base score is given, or there is none.      *)
LEMMA FusionAdds ==
    ASSUME NEW rule \in 0..MAX_BASE_RULE_SCORE, NEW impact \in -50..50, NEW sentiment,
           sentiment.signed \in Int
    PROVE  AddsUp(rule, impact, raw_final_score(rule, impact, sentiment))
<1> USE MaximumIsInt
<1>1. CASE impact > 0
  BY <1>1 DEF raw_final_score, direction, AddsUp, Magnitude
<1>2. CASE impact < 0
  BY <1>2 DEF raw_final_score, direction, AddsUp, Magnitude
<1>3. CASE impact = 0
  <2>1. CASE sentiment.signed >= 0
    <3>1. raw_final_score(rule, impact, sentiment) = rule * 67
      BY <1>3, <2>1 DEF raw_final_score, direction
    <3> QED  BY <1>3, <3>1 DEF AddsUp, Magnitude
  <2>2. CASE ~(sentiment.signed >= 0)
    <3>1. raw_final_score(rule, impact, sentiment) = -(rule * 67)
      BY <1>3, <2>2 DEF raw_final_score, direction
    <3> QED  BY <1>3, <3>1 DEF AddsUp, Magnitude
  <2> QED  BY <2>1, <2>2
<1> QED  BY <1>1, <1>2, <1>3

(***************************************************************************)
(* The scores of the rows.  What is merged is finite, as every merge adds  *)
(* one EntityEvent, so a row has finitely many sources; and all its        *)
(* EntityEvents are of one group, so they have one event type.             *)
(***************************************************************************)
OneGroup(event) == event # NoEvent => \A e, f \in event.ees : GroupOf[e] = GroupOf[f]

RowsOfGroup ==
    /\ \A event \in snapshot : OneGroup(event)
    /\ \A id \in EventId : OneGroup(stored[id])

ScoreInv == IsFiniteSet(merged) /\ RowsOfGroup

LEMMA ScoreInit == Init => ScoreInv
BY FS_EmptySet DEF Init, ScoreInv, RowsOfGroup, OneGroup

(* Only an upsert adds to what is merged, its own EntityEvent.             *)
LEMMA MergedGrowsByOne ==
    ASSUME [Next]_vars
    PROVE  merged' = merged \/ \E g \in Group : merged' = merged \union {Work(g)}
<1>1. CASE \/ Read \/ ReadNothing \/ Claim \/ ScanAll \/ ScanFails
           \/ \E l \in Loop : LoopStep(l) \/ FetchFails(l)
           \/ \E p \in Persister : PersistStep(p) \/ PersistFails(p)
           \/ UNCHANGED vars
  BY <1>1 DEF Read, ReadNothing, Claim, ScanAll, ScanFails, LoopStep,
     RouteToDeadLetter, SkipInFlight, RouteOne, EnqueueMerge, FindNoRow, PushDeadLetter,
     AckRouted, AckRoutedFails, FetchFails, PersistStep, PersistEvents,
     SelectUnpublished, Publish, MarkPublished, PersistFails, unrouted, unpersisted,
     historyVars, vars
<1>2. CASE \/ CrashLayer \/ Shutdown \/ FinalFlushTimesOut \/ Exit \/ Crash
           \/ StartLayer \/ StreamDown \/ StreamUp \/ Tick
  BY <1>2 DEF CrashLayer, Shutdown, StopLoops, FinalFlushTimesOut, Exit, Crash,
     EndProcess, StartLayer, StreamDown, StreamUp, Tick, historyVars
<1>3. ASSUME NEW g \in Group, GroupStep(g) \/ CheckFails(g) \/ UpsertFails(g)
      PROVE  merged' = merged \/ merged' = merged \union {Work(g)}
  BY <1>3 DEF GroupStep, GetActiveEvent, SkipMerged, SkipLate, Merge,
     UpsertActiveEvent, AckMerged, AckMergedFails, CheckFails, UpsertFails, Upserted,
     historyVars
<1> QED  BY <1>1, <1>2, <1>3 DEF Next

(* Only persist_events writes rows.                                        *)
LEMMA OnlyPersistWrites ==
    ASSUME [Next]_vars, stored' # stored
    PROVE  \E p \in Persister : PersistEvents(p)
BY DEF Next, Read, ReadNothing, Claim, ScanAll, ScanFails, LoopStep, RouteToDeadLetter,
   SkipInFlight, RouteOne, EnqueueMerge, FindNoRow, PushDeadLetter, AckRouted,
   AckRoutedFails, FetchFails, GroupStep, GetActiveEvent, SkipMerged, SkipLate, Merge,
   UpsertActiveEvent, AckMerged, AckMergedFails, CheckFails, UpsertFails, PersistStep,
   SelectUnpublished, Publish, MarkPublished, PersistFails, CrashLayer, Shutdown,
   StopLoops, FinalFlushTimesOut, Exit, Crash, EndProcess, StartLayer, StreamDown,
   StreamUp, Tick, unrouted, unmerged, unpersisted, tableVars, vars

(* The snapshot is of active Events.                                       *)
LEMMA SnapshotTaken ==
    ASSUME [Next]_vars
    PROVE  \A event \in snapshot' : event \in snapshot \/ \E g \in Group : event = active[g]
<1>1. CASE \/ Read \/ ReadNothing \/ Claim \/ ScanAll \/ ScanFails
           \/ \E l \in Loop : LoopStep(l) \/ FetchFails(l)
  <2>1. snapshot' = snapshot \/ snapshot' = {active[g] : g \in Group} \ {NoEvent}
    BY <1>1, Zenon DEF Read, ReadNothing, Claim, ScanAll, ScanFails, LoopStep,
       RouteToDeadLetter, SkipInFlight, RouteOne, EnqueueMerge, FindNoRow, PushDeadLetter,
       AckRouted, AckRoutedFails, FetchFails, unrouted, persistVars
  <2> QED  BY <2>1
<1>2. CASE \E g \in Group : GroupStep(g) \/ CheckFails(g) \/ UpsertFails(g)
  BY <1>2 DEF GroupStep, GetActiveEvent, SkipMerged, SkipLate, Merge, UpsertActiveEvent,
     AckMerged, AckMergedFails, CheckFails, UpsertFails, unmerged, persistVars
<1>3. CASE \E p \in Persister : PersistStep(p) \/ PersistFails(p)
  BY <1>3 DEF PersistStep, PersistEvents, SelectUnpublished, Publish, MarkPublished,
     PersistFails, Continue, NoFlush, persistVars
<1>4. CASE \/ CrashLayer \/ Shutdown \/ FinalFlushTimesOut \/ Exit \/ Crash
           \/ StartLayer \/ StreamDown \/ StreamUp \/ Tick \/ UNCHANGED vars
  BY <1>4 DEF CrashLayer, Shutdown, StopLoops, FinalFlushTimesOut, NoFlush, Exit, Crash,
     EndProcess, StartLayer, StreamDown, StreamUp, Tick, persistVars, vars
<1> QED  BY <1>1, <1>2, <1>3, <1>4 DEF Next

LEMMA ScoreStep ==
    ASSUME OutboxInv, GroupInv, ScoreInv, [Next]_vars
    PROVE  ScoreInv'
<1>1. \A g \in Group : OneGroup(active[g]) /\ OneGroup(base[g])
  BY DEF GroupInv, CopiesOfGroup, OfGroup, OneGroup
<1>2. IsFiniteSet(merged')
  BY MergedGrowsByOne, FS_AddElement DEF ScoreInv
<1>3. \A event \in snapshot' : OneGroup(event)
  BY <1>1, SnapshotTaken DEF ScoreInv, RowsOfGroup
<1>4. ASSUME NEW id \in EventId PROVE OneGroup(stored'[id])
  <2>1. CASE stored' = stored
    BY <2>1 DEF ScoreInv, RowsOfGroup
  <2>2. CASE stored' # stored
    <3>1. PICK p \in Persister : PersistEvents(p)
      BY <2>2, OnlyPersistWrites
    <3>2. \A event \in Target(p) : event \in snapshot \/ \E g \in Group : event = base[g]
      BY DEF Target, Changed, Persister
    <3>3. \A event \in Target(p) : OneGroup(event)
      BY <1>1, <3>2 DEF ScoreInv, RowsOfGroup
    <3>4. stored'[id] = stored[id] \/ \E event \in Target(p) : stored'[id] = event
      BY <3>1, RowsWritten
    <3> QED  BY <3>3, <3>4 DEF ScoreInv, RowsOfGroup
  <2> QED  BY <2>1, <2>2
<1> QED  BY <1>2, <1>3, <1>4 DEF ScoreInv, RowsOfGroup, OneGroup

(* What is known of a row that is scored.                                  *)
Scorable(event) ==
    /\ event.ees \subseteq EntityEvent /\ event.ees # {} /\ IsFiniteSet(event.ees)
    /\ \A e, f \in event.ees : GroupOf[e] = GroupOf[f]

(* Every row can be scored, from finitely many EntityEvents.               *)
Rows == \A id \in EventId : stored[id] # NoEvent => Scorable(stored[id])
Members == \A id \in EventId : IsFiniteSet({e \in EntityEvent : owner[e] = id})

LEMMA RowsAreScorable == AckInv /\ LineInv /\ WindowInv /\ ScoreInv => Rows
<1> SUFFICES ASSUME AckInv, LineInv, WindowInv, ScoreInv, NEW id \in EventId, stored[id] # NoEvent
             PROVE  Scorable(stored[id])
  BY DEF Rows
<1>1. Good(stored[id])
  BY DEF WindowInv, GoodOrNone
<1>2. stored[id].ees \subseteq EntityEvent /\ stored[id].ees # {}
  BY <1>1 DEF Good, SpanTracks, Event
<1>3. stored[id].ees \subseteq merged
  BY <1>2 DEF LineInv, RowsKeyed, AckInv, Merging, OwnersMerged
<1>4. IsFiniteSet(stored[id].ees)
  BY <1>3, FS_Subset DEF ScoreInv
<1> QED  BY <1>2, <1>4 DEF ScoreInv, RowsOfGroup, OneGroup, Scorable

LEMMA MembersAreFinite == AckInv /\ ScoreInv => Members
<1> SUFFICES ASSUME AckInv, ScoreInv, NEW id \in EventId
             PROVE  IsFiniteSet({e \in EntityEvent : owner[e] = id})
  BY DEF Members
<1>1. {e \in EntityEvent : owner[e] = id} \in SUBSET merged
  BY DEF AckInv, Merging, OwnersMerged
<1> QED  BY <1>1, FS_Subset DEF ScoreInv

(* A row names a source, and not infinitely many.                          *)
LEMMA SourcesOf ==
    ASSUME NEW event, Scorable(event)
    PROVE  source_list(event) # {} /\ IsFiniteSet(source_list(event))
<1>1. source_list(event) # {}
  BY DEF source_list, Scorable
<1>2. IsFiniteSet(source_list(event))
  <2> DEFINE f == [e \in event.ees |-> SourceOf[e]]
             T == source_list(event)
             S == event.ees
  <2>1. f \in Surjection(S, T)
    BY DEF Surjection, source_list
  <2>2. IsFiniteSet(S)
    BY DEF Scorable
  <2> HIDE DEF f, S, T
  <2>3. IsFiniteSet(T)
    BY <2>1, <2>2, FS_Surjection
  <2> QED  BY <2>3 DEF T
<1> QED  BY <1>1, <1>2

(* The dimensions of a row that took others in.                            *)
LEMMA DimensionsGrow ==
    ASSUME NEW row, NEW later, Scorable(row), Scorable(later), row.ees \subseteq later.ees,
           NEW before, before = Dimensions(row), NEW after, after = Dimensions(later)
    PROVE  /\ after.event_type_score = before.event_type_score
           /\ after.source_authority_score >= before.source_authority_score
           /\ after.source_heat_score >= before.source_heat_score
<1> DEFINE old == source_list(row)
           new == source_list(later)
<1>1. /\ before.event_type_score = event_type_score(row)
      /\ before.source_authority_score = Authority(old)
      /\ before.source_heat_score = source_heat_score(Cardinality(old))
  BY DEF Dimensions, RuleScoreOf, compute_rule_score, Authority
<1>2. /\ after.event_type_score = event_type_score(later)
      /\ after.source_authority_score = Authority(new)
      /\ after.source_heat_score = source_heat_score(Cardinality(new))
  BY DEF Dimensions, RuleScoreOf, compute_rule_score, Authority
<1>3. event_type_score(row) = event_type_score(later)
  <2>1. (CHOOSE e \in row.ees : TRUE) \in row.ees /\ (CHOOSE e \in later.ees : TRUE) \in later.ees
    BY DEF Scorable
  <2>2. GroupOf[CHOOSE e \in row.ees : TRUE] = GroupOf[CHOOSE e \in later.ees : TRUE]
    BY <2>1 DEF Scorable
  <2> QED  BY <2>2 DEF event_type_score
<1>4. old \in SUBSET new /\ old # {} /\ IsFiniteSet(new)
  <2>1. old \in SUBSET new
    BY DEF source_list
  <2> QED  BY <2>1, SourcesOf
<1> HIDE DEF old, new
<1>5. Authority(old) \in 0..900 /\ Authority(old) <= Authority(new)
  BY <1>4, AuthorityGrows
<1>6. Authority(new) \in 0..900
  <2>1. new \in SUBSET new /\ new # {}
    BY <1>4
  <2> QED  BY <2>1, AuthorityGrows
<1>7. /\ Cardinality(old) \in Nat /\ Cardinality(new) \in Nat
      /\ Cardinality(old) <= Cardinality(new) /\ Cardinality(new) <= Cardinality(new)
  BY <1>4, FS_Subset, FS_CardinalityType
<1> DEFINE m == Cardinality(old)
           n == Cardinality(new)
<1>8. m \in Nat /\ n \in Nat /\ m <= n /\ n <= n
  BY <1>7
<1> HIDE DEF m, n
<1>9. /\ source_heat_score(m) <= source_heat_score(n)
      /\ source_heat_score(m) \in Dimension /\ source_heat_score(n) \in Dimension
  BY <1>8, HeatGrows
<1>10. /\ source_heat_score(Cardinality(old)) = source_heat_score(m)
       /\ source_heat_score(Cardinality(new)) = source_heat_score(n)
  BY DEF m, n
<1> QED  BY <1>1, <1>2, <1>3, <1>5, <1>6, <1>9, <1>10

LEMMA ScoreTypes ==
    /\ SentimentOf \in [EntityEvent -> Sentiment]
    /\ TypeScore \in [Group -> Dimension]
    /\ ImpactScore \subseteq -50..50
BY ScoreAssumption, Zenon DEF ScoreAssumption, Dimension

(* The scores of one row.                                                  *)
LEMMA RowInRange ==
    ASSUME NEW row, Scorable(row), NEW members \in SUBSET EntityEvent, IsFiniteSet(members),
           NEW sentiment, sentiment = Sentiments(row, members),
           NEW rule, rule = base_rule_score(RuleScoreOf(row, sentiment))
    PROVE  InRange(rule, sentiment)
<1> DEFINE sources == source_list(row)
<1>1. sources # {} /\ IsFiniteSet(sources)
  BY SourcesOf
<1>2. /\ sentiment.strength \in Dimension
      /\ sentiment.signed \in -sentiment.strength - 1 .. sentiment.strength
  <2>1. sentiment = compute_sentiment_aggregation(members, get_source_weights(sources))
    BY DEF Sentiments
  <2>2. SentimentOf \in [EntityEvent -> Sentiment]
    BY ScoreTypes
  <2> HIDE DEF sources
  <2> QED  BY <2>1, <2>2, SentimentInRange
<1>3. event_type_score(row) \in Dimension
  <2>1. (CHOOSE e \in row.ees : TRUE) \in EntityEvent
    BY DEF Scorable
  <2> QED  BY <2>1, ScoreTypes DEF event_type_score
<1>4. rule \in 0..MAX_BASE_RULE_SCORE
  <2> DEFINE score == RuleScoreOf(row, sentiment)
             type == event_type_score(row)
  <2>1. score = compute_rule_score(type, sources, sentiment, get_source_weights(sources))
    BY DEF RuleScoreOf
  <2>2. type \in Dimension /\ rule = base_rule_score(score)
    BY <1>3
  <2> HIDE DEF score, type, sources
  <2>3. /\ base_rule_score(score) \in Int
        /\ 0 <= base_rule_score(score) /\ base_rule_score(score) <= MAX_BASE_RULE_SCORE
    BY <1>1, <1>2, <2>1, <2>2, RuleInRange
  <2> QED  BY <2>2, <2>3, MaximumIsInt
<1>5. ASSUME NEW impact \in ImpactScore
      PROVE  AddsUp(rule, impact, raw_final_score(rule, impact, sentiment))
  <2>1. impact \in -50..50
    BY ScoreTypes
  <2>2. sentiment.signed \in Int
    BY <1>2
  <2> QED  BY <1>4, <2>1, <2>2, FusionAdds
<1> QED  BY <1>2, <1>4, <1>5 DEF InRange

ScoringInv == OutboxInv /\ LineInv /\ Rows /\ Members

LEMMA ScoringInvariant == Spec => []ScoringInv
<1>1. OutboxInv /\ GroupInv /\ ScoreInv /\ [Next]_vars => ScoreInv'
  BY ScoreStep
<1> QED  BY <1>1, ScoreInit, SafetyInvariants, EventsAreGood, RowsAreScorable,
            MembersAreFinite, PTL DEF Spec, ScoringInv

(* An Event is never scored lower for being reported more: what is written *)
(* of a row's type, authority and heat is not less than before             *)
(* (_UPSERT_EVENT_SQL, compute_rule_score).                                *)
THEOREM ScoresGrow == Spec => ScoresOnlyGrow
<1> DEFINE Step ==
      \A id \in Written : stored[id] # NoEvent =>
          \A before \in {Dimensions(stored[id])}, after \in {Dimensions(stored'[id])} :
              /\ after.event_type_score = before.event_type_score
              /\ after.source_authority_score >= before.source_authority_score
              /\ after.source_heat_score >= before.source_heat_score
<1>1. ScoringInv /\ ScoringInv' /\ [Next]_vars => [Step]_vars
  <2> SUFFICES ASSUME ScoringInv, ScoringInv', [Next]_vars, NEW id \in Written,
                      stored[id] # NoEvent,
                      NEW before \in {Dimensions(stored[id])},
                      NEW after \in {Dimensions(stored'[id])}
               PROVE  /\ after.event_type_score = before.event_type_score
                      /\ after.source_authority_score >= before.source_authority_score
                      /\ after.source_heat_score >= before.source_heat_score
    OBVIOUS
  <2>1. id \in EventId /\ stored' # stored
    BY DEF Written
  <2>2. PICK p \in Persister : PersistEvents(p)
    BY <2>1, OnlyPersistWrites
  <2>3. stored'[id] # NoEvent /\ stored[id].ees \subseteq stored'[id].ees
    BY <2>1, <2>2, RowsTakeIn DEF ScoringInv
  <2>4. Scorable(stored[id]) /\ Scorable(stored'[id])
    BY <2>1, <2>3 DEF ScoringInv, Rows, Scorable
  <2> QED  BY <2>3, <2>4, DimensionsGrow
<1>2. Spec => [][Step]_vars
  BY <1>1, ScoringInvariant, PTL DEF Spec
<1> QED  BY <1>2 DEF ScoresOnlyGrow

(* The base rule score of every row that is written is in [0, 8] and the   *)
(* impact an LLM gives only adds to it, whatever sources report an Event   *)
(* and whatever they say (RuleScore.base_rule_score, _score_fusion).       *)
THEOREM ScoresStayInRange == Spec => ScoresInRange
<1> DEFINE Step ==
      \A id \in Written :
          \A sentiment \in {Sentiments(stored'[id], {e \in EntityEvent : owner'[e] = id})} :
          \A rule \in {base_rule_score(RuleScoreOf(stored'[id], sentiment))} :
              InRange(rule, sentiment)
<1>1. ScoringInv /\ ScoringInv' /\ [Next]_vars => [Step]_vars
  <2> SUFFICES ASSUME ScoringInv, ScoringInv', [Next]_vars, NEW id \in Written
               PROVE  \A sentiment \in {Sentiments(stored'[id], {e \in EntityEvent : owner'[e] = id})} :
                      \A rule \in {base_rule_score(RuleScoreOf(stored'[id], sentiment))} :
                         InRange(rule, sentiment)
    OBVIOUS
  <2>1. id \in EventId /\ stored'[id] # stored[id] /\ stored' # stored
    BY DEF Written
  <2>2. PICK p \in Persister : PersistEvents(p)
    BY <2>1, OnlyPersistWrites
  <2>3. stored'[id] # NoEvent
    <3>1. stored[id] # NoEvent => stored'[id] # NoEvent
      BY <2>1, <2>2, RowsTakeIn DEF ScoringInv
    <3> QED  BY <2>1, <3>1
  <2>4. Scorable(stored'[id]) /\ IsFiniteSet({e \in EntityEvent : owner'[e] = id})
    BY <2>1, <2>3 DEF ScoringInv, Rows, Members, Scorable
  <2> DEFINE members == {e \in EntityEvent : owner'[e] = id}
             row == stored'[id]
  <2>5. members \in SUBSET EntityEvent /\ IsFiniteSet(members) /\ Scorable(row)
    BY <2>4
  <2> HIDE DEF members, row
  <2>6. ASSUME NEW sentiment, sentiment = Sentiments(row, members),
               NEW rule, rule = base_rule_score(RuleScoreOf(row, sentiment))
        PROVE  InRange(rule, sentiment)
    BY <2>5, <2>6, RowInRange
  <2> QED  BY <2>6 DEF members, row
<1>2. Spec => [][Step]_vars
  BY <1>1, ScoringInvariant, PTL DEF Spec
<1> QED  BY <1>2, PTL DEF ScoresInRange
=============================================================================
