---------------------------- MODULE EventTables ----------------------------
(***************************************************************************)
(* The tables events and event_entity_map as EventRepository reads and     *)
(* writes them.  stored[id] is the row of an Event or NoEvent, owner[e]    *)
(* the id e's row of event_entity_map names or NoEvent, and published[id]  *)
(* the column published_aggregation_updated_at, 0 for NULL.  A row keeps   *)
(* the EntityEvents its source_list and event_type_secondary were computed *)
(* from.                                                                   *)
(***************************************************************************)
EXTENDS SlidingWindow

CONSTANTS
    EntityEvent,  \* ids of the EntityEvents
    EventId       \* ids of Events

Event ==
    [id: EventId, first: Int, last: Int, ver: Nat, ees: SUBSET EntityEvent]

ASSUME NoEventAssumption == NoEvent \notin EventId \union Event

StoredVersion(stored, id) == IF stored[id] = NoEvent THEN 0 ELSE stored[id].ver

(* Mutant of Overwrites: the upsert without its WHERE.                     *)
OverwritesAlways(stored, event) == stored[event.id] # event

(* _UPSERT_EVENT_SQL: only newer state wins.                               *)
Overwrites(stored, event) == StoredVersion(stored, event.id) < event.ver

WithEvents(stored, events) ==
    [id \in EventId |->
        IF \E event \in events : event.id = id /\ Overwrites(stored, event)
          THEN CHOOSE event \in events : event.id = id
          ELSE stored[id]]

(* _INSERT_EVENT_ENTITY_MAP_SQL: a membership already there, of this or of *)
(* another Event, stays.                                                   *)
WithMemberships(owner, events) ==
    [e \in EntityEvent |->
        IF owner[e] = NoEvent /\ \E event \in events : e \in event.ees
          THEN (CHOOSE event \in events : e \in event.ees).id
          ELSE owner[e]]

(* _SELECT_UNPUBLISHED_EVENTS_SQL                                          *)
Unpublished(stored, published, ids) ==
    {[id |-> id, ver |-> stored[id].ver] :
        id \in {i \in ids : published[i] < StoredVersion(stored, i)}}

(* _MARK_PUBLISHED_SQL: only moves forward.                                *)
WithMark(published, id, ver) ==
    [published EXCEPT ![id] = IF @ < ver THEN ver ELSE @]
============================================================================
