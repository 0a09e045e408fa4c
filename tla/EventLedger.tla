---------------------------- MODULE EventLedger ----------------------------
(***************************************************************************)
(* What the Aggregation layer promises to its readers, whatever happens    *)
(* inside it: the stored Events and their announcements as an append-only  *)
(* ledger.  An Event is only ever replaced by a later version of itself    *)
(* that keeps its EntityEvents, an EntityEvent joins one Event and stays,  *)
(* and an Event is marked published at a version only after it was         *)
(* announced when it stood at that version or a later one.                 *)
(***************************************************************************)
EXTENDS EventTables

VARIABLES stored, owner, announced, published

ledger == <<stored, owner, announced, published>>

Init ==
    /\ stored = [id \in EventId |-> NoEvent]
    /\ owner = [e \in EntityEvent |-> NoEvent]
    /\ announced = [id \in EventId |-> 0]
    /\ published = [id \in EventId |-> 0]

Grows(id) ==
    /\ stored'[id] \in Event
    /\ stored'[id].id = id
    /\ StoredVersion(stored, id) < stored'[id].ver
    /\ stored[id] # NoEvent =>
         /\ stored[id].ees \subseteq stored'[id].ees
         /\ stored'[id].first <= stored[id].first
         /\ stored[id].last <= stored'[id].last

Joins(e) ==
    /\ owner[e] = NoEvent
    /\ owner'[e] \in EventId
    /\ stored'[owner'[e]] # NoEvent
    /\ e \in stored'[owner'[e]].ees

Persist ==
    /\ \A id \in EventId : stored'[id] = stored[id] \/ Grows(id)
    /\ \A e \in EntityEvent : owner'[e] = owner[e] \/ Joins(e)
    /\ \A id \in EventId : stored'[id] # NoEvent =>
         \A e \in stored'[id].ees : owner'[e] # NoEvent
    /\ UNCHANGED <<announced, published>>

Announce(id) ==
    /\ stored[id] # NoEvent
    /\ announced' = [announced EXCEPT ![id] = stored[id].ver]
    /\ UNCHANGED <<stored, owner, published>>

Mark(id) ==
    /\ published[id] < published'[id] /\ published'[id] <= announced[id]
    /\ published'[id] \in Nat
    /\ published' = [published EXCEPT ![id] = published'[id]]
    /\ UNCHANGED <<stored, owner, announced>>

Next ==
    \/ Persist
    \/ \E id \in EventId : Announce(id) \/ Mark(id)

Spec == Init /\ [][Next]_ledger
============================================================================
