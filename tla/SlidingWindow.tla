--------------------------- MODULE SlidingWindow ---------------------------
(***************************************************************************)
(* The merge decision of the Aggregation layer: sliding_window.py.  A      *)
(* group's active Event is either extended by an arriving EntityEvent or   *)
(* replaced by a new Event started from it.                                *)
(*                                                                         *)
(* An Event is the record the state Redis holds for it: its id, the        *)
(* publication times of its earliest and latest EntityEvents, the version  *)
(* that aggregation_updated_at stamps on every change, and the ids of its  *)
(* EntityEvents.  Times are integers (the code compares hours).            *)
(***************************************************************************)
EXTENDS Integers

CONSTANTS
    SLIDING_WINDOW,     \* config.sliding_window_hours
    EVENT_MAX_TIMESPAN, \* config.event_max_timespan_hours
    DB_FLUSH_INTERVAL,  \* config.db_flush_interval_s, in the same unit
    NoEvent             \* a group without an active Event

(* config.py reads the three values from the environment as ints; zero or  *)
(* negative ones would make an empty window, a cap nothing fits in, or a   *)
(* flush on every pass.                                                    *)
ASSUME ConfigAssumption ==
    /\ SLIDING_WINDOW \in Nat
    /\ EVENT_MAX_TIMESPAN \in Nat \ {0}
    /\ DB_FLUSH_INTERVAL \in Nat \ {0}

Earlier(s, t) == IF s <= t THEN s ELSE t
Later(s, t) == IF s <= t THEN t ELSE s
Distance(s, t) == IF s <= t THEN t - s ELSE s - t

(* The span an Event would have with an EntityEvent published at t in it,  *)
(* measured as merge_or_create measures it.                                *)
SpanWith(event, t) == Later(t, event.last) - Earlier(t, event.first)

(* Inside the sliding window and with some lifespan left.                  *)
Extends(event, t) ==
    /\ Distance(t, event.last) <= SLIDING_WINDOW
    /\ EVENT_MAX_TIMESPAN - SpanWith(event, t) > 0

(* Mutant of ExtendedBy: the EntityEvents are replaced.                    *)
ExtendedAlone(event, e, t) ==
    [id |-> event.id, first |-> Earlier(event.first, t), last |-> Later(event.last, t),
     ver |-> event.ver + 1, ees |-> {e}]

ExtendedBy(event, e, t) ==
    [id |-> event.id, first |-> Earlier(event.first, t), last |-> Later(event.last, t),
     ver |-> event.ver + 1, ees |-> event.ees \union {e}]

StartedBy(e, t, freshId) ==
    [id |-> freshId, first |-> t, last |-> t, ver |-> 1, ees |-> {e}]

(* The group's active Event after e, published at t, arrives.  freshId is  *)
(* the uuid4() of a new Event.  The version stands for the wall clock      *)
(* aggregation_updated_at: versions are compared only between states of    *)
(* one Event, whose every change takes a later reading of the clock.       *)
merge_or_create(event, e, t, freshId) ==
    IF event # NoEvent /\ Extends(event, t)
      THEN ExtendedBy(event, e, t)
      ELSE StartedBy(e, t, freshId)

(* Published before the Event's latest EntityEvent by more than a window.  *)
is_late(event, t) == event.last - t > SLIDING_WINDOW

(* Mutant of ttl_for: no grace period.                                     *)
TtlWithoutGrace(event) ==
    Earlier(SLIDING_WINDOW, EVENT_MAX_TIMESPAN - (event.last - event.first))

(* How long the Event's merge state is kept: the rest of its window or of  *)
(* its lifespan, and a grace period of two flush intervals.                *)
ttl_for(event) ==
    Earlier(SLIDING_WINDOW, EVENT_MAX_TIMESPAN - (event.last - event.first))
      + 2 * DB_FLUSH_INTERVAL
============================================================================
