----------------------------- MODULE EventFeed -----------------------------
(***************************************************************************)
(* What the Scoring layer relies on: stream:event_aggregated as a feed of  *)
(* Events.  Each write of the Aggregation layer moves some rows to later   *)
(* versions (aggregation_updated_at), a row whose version is not marked    *)
(* published is announced, possibly more than once, and a version is       *)
(* marked only when it was announced.                                      *)
(***************************************************************************)
EXTENDS Naturals

CONSTANTS
    Event,    \* ids of Events
    Version   \* the versions of a row; 0 is that of an Event not stored

ASSUME VersionAssumption == Version \subseteq Nat /\ 0 \in Version

VARIABLES
    version,    \* of each row
    announced,  \* the version each row had when last announced
    published   \* published_aggregation_updated_at

feed == <<version, announced, published>>

Init ==
    /\ version = [e \in Event |-> 0]
    /\ announced = [e \in Event |-> 0]
    /\ published = [e \in Event |-> 0]

Persist ==
    /\ version' \in [Event -> Version]
    /\ \A e \in Event : version[e] <= version'[e]
    /\ UNCHANGED <<announced, published>>

Announce(e) ==
    /\ version[e] # 0
    /\ announced' = [announced EXCEPT ![e] = version[e]]
    /\ UNCHANGED <<version, published>>

Mark(e) ==
    /\ \E v \in Version :
         /\ published[e] < v /\ v <= announced[e]
         /\ published' = [published EXCEPT ![e] = v]
    /\ UNCHANGED <<version, announced>>

Next ==
    \/ Persist
    \/ \E e \in Event : Announce(e) \/ Mark(e)

Spec == Init /\ [][Next]_feed
============================================================================
