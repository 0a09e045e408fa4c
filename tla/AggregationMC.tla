--------------------------- MODULE AggregationMC ---------------------------
(* Instances of Aggregation for TLC.  A run takes one definition of each   *)
(* kind: what the messages name, how their EntityEvents are grouped, and   *)
(* when they were published.                                               *)
EXTENDS Aggregation, TLC

CONSTANTS m1, m2, m3, m4, g1, g2, e1, e2, e3, i1, i2, i3

OneEach == [m \in Message |-> CASE m = m1 -> e1 [] m = m2 -> e2 [] m = m3 -> e3
                              [] m = m4 -> Malformed]

OneGroup == [e \in EntityEvent |-> g1]
TwoGroups == [e \in EntityEvent |-> IF e = e2 THEN g2 ELSE g1]

(* With a window of 3, e1 and e2 merge in either order.                    *)
Near == [e \in EntityEvent |-> IF e = e1 THEN 1 ELSE 0]
(* Or e2 replaces an Event of e1, and makes it late.                       *)
Far == [e \in EntityEvent |-> IF e = e1 THEN 0 ELSE 4]

(* Or e1 and e2 merge, e2 and e3 do, and e1 and e3 do not.                 *)
Mixed == [e \in EntityEvent |-> CASE e = e1 -> 0 [] e = e2 -> 2 [] e = e3 -> 5]

(* Any fresh id does for a new Event.                                      *)
EventIdSymmetry == Permutations(EventId)

============================================================================
