---------------------------- MODULE EventScoreMC ----------------------------
(* An instance of EventScore for TLC: three EntityEvents of one stock, of  *)
(* sources in two tiers and one that is not known, with sentiments that    *)
(* disagree, and one active source, which the three exceed.                *)
EXTENDS EventScore, AggregationMC

MCSourceOf == [e \in EntityEvent |->
    CASE e = e1 -> "MINGPAO" [] e = e2 -> "HKEX" [] OTHER -> "BLOG"]
MCSentimentOf == [e \in EntityEvent |->
    CASE e = e1 -> [score |-> 10, label |-> "NEGATIVE"]
      [] e = e2 -> [score |-> 9, label |-> "POSITIVE"]
      [] OTHER -> [score |-> 5, label |-> "NEUTRAL"]]
MCTypeScore == [g \in Group |-> 900]
MCImpactScore == {-50, -1, 0, 1, 50}

(* The bound on redeliveries: a second delivery is dead-lettered, and the  *)
(* instance goes no further once two messages were.                        *)
OneDeadLetter == Cardinality(dead) <= 1
=============================================================================
