----------------------------- MODULE EventScore -----------------------------
(***************************************************************************)
(* What the Scoring layer computes for the Events the Aggregation layer    *)
(* has stored, at every moment it might read them: the rule score of each  *)
(* row of events and of the EntityEvents event_entity_map gives it.        *)
(***************************************************************************)
EXTENDS Aggregation, RuleScore

CONSTANTS
    TypeScore,   \* config.event_type_score of a group's event type
    ImpactScore  \* the stock_impact_scores an LLM may give

ASSUME ScoreAssumption ==
    /\ SentimentOf \in [EntityEvent -> Sentiment]
    /\ TypeScore \in [Group -> 0..1000]
    /\ ImpactScore \subseteq -50..50

(* source_list and source_count, as _UPSERT_EVENT_SQL computes them: one   *)
(* entry per source of the EntityEvents the row was written with.          *)
source_list(event) == {SourceOf[e] : e \in event.ees}

event_type_score(event) == TypeScore[GroupOf[CHOOSE e \in event.ees : TRUE]]

(* score_event up to the fusion, for the row of an Event and the           *)
(* EntityEvents read for it.                                               *)
Sentiments(event, entityEvents) ==
    compute_sentiment_aggregation(entityEvents, get_source_weights(source_list(event)))
RuleScoreOf(event, sentiment) ==
    compute_rule_score(event_type_score(event), source_list(event), sentiment,
                       get_source_weights(source_list(event)))

-----------------------------------------------------------------------------
(* The ids of the Events a step writes the row of.                         *)
Written == {id \in EventId : stored'[id] # stored[id]}

(* An Event is never scored lower for being reported more: its authority   *)
(* and its heat only grow from one stored version to the next, in whatever *)
(* order flushes and merges write them (_UPSERT_EVENT_SQL,                 *)
(* compute_rule_score).                                                    *)
Dimensions(event) == RuleScoreOf(event, [signed |-> 0, strength |-> 0])

ScoresOnlyGrow ==
    [][ \A id \in Written : stored[id] # NoEvent =>
          \A before \in {Dimensions(stored[id])}, after \in {Dimensions(stored'[id])} :
              /\ after.event_type_score = before.event_type_score
              /\ after.source_authority_score >= before.source_authority_score
              /\ after.source_heat_score >= before.source_heat_score ]_vars

(* The maximum event_score.py states, 8, in ten-thousandths.               *)
MAX_BASE_RULE_SCORE == 8 * 10000

Magnitude(x) == IF x < 0 THEN -x ELSE x

(* The impact adds to the base score, in the weights of _score_fusion.     *)
AddsUp(rule, impact, raw) == Magnitude(raw) = rule * 67 + Magnitude(impact) * 66000

InRange(rule, sentiment) ==
    /\ rule \in 0..MAX_BASE_RULE_SCORE
    /\ sentiment.signed \in -sentiment.strength - 1 .. sentiment.strength
    /\ \A impact \in ImpactScore : AddsUp(rule, impact, raw_final_score(rule, impact, sentiment))

(* The base rule score of every row written is in [0, 8], as               *)
(* event_score.py says of it, also with more sources than are active, and  *)
(* whatever an LLM answers, its impact adds to the base score and never    *)
(* cancels it, although it may contradict the sentiment (_score_fusion).   *)
ScoresInRange ==
    [][ \A id \in Written :
          \A sentiment \in {Sentiments(stored'[id], {e \in EntityEvent : owner'[e] = id})} :
          \A rule \in {base_rule_score(RuleScoreOf(stored'[id], sentiment))} :
              InRange(rule, sentiment) ]_vars
============================================================================
