----------------------------- MODULE RuleScore -----------------------------
(***************************************************************************)
(* The score of an Event: rule_score.py, RuleScore.base_rule_score and     *)
(* _score_fusion.  The code's floats are integers here: a sentiment_score  *)
(* in tenths, a dimension in hundredths, a base rule score in ten-         *)
(* thousandths and a final score in millionths, rounded down.              *)
(***************************************************************************)
EXTENDS Integers, FiniteSets, FiniteSetsExt

CONSTANTS
    SourceOf,            \* the source_name of each EntityEvent
    SentimentOf,         \* its sentiment_score and sentiment_label
    TOTAL_ACTIVE_SOURCES \* config.total_active_sources_default

(* Zero would divide by zero; the environment variable is not checked.     *)
ASSUME ActiveSourcesAssumption == TOTAL_ACTIVE_SOURCES \in Nat \ {0}

DIRECTION_COEFFICIENT == [POSITIVE |-> 1, NEUTRAL |-> 0, NEGATIVE |-> -1]

Sentiment == [score: 0..10, label: DOMAIN DIRECTION_COEFFICIENT]

SOURCE_TIER == [HKEX |-> "P1", MINGPAO |-> "P2", AASTOCKS |-> "P2", YAHOO_HK |-> "P2"]
DEFAULT_TIER_WEIGHTS == [P1 |-> 9, P2 |-> 6, P3 |-> 4]

(* One entry per named source; one that is not known has weight 0.         *)
get_source_weights(sources) ==
    [s \in sources |->
        IF s \in DOMAIN SOURCE_TIER THEN DEFAULT_TIER_WEIGHTS[SOURCE_TIER[s]] ELSE 0]

(* The weight of an EntityEvent, 0 when its source is not among those the  *)
(* row named.                                                              *)
WeightOf(e, weights) == IF SourceOf[e] \in DOMAIN weights THEN weights[SourceOf[e]] ELSE 0

(* The source-weighted mean sentiment in thousandths, signed by label and  *)
(* unsigned.                                                               *)
compute_sentiment_aggregation(entityEvents, weights) ==
    LET total == MapThenSumSet(LAMBDA e : WeightOf(e, weights), entityEvents)
        strength == MapThenSumSet(
            LAMBDA e : SentimentOf[e].score * WeightOf(e, weights), entityEvents)
        signed == MapThenSumSet(
            LAMBDA e : SentimentOf[e].score * DIRECTION_COEFFICIENT[SentimentOf[e].label]
                         * WeightOf(e, weights), entityEvents)
    IN  IF total = 0 THEN [signed |-> 0, strength |-> 0]
        ELSE [signed |-> (signed * 100) \div total, strength |-> (strength * 100) \div total]

(* Mutant of source_heat_score: not capped.                                *)
HeatUncapped(count) == (count * 1000) \div TOTAL_ACTIVE_SOURCES

(* More sources may report an Event than are counted as active.            *)
source_heat_score(count) == Min({1000, (count * 1000) \div TOTAL_ACTIVE_SOURCES})

compute_rule_score(typeScore, sources, sentiment, weights) ==
    [event_type_score |-> typeScore,
     source_authority_score |-> Max({100 * weights[s] : s \in sources}),
     sentiment_strength_score |-> sentiment.strength,
     source_heat_score |-> source_heat_score(Cardinality(sources))]

base_rule_score(ruleScore) ==
    ruleScore.event_type_score * 30 + ruleScore.source_authority_score * 25
      + ruleScore.sentiment_strength_score * 15 + ruleScore.source_heat_score * 10

(* Mutant of direction: the LLM's sign comes second.                       *)
DirectionOfSentiment(impact, sentiment) == IF sentiment.signed >= 0 THEN 1 ELSE -1

(* An LLM's score of 0, which is what stands in for it, leaves the         *)
(* direction to the sentiment.  impact is stock_impact_score in tenths.    *)
direction(impact, sentiment) ==
    IF impact > 0 THEN 1
    ELSE IF impact < 0 THEN -1
    ELSE IF sentiment.signed >= 0 THEN 1 ELSE -1

raw_final_score(base, impact, sentiment) ==
    base * direction(impact, sentiment) * 67 + impact * 66000
============================================================================
