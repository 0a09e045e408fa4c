----------------------------- MODULE ServiceMC -----------------------------
(* Instances of Service for TLC: two layers, of which Scoring is not       *)
(* monitored.  The Aggregation layer's consumer loop runs a transaction,   *)
(* Scoring an execute.                                                     *)
EXTENDS Service, TLC

CONSTANTS aggregation, scoring, persist, score, probe

TwoLayers == {aggregation, scoring}
TwoLoops == [l \in Layer |-> IF l = scoring THEN {1} ELSE {1, 2}]
Kinds == [c \in Call |-> CASE c = persist -> "transaction" [] c = score -> "execute" [] OTHER -> "fetch"]
Callers == [c \in LoopCall |-> IF c = persist THEN <<aggregation, 1>> ELSE <<scoring, 1>>]

=============================================================================
