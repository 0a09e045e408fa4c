---------------------------- MODULE IngestionMC ----------------------------
(* Instances of Ingestion for TLC.                                         *)
EXTENDS Ingestion, TLC

CONSTANTS a1, a2, a3, a4, x1, x2, w1, w2

(* The same headline at two addresses.                                     *)
SameTitle == [a \in Article |-> IF a = a3 THEN a2 ELSE a]

OneSite == [a \in Article |-> "AASTOCKS"]
OtherSites == [a \in Article |-> CASE a = a3 -> "YAHOO_HK" [] a = a4 -> "MINGPAO" [] OTHER -> "HKEX"]

Symmetry == Permutations(Worker) \union Permutations(Execution)

============================================================================
