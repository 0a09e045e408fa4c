-------------------------- MODULE EntityAnalysisMC --------------------------
(* Instances of EntityAnalysis for TLC.                                    *)
EXTENDS EntityAnalysis, TLC

CONSTANTS m1, m2, m3, c1, c2, c3, u1, s1, s2

(* Two cleaned_news rows of one article, and one that is not there.        *)
Cleanings == [m \in Message |-> CASE m = m1 -> c1 [] m = m2 -> c2 [] m = m3 -> c3]
OneArticle == [c \in {c1, c2} |-> u1]

=============================================================================
