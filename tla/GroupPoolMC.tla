---------------------------- MODULE GroupPoolMC ----------------------------
(* Instances of GroupPool: three groups, two of them with two units of     *)
(* work.                                                                   *)
EXTENDS GroupPool, TLC

CONSTANTS g1, g2, g3, w1, w2, w3, w4, w5

MCGroupOf == w1 :> g1 @@ w2 :> g2 @@ w3 :> g3 @@ w4 :> g3 @@ w5 :> g1
============================================================================
