------------------------------ MODULE DbCall -------------------------------
(***************************************************************************)
(* What a caller of DatabaseClient may rely on: the statements of a call   *)
(* take effect together or not at all, they have when the call returns,    *)
(* and none does once it ended, however it ended.  A call that raises      *)
(* promises nothing: its statements may have taken effect.                 *)
(***************************************************************************)
CONSTANTS
    Call,
    StatementsOf   \* [Call -> the statements of each], none for a read

VARIABLES
    outcome,    \* [Call -> "none" before the call, "open", then "ok" or "failed"]
    effect      \* [Call -> the statements that took effect]

callVars == <<outcome, effect>>

Init ==
    /\ outcome = [c \in Call |-> "none"]
    /\ effect = [c \in Call |-> {}]

Open(c) ==
    /\ outcome[c] = "none"
    /\ outcome' = [outcome EXCEPT ![c] = "open"]
    /\ UNCHANGED effect

Takes(c) == effect' = [effect EXCEPT ![c] = StatementsOf[c]]
Ends(c, end) == outcome[c] = "open" /\ outcome' = [outcome EXCEPT ![c] = end]

Apply(c) == outcome[c] = "open" /\ Takes(c) /\ UNCHANGED outcome
Return(c) == Ends(c, "ok") /\ Takes(c)
Raise(c) == Ends(c, "failed") /\ (Takes(c) \/ UNCHANGED effect)

Next == \E c \in Call : Open(c) \/ Apply(c) \/ Return(c) \/ Raise(c)

Spec == Init /\ [][Next]_callVars

============================================================================
