---------------------------- MODULE SerialTurns ----------------------------
(***************************************************************************)
(* What the bot's admission promises: of the turns that run at one time no *)
(* two are of one conversation, and there are never more than the limit.   *)
(***************************************************************************)
EXTENDS Naturals, FiniteSets

CONSTANTS Turns, Conversation, Limit

VARIABLES stage

Running == {t \in Turns : stage[t] = "running"}

Init == stage = [t \in Turns |-> "waiting"]

Begin(t) ==
    /\ stage[t] = "waiting"
    /\ Cardinality(Running) < Limit
    /\ \A u \in Running : Conversation[u] # Conversation[t]
    /\ stage' = [stage EXCEPT ![t] = "running"]

Turn(t) ==
    \/ Begin(t)
    \/ stage[t] # "over" /\ stage' = [stage EXCEPT ![t] = "over"]

\* The death of the process ends turns together.
Stop == \E T \in SUBSET Turns : stage' = [t \in Turns |-> IF t \in T THEN "over" ELSE stage[t]]

Next == Stop \/ \E t \in Turns : Turn(t)

Spec == Init /\ [][Next]_stage
=============================================================================
