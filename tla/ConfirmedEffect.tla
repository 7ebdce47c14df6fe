--------------------------- MODULE ConfirmedEffect ---------------------------
(***************************************************************************)
(* What a tool that acts outside the process promises for each operation,  *)
(* whatever calls repeat it, fail or die: it acts at most once and only    *)
(* with consent, and the verdict it writes down, once, is true: "done" of  *)
(* what has happened, "undone" of what has not and never will.             *)
(***************************************************************************)
EXTENDS Naturals

CONSTANT Ops

VARIABLES
    consented,  \* the operations that may be carried out
    effects,    \* effects[o]: how many times o has been carried out
    verdict     \* verdict[o]: what is written down of o

Init ==
    /\ consented \in SUBSET Ops
    /\ effects = [o \in Ops |-> 0]
    /\ verdict = [o \in Ops |-> "none"]

Consent(o) ==
    /\ consented' = consented \cup {o}
    /\ UNCHANGED <<effects, verdict>>

Claim(o) ==
    /\ o \in consented
    /\ verdict[o] = "none"
    /\ verdict' = [verdict EXCEPT ![o] = "open"]
    /\ UNCHANGED <<consented, effects>>

Refuse(o) ==
    /\ verdict[o] = "none"
    /\ verdict' = [verdict EXCEPT ![o] = "undone"]
    /\ UNCHANGED <<consented, effects>>

Act(o) ==
    /\ verdict[o] = "open"
    /\ effects[o] = 0
    /\ effects' = [effects EXCEPT ![o] = 1]
    /\ UNCHANGED <<consented, verdict>>

Settle(o) ==
    /\ verdict[o] = "open"
    /\ \E v \in {"done", "undone", "unclear"} :
        /\ v = "done" => effects[o] = 1
        /\ v = "undone" => effects[o] = 0
        /\ verdict' = [verdict EXCEPT ![o] = v]
    /\ UNCHANGED <<consented, effects>>

Next == \E o \in Ops : Consent(o) \/ Claim(o) \/ Refuse(o) \/ Act(o) \/ Settle(o)

Spec == Init /\ [][Next]_<<consented, effects, verdict>>
=============================================================================
