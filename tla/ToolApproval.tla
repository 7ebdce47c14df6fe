---------------------------- MODULE ToolApproval ----------------------------
(***************************************************************************)
(* What a tool confirmation promises, whatever stores, prompts and         *)
(* processes lie underneath: a call that was asked about gets at most one  *)
(* verdict, and only a granted call runs, at most once.  A granted call    *)
(* need not run: a crash may come first.                                   *)
(***************************************************************************)
EXTENDS Naturals

CONSTANT Calls

VARIABLES state, ran

Init ==
    /\ state \in [Calls -> {"unasked", "open"}]
    /\ ran = [c \in Calls |-> 0]

Ask(c) ==
    /\ state[c] = "unasked"
    /\ state' = [state EXCEPT ![c] = "open"]
    /\ UNCHANGED ran

\* The requester grants or refuses the call.
Judge(c) ==
    /\ state[c] = "open"
    /\ state' \in {[state EXCEPT ![c] = "granted"], [state EXCEPT ![c] = "refused"]}
    /\ UNCHANGED ran

\* Time runs out for some open calls at once.
Lapse ==
    /\ \E S \in SUBSET {c \in Calls : state[c] = "open"} :
           state' = [c \in Calls |-> IF c \in S THEN "lapsed" ELSE state[c]]
    /\ UNCHANGED ran

Execute(c) ==
    /\ state[c] = "granted"
    /\ ran[c] = 0
    /\ ran' = [ran EXCEPT ![c] = 1]
    /\ UNCHANGED state

Next == Lapse \/ \E c \in Calls : Ask(c) \/ Judge(c) \/ Execute(c)

Spec == Init /\ [][Next]_<<state, ran>>
=============================================================================
