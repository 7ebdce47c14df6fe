----------------------------- MODULE SessionLog -----------------------------
(***************************************************************************)
(* What the session store promises to the turns of a conversation: a       *)
(* session is one history, only a turn that has seen all of it adds to it, *)
(* and the state of a session is what its events have made of it.          *)
(***************************************************************************)
EXTENDS Naturals, Sequences

CONSTANTS Sessions, Turns

VARIABLES
    history,    \* history[s]: the changes of state made by the events of s
    state,      \* state[s]: the state of s alone
    shared,     \* the state that belongs to the application and to the user
    view        \* view[t]: the history that t knows of its session

vars == <<history, state, shared, view>>

\* The state after a change, and the changes that concern some scopes.
After(old, change) ==
    [k \in DOMAIN old \cup DOMAIN change |->
        IF k \in DOMAIN change THEN change[k] ELSE old[k]]
In(change, scopes) == [k \in {x \in DOMAIN change : x.scope \in scopes} |-> change[k]]

Empty == [k \in {} |-> k]

Init ==
    /\ history \in [Sessions -> {<<>>, <<Empty>>}]
    /\ DOMAIN state = Sessions
    /\ shared = Empty
    /\ view = [t \in Turns |-> <<>>]

\* A session begins with a state and no event.
Open(s) ==
    /\ history[s] = <<>>
    /\ state' = [state EXCEPT ![s] = state'[s]]
    /\ UNCHANGED <<history, shared, view>>

\* A turn reads a session, or loses sight of it.
Read(t, s) ==
    /\ view' = [view EXCEPT ![t] = history[s]]
    /\ UNCHANGED <<history, state, shared>>

Forget ==
    /\ \A t \in Turns : view'[t] \in {view[t], <<>>}
    /\ DOMAIN view' = Turns
    /\ UNCHANGED <<history, state, shared>>

\* The event is the one that is found at the end of the history.
Extend(t, s) ==
    /\ view[t] = history[s]
    /\ Len(history'[s]) = Len(history[s]) + 1
    /\ LET change == history'[s][Len(history[s]) + 1]
       IN  /\ history' = [history EXCEPT ![s] = Append(@, change)]
           /\ view' = [view EXCEPT ![t] = Append(@, change)]
           /\ state' = [state EXCEPT ![s] = After(@, In(change, {"session"}))]
           /\ shared' = After(shared, In(change, {"app", "user"}))

Next ==
    \/ \E s \in Sessions : Open(s)
    \/ Forget
    \/ \E t \in Turns, s \in Sessions : Read(t, s) \/ Extend(t, s)

Spec == Init /\ [][Next]_vars
=============================================================================
