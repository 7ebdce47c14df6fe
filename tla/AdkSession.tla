----------------------------- MODULE AdkSession -----------------------------
(* The durable sessions of the model's turns: AdkSessionService in          *)
(* adapter/sqlite/adk_session.go, used by Runtime in                        *)
(* adapter/adkagent/runtime.go. A session is read in statements of its own, *)
(* and a turn appends its events in transactions that compare the revision  *)
(* of the session with the one of the turn's copy; a question and a resumed *)
(* confirmation of one conversation run at the same time.                   *)
(* A state is a function from keys to values; a key is its scope (the app:, *)
(* user: and temp: prefixes) and its name.                                  *)
EXTENDS Naturals, Sequences, FiniteSets

CONSTANTS
    Sessions,       \* conversations
    Turns,          \* runs of the model, for a question or for a decision
    Families,       \* provider families; "openai_compatible" is one
    Deltas,         \* the state deltas of events
    MaxEvents       \* bound on the events of a session

VARIABLES
    up,             \* is the process running?
    providerFamily, \* the family of the configured root model
    appState, userState,
    stored,         \* the sessions with a row
    state,          \* state[s]: the column state of adk_sessions
    revision,       \* revision[s]
    events,         \* events[s]: rows of adk_events by ordinal, [delta, family]
    pc,             \* pc[t]: where a turn stands
    sessionID,      \* sessionID[t]
    localState, localEvents, localRevision  \* the turn's localSession

database == <<appState, userState, stored, state, revision, events>>
local == <<localState, localEvents, localRevision>>
vars == <<up, providerFamily, database, pc, sessionID, local>>

Empty == [k \in {} |-> k]

ProviderFamilyStateKey == [scope |-> "session", name |-> "provider_family"]

\* maps.Copy
Copy(old, delta) ==
    [k \in DOMAIN old \cup DOMAIN delta |-> IF k \in DOMAIN delta THEN delta[k] ELSE old[k]]

Scoped(delta, scope) == [k \in {x \in DOMAIN delta : x.scope = scope} |-> delta[k]]

extractStateDeltas(delta) ==
    [app |-> Scoped(delta, "app"), user |-> Scoped(delta, "user"),
     session |-> Scoped(delta, "session")]

mergeStates(app, user, current) == Copy(Copy(current, app), user)

sessionStateFromMerged(merged) == extractStateDeltas(merged).session

trimTempDeltaState(event) ==
    [event EXCEPT !.delta =
        [k \in {x \in DOMAIN event.delta : x.scope # "temp"} |-> event.delta[k]]]

------------------------------------------------------------------------------
(* The start of the process                                                 *)

\* Mutant: a session without the marker is taken for one of the newer family.
StoredFamilyAssumed(s) ==
    IF ProviderFamilyStateKey \in DOMAIN state[s]
    THEN state[s][ProviderFamilyStateKey]
    ELSE "agent_cli"

\* Sessions without the marker are older than it.
StoredFamily(s) ==
    IF ProviderFamilyStateKey \in DOMAIN state[s]
    THEN state[s][ProviderFamilyStateKey]
    ELSE "openai_compatible"

\* A store that an older version of the program may have left.
Init ==
    /\ up = FALSE
    /\ providerFamily \in Families
    /\ appState = Empty
    /\ userState = Empty
    /\ stored \in SUBSET Sessions
    /\ state = [s \in Sessions |-> Empty]
    /\ revision = [s \in Sessions |-> IF s \in stored THEN 1 ELSE 0]
    /\ events = [s \in Sessions |->
        IF s \in stored THEN <<[delta |-> Empty, family |-> "openai_compatible"]>> ELSE <<>>]
    /\ pc = [t \in Turns |-> "idle"]
    /\ sessionID \in [Turns -> Sessions]
    /\ localState = [t \in Turns |-> Empty]
    /\ localEvents = [t \in Turns |-> <<>>]
    /\ localRevision = [t \in Turns |-> 0]

\* The process starts only when every session is of the configured family.
Start(family) ==
    /\ ~up
    /\ providerFamily' = family
    /\ up' = (\A s \in stored : StoredFamily(s) = family)
    /\ UNCHANGED <<database, pc, sessionID, local>>

\* The turns and their copies die with the process.
Crash ==
    /\ up
    /\ up' = FALSE
    /\ pc' = [t \in Turns |-> "idle"]
    /\ localState' = [t \in Turns |-> Empty]
    /\ localEvents' = [t \in Turns |-> <<>>]
    /\ localRevision' = [t \in Turns |-> 0]
    /\ UNCHANGED <<providerFamily, database, sessionID>>

------------------------------------------------------------------------------
(* Turns                                                                    *)

At(t, place) == up /\ pc[t] = place

Goto(t, place) == pc' = [pc EXCEPT ![t] = place] /\ UNCHANGED <<up, providerFamily, sessionID>>

\* The turn ends and its copy of the session with it.
EndTurn(t) ==
    /\ Goto(t, "idle")
    /\ localState' = [localState EXCEPT ![t] = Empty]
    /\ localEvents' = [localEvents EXCEPT ![t] = <<>>]
    /\ localRevision' = [localRevision EXCEPT ![t] = 0]
    /\ UNCHANGED database

\* Run, Stream and Resume differ in what they append.
Begin(t, s) ==
    /\ At(t, "idle")
    /\ pc' = [pc EXCEPT ![t] = "ensure"]
    /\ sessionID' = [sessionID EXCEPT ![t] = s]
    /\ UNCHANGED <<up, providerFamily, database, local>>

\* The context of the turn ends, or a statement fails.
Fail(t) == up /\ pc[t] # "idle" /\ EndTurn(t)

Insert(s, initial) ==
    /\ s \notin stored
    /\ stored' = stored \cup {s}
    /\ state' = [state EXCEPT ![s] = extractStateDeltas(initial).session]
    /\ appState' = Copy(appState, extractStateDeltas(initial).app)
    /\ userState' = Copy(userState, extractStateDeltas(initial).user)
    /\ UNCHANGED <<revision, events>>

\* Create in one transaction, which the row of an existing session undoes;
\* what it returns is not used.
EnsureSession(t) ==
    /\ At(t, "ensure")
    /\ \/ /\ Insert(sessionID[t], [k \in {ProviderFamilyStateKey} |-> providerFamily])
          /\ Goto(t, "row")
       \/ /\ sessionID[t] \in stored
          /\ Goto(t, "check")
          /\ UNCHANGED database
    /\ UNCHANGED local

\* The existing session is read, and of what is read the family looked at.
CheckProviderFamily(t) ==
    /\ At(t, "check")
    /\ IF StoredFamily(sessionID[t]) = providerFamily
       THEN Goto(t, "row") /\ UNCHANGED <<database, local>>
       ELSE EndTurn(t)

\* Get, for the runner: four statements.
GetRow(t) ==
    /\ At(t, "row")
    /\ sessionID[t] \in stored
    /\ localState' = [localState EXCEPT ![t] = state[sessionID[t]]]
    /\ localRevision' = [localRevision EXCEPT ![t] = revision[sessionID[t]]]
    /\ Goto(t, "app")
    /\ UNCHANGED <<database, localEvents>>

GetAppState(t) ==
    /\ At(t, "app")
    /\ localState' = [localState EXCEPT ![t] = mergeStates(appState, Empty, @)]
    /\ Goto(t, "user")
    /\ UNCHANGED <<database, localEvents, localRevision>>

GetUserState(t) ==
    /\ At(t, "user")
    /\ localState' = [localState EXCEPT ![t] = mergeStates(Empty, userState, @)]
    /\ Goto(t, "events")
    /\ UNCHANGED <<database, localEvents, localRevision>>

GetEvents(t) ==
    /\ At(t, "events")
    /\ localEvents' = [localEvents EXCEPT ![t] = events[sessionID[t]]]
    /\ Goto(t, "run")
    /\ UNCHANGED <<database, localState, localRevision>>

\* Mutant: the copy is never stale.
IsCurrentAlways(t) == sessionID[t] \in stored

IsCurrent(t) ==
    /\ sessionID[t] \in stored
    /\ revision[sessionID[t]] = localRevision[t]

\* Mutant: the merged state is stored, with the shared keys in it.
SessionStateAfterUnscoped(t, delta) ==
    IF DOMAIN delta.session = {} THEN state[sessionID[t]]
    ELSE Copy(localState[t], delta.session)

\* The row gets the state of the turn's copy, not the stored one.
SessionStateAfter(t, delta) ==
    IF DOMAIN delta.session = {} THEN state[sessionID[t]]
    ELSE Copy(sessionStateFromMerged(localState[t]), delta.session)

\* One transaction, and the copy follows when it is committed. A partial event
\* is not appended; ADK makes the events of a turn one by one.
AppendEvent(t, event) ==
    LET s == sessionID[t]
        delta == extractStateDeltas(event.delta)
    IN  /\ At(t, "run")
        /\ IsCurrent(t)
        /\ appState' = Copy(appState, delta.app)
        /\ userState' = Copy(userState, delta.user)
        /\ state' = [state EXCEPT ![s] = SessionStateAfter(t, delta)]
        /\ events' = [events EXCEPT ![s] = Append(@, event)]
        /\ revision' = [revision EXCEPT ![s] = @ + 1]
        /\ localEvents' = [localEvents EXCEPT ![t] = Append(@, trimTempDeltaState(event))]
        /\ localState' = [localState EXCEPT ![t] =
                mergeStates(delta.app, delta.user, Copy(@, delta.session))]
        /\ localRevision' = [localRevision EXCEPT ![t] = @ + 1]
        /\ UNCHANGED <<up, providerFamily, stored, pc, sessionID>>

\* Another turn has appended since: the event is refused and the turn fails.
StaleSession(t) ==
    /\ At(t, "run")
    /\ ~IsCurrent(t)
    /\ EndTurn(t)

Turn(t) ==
    \/ \E s \in Sessions : Begin(t, s)
    \/ Fail(t)
    \/ EnsureSession(t)
    \/ CheckProviderFamily(t)
    \/ GetRow(t)
    \/ GetAppState(t)
    \/ GetUserState(t)
    \/ GetEvents(t)
    \/ \E d \in Deltas :
        /\ Len(events[sessionID[t]]) < MaxEvents
        /\ AppendEvent(t, [delta |-> d, family |-> providerFamily])
    \/ StaleSession(t)

Next ==
    \/ \E family \in Families : Start(family)
    \/ Crash
    \/ \E t \in Turns : Turn(t)

Spec == Init /\ [][Next]_vars

------------------------------------------------------------------------------
(* Properties                                                               *)

\* The variables keep their types, and the revision of a session counts its
\* events.
TypeOK ==
    /\ up \in BOOLEAN
    /\ providerFamily \in Families
    /\ stored \subseteq Sessions
    /\ revision \in [Sessions -> Nat]
    /\ pc \in [Turns -> {"idle", "ensure", "check", "row", "app", "user", "events", "run"}]
    /\ sessionID \in [Turns -> Sessions]
    /\ localRevision \in [Turns -> Nat]
    /\ \A s \in Sessions : revision[s] = Len(events[s])

\* A session holds the events of one provider family, through every restart
\* with another one: structured history is never handed to a model that
\* cannot read it (checkProviderFamily, enforceProviderFamily).
FamiliesNeverMix ==
    \A s \in Sessions : \A i, j \in DOMAIN events[s] :
        events[s][i].family = events[s][j].family

Changes(es) == [i \in DOMAIN es |-> trimTempDeltaState(es[i]).delta]

Log == INSTANCE SessionLog WITH
    history <- [s \in Sessions |-> Changes(events[s])],
    shared <- Copy(appState, userState),
    view <- [t \in Turns |-> Changes(localEvents[t])]

\* Whatever turns of one conversation overlap, an event follows a history its
\* turn has seen to the end, though Get reads it in pieces, and the state of
\* the session is made by its events, though it is written from a copy
\* (AppendEvent).
ImplementsLog == Log!Spec
=============================================================================
