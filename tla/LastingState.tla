---------------------------- MODULE LastingState ----------------------------
(* What lasts beyond a turn: the sessions of the model, the identity of     *)
(* messages, the executable of OpenCode, streamed answers, and              *)
(* confirmations. The components share no state, so a behaviour is one of a *)
(* single component, which "part" names, while the others stay in their     *)
(* initial states. The definitions without a prefix are those of streamed   *)
(* answers.                                                                 *)
EXTENDS IncrementalDelivery

CONSTANTS
    Sessions, SessionTurns, Families, Deltas, MaxEvents,    \* of AdkSession
    Messages, MaxPosted, MaxStarts,                         \* of SlackListener
    Operations, AllowedIDs, Versions,                       \* of OpenCodeCoordinator
    Calls, Legacy, Users, Requester, Policies, Deciders,    \* of ConfirmationDelivery
    MaxModelCalls, TTL, MaxClock, NoDecision

VARIABLES
    part,
    up, providerFamily, appState, userState, stored, state, revision, events, turn,
    sessionID, localState, localEvents, localRevision,
    threadedDM, dmIdentityMode, conversations, listenerPhase, starts, posted, outstanding, loop,
    handlers, claimed, answers, interrupted,
    active, maintenance, binary, prior, operationPc, action, held, processes, before, result,
    status, messageTS, expiry, prompt, replies, runs, publishing, deciderPc, decision, verdict,
    botPhase, startTodo, allowed, free, clock

sessionVars == <<up, providerFamily, appState, userState, stored, state, revision, events, turn,
                 sessionID, localState, localEvents, localRevision>>
listenerVars == <<threadedDM, dmIdentityMode, conversations, listenerPhase, starts, posted, outstanding,
                  loop, handlers, claimed, answers, interrupted>>
coordinatorVars == <<active, maintenance, binary, prior, operationPc, action, held, processes, before,
                     result>>
confirmationVars == <<status, messageTS, expiry, prompt, replies, runs, publishing, deciderPc, decision,
                      verdict, botPhase, startTodo, allowed, free, clock>>
lastingVars == <<part, sessionVars, listenerVars, coordinatorVars, vars, confirmationVars>>

Adk == INSTANCE AdkSession WITH Turns <- SessionTurns, pc <- turn

Listener == INSTANCE SlackListener WITH phase <- listenerPhase

Coordinator == INSTANCE OpenCodeCoordinator WITH pc <- operationPc

Confirmation == INSTANCE ConfirmationDelivery WITH
    ts <- messageTS, pc <- deciderPc, phase <- botPhase, todo <- startTodo

\* The marker of the provider family is reserved: only ensureSession writes it.
ASSUME DeltasAssumption == \A d \in Deltas : Adk!ProviderFamilyStateKey \notin DOMAIN d

\* Slack tells direct messages in both the type and the identifier of a channel.
ASSUME MessagesAssumption ==
    \A m \in Messages : m \in Listener!MessageType /\ (m.type = "im" <=> m.id = "D")

------------------------------------------------------------------------------

LastingInit ==
    /\ part \in {"session", "listener", "coordinator", "stream", "confirmation"}
    /\ Adk!Init /\ Listener!Init /\ Coordinator!Init /\ Init /\ Confirmation!Init

SessionStep ==
    /\ part = "session" /\ Adk!Next
    /\ UNCHANGED <<part, listenerVars, coordinatorVars, vars, confirmationVars>>
ListenerStep ==
    /\ part = "listener" /\ Listener!Next
    /\ UNCHANGED <<part, sessionVars, coordinatorVars, vars, confirmationVars>>
CoordinatorStep ==
    /\ part = "coordinator" /\ Coordinator!Next
    /\ UNCHANGED <<part, sessionVars, listenerVars, vars, confirmationVars>>
StreamStep ==
    /\ part = "stream" /\ Next
    /\ UNCHANGED <<part, sessionVars, listenerVars, coordinatorVars, confirmationVars>>
ConfirmationStep ==
    /\ part = "confirmation" /\ Confirmation!Next
    /\ UNCHANGED <<part, sessionVars, listenerVars, coordinatorVars, vars>>

LastingNext == SessionStep \/ ListenerStep \/ CoordinatorStep \/ StreamStep \/ ConfirmationStep

LastingSpec == LastingInit /\ [][LastingNext]_lastingVars

------------------------------------------------------------------------------
(* Properties                                                               *)

\* The variables of every component keep their types.
AllTypesOK ==
    /\ part = "session" => Adk!TypeOK
    /\ part = "coordinator" => Coordinator!TypeOK
    /\ part = "stream" => TypeOK

\* A session holds the events of one provider family (see AdkSession).
FamiliesNeverMix == part = "session" => Adk!FamiliesNeverMix

\* Turns append to histories they have seen to the end (see AdkSession).
ImplementsLog == Adk!ImplementsLog

\* What is meant for the bot is handled, once, in one conversation, and direct
\* messages are kept in one way (see SlackListener).
AddressedIsHandled ==
    part = "listener" =>
        /\ Listener!AddressedIsKept /\ Listener!HandledOnce
        /\ Listener!OnePlace /\ Listener!DirectMessagesAgree

\* Nothing runs while the executable is replaced, and what is said of it is so
\* (see OpenCodeCoordinator).
UpgradeIsAlone ==
    part = "coordinator" => Coordinator!MaintenanceIsAlone /\ Coordinator!VerdictIsTrue

\* A call runs as ToolApproval allows, and a decision is final, with a call
\* that is decided in text (see ConfirmationDelivery).
ImplementsApproval == Confirmation!ImplementsApproval /\ Confirmation!DecisionIsFinal
=============================================================================
