---------------------------- MODULE ModelPermits ----------------------------
(* What waits for a permit of the model: the turns of the bot, and the      *)
(* worker of the memory outbox. They share no state but the permits, which  *)
(* each model takes to be free or not at any time, so a behaviour is one of *)
(* a single component, which "part" names, while the other stays in its     *)
(* initial state. The definitions without a prefix are those of the outbox. *)
EXTENDS MemoryOutbox

CONSTANTS   \* of BotTurn, see there
    Deliveries, Events, Messages, Conversations, Event, Message, Conversation,
    Allowed, Commands, Followups, Images, MaxCalls, TTL, Horizon

ASSUME DeliveriesAssumption ==
    /\ IsFiniteSet(Deliveries)
    /\ Event \in [Deliveries -> Events]
    /\ Message \in [Deliveries -> Messages]
    /\ Conversation \in [Messages -> Conversations]
    /\ Events \cap Messages = {}
ASSUME LimitsAssumption ==
    /\ MaxCalls \in Nat \ {0}
    /\ TTL \in Nat \ {0}
    /\ Horizon \in Nat

VARIABLES
    part,
    phase, now, turnPc, arrived, outcome, dedupe, claimed, active, byKey, permits, curating,
    stored, runs, posts

turnVars == <<phase, now, turnPc, arrived, outcome, dedupe, claimed, active, byKey, permits,
              curating, stored, runs, posts>>
permitsVars == <<part, turnVars, vars>>

Bot == INSTANCE BotTurn WITH pc <- turnPc

------------------------------------------------------------------------------

PermitsInit ==
    /\ part \in {"turn", "outbox"}
    /\ Bot!Init
    /\ Init

TurnStep(A) == part = "turn" /\ A /\ UNCHANGED <<part, vars>>
OutboxStep(A) == part = "outbox" /\ A /\ UNCHANGED <<part, turnVars>>

PermitsNext == TurnStep(Bot!Next) \/ OutboxStep(Next)

\* The fairness of each component, see there.
PermitsSpec ==
    /\ PermitsInit /\ [][PermitsNext]_permitsVars
    /\ \A d \in Deliveries : WF_permitsVars(TurnStep(Bot!Step(d)))
    /\ WF_permitsVars(TurnStep(Bot!Drain \/ Bot!Exit))
    /\ \A i \in Items : WF_permitsVars(OutboxStep(Due(i)))
    /\ \A w \in Workers : WF_permitsVars(OutboxStep(Work(w)))

------------------------------------------------------------------------------
(* Properties                                                               *)

\* What a turn took it gives back (see BotTurn).
NothingLeaks == Bot!NothingLeaks

\* No handler waits for another one for ever (see BotTurn).
HandlersReturn == Bot!HandlersReturn

\* Facts are settled in the end, and no item waits for ever (see MemoryOutbox).
ItemsSettle == FactsSettle /\ NobodyStarves
=============================================================================
