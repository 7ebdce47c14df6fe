------------------------------ MODULE BotTurn ------------------------------
(***************************************************************************)
(* From a Slack delivery to the end of its turn.  The listener             *)
(* acknowledges a delivery and starts a handler for it; the handler claims *)
(* the message in dedupe_records, takes its conversation from the limiter, *)
(* stores the question, takes a permit of the pool that all model calls    *)
(* share, runs the model and publishes the answer.  Slack may deliver a    *)
(* message more than once, under one event ID or under several.            *)
(*                                                                         *)
(* Every transaction of the store, every grant and every call to Slack or  *)
(* the model is one step.  Answers come whole (StreamingEnabled is off).   *)
(* How a reply is recorded is AssistantExchange; how a decision is carried *)
(* out is ConfirmationDelivery.                                            *)
(***************************************************************************)
EXTENDS Integers, FiniteSets

CONSTANTS
    Deliveries,     \* envelopes of the socket, redeliveries among them
    Events,         \* Slack's event IDs
    Messages,       \* Slack messages: team, channel and timestamp
    Conversations,
    Event,          \* the event of each delivery
    Message,        \* the message of each delivery
    Conversation,   \* the conversation of each message
    Allowed,        \* messages the access policy lets through
    Commands,       \* messages that decide a confirmation
    Followups,      \* replies in a thread, without a mention
    Images,         \* messages with an image to be described first
    MaxCalls,       \* runtime.max_concurrent_model_calls
    TTL,            \* Config.DedupeTTL
    Horizon         \* bound of the clock

ASSUME DeliveriesAssumption ==
    /\ IsFiniteSet(Deliveries)
    /\ Event \in [Deliveries -> Events]
    /\ Message \in [Deliveries -> Messages]
    /\ Conversation \in [Messages -> Conversations]
    /\ Events \cap Messages = {}
ASSUME LimitsAssumption ==
    /\ MaxCalls \in Nat \ {0}
    /\ TTL \in Nat \ {0}
    /\ Horizon \in Nat

VARIABLES
    phase,      \* the process: down, up, cancelled or draining
    now,
    pc,         \* where each handler stands
    arrived,    \* the clock as Handle read it
    outcome,
    dedupe,     \* expires_at in dedupe_records, 0 without a row
    claimed,    \* deliveries that claimed their message
    active,     \* Limiter.active
    byKey,      \* Limiter.byKey
    permits,    \* permits taken from the pool
    curating,   \* the background worker has one of them
    stored,     \* messages with a user row
    runs,       \* model runs of each delivery
    posts       \* Slack messages each handler caused

process == <<phase, now>>
handler == <<pc, arrived, outcome>>
claims  == <<dedupe, claimed>>
limiter == <<active, byKey>>
pool    == <<permits, curating>>
effects == <<runs, posts>>
vars    == <<process, handler, claims, limiter, pool, stored, effects>>

Keys == Events \cup Messages
KeysOf(d) == {Event[d], Message[d]}
Place(d) == Conversation[Message[d]]

\* What a handler holds where it stands.
Serial    == {"load", "attach", "image", "ask", "permit", "model", "reply", "record",
              "report", "return"}
Permitted == {"image", "model", "resume"}
Live      == Serial \cup Permitted \cup {"claim", "admit", "decide", "limit", "refuse", "tell"}

Holders == {d \in Deliveries : pc[d] \in Serial}
Callers == {d \in Deliveries : pc[d] \in Permitted}

Init ==
    /\ phase = "down"
    /\ now = 0
    /\ pc = [d \in Deliveries |-> "new"]
    /\ arrived = [d \in Deliveries |-> 0]
    /\ outcome = [d \in Deliveries |-> "none"]
    /\ dedupe = [k \in Keys |-> 0]
    /\ claimed = {}
    /\ active = 0
    /\ byKey = {}
    /\ permits = 0
    /\ curating = FALSE
    /\ stored = {}
    /\ runs = [d \in Deliveries |-> 0]
    /\ posts = [d \in Deliveries |-> 0]

-----------------------------------------------------------------------------
(* Steps of a handler.                                                      *)

Goto(d, next) == pc' = [pc EXCEPT ![d] = next] /\ UNCHANGED <<arrived, outcome>>

\* Go on with an outcome: to a message that explains it, or to the end.
Conclude(d, next, result) ==
    /\ pc' = [pc EXCEPT ![d] = next]
    /\ outcome' = [outcome EXCEPT ![d] = result]
    /\ UNCHANGED arrived

\* The listener acknowledges the envelope and starts a handler.  It still may
\* between the cancellation and the loop's notice of it.
Deliver(d) ==
    /\ phase \in {"up", "cancelled"}
    /\ pc[d] = "new"
    /\ pc' = [pc EXCEPT ![d] = "claim"]
    /\ arrived' = [arrived EXCEPT ![d] = now]
    /\ UNCHANGED <<process, outcome, claims, limiter, pool, stored, effects>>

\* Mutant: the event alone is looked at.
FreeEvent(d) == dedupe[Event[d]] <= arrived[d]

Free(d) == \A k \in KeysOf(d) : dedupe[k] <= arrived[d]

\* ClaimDedupe: in one transaction, expired keys are removed and both keys are
\* inserted, or none.  The access policy was read before.
Claim(d) ==
    /\ pc[d] = "claim"
    /\ \/ /\ Free(d)
          /\ dedupe' = [k \in Keys |-> IF k \in KeysOf(d) THEN arrived[d] + TTL ELSE dedupe[k]]
          /\ claimed' = claimed \cup {d}
          /\ IF Message[d] \in Allowed THEN Goto(d, "admit") ELSE Conclude(d, "refuse", "denied")
       \/ ~Free(d) /\ Conclude(d, "done", "duplicate") /\ UNCHANGED claims
       \/ Conclude(d, "done", "error") /\ UNCHANGED claims
    /\ UNCHANGED <<process, limiter, pool, stored, effects>>

\* A command goes its own way; a follow-up needs proof that the bot takes part,
\* from the database or from Slack.
Admit(d) ==
    /\ pc[d] = "admit"
    /\ IF Message[d] \in Commands THEN Goto(d, "decide")
       ELSE \/ Goto(d, "limit")
            \/ /\ Message[d] \in Followups
               /\ \E result \in {"error", "ignored"} : Conclude(d, "done", result)
    /\ UNCHANGED <<process, claims, limiter, pool, stored, effects>>

\* Every post may be refused, or accepted with its answer lost.
Published(d, next, result) ==
    /\ posts' = [posts EXCEPT ![d] = @ + 1]
    /\ Conclude(d, next, result)

PublishFails(d, next) ==
    /\ posts' = [posts EXCEPT ![d] = @ + 1] \/ UNCHANGED posts
    /\ Conclude(d, next, "publishFailed")

\* A message that says why there is no answer, before the conversation is taken
\* and after.
Refuse(d) ==
    /\ pc[d] = "refuse"
    /\ Published(d, "done", outcome[d]) \/ PublishFails(d, "done")
    /\ UNCHANGED <<process, claims, limiter, pool, stored, runs>>

Report(d) ==
    /\ pc[d] = "report"
    /\ Published(d, "return", outcome[d]) \/ PublishFails(d, "return")
    /\ UNCHANGED <<process, claims, limiter, pool, stored, runs>>

\* Mutant: the limiter forgets its keys.
AcquireUnkeyed(d) ==
    /\ pc[d] = "limit"
    /\ IF active < MaxCalls
       THEN active' = active + 1 /\ byKey' = byKey \cup {Place(d)} /\ Goto(d, "load")
       ELSE Conclude(d, "refuse", "busy") /\ UNCHANGED limiter
    /\ UNCHANGED <<process, claims, pool, stored, effects>>

\* Mutant: the limiter forgets its count.
AcquireUncounted(d) ==
    /\ pc[d] = "limit"
    /\ IF Place(d) \notin byKey
       THEN active' = active + 1 /\ byKey' = byKey \cup {Place(d)} /\ Goto(d, "load")
       ELSE Conclude(d, "refuse", "busy") /\ UNCHANGED limiter
    /\ UNCHANGED <<process, claims, pool, stored, effects>>

\* Limiter.TryAcquire.
Acquire(d) ==
    /\ pc[d] = "limit"
    /\ IF active < MaxCalls /\ Place(d) \notin byKey
       THEN /\ active' = active + 1
            /\ byKey' = byKey \cup {Place(d)}
            /\ Goto(d, "load")
       ELSE Conclude(d, "refuse", "busy") /\ UNCHANGED limiter
    /\ UNCHANGED <<process, claims, pool, stored, effects>>

\* RecentMessages, and history from Slack when there are none.
Load(d) ==
    /\ pc[d] = "load"
    /\ \/ Goto(d, IF Message[d] \in Images THEN "attach" ELSE "ask")
       \/ Conclude(d, "return", "error")
    /\ UNCHANGED <<process, claims, limiter, pool, stored, effects>>

\* A permit of the shared pool, or the branch for none.
TakePermit(d, next, without) ==
    IF permits < MaxCalls
    THEN permits' = permits + 1 /\ Goto(d, next)
    ELSE without /\ UNCHANGED permits

ReturnPermit == permits' = permits - 1

\* Processor.Process of an image; the file may fail to load before.
Attach(d) ==
    /\ pc[d] = "attach"
    /\ \/ TakePermit(d, "image", Conclude(d, "report", "modelFailed"))
       \/ Conclude(d, "report", "modelFailed") /\ UNCHANGED permits
    /\ UNCHANGED <<process, claims, limiter, curating, stored, effects>>

\* Mutant: an image that cannot be read keeps its permit.
ImageLeaking(d) ==
    /\ pc[d] = "image"
    /\ \/ ReturnPermit /\ Goto(d, "ask")
       \/ UNCHANGED permits /\ Conclude(d, "report", "modelFailed")
    /\ UNCHANGED <<process, claims, limiter, curating, stored, effects>>

\* The model reads the image, or fails to, and the permit returns in any case.
Image(d) ==
    /\ pc[d] = "image"
    /\ ReturnPermit
    /\ Goto(d, "ask") \/ Conclude(d, "report", "modelFailed")
    /\ UNCHANGED <<process, claims, limiter, curating, stored, effects>>

\* AppendMessage of the question.
Ask(d) ==
    /\ pc[d] = "ask"
    /\ \/ stored' = stored \cup {Message[d]} /\ Goto(d, "permit")
       \/ Conclude(d, "return", "error") /\ UNCHANGED stored
    /\ UNCHANGED <<process, claims, limiter, pool, effects>>

\* Mutant: the handler waits for a permit.
PermitWaiting(d) ==
    /\ pc[d] = "permit"
    /\ permits < MaxCalls
    /\ permits' = permits + 1 /\ Goto(d, "model")
    /\ UNCHANGED <<process, claims, limiter, curating, stored, effects>>

\* modelCalls.TryAcquire: without a permit the question stays stored.
Permit(d) ==
    /\ pc[d] = "permit"
    /\ TakePermit(d, "model", Conclude(d, "report", "busy"))
    /\ UNCHANGED <<process, claims, limiter, curating, stored, effects>>

\* Mutant: a failed call keeps its permit.
ModelLeaking(d) ==
    /\ pc[d] = "model"
    /\ runs' = [runs EXCEPT ![d] = @ + 1]
    /\ \/ ReturnPermit /\ Goto(d, "reply")
       \/ UNCHANGED permits /\ Conclude(d, "report", "modelFailed")
    /\ UNCHANGED <<process, claims, limiter, curating, stored, posts>>

\* The model answers or fails, and the permit returns in any case.
Model(d) ==
    /\ pc[d] = "model"
    /\ ReturnPermit
    /\ runs' = [runs EXCEPT ![d] = @ + 1]
    /\ Goto(d, "reply") \/ Conclude(d, "report", "modelFailed")
    /\ UNCHANGED <<process, claims, limiter, curating, stored, posts>>

\* Mutant: a failed post is followed by an explanation.
ReplyExplaining(d) ==
    /\ pc[d] = "reply"
    /\ \/ Published(d, "record", "none")
       \/ Published(d, "return", "responded")
       \/ PublishFails(d, "report")
       \/ Conclude(d, "report", "modelFailed") /\ UNCHANGED posts
       \/ Conclude(d, "return", "error") /\ UNCHANGED posts
    /\ UNCHANGED <<process, claims, limiter, pool, stored, runs>>

\* The answer is posted and has to be recorded, or a prompt is posted and the
\* turn is over; a prompt may fail to be marked.  An answer that cannot be
\* shown is explained; one whose intent cannot be stored is dropped.
Reply(d) ==
    /\ pc[d] = "reply"
    /\ \/ Published(d, "record", "none")
       \/ Published(d, "return", "responded")
       \/ PublishFails(d, "return")
       \/ Conclude(d, "report", "modelFailed") /\ UNCHANGED posts
       \/ Conclude(d, "return", "error") /\ UNCHANGED posts
    /\ UNCHANGED <<process, claims, limiter, pool, stored, runs>>

Record(d) ==
    /\ pc[d] = "record"
    /\ \E result \in {"responded", "error"} : Conclude(d, "return", result)
    /\ UNCHANGED <<process, claims, limiter, pool, stored, effects>>

\* Mutant: the count is given back without the key.
ReturnKeeping(d) ==
    /\ pc[d] = "return"
    /\ active' = active - 1
    /\ Goto(d, "done")
    /\ UNCHANGED <<process, byKey, claims, pool, stored, effects>>

\* The deferred release.
Return(d) ==
    /\ pc[d] = "return"
    /\ active' = active - 1
    /\ byKey' = byKey \ {Place(d)}
    /\ Goto(d, "done")
    /\ UNCHANGED <<process, claims, pool, stored, effects>>

\* A decision is refused, with or without a word, or cannot be looked up, or is
\* resumed with a permit, but without the conversation.
Decide(d) ==
    /\ pc[d] = "decide"
    /\ \/ TakePermit(d, "resume", Conclude(d, "tell", "busy"))
       \/ /\ \/ \E next \in {"tell", "done"} : Conclude(d, next, "ignored")
             \/ Conclude(d, "done", "modelFailed")
          /\ UNCHANGED permits
    /\ UNCHANGED <<process, claims, limiter, curating, stored, effects>>

\* The decision is lost to another handler, or carried out.
Resume(d) ==
    /\ pc[d] = "resume"
    /\ ReturnPermit
    /\ \/ Conclude(d, "tell", "ignored") /\ UNCHANGED runs
       \/ /\ runs' = [runs EXCEPT ![d] = @ + 1]
          /\ \E result \in {"responded", "modelFailed"} : Conclude(d, "tell", result)
    /\ UNCHANGED <<process, claims, limiter, curating, stored, posts>>

\* What became of a decision is posted; only a result that cannot be posted
\* changes the outcome.
Tell(d) ==
    /\ pc[d] = "tell"
    /\ \/ Published(d, "done", outcome[d])
       \/ /\ posts' = [posts EXCEPT ![d] = @ + 1] \/ UNCHANGED posts
          /\ Conclude(d, "done", IF outcome[d] = "responded" THEN "publishFailed"
                                ELSE outcome[d])
    /\ UNCHANGED <<process, claims, limiter, pool, stored, runs>>

Step(d) ==
    \/ Claim(d) \/ Admit(d) \/ Refuse(d) \/ Report(d) \/ Acquire(d) \/ Load(d)
    \/ Attach(d) \/ Image(d) \/ Ask(d) \/ Permit(d) \/ Model(d) \/ Reply(d)
    \/ Record(d) \/ Return(d) \/ Decide(d) \/ Resume(d) \/ Tell(d)

-----------------------------------------------------------------------------
(* Everything around the handlers.                                          *)

\* The worker takes a permit for the curator and gives it back; without one it
\* tries again in a later tick.
Curate ==
    /\ \/ /\ phase # "down" /\ ~curating /\ permits < MaxCalls
          /\ permits' = permits + 1 /\ curating' = TRUE
       \/ curating /\ ReturnPermit /\ curating' = FALSE
    /\ UNCHANGED <<process, handler, claims, limiter, stored, effects>>

\* CleanupDedupe comes before the listener opens; the limiters are new.
Start ==
    /\ phase = "down"
    /\ phase' = "up"
    /\ dedupe' = [k \in Keys |-> IF dedupe[k] <= now THEN 0 ELSE dedupe[k]]
    /\ UNCHANGED <<now, handler, claimed, limiter, pool, stored, effects>>

\* The context is cancelled, or the socket client stops by itself.
Cancel ==
    /\ phase = "up"
    /\ phase' \in {"cancelled", "draining"}
    /\ UNCHANGED <<now, handler, claims, limiter, pool, stored, effects>>

\* Mutant: the listener does not wait for its handlers.
ExitAtOnce ==
    /\ phase = "draining"
    /\ phase' = "down"
    /\ active' = 0 /\ byKey' = {} /\ permits' = 0 /\ curating' = FALSE
    /\ UNCHANGED <<now, handler, claims, stored, effects>>

Drain ==
    /\ phase = "cancelled"
    /\ phase' = "draining"
    /\ UNCHANGED <<now, handler, claims, limiter, pool, stored, effects>>

\* Run waits for every handler; the worker is not waited for.
Exit ==
    /\ phase = "draining"
    /\ \A d \in Deliveries : pc[d] \notin Live
    /\ phase' = "down"
    /\ active' = 0 /\ byKey' = {} /\ permits' = 0 /\ curating' = FALSE
    /\ UNCHANGED <<now, handler, claims, stored, effects>>

Crash ==
    /\ phase # "down"
    /\ phase' = "down"
    /\ pc' = [d \in Deliveries |-> IF pc[d] \in Live THEN "done" ELSE pc[d]]
    /\ outcome' = [d \in Deliveries |-> IF pc[d] \in Live THEN "error" ELSE outcome[d]]
    /\ active' = 0 /\ byKey' = {} /\ permits' = 0 /\ curating' = FALSE
    /\ UNCHANGED <<now, arrived, claims, stored, effects>>

Tick ==
    /\ now < Horizon
    /\ now' = now + 1
    /\ UNCHANGED <<phase, handler, claims, limiter, pool, stored, effects>>

Next ==
    \/ \E d \in Deliveries : Deliver(d) \/ Step(d)
    \/ Curate \/ Start \/ Cancel \/ Drain \/ Exit \/ Crash \/ Tick

Spec == Init /\ [][Next]_vars

\* Calls return or time out, so a handler goes on, and a listener that was told
\* to stop does.  Slack, the worker, signals and crashes owe nothing.
FairSpec ==
    /\ Spec
    /\ \A d \in Deliveries : WF_vars(Step(d))
    /\ WF_vars(Drain \/ Exit)

-----------------------------------------------------------------------------
TypeOK ==
    /\ phase \in {"down", "up", "cancelled", "draining"}
    /\ now \in Nat
    /\ pc \in [Deliveries -> Live \cup {"new", "done"}]
    /\ arrived \in [Deliveries -> Nat]
    /\ outcome \in [Deliveries -> {"none", "duplicate", "denied", "ignored", "busy",
                                   "modelFailed", "publishFailed", "responded", "error"}]
    /\ dedupe \in [Keys -> Nat]
    /\ claimed \subseteq Deliveries
    /\ active \in Nat
    /\ byKey \subseteq Conversations
    /\ permits \in Nat
    /\ curating \in BOOLEAN
    /\ stored \subseteq Messages
    /\ runs \in [Deliveries -> Nat]
    /\ posts \in [Deliveries -> Nat]

\* The counts and the keys of the two limiters are those of the handlers that
\* run, on every way out of a turn, and never above the configured number.
LimiterExact ==
    /\ active = Cardinality(Holders)
    /\ active <= MaxCalls
    /\ byKey = {Place(d) : d \in Holders}

PoolExact ==
    /\ permits = Cardinality(Callers) + (IF curating THEN 1 ELSE 0)
    /\ permits <= MaxCalls

LimitsExact == LimiterExact /\ PoolExact

\* No two turns of a conversation overlap: what one has read and stored is not
\* changed under it by another.
TurnsApart ==
    \A d, e \in Holders : Place(d) = Place(e) => d = e

\* However a message is delivered again, it is claimed once in the lifetime of
\* its keys, by the clocks of the handlers.
OncePerLifetime ==
    \A d, e \in claimed :
        d # e /\ KeysOf(d) \cap KeysOf(e) # {} =>
            arrived[d] + TTL <= arrived[e] \/ arrived[e] + TTL <= arrived[d]

\* Outcomes after which Slack shows a message; a command may be turned away, or
\* fail, in silence.
Spoken(d) == {"responded", "denied"}
             \cup (IF Message[d] \in Commands THEN {} ELSE {"busy", "modelFailed"})

\* A handler causes at most one message in Slack and one run of the model, a
\* duplicate none, and a question that is answered or turned away one.
OneVisibleResult ==
    \A d \in Deliveries :
        /\ posts[d] <= 1 /\ runs[d] <= 1
        /\ d \notin claimed => posts[d] = 0 /\ runs[d] = 0
        /\ pc[d] = "done" /\ outcome[d] \in Spoken(d) => posts[d] = 1

\* "Returns busy without persisting": of a message that is turned away because
\* the bot is busy nothing is stored.
BusyStoresNothing ==
    \A d \in Deliveries : outcome[d] = "busy" => Message[d] \notin stored

\* When the process has stopped no handler is left behind.
NobodyLeftBehind == phase = "down" => \A d \in Deliveries : pc[d] \notin Live

\* A turn leaves nothing behind that it took, and a process no turn.
NothingLeaks == LimitsExact /\ NobodyLeftBehind

\* Turns are serial within a conversation and bounded altogether.
Turns == INSTANCE SerialTurns WITH
    Turns <- Deliveries,
    Conversation <- [d \in Deliveries |-> Place(d)],
    Limit <- MaxCalls,
    stage <- [d \in Deliveries |-> IF pc[d] \in Serial THEN "running"
                                   ELSE IF pc[d] = "done" THEN "over" ELSE "waiting"]

ImplementsSerialTurns == Turns!Spec

\* Every handler returns, and a listener that drains comes to an end.
Waiting == (\E d \in Deliveries : pc[d] \in Live) \/ phase \in {"cancelled", "draining"}
HandlersReturn == Waiting ~> ~Waiting
=============================================================================
