--------------------------- MODULE SlackListener ---------------------------
(* From a Slack message to the handler of its invocation: the Socket Mode   *)
(* loop of adapter/slack/listener.go, the routing of adapter/slack/router.go*)
(* the identities of domain/invocation.go, and the identity mode of direct  *)
(* messages that adapter/sqlite/dm_identity.go keeps. An event is           *)
(* acknowledged before its handler is started, Slack delivers it again when *)
(* the acknowledgement is lost, and a message that mentions the bot arrives *)
(* as two events.                                                           *)
EXTENDS Naturals, FiniteSets, Bags

CONSTANTS
    Messages,   \* messages that may be posted, see MessageType
    MaxPosted,  \* bound on the messages of a behaviour
    MaxStarts   \* bound on the starts of the process

VARIABLES
    threadedDM,     \* slack.standard_agent.threaded_dm, as configured
    dmIdentityMode, \* the row dm_identity_mode of runtime_state, or "none"
    conversations,  \* the conversation keys with a row
    phase,          \* "down", "running" or "draining"
    starts,         \* how often the process was started
    posted,         \* the messages in Slack
    outstanding,    \* the events that Slack has not seen acknowledged
    loop,           \* the event acknowledged and not yet dispatched, at most one
    handlers,       \* the invocations whose handler runs, [event, invocation]
    claimed,        \* the dedupe keys claimed
    answers,        \* the bag of the messages handled
    interrupted     \* the messages whose handling a stop cut short

vars == <<threadedDM, dmIdentityMode, conversations, phase, starts, posted, outstanding,
          loop, handlers, claimed, answers, interrupted>>

------------------------------------------------------------------------------
(* Messages and the events Slack makes of them                              *)

\* id is the first letter of the channel's identifier; text tells whether
\* anything is left without the mention, files whether every file is named.
MessageType == [
    id : {"C", "G", "D"}, type : {"im", "channel", "group", "mpim"},
    ts : {1, 2}, thread : {0, 1},
    author : {"user", "bot", "self"}, changed : BOOLEAN, subtype : {"none", "other"},
    mention : BOOLEAN, text : BOOLEAN, files : {"none", "whole", "nameless"}]

\* Slack does not always name an event.
Events(m) ==
    {[inner |-> inner, message |-> m, named |-> inner = "message"] :
        inner \in {"message"} \cup (IF m.mention THEN {"app_mention"} ELSE {})}

------------------------------------------------------------------------------
(* Router and Invocation                                                    *)

ChannelKindFromID(id) == CASE id = "C" -> "public" [] id = "G" -> "private" [] id = "D" -> "dm"

Validate(i) ==
    /\ i.text \/ i.files # "none"
    /\ i.files # "nameless"
    /\ CASE i.trigger = "direct_message" -> i.kind = "dm"
         [] i.trigger = "mention" -> i.kind # "dm"
         [] i.trigger = "thread_reply" -> i.kind # "dm" /\ i.thread # 0

Invocation(m, kind, threaded, trigger) ==
    [id |-> m.id, kind |-> kind, ts |-> m.ts, thread |-> m.thread,
     threaded |-> threaded, text |-> m.text, files |-> m.files, trigger |-> trigger]

\* What comes from a bot, the bot itself included, or changes an earlier message.
RouteMention(m) ==
    {i \in {Invocation(m, ChannelKindFromID(m.id), FALSE, "mention")} :
        /\ m.author = "user" /\ ~m.changed
        /\ i.kind # "dm"
        /\ Validate(i)}

\* With files the subtype is file_share, and the message comes nested.
IgnoreMessage(m) == m.author # "user" \/ m.changed \/ m.subtype = "other"

\* Mutant: a message with files is taken for one of an unsupported subtype.
IgnoreMessageWithFiles(m) == IgnoreMessage(m) \/ m.files # "none"

RouteMessageUnless(m, ignored) ==
    {i \in CASE m.type = "im" -> {Invocation(m, "dm", threadedDM, "direct_message")}
             [] m.type \in {"channel", "group"} ->
                    {Invocation(m, ChannelKindFromID(m.id), FALSE, "thread_reply")}
             [] OTHER -> {} :
        /\ ~ignored
        /\ m.type # "im" => m.thread # 0 /\ ~m.mention /\ i.kind # "dm"
        /\ Validate(i)}

\* Mutant, see above.
RouteMessageWithoutFiles(m) == RouteMessageUnless(m, IgnoreMessageWithFiles(m))

RouteMessage(m) == RouteMessageUnless(m, IgnoreMessage(m))

Route(e) == IF e.inner = "app_mention" THEN RouteMention(e.message) ELSE RouteMessage(e.message)

\* Mutant: a reply in a threaded direct message starts a conversation.
RootUnthreaded(i) == IF i.thread # 0 /\ i.kind # "dm" THEN i.thread ELSE i.ts

Root(i) == IF i.thread # 0 THEN i.thread ELSE i.ts

InThread(i) == i.kind # "dm" \/ i.threaded

\* The channel and the thread that name the conversation.
ConversationKey(i) ==
    [kind |-> IF i.kind = "dm" THEN "dm" ELSE "channel", id |-> i.id,
     thread |-> IF InThread(i) THEN Root(i) ELSE 0]

\* Where the answer is posted.
ReplyTarget(i) ==
    [id |-> i.id,
     thread |-> IF i.kind = "dm" /\ ~i.threaded THEN 0
                ELSE IF i.thread = 0 THEN i.ts ELSE i.thread]

\* The root that is stored, and the thread whose history is read, by
\* conversations.history of the channel when there is none.
MetadataRoot(i) ==
    IF i.kind = "dm" /\ ~i.threaded THEN 0
    ELSE IF i.thread # 0 THEN i.thread ELSE i.ts
HistoryRoot(i) == IF i.kind = "dm" /\ ~i.threaded THEN 0
                  ELSE IF i.thread = 0 THEN i.ts ELSE i.thread

\* Mutant: an event without an identifier has no key of its own, nor its message.
DedupeKeysOfNamed(e) ==
    IF e.named THEN {<<"event", e.message, e.inner>>, <<"message", e.message>>} ELSE {}

\* An event without an identifier is known by its message and type.
DedupeKeys(e) ==
    {<<IF e.named THEN "event" ELSE "fallback", e.message, e.inner>>, <<"message", e.message>>}

------------------------------------------------------------------------------
(* The process                                                              *)

\* A store of an older version, which knew no threads in direct messages, may
\* hold a conversation and no mode.
Init ==
    /\ threadedDM \in BOOLEAN
    /\ dmIdentityMode = "none"
    /\ conversations \in {{}, {[kind |-> "dm", id |-> "D", thread |-> 0]}}
    /\ phase = "down"
    /\ starts = 0
    /\ posted = {}
    /\ outstanding = {}
    /\ loop = {}
    /\ handlers = {}
    /\ claimed = {}
    /\ answers = EmptyBag
    /\ interrupted = {}

Post(m) ==
    /\ m \notin posted
    /\ Cardinality(posted) < MaxPosted
    /\ posted' = posted \cup {m}
    /\ outstanding' = outstanding \cup Events(m)
    /\ UNCHANGED <<threadedDM, dmIdentityMode, conversations, phase, starts, loop, handlers,
                   claimed, answers, interrupted>>

Mode(threaded) == IF threaded THEN "threaded" ELSE "channel"

\* Mutant: conversations of an older version are not looked for.
AcceptsModeAlways(threaded) == dmIdentityMode \in {"none", Mode(threaded)}

AcceptsMode(threaded) ==
    \/ dmIdentityMode = Mode(threaded)
    \/ /\ dmIdentityMode = "none"
       /\ threaded => ~\E key \in conversations : key.kind = "dm"

\* EnsureDMIdentityMode comes before everything that reads a conversation.
Start(threaded) ==
    /\ phase = "down"
    /\ starts < MaxStarts
    /\ AcceptsMode(threaded)
    /\ threadedDM' = threaded
    /\ dmIdentityMode' = Mode(threaded)
    /\ phase' = "running"
    /\ starts' = starts + 1
    /\ UNCHANGED <<conversations, posted, outstanding, loop, handlers, claimed, answers,
                   interrupted>>

\* The acknowledgement may fail, which is no reason not to go on unless the
\* listener is stopping.
Acknowledge(e, succeeds) ==
    /\ phase = "running"
    /\ loop = {}
    /\ e \in outstanding
    /\ loop' = {e}
    /\ outstanding' = IF succeeds THEN outstanding \ {e} ELSE outstanding
    /\ UNCHANGED <<threadedDM, dmIdentityMode, conversations, phase, starts, posted, handlers,
                   claimed, answers, interrupted>>

\* The handler runs in a goroutine of its own.
Dispatch ==
    /\ phase # "down"
    /\ loop # {}
    /\ loop' = {}
    /\ handlers' = handlers \cup
        UNION {{[event |-> e, invocation |-> i] : i \in Route(e)} : e \in loop}
    /\ UNCHANGED <<threadedDM, dmIdentityMode, conversations, phase, starts, posted, outstanding,
                   claimed, answers, interrupted>>

\* The use case claims the message and answers it, once for all its events.
Handle(h) ==
    /\ h \in handlers
    /\ handlers' = handlers \ {h}
    /\ claimed' = claimed \cup DedupeKeys(h.event)
    /\ IF DedupeKeys(h.event) \cap claimed = {}
       THEN /\ answers' = answers (+) SetToBag({h.event.message})
            /\ conversations' = conversations \cup {ConversationKey(h.invocation)}
       ELSE UNCHANGED <<answers, conversations>>
    /\ UNCHANGED <<threadedDM, dmIdentityMode, phase, starts, posted, outstanding, loop,
                   interrupted>>

\* The context of the listener is cancelled, and with it those of the handlers.
Stop ==
    /\ phase = "running"
    /\ phase' = "draining"
    /\ UNCHANGED <<threadedDM, dmIdentityMode, conversations, starts, posted, outstanding, loop,
                   handlers, claimed, answers, interrupted>>

\* A handler whose context is cancelled need not come to claim its message.
Abandon(h) ==
    /\ phase = "draining"
    /\ h \in handlers
    /\ handlers' = handlers \ {h}
    /\ interrupted' = interrupted \cup {h.event.message}
    /\ UNCHANGED <<threadedDM, dmIdentityMode, conversations, phase, starts, posted, outstanding,
                   loop, claimed, answers>>

\* Run returns when the event in hand is dispatched and no handler is left.
Return ==
    /\ phase = "draining"
    /\ loop = {}
    /\ handlers = {}
    /\ phase' = "down"
    /\ UNCHANGED <<threadedDM, dmIdentityMode, conversations, starts, posted, outstanding, loop,
                   handlers, claimed, answers, interrupted>>

Crash ==
    /\ phase # "down"
    /\ phase' = "down"
    /\ interrupted' = interrupted \cup {e.message : e \in loop \cup {h.event : h \in handlers}}
    /\ loop' = {}
    /\ handlers' = {}
    /\ UNCHANGED <<threadedDM, dmIdentityMode, conversations, starts, posted, outstanding,
                   claimed, answers>>

Next ==
    \/ \E m \in Messages : Post(m)
    \/ \E threaded \in BOOLEAN : Start(threaded)
    \/ \E e \in outstanding, succeeds \in BOOLEAN : Acknowledge(e, succeeds)
    \/ Dispatch
    \/ \E h \in handlers : Handle(h) \/ Abandon(h)
    \/ Stop
    \/ Return
    \/ Crash

Spec == Init /\ [][Next]_vars

------------------------------------------------------------------------------
(* Properties                                                               *)

\* What is meant for the bot, said without its events: a message of a user
\* with something in it, direct, with a mention, or in a thread.
Addressed(m) ==
    /\ m.author = "user" /\ ~m.changed
    /\ m.text \/ m.files # "none"
    /\ m.files # "nameless"
    /\ \/ m.type = "im" /\ m.subtype = "none"
       \/ m.type # "im" /\ m.mention
       \/ m.type \in {"channel", "group"} /\ m.thread # 0 /\ m.subtype = "none"

InHand(m) == \E e \in outstanding \cup loop \cup {h.event : h \in handlers} : e.message = m

\* A message meant for the bot stays with Slack, in the loop or with a handler
\* until it is handled, unless the process stops in between, and no other
\* message is ever handled: two routes, by mention and by message, share the
\* messages out between them without a gap (Route, Acknowledge).
AddressedIsKept ==
    \A m \in posted :
        IF Addressed(m) THEN InHand(m) \/ BagIn(m, answers) \/ m \in interrupted
        ELSE ~BagIn(m, answers)

\* Delivered again, or by way of two events, before or after a restart, a
\* message is handled once (DedupeKeys).
HandledOnce == \A m \in posted : BagIn(m, answers) => answers[m] = 1

\* Messages are of one conversation exactly when their answers go to one
\* place, and that place is what is stored for them and what their history is
\* read from: four functions of an invocation that know nothing of each other.
OnePlace ==
    LET routed(ms) == UNION {Route(e) : e \in UNION {Events(m) : m \in ms}}
    IN  \A i \in routed(posted), j \in routed(Messages) :
        /\ ConversationKey(i) = ConversationKey(j) <=> ReplyTarget(i) = ReplyTarget(j)
        /\ MetadataRoot(i) = ReplyTarget(i).thread
        /\ HistoryRoot(i) = ReplyTarget(i).thread

\* Direct messages are kept by channel or by thread, never by both, whatever
\* the configuration says at each start (EnsureDMIdentityMode).
DirectMessagesAgree ==
    \A key, other \in conversations :
        key.kind = "dm" /\ other.kind = "dm" => (key.thread = 0 <=> other.thread = 0)

=============================================================================
