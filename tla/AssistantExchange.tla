------------------------- MODULE AssistantExchange -------------------------
(***************************************************************************)
(* How a reply enters the conversation.  A turn records an intent, posts   *)
(* the parts of the reply to Slack, marks the intent published, and        *)
(* finalizes it: one transaction appends the message, queues the memory    *)
(* work and deletes the intent.  Whatever a failure or a crash leaves      *)
(* behind, ReconcileAssistantExchanges picks up, at start-up and in every  *)
(* pass of the background worker, beside the running turns.                *)
(*                                                                         *)
(* Every statement or transaction of the store is one step, and so is      *)
(* every call to Slack.  A post that reports an error may have been        *)
(* accepted.  Slack timestamps are unique within a conversation only.      *)
(***************************************************************************)
EXTENDS Integers, FiniteSets

CONSTANTS
    Turns,          \* accepted Slack messages, each with a turn
    Conversations,
    Conversation,   \* the conversation of each turn
    Parts,          \* how many Slack messages the reply of each turn takes
    Eligible,       \* turns whose exchange may feed the memory (no files)
    Stamps,         \* Slack timestamps
    NoStamp,
    NoTurn

ASSUME TurnsAssumption ==
    /\ IsFiniteSet(Turns)
    /\ Conversation \in [Turns -> Conversations]
    /\ Parts \in [Turns -> Nat \ {0}]
    /\ Eligible \subseteq Turns
ASSUME AbsenceAssumption == NoTurn \notin Turns /\ NoStamp \notin Stamps

VARIABLES
    pc,         \* where each turn stands
    received,   \* created_at of its user message, 0 before the turn starts
    asked,      \* turns whose user message is stored
    intent,     \* publish_status of its row in memory_exchange_intents
    source,     \* the turn whose user message the intent pairs with the reply
    replies,    \* how many assistant messages were stored for a turn
    work,       \* how many rows of memory_outbox were queued for it
    posted,     \* how many parts of its reply Slack has
    stamp,      \* timestamp of the last part
    hidden,     \* turns whose parts Slack no longer shows unaltered
    phase,      \* the process: down, starting or up
    step,       \* where the reconciliation stands
    listed,     \*   the intents it still looks up in Slack
    matches,    \*   those it found there
    current     \*   the one it is settling

turns  == <<pc, received>>
tables == <<asked, intent, source, replies, work>>
slack  == <<posted, stamp, hidden>>
pass   == <<phase, step, listed, matches, current>>
vars   == <<turns, tables, slack, pass>>

\* A turn holds its conversation from the limiter's grant to its return.
Holding == {"answer", "post", "mark", "finalize"}
Running == Holding \cup {"arrived"}

Init ==
    /\ pc = [t \in Turns |-> "new"]
    /\ received = [t \in Turns |-> 0]
    /\ asked = {}
    /\ intent = [t \in Turns |-> "none"]
    /\ source = [t \in Turns |-> NoTurn]
    /\ replies = [t \in Turns |-> 0]
    /\ work = [t \in Turns |-> 0]
    /\ posted = [t \in Turns |-> 0]
    /\ stamp = [t \in Turns |-> NoStamp]
    /\ hidden = {}
    /\ phase = "down"
    /\ step = "idle"
    /\ listed = {}
    /\ matches = {}
    /\ current = NoTurn

-----------------------------------------------------------------------------
(* The rows of an intent.                                                   *)

\* UPDATE ... WHERE publish_status = 'prepared'.  A row that is published or
\* gone is a success: an earlier mark or finalization committed.
MarkRow(t) ==
    intent' = IF intent[t] = "prepared"
              THEN [intent EXCEPT ![t] = "published"] ELSE intent

\* Mutant: the intent outlives its finalization.
FinalizeRowKeeping(t) ==
    /\ intent[t] = "published"
    /\ replies' = [replies EXCEPT ![t] = @ + 1]
    /\ work' = IF t \in Eligible THEN [work EXCEPT ![t] = @ + 1] ELSE work
    /\ UNCHANGED intent

\* Mutant: the work is queued by a transaction of its own, which fails.
FinalizeRowApart(t) ==
    \/ /\ intent[t] = "published"
       /\ intent' = [intent EXCEPT ![t] = "gone"]
       /\ replies' = [replies EXCEPT ![t] = @ + 1]
       /\ UNCHANGED work
    \/ intent[t] = "gone" /\ UNCHANGED <<intent, replies, work>>

\* Append the reply, queue the work and delete the intent in one transaction.
\* A row that is gone is a success; a prepared one is an error.
FinalizeRow(t) ==
    \/ /\ intent[t] = "published"
       /\ intent' = [intent EXCEPT ![t] = "gone"]
       /\ replies' = [replies EXCEPT ![t] = @ + 1]
       /\ work' = IF t \in Eligible THEN [work EXCEPT ![t] = @ + 1] ELSE work
    \/ intent[t] = "gone" /\ UNCHANGED <<intent, replies, work>>

-----------------------------------------------------------------------------
(* The turn.                                                                *)

Goto(t, next) == pc' = [pc EXCEPT ![t] = next] /\ UNCHANGED received

\* Handle reads the clock as soon as the event is there.
Arrive(t) ==
    /\ phase = "up"
    /\ pc[t] = "new"
    /\ pc' = [pc EXCEPT ![t] = "arrived"]
    /\ received' = [received EXCEPT ![t] = 1 + Cardinality({u \in Turns : received[u] # 0})]
    /\ UNCHANGED <<tables, slack, pass>>

Held(t) == \E u \in Turns : Conversation[u] = Conversation[t] /\ pc[u] \in Holding

\* The conversation is free and AppendMessage stores the user message; or it
\* is taken, or something else ends the turn before it asks.
Ask(t) ==
    /\ pc[t] = "arrived"
    /\ \/ ~Held(t) /\ asked' = asked \cup {t} /\ Goto(t, "answer")
       \/ Goto(t, "failed") /\ UNCHANGED asked
    /\ UNCHANGED <<intent, source, replies, work, slack, pass>>

\* The user message with the greatest created_at in the conversation.
LatestAsked(t) ==
    {u \in asked : /\ Conversation[u] = Conversation[t]
                   /\ \A v \in asked : Conversation[v] = Conversation[t]
                                            => received[v] <= received[u]}

\* The model has answered: PrepareAssistantExchange.  Everything that ends a
\* turn without a reply to record is the other branch.
Prepare(t) ==
    /\ pc[t] = "answer"
    /\ \/ /\ \E u \in LatestAsked(t) : source' = [source EXCEPT ![t] = u]
          /\ intent' = [intent EXCEPT ![t] = "prepared"]
          /\ Goto(t, "post")
       \/ Goto(t, "failed") /\ UNCHANGED <<intent, source>>
    /\ UNCHANGED <<asked, replies, work, slack, pass>>

FreeStamps(t) ==
    {s \in Stamps : \A u \in Turns : Conversation[u] = Conversation[t] => stamp[u] # s}

\* Slack accepts the next part.
AcceptPart(t) ==
    /\ posted' = [posted EXCEPT ![t] = @ + 1]
    /\ IF posted[t] + 1 = Parts[t]
       THEN \E s \in FreeStamps(t) : stamp' = [stamp EXCEPT ![t] = s]
       ELSE UNCHANGED stamp

\* Mutant: a failed post discards the intent.
PostDiscarding(t) ==
    /\ pc[t] = "post"
    /\ \/ /\ AcceptPart(t)
          /\ Goto(t, IF posted[t] + 1 = Parts[t] THEN "mark" ELSE "post")
          /\ UNCHANGED intent
       \/ /\ AcceptPart(t) \/ UNCHANGED <<posted, stamp>>
          /\ Goto(t, "failed")
          /\ intent' = [intent EXCEPT ![t] = "gone"]
    /\ UNCHANGED <<asked, source, replies, work, hidden, pass>>

\* Publish posts part after part and stops at the first error, which may hide
\* an accepted part.  The intent stays as it is.
Post(t) ==
    /\ pc[t] = "post"
    /\ \/ /\ AcceptPart(t)
          /\ Goto(t, IF posted[t] + 1 = Parts[t] THEN "mark" ELSE "post")
       \/ /\ AcceptPart(t) \/ UNCHANGED <<posted, stamp>>
          /\ Goto(t, "failed")
    /\ UNCHANGED <<tables, hidden, pass>>

Mark(t) ==
    /\ pc[t] = "mark"
    /\ \/ MarkRow(t) /\ Goto(t, "finalize")
       \/ Goto(t, "failed") /\ UNCHANGED intent
    /\ UNCHANGED <<asked, source, replies, work, slack, pass>>

\* Mutant: a failed finalization is logged and the turn counts as answered.
FinalizeLogging(t) ==
    /\ pc[t] = "finalize"
    /\ \/ FinalizeRow(t)
       \/ UNCHANGED <<intent, replies, work>>
    /\ Goto(t, "responded")
    /\ UNCHANGED <<asked, source, slack, pass>>

Finalize(t) ==
    /\ pc[t] = "finalize"
    /\ \/ FinalizeRow(t) /\ Goto(t, "responded")
       \/ Goto(t, "failed") /\ UNCHANGED <<intent, replies, work>>
    /\ UNCHANGED <<asked, source, slack, pass>>

-----------------------------------------------------------------------------
(* ReconcileAssistantExchanges.                                             *)

\* An error is logged by the worker; at start-up it ends the process.
Abort ==
    /\ step' = "idle"
    /\ phase' = IF phase = "starting" THEN "down" ELSE phase
    /\ listed' = {} /\ matches' = {} /\ current' = NoTurn

Proceed(next) == step' = next /\ UNCHANGED phase

\* The process starts with a reconciliation, before any event is accepted.
Start ==
    /\ phase = "down"
    /\ phase' = "starting"
    /\ step' = "select"
    /\ UNCHANGED <<turns, tables, slack, listed, matches, current>>

\* A tick of the background worker.
BeginPass ==
    /\ phase = "up"
    /\ step = "idle"
    /\ Proceed("select")
    /\ UNCHANGED <<turns, tables, slack, listed, matches, current>>

\* The ID of a published intent, as long as there is one.
SelectPublished ==
    /\ step = "select"
    /\ \/ \E t \in Turns :
              /\ intent[t] = "published"
              /\ current' = t
              /\ Proceed("load")
              /\ UNCHANGED <<listed, matches>>
       \/ /\ \A t \in Turns : intent[t] # "published"
          /\ Proceed("list")
          /\ UNCHANGED <<listed, matches, current>>
       \/ Abort
    /\ UNCHANGED <<turns, tables, slack>>

\* Its row is read by a statement of its own: if the turn has finalized it
\* meanwhile, the missing row ends the pass.
LoadPublished ==
    /\ step = "load"
    /\ \/ /\ intent[current] # "gone"
          /\ Proceed("finalizePublished")
          /\ UNCHANGED <<listed, matches, current>>
       \/ Abort
    /\ UNCHANGED <<turns, tables, slack>>

\* Mutant: the loop goes on after an error.
FinalizePublishedRetrying ==
    /\ step = "finalizePublished"
    /\ \/ FinalizeRow(current)
       \/ UNCHANGED <<intent, replies, work>>
    /\ Proceed("select")
    /\ current' = NoTurn
    /\ UNCHANGED <<turns, asked, source, slack, listed, matches>>

FinalizePublished ==
    /\ step = "finalizePublished"
    /\ \/ /\ FinalizeRow(current)
          /\ Proceed("select")
          /\ current' = NoTurn
          /\ UNCHANGED <<listed, matches>>
       \/ Abort /\ UNCHANGED <<intent, replies, work>>
    /\ UNCHANGED <<turns, asked, source, slack>>

\* Mutant: one prepared intent a pass.
ListPreparedFirst ==
    /\ step = "list"
    /\ \/ /\ \E t \in Turns : listed' = {t} \cap {u \in Turns : intent[u] = "prepared"}
          /\ Proceed("find")
          /\ UNCHANGED <<matches, current>>
       \/ Abort
    /\ UNCHANGED <<turns, tables, slack>>

ListPrepared ==
    /\ step = "list"
    /\ \/ /\ listed' = {t \in Turns : intent[t] = "prepared"}
          /\ Proceed("find")
          /\ UNCHANGED <<matches, current>>
       \/ Abort
    /\ UNCHANGED <<turns, tables, slack>>

Complete(t) == posted[t] = Parts[t]

\* Mutant: some parts prove the reply.
EvidentInPart(t) == posted[t] > 0 /\ t \notin hidden

\* FindPublishedAssistantExchange: every part carries the correlation ID, the
\* index and the digest it should, and none was edited.
Evident(t) == Complete(t) /\ t \notin hidden

\* The row is read again, then Slack.  A missing row or a failing read ends
\* the pass.
FindMatch(t) ==
    /\ step = "find"
    /\ t \in listed
    /\ \/ /\ intent[t] # "gone"
          /\ listed' = listed \ {t}
          /\ matches' = IF Evident(t) THEN matches \cup {t} ELSE matches
          /\ UNCHANGED <<phase, step, current>>
       \/ Abort
    /\ UNCHANGED <<turns, tables, slack>>

\* Timestamps are compared without their channel; shared ones are dropped.
Unambiguous(found) ==
    {t \in found : \A u \in found : stamp[u] = stamp[t] => u = t}

GroupMatches ==
    /\ step = "find"
    /\ listed = {}
    /\ matches' = Unambiguous(matches)
    /\ Proceed("settle")
    /\ UNCHANGED <<turns, tables, slack, listed, current>>

MarkMatch(t) ==
    /\ step = "settle"
    /\ t \in matches
    /\ \/ /\ MarkRow(t)
          /\ matches' = matches \ {t}
          /\ current' = t
          /\ Proceed("finalizeMatch")
          /\ UNCHANGED listed
       \/ Abort /\ UNCHANGED intent
    /\ UNCHANGED <<turns, asked, source, replies, work, slack>>

FinalizeMatch ==
    /\ step = "finalizeMatch"
    /\ \/ /\ FinalizeRow(current)
          /\ Proceed("settle")
          /\ current' = NoTurn
          /\ UNCHANGED <<listed, matches>>
       \/ Abort /\ UNCHANGED <<intent, replies, work>>
    /\ UNCHANGED <<turns, asked, source, slack>>

\* The pass is over; after the one at start-up the listener opens.
EndPass ==
    /\ step = "settle"
    /\ matches = {}
    /\ step' = "idle"
    /\ phase' = "up"
    /\ UNCHANGED <<turns, tables, slack, listed, matches, current>>

-----------------------------------------------------------------------------
\* A reply is edited, deleted, or leaves the hundred messages that are read.
Hide(t) ==
    /\ Complete(t)
    /\ hidden' = hidden \cup {t}
    /\ UNCHANGED <<turns, tables, posted, stamp, pass>>

\* The process dies: only the database and Slack survive.
Crash ==
    /\ phase # "down"
    /\ phase' = "down"
    /\ pc' = [t \in Turns |-> IF pc[t] \in Running THEN "failed" ELSE pc[t]]
    /\ step' = "idle"
    /\ listed' = {} /\ matches' = {} /\ current' = NoTurn
    /\ UNCHANGED <<received, tables, slack>>

Turn(t) == Ask(t) \/ Prepare(t) \/ Post(t) \/ Mark(t) \/ Finalize(t)

Reconcile ==
    \/ SelectPublished \/ LoadPublished \/ FinalizePublished \/ ListPrepared
    \/ GroupMatches \/ FinalizeMatch \/ EndPass
    \/ \E t \in Turns : FindMatch(t) \/ MarkMatch(t)

Next ==
    \/ \E t \in Turns : Arrive(t) \/ Turn(t) \/ Hide(t)
    \/ Start \/ BeginPass \/ Reconcile \/ Crash

Spec == Init /\ [][Next]_vars

\* A turn and a pass that have begun go on: their calls return or time out.
\* Users, ticks, crashes and restarts owe nothing.
FairSpec == Spec /\ WF_vars(Reconcile) /\ \A t \in Turns : WF_vars(Turn(t))

-----------------------------------------------------------------------------
TypeOK ==
    /\ pc \in [Turns -> Running \cup {"new", "responded", "failed"}]
    /\ received \in [Turns -> Nat]
    /\ asked \subseteq Turns
    /\ intent \in [Turns -> {"none", "prepared", "published", "gone"}]
    /\ source \in [Turns -> Turns \cup {NoTurn}]
    /\ replies \in [Turns -> Nat]
    /\ work \in [Turns -> Nat]
    /\ posted \in [Turns -> Nat]
    /\ stamp \in [Turns -> Stamps \cup {NoStamp}]
    /\ hidden \subseteq Turns
    /\ phase \in {"down", "starting", "up"}
    /\ step \in {"idle", "select", "load", "finalizePublished", "list", "find",
                 "settle", "finalizeMatch"}
    /\ listed \subseteq Turns
    /\ matches \subseteq Turns
    /\ current \in Turns \cup {NoTurn}
    /\ step \in {"load", "finalizePublished", "finalizeMatch"} <=> current # NoTurn
    /\ step \notin {"find", "settle", "finalizeMatch"} => matches = {}
    /\ phase = "down" => step = "idle"

\* A reply enters the conversation at most once, with one piece of work if its
\* exchange may feed the memory, however the turn and the worker overlap.
RecordedOnce ==
    \A t \in Turns :
        /\ replies[t] <= 1
        /\ work[t] = IF t \in Eligible THEN replies[t] ELSE 0

\* "A prepared intent cannot be finalized locally": what is recorded, Slack
\* has in full.
RecordedIsPosted == \A t \in Turns : replies[t] > 0 => Complete(t)

\* "A later database failure cannot lose a reply Slack has already accepted":
\* a reply that Slack has in full is recorded, or its intent still stands.
AcceptedIsKept ==
    \A t \in Turns :
        Complete(t) => intent[t] \in {"prepared", "published"} \/ replies[t] > 0

\* A turn that reports an answer has left it in the conversation, even when the
\* worker was faster with the intent.
RespondedIsRecorded ==
    \A t \in Turns : pc[t] = "responded" => replies[t] = 1

\* What the conversation and the memory say of replies: each once, none that
\* Slack does not have, none lost that it has, and none only claimed.
RecordIsTrue == RecordedOnce /\ RecordedIsPosted /\ AcceptedIsKept /\ RespondedIsRecorded

\* The pairs of question and answer that feed the memory are those of a turn.
SourceIsOwnQuestion ==
    \A t \in Turns : intent[t] # "none" => source[t] = t

\* Where a turn stands, its intent, its rows and Slack fit together; the worker
\* only ever settles intents whose reply is complete.  This is what makes the
\* properties above inductive.
Fits(t) ==
    /\ pc[t] \in {"new", "arrived", "answer"} => intent[t] = "none"
    /\ pc[t] = "post" => intent[t] = "prepared" /\ posted[t] < Parts[t]
    /\ pc[t] = "mark" => Complete(t)
    /\ pc[t] = "finalize" => intent[t] \in {"published", "gone"}
    /\ pc[t] = "responded" => intent[t] = "gone"
    /\ intent[t] \in {"published", "gone"} => Complete(t)
    /\ intent[t] = "none" => posted[t] = 0
    /\ replies[t] = IF intent[t] = "gone" THEN 1 ELSE 0

IntentTracksTurn ==
    /\ \A t \in Turns : Fits(t)
    /\ \A t \in matches : Complete(t)

\* No turn runs before the listener opens, and each reply Slack can show is
\* ahead of the first reconciliation, behind it, or shares its timestamp.
Twin(t, u) == intent[u] = "prepared" /\ Complete(u) /\ stamp[u] = stamp[t]

StartCoversAll ==
    /\ phase # "up" => \A t \in Turns : pc[t] \notin Running
    /\ phase = "starting" =>
        /\ step \in {"list", "find", "settle", "finalizeMatch"} =>
               \A t \in Turns : intent[t] = "published" => t = current
        /\ step = "find" =>
               /\ \A t \in listed \cup matches : intent[t] = "prepared"
               /\ \A t \in Turns :
                      intent[t] = "prepared" /\ Evident(t) => t \in listed \cup matches
        /\ step \in {"settle", "finalizeMatch"} =>
               \A t \in Turns :
                   intent[t] = "prepared" /\ Evident(t) /\ t \notin matches =>
                       \E u \in Turns \ (matches \cup {t}) : Twin(t, u)

\* When the process opens for events, no reply that Slack can still show is
\* left unrecorded, unless another one of the same timestamp stands beside it.
StartRecovers ==
    [][phase = "starting" /\ phase' = "up" =>
         \A t \in Turns :
             /\ intent[t] # "published"
             /\ intent[t] = "prepared" /\ Evident(t) =>
                    \E u \in Turns \ {t} : Twin(t, u)]_vars

\* Every behaviour is one of the abstract record.
Record == INSTANCE RecordedReply WITH
    reply <- [t \in Turns |-> IF replies[t] > 0 THEN "recorded"
                              ELSE IF Complete(t) THEN "sent" ELSE "unsent"],
    queued <- {t \in Turns : work[t] > 0}

ImplementsRecord == Record!Spec

\* A turn releases its conversation and a pass of the worker ends.
EverythingEnds ==
    /\ \A t \in Turns : pc[t] \in Running ~> pc[t] \notin Running
    /\ step # "idle" ~> step = "idle"
=============================================================================
