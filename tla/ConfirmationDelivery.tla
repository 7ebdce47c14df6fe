------------------------ MODULE ConfirmationDelivery ------------------------
(***************************************************************************)
(* The durable delivery of a tool confirmation: the turn that raises it,   *)
(* the row in tool_confirmation_deliveries, the prompt with two buttons in *)
(* Slack, the handlers of concurrent decisions, and the reconciliation     *)
(* that runs at start-up before any event is accepted.                     *)
(*                                                                         *)
(* A prompt's Slack timestamp is its index in prompt[c]; 0 is the empty    *)
(* timestamp.  Every statement of the store is atomic (one connection).    *)
(* A post that reports an error may have been accepted by Slack, but it    *)
(* does not appear after a later start-up has read the channel.            *)
(***************************************************************************)
EXTENDS Integers, Sequences, FiniteSets

CONSTANTS
    Calls,          \* wrapper call IDs of tool calls that need confirmation
    Legacy,         \* the calls whose row an older release left behind
    Users,          \* Slack users
    Requester,      \* the user whose turn raised each call
    Policies,       \* the sets of users an access policy may allow
    Deciders,       \* slots for concurrently running decision handlers
    MaxModelCalls,  \* capacity of the model call limiter
    TTL,            \* lifetime of a confirmation (15 minutes)
    MaxClock,       \* bound: the clock stops here
    NoDecision      \* what an idle handler holds

ASSUME CallsAssumption == Legacy \subseteq Calls /\ Requester \in [Calls -> Users]
ASSUME PolicyAssumption == Policies \subseteq SUBSET Users /\ Policies # {}
ASSUME DecisionAssumption == NoDecision \notin
    [via : {"button", "typed"}, call : Calls, msg : Nat, user : Users,
     here : BOOLEAN, approve : BOOLEAN, now : Nat]
ASSUME BoundsAssumption == /\ MaxModelCalls \in Nat \ {0}
                           /\ TTL \in Nat \ {0}
                           /\ MaxClock \in Nat

VARIABLES
    status,     \* columns of tool_confirmation_deliveries, by wrapper call ID:
    ts,         \*   where the delivery stands, the Slack timestamp of the prompt
    expiry,     \*   (slack_message_ts) and the time from which it is expired
    prompt,     \* what each posted prompt of a call shows in Slack
    replies,    \* how many result replies were posted for a call
    runs,       \* how often the tool behind a call has run
    publishing, \* where the publication of a call's prompt stands
    pc,         \* where each decision handler stands,
    decision,   \*   the decision it handles
    verdict,    \*   and what its prompt will show
    phase,      \* the process: down, starting, recovering or up
    todo,       \* rows the reconciliation still has to treat
    allowed,    \* users the loaded access policy allows
    free,       \* permits left in the model call limiter
    clock

store    == <<status, ts, expiry>>
slack    == <<prompt, replies>>
handlers == <<pc, decision, verdict>>
startup  == <<phase, todo, allowed>>
vars     == <<store, slack, runs, publishing, handlers, startup, free, clock>>

Open     == {"pending", "published"}
Final    == {"consumed", "rejected", "expired"}
Statuses == {"none"} \cup Open \cup Final
Shown    == {"buttons", "consumed", "rejected", "expired", "failed"}
Busy     == {"lookup", "expire", "showExpired", "acquire", "decide", "resume",
             "update", "reply"}
Decision == [via : {"button", "typed"}, call : Calls, msg : Nat, user : Users,
             here : BOOLEAN, approve : BOOLEAN, now : Nat]

\* No process runs yet; an older release left the rows of the legacy calls.
Init ==
    /\ status \in [Calls -> {"none"} \cup Open]
    /\ \A c \in Calls : c \in Legacy <=> status[c] # "none"
    /\ ts = [c \in Calls |-> 0]
    /\ expiry = [c \in Calls |-> IF c \in Legacy THEN TTL ELSE 0]
    /\ prompt \in [Calls -> {<<>>, <<"buttons">>}]
    /\ \A c \in Calls : /\ status[c] = "none" => prompt[c] = <<>>
                        /\ status[c] = "published" => prompt[c] # <<>>
    /\ runs = [c \in Calls |-> 0]
    /\ replies = [c \in Calls |-> 0]
    /\ publishing = [c \in Calls |-> IF c \in Legacy THEN "done" ELSE "none"]
    /\ pc = [h \in Deciders |-> "idle"]
    /\ decision = [h \in Deciders |-> NoDecision]
    /\ verdict = [h \in Deciders |-> "none"]
    /\ phase = "down"
    /\ todo = {}
    /\ allowed \in Policies
    /\ free = MaxModelCalls
    /\ clock = 0

-----------------------------------------------------------------------------
(* The turn that raised the confirmation: handlePendingConfirmation.        *)

\* The model asks for a tool that needs approval; the expiry starts now.
RaiseConfirmation(c) ==
    /\ phase = "up"
    /\ publishing[c] = "none"
    /\ publishing' = [publishing EXCEPT ![c] = "create"]
    /\ expiry' = [expiry EXCEPT ![c] = clock + TTL]
    /\ UNCHANGED <<status, ts, slack, runs, handlers, startup, free, clock>>

\* INSERT ... ON CONFLICT DO NOTHING; an error ends the turn with an apology.
CreateDelivery(c) ==
    /\ publishing[c] = "create"
    /\ \/ /\ status' = IF status[c] = "none"
                       THEN [status EXCEPT ![c] = "pending"] ELSE status
          /\ publishing' = [publishing EXCEPT ![c] = "publish"]
       \/ /\ publishing' = [publishing EXCEPT ![c] = "done"]
          /\ UNCHANGED status
    /\ UNCHANGED <<ts, expiry, slack, runs, handlers, startup, free, clock>>

\* A failed publication ends the turn; during reconciliation it aborts the
\* start of the process.
GiveUp(c) ==
    /\ publishing' = [publishing EXCEPT ![c] = "done"]
    /\ IF phase = "up" THEN UNCHANGED <<phase, todo>>
       ELSE phase' = "down" /\ todo' = {}

PublishConfirmation(c) ==
    /\ publishing[c] = "publish"
    /\ \/ /\ prompt' = [prompt EXCEPT ![c] = Append(@, "buttons")]
          /\ publishing' = [publishing EXCEPT ![c] = "mark"]
          /\ UNCHANGED <<phase, todo>>
       \/ /\ prompt' \in {prompt, [prompt EXCEPT ![c] = Append(@, "buttons")]}
          /\ GiveUp(c)
    /\ UNCHANGED <<store, replies, runs, handlers, allowed, free, clock>>

\* Mutant: the update forgets its status guard.
MarkableAlways(c) == status[c] # "none"

\* The WHERE clause of the update.
Markable(c) == status[c] = "pending"

\* UPDATE ... WHERE status = 'pending'; no affected row is an error.
MarkPublished(c) ==
    /\ publishing[c] = "mark"
    /\ \/ /\ Markable(c)
          /\ status' = [status EXCEPT ![c] = "published"]
          /\ ts' = [ts EXCEPT ![c] = IF c \in Legacy THEN 0 ELSE Len(prompt[c])]
          /\ publishing' = [publishing EXCEPT ![c] = "done"]
          /\ todo' = todo \ {c}
          /\ UNCHANGED phase
       \/ GiveUp(c) /\ UNCHANGED <<status, ts>>
    /\ UNCHANGED <<expiry, slack, runs, handlers, allowed, free, clock>>

-----------------------------------------------------------------------------
(* A decision: handleConfirmationCore, entered by a button click or by a    *)
(* typed "approve <id>" or "reject <id>".                                   *)

\* A decision as it enters the handler; the clock is read before the row.
Entering(via, c, m, u, here, approve) ==
    [via |-> via, call |-> c, msg |-> m, user |-> u, here |-> here,
     approve |-> approve, now |-> clock]

Enter(h, d) ==
    /\ pc' = [pc EXCEPT ![h] = "lookup"]
    /\ decision' = [decision EXCEPT ![h] = d]
    /\ UNCHANGED verdict

\* Slack delivers a click on a posted prompt, possibly more than once and
\* possibly from a view that is out of date; an older release posted text
\* without buttons.
Click(h, c) ==
    /\ phase = "up"
    /\ pc[h] = "idle"
    /\ c \notin Legacy
    /\ \E m \in DOMAIN prompt[c], u \in Users, approve \in BOOLEAN :
           Enter(h, Entering("button", c, m, u, TRUE, approve))
    /\ UNCHANGED <<store, slack, runs, publishing, startup, free, clock>>

\* A typed decision, in the conversation of the call or in another one.
Type(h, c) ==
    /\ phase = "up"
    /\ pc[h] = "idle"
    /\ \E u \in allowed, here \in BOOLEAN, approve \in BOOLEAN :
           Enter(h, Entering("typed", c, 0, u, here, approve))
    /\ UNCHANGED <<store, slack, runs, publishing, startup, free, clock>>

\* Mutant: the actor is not compared with the requester.
AcceptsAnyone(d) ==
    /\ status[d.call] # "none"
    /\ d.via = "typed" => d.call \in Legacy
    /\ d.via = "button" => ts[d.call] # 0 /\ ts[d.call] = d.msg
    /\ d.user \in allowed
    /\ d.here

\* Identity, authorization and conversation checks against the row just read.
Accepts(d) ==
    /\ status[d.call] # "none"
    /\ d.via = "typed" => d.call \in Legacy
    /\ d.via = "button" => ts[d.call] # 0 /\ ts[d.call] = d.msg
    /\ d.user \in allowed
    /\ d.user = Requester[d.call]
    /\ d.here

Step(h, next) ==
    /\ pc' = [pc EXCEPT ![h] = next]
    /\ UNCHANGED <<decision, verdict>>

Finish(h) ==
    /\ pc' = [pc EXCEPT ![h] = "idle"]
    /\ decision' = [decision EXCEPT ![h] = NoDecision]
    /\ verdict' = [verdict EXCEPT ![h] = "none"]

\* GetByWrapperCallID and the checks on the row it read.  The handler ends if
\* the read fails, a check fails or the row is decided already.
Lookup(h) ==
    LET d == decision[h] IN
    /\ pc[h] = "lookup"
    /\ \/ Finish(h)
       \/ /\ Accepts(d)
          /\ expiry[d.call] <= d.now
          /\ Step(h, "expire")
       \/ /\ Accepts(d)
          /\ expiry[d.call] > d.now
          /\ status[d.call] \in Open
          /\ Step(h, "acquire")
    /\ UNCHANGED <<store, slack, runs, publishing, startup, free, clock>>

\* UPDATE ... SET status = 'expired' WHERE status is open AND expiry <= now.
Expired(now) ==
    [c \in Calls |-> IF status[c] \in Open /\ expiry[c] <= now
                     THEN "expired" ELSE status[c]]

\* Mutant: a failed update is logged and the prompt is closed all the same.
ExpireDeliveriesLogging(h) ==
    /\ pc[h] = "expire"
    /\ status' \in {status, Expired(decision[h].now)}
    /\ IF decision[h].via = "button" THEN Step(h, "showExpired") ELSE Finish(h)
    /\ UNCHANGED <<ts, expiry, slack, runs, publishing, startup, free, clock>>

\* An update that fails ends the handler before it touches the prompt.
ExpireDeliveries(h) ==
    /\ pc[h] = "expire"
    /\ \/ /\ status' = Expired(decision[h].now)
          /\ IF decision[h].via = "button" THEN Step(h, "showExpired") ELSE Finish(h)
       \/ Finish(h) /\ UNCHANGED status
    /\ UNCHANGED <<ts, expiry, slack, runs, publishing, startup, free, clock>>

\* UpdateConfirmation may fail; the failure is only logged.
Update(d, text) ==
    prompt' \in {prompt, [prompt EXCEPT ![d.call] = [@ EXCEPT ![d.msg] = text]]}

ShowExpired(h) ==
    /\ pc[h] = "showExpired"
    /\ Update(decision[h], "expired")
    /\ Finish(h)
    /\ UNCHANGED <<store, replies, runs, publishing, startup, free, clock>>

\* Mutant: the handler waits for a permit.
Acquire(h) ==
    /\ pc[h] = "acquire"
    /\ free > 0 /\ free' = free - 1 /\ Step(h, "decide")
    /\ UNCHANGED <<store, slack, runs, publishing, startup, clock>>

\* modelCalls.TryAcquire never waits.
TryAcquire(h) ==
    /\ pc[h] = "acquire"
    /\ \/ free > 0 /\ free' = free - 1 /\ Step(h, "decide")
       \/ free = 0 /\ UNCHANGED free /\ Finish(h)
    /\ UNCHANGED <<store, slack, runs, publishing, startup, clock>>

\* Mutant: the status an approval had in the port is stored.
VerdictApproved(approve) == IF approve THEN "approved" ELSE "rejected"

\* The status a decision stores.
Verdict(approve) == IF approve THEN "consumed" ELSE "rejected"

\* Mutant: the update accepts a row that is already consumed.
DecidableAgain(c) == status[c] \in Open \cup {"consumed"}

\* The WHERE clause of both updates.
Decidable(c) == status[c] \in Open

\* Mutant: the lost race keeps the permit.
CommitLeaking(h) ==
    LET d == decision[h] IN
    /\ pc[h] = "decide"
    /\ \/ /\ Decidable(d.call)
          /\ status' = [status EXCEPT ![d.call] = Verdict(d.approve)]
          /\ Step(h, "resume")
       \/ Finish(h) /\ UNCHANGED status
    /\ UNCHANGED <<ts, expiry, slack, runs, publishing, startup, free, clock>>

\* MarkConsumed or RejectDelivery: UPDATE ... WHERE status is open.  Losing
\* the race, or a store error, returns the permit and ends the handler.
Commit(h) ==
    LET d == decision[h] IN
    /\ pc[h] = "decide"
    /\ \/ /\ Decidable(d.call)
          /\ status' = [status EXCEPT ![d.call] = Verdict(d.approve)]
          /\ Step(h, "resume")
          /\ UNCHANGED free
       \/ /\ Finish(h)
          /\ free' = free + 1
          /\ UNCHANGED status
    /\ UNCHANGED <<ts, expiry, slack, runs, publishing, startup, clock>>

\* runtime.Resume: the tool runs only if approved; an error can come before or
\* after it ran.  The permit goes back on return, whatever the result.
Resume(h) ==
    LET d == decision[h]
        ran == IF d.approve THEN [runs EXCEPT ![d.call] = @ + 1] ELSE runs
    IN
    /\ pc[h] = "resume"
    /\ \/ /\ runs' = ran
          /\ verdict' = [verdict EXCEPT ![h] = Verdict(d.approve)]
       \/ /\ runs' \in {runs, ran}
          /\ verdict' = [verdict EXCEPT ![h] = "failed"]
    /\ pc' = [pc EXCEPT ![h] = "update"]
    /\ free' = free + 1
    /\ UNCHANGED <<store, slack, publishing, decision, startup, clock>>

\* The prompt of a click is replaced by the verdict; a typed decision has no
\* prompt to replace.  A failed resume ends here for a click.
UpdateConfirmation(h) ==
    LET d == decision[h] IN
    /\ pc[h] = "update"
    /\ IF d.via = "button" THEN Update(d, verdict[h]) ELSE UNCHANGED prompt
    /\ IF d.via = "button" /\ verdict[h] = "failed" THEN Finish(h) ELSE Step(h, "reply")
    /\ UNCHANGED <<store, replies, runs, publishing, startup, free, clock>>

\* The result, or for a typed decision the apology, is posted in the thread.
PublishResult(h) ==
    LET d == decision[h] IN
    /\ pc[h] = "reply"
    /\ replies' \in {replies, [replies EXCEPT ![d.call] = @ + 1]}
    /\ Finish(h)
    /\ UNCHANGED <<store, prompt, runs, publishing, startup, free, clock>>

-----------------------------------------------------------------------------
(* Process start: ExpireDeliveries, then ReconcileConfirmations; the Slack  *)
(* listener starts only afterwards.                                         *)

\* The configuration is loaded; a failing ExpireDeliveries is only logged.
Start ==
    /\ phase = "down"
    /\ phase' = "starting"
    /\ allowed' \in Policies
    /\ status' \in {status, Expired(clock)}
    /\ UNCHANGED <<ts, expiry, slack, runs, publishing, handlers, todo, free, clock>>

\* ListPending returns open rows that have not expired; the loop skips the
\* published ones.  An error aborts the start.
ListPending ==
    /\ phase = "starting"
    /\ \/ /\ phase' = "recovering"
          /\ todo' = {c \in Calls : status[c] = "pending" /\ expiry[c] > clock}
       \/ phase' = "down" /\ UNCHANGED todo
    /\ UNCHANGED <<store, slack, runs, publishing, handlers, allowed, free, clock>>

Publishing == {c \in Calls : publishing[c] \in {"create", "publish", "mark"}}

\* Mutant: the prompt is republished without asking Slack.
NotPostedUnread(c) == TRUE

\* The history shows no message with the call's correlation ID.
NotPosted(c) == prompt[c] = <<>>

\* One iteration: Slack history proves that the prompt was posted, proves that
\* it was not, or proves nothing: it is incomplete, unreadable, holds two
\* candidates, or one that was edited.  Proving nothing aborts the start.
RecoverConfirmation(c) ==
    /\ phase = "recovering"
    /\ c \in todo
    /\ Publishing = {}
    /\ \/ /\ prompt[c] = <<"buttons">>
          /\ publishing' = [publishing EXCEPT ![c] = "mark"]
          /\ UNCHANGED <<phase, todo>>
       \/ /\ NotPosted(c)
          /\ publishing' = [publishing EXCEPT ![c] = "publish"]
          /\ UNCHANGED <<phase, todo>>
       \/ /\ phase' = "down"
          /\ todo' = {}
          /\ UNCHANGED publishing
    /\ UNCHANGED <<store, slack, runs, handlers, allowed, free, clock>>

\* Mutant: the listener does not wait for the reconciliation.
StartListeningEarly ==
    /\ phase = "recovering"
    /\ Publishing = {}
    /\ phase' = "up"
    /\ UNCHANGED <<store, slack, runs, publishing, handlers, todo, allowed, free, clock>>

\* Events are accepted once every listed row has been treated.
StartListening ==
    /\ phase = "recovering"
    /\ todo = {}
    /\ Publishing = {}
    /\ phase' = "up"
    /\ UNCHANGED <<store, slack, runs, publishing, handlers, todo, allowed, free, clock>>

\* The process dies: only the database and Slack survive.
Crash ==
    /\ phase # "down"
    /\ phase' = "down"
    /\ todo' = {}
    /\ publishing' = [c \in Calls |-> IF c \in Publishing THEN "done" ELSE publishing[c]]
    /\ pc' = [h \in Deciders |-> "idle"]
    /\ decision' = [h \in Deciders |-> NoDecision]
    /\ verdict' = [h \in Deciders |-> "none"]
    /\ free' = MaxModelCalls
    /\ UNCHANGED <<store, slack, runs, allowed, clock>>

Tick ==
    /\ clock < MaxClock
    /\ clock' = clock + 1
    /\ UNCHANGED <<store, slack, runs, publishing, handlers, startup, free>>

-----------------------------------------------------------------------------
Publication(c) == CreateDelivery(c) \/ PublishConfirmation(c) \/ MarkPublished(c)

Handling(h) ==
    \/ Lookup(h) \/ ExpireDeliveries(h) \/ ShowExpired(h) \/ TryAcquire(h)
    \/ Commit(h) \/ Resume(h) \/ UpdateConfirmation(h) \/ PublishResult(h)

Next ==
    \/ \E c \in Calls : RaiseConfirmation(c) \/ Publication(c) \/ RecoverConfirmation(c)
    \/ \E h \in Deciders, c \in Calls : Click(h, c) \/ Type(h, c)
    \/ \E h \in Deciders : Handling(h)
    \/ Start \/ ListPending \/ StartListening \/ Crash \/ Tick

Spec == Init /\ [][Next]_vars

\* What has started goes on: handlers and publications are goroutines whose
\* calls return or time out.  Users, crashes, restarts and time owe nothing.
FairSpec ==
    /\ Spec
    /\ \A c \in Calls : WF_vars(Publication(c))
    /\ \A h \in Deciders : WF_vars(Handling(h))

-----------------------------------------------------------------------------
TypeOK ==
    /\ status \in [Calls -> Statuses]
    /\ ts \in [Calls -> Nat]
    /\ expiry \in [Calls -> Nat]
    /\ prompt \in [Calls -> Seq(Shown)]
    /\ runs \in [Calls -> Nat]
    /\ replies \in [Calls -> Nat]
    /\ publishing \in [Calls -> {"none", "create", "publish", "mark", "done"}]
    /\ pc \in [Deciders -> Busy \cup {"idle"}]
    /\ decision \in [Deciders -> Decision \cup {NoDecision}]
    /\ verdict \in [Deciders -> {"none", "consumed", "rejected", "failed"}]
    /\ \A h \in Deciders : /\ pc[h] # "idle" => decision[h] \in Decision
                           /\ pc[h] = "update" => verdict[h] # "none"
    /\ phase \in {"down", "starting", "recovering", "up"}
    /\ todo \subseteq Calls
    /\ allowed \subseteq Users
    /\ free \in Nat
    /\ clock \in Nat

\* However many decisions race on a call, across crashes and restarts, its
\* tool runs at most once, and only after the row was durably consumed; nor is
\* more than one result posted.
ToolRunsOnce ==
    \A c \in Calls :
        /\ runs[c] <= 1 /\ replies[c] <= 1
        /\ runs[c] = 1 => status[c] = "consumed"
        /\ replies[c] = 1 => status[c] \in {"consumed", "rejected"}

\* Between the commit of a decision and its reply, a call belongs to a single
\* handler, which carries out the decision that was stored; nothing has run on
\* its behalf before.  This is what makes ToolRunsOnce inductive.
Winner(h) == pc[h] \in {"resume", "update", "reply"}

OneWinner ==
    /\ \A h \in Deciders : Winner(h) =>
           LET c == decision[h].call IN
           /\ status[c] \in {"consumed", "rejected"}
           /\ replies[c] = 0
           /\ pc[h] = "resume" => /\ status[c] = Verdict(decision[h].approve)
                                 /\ runs[c] = 0
    /\ \A g, h \in Deciders :
           Winner(g) /\ Winner(h) /\ decision[g].call = decision[h].call => g = h

\* "A pending delivery is republished only when Slack history cannot prove the
\* deterministic correlation ID was already accepted": whatever crashes and
\* failed posts do, a call never has two prompts.
PromptPostedOnce == \A c \in Calls : Len(prompt[c]) <= 1

\* The buttons leave a prompt only once the row is decided, and a prompt that
\* names a decision names the stored one.  ("expired" and "failed" carry no
\* such promise: a late click on a consumed row also writes "expired".)
PromptHonest ==
    \A c \in Calls : \A m \in DOMAIN prompt[c] :
        /\ prompt[c][m] # "buttons" => status[c] \in Final
        /\ prompt[c][m] \in {"consumed", "rejected"} => prompt[c][m] = status[c]

\* What users see of a call: one prompt, which says what is stored.
PromptsAreRight == PromptPostedOnce /\ PromptHonest

\* Every exit of a decision handler has given its model permit back.
PermitsBalanced ==
    free + Cardinality({h \in Deciders : pc[h] \in {"decide", "resume"}})
        = MaxModelCalls

\* A decided row stays decided: neither the publishing turn's late
\* MarkPublished, nor a racing handler, nor the reconciliation reopens it.
DecisionIsFinal ==
    [][\A c \in Calls : status[c] \in Final => status'[c] = status[c]]_vars

\* A row is consumed or rejected only by a decision of the user who asked for
\* the tool, whom the loaded policy still allows, taken in the conversation of
\* the call, that reached the handler before the confirmation expired.
ConsentIsGenuine ==
    [][\A c \in Calls :
         status[c] \in Open /\ status'[c] \in {"consumed", "rejected"} =>
             \E h \in Deciders :
                 LET d == decision[h] IN
                 /\ pc[h] = "decide" /\ d.call = c /\ d.here
                 /\ d.user = Requester[c] /\ d.user \in allowed
                 /\ d.now < expiry[c]
                 /\ status'[c] = Verdict(d.approve)]_vars

\* When the process starts to accept events, no prompt that can still be
\* answered has been left unmarked, and so deaf to clicks.
RecoveryComplete ==
    [][phase = "recovering" /\ phase' = "up" =>
         \A c \in Calls : status[c] = "pending" => expiry[c] <= clock]_vars

\* What a confirmation promises, stated without rows, prompts or crashes.
Standing(s) ==
    CASE s = "none"     -> "unasked"
      [] s \in Open     -> "open"
      [] s = "consumed" -> "granted"
      [] s = "rejected" -> "refused"
      [] s = "expired"  -> "lapsed"

Approval == INSTANCE ToolApproval WITH
    ran <- runs, state <- [c \in Calls |-> Standing(status[c])]

\* Every behaviour of the delivery is a behaviour of the abstract approval.
ImplementsApproval == Approval!Spec

\* No decision is left hanging: each handler reaches an end, and a turn that
\* raised a confirmation stops publishing it.
HandlersFinish ==
    /\ \A h \in Deciders : pc[h] # "idle" ~> pc[h] = "idle"
    /\ \A c \in Calls : c \in Publishing ~> c \notin Publishing
=============================================================================
