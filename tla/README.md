# Formal models of local-agent

`local-agent` is a Slack bot in Go. It receives events over Socket Mode, runs a
model turn for each through an agent library, answers in Slack, and keeps its
state in a SQLite database in the project. One process runs at a time; inside
it every event has a goroutine of its own, and a background worker shares the
database with them. Slack, the model and the process itself can fail at any
step. This directory holds TLA+ models of the parts where that matters, the
configurations under which TLC checks them, and proofs checked by TLAPS.

## Inventory

| Component | State | Operations | What makes it hard | What makes it correct |
|---|---|---|---|---|
| Tool confirmation (`usecase/bot/service.go`, `sqlite/confirmation_store.go`, `slack/confirmation_publisher.go`) | a row per wrapper call, a prompt in Slack, a model permit | raise, create, publish, mark, decide by click or text, expire, reconcile | two deciders at once, a click before the mark, expiry during a decision, crash between post and mark or between commit and run | the tool runs at most once, on the requester's consent, and a prompt is posted once |
| Assistant exchange (`usecase/bot/service.go`, `sqlite/store.go`, `slack/history.go`) | an intent row, messages and outbox rows, messages in Slack | prepare, publish, mark, finalize, reconcile at start and in the worker | ambiguous posts, the worker racing the handler, crash after Slack accepted a reply | a reply is recorded only if Slack has it, once, with one outbox row |
| Bot turn (`usecase/bot/service.go`, `limiter.go`, `modelcalllimiter`) | dedupe keys, active conversations, model permits | claim, authorize, participate, acquire, run, release | redelivery by Slack, two event kinds for one message, exits that skip a release | one turn per message and per conversation, no permit lost |
| Memory outbox (`sqlite/memory.go`, `app/run.go`) | outbox rows with leases and attempts, patch receipts, topics | claim, curate, apply, complete, fail, retry, reschedule, clean up | lease expiry under a slow worker, crash between apply and complete, attempts at the cap | each exchange's patch is applied at most once and each item ends |
| Turn progress (`usecase/bot/service.go`, `sqlite/standard_agent.go`) | a progress row and a message in Slack per turn | begin, update, wait, take up, reconcile | Slack updated and the row not, two waiting turns in one conversation | a message that says work goes on does not outlive the work |
| Incremental delivery (`usecase/bot/streaming.go`, `incremental_sanitizer.go`) | a delivery row and a message that is edited | create, update, finalize, interrupt, reconcile | unknown result of the first post, fallback to the plain path, secrets across chunk borders | one final message, never a secret split over two updates |
| Canvas and generated files (`usecase/canvas`, `usecase/generatedfile`, their stores and Slack adapters) | an operation row, a Slack object | validate, claim, create or upload, persist | a model repeats a call, a result is lost, a context ends between effect and row | at most once, with consent, and the row tells the truth |
| Sandbox (`usecase/sandbox`, `sqlite/sandbox_audit.go`, `fssandbox`) | an audit row per call; the files of a project | authorize, run, settle; resolve paths, read, list | two executions of one call, links that change what a path means | runs once, audited first; reads nothing outside, lists what it reads |
| ADK session store and runtime (`sqlite/adk_session.go`, `adkagent/runtime.go`) | events, a revision, three scopes of state | create, get, append, check the provider family | two turns with one session, a read in pieces, a restart with another model | no lost or interleaved append, one family per session |
| Listener and router (`slack/listener.go`, `router.go`, `domain/invocation.go`, `sqlite/dm_identity.go`) | in-flight handlers, the identity mode of direct messages | acknowledge, route, dispatch, drain | redelivery, two events for one message, a stop in between, a changed mode | what is meant for the bot is handled once, in one place |
| OpenCode coordinator (`usecase/opencode`, `opencodemanager`) | active invocations, a maintenance flag, the kept executable | invoke, status, upgrade, roll back | upgrade against invocations and nested ones, commands that fail halfway | nothing runs while the executable is replaced, reports are true |
| ACP client (`acpclient`) | a child process, two pipes, a goroutine and a queue | start, negotiate, configure, prompt, terminate | an agent may say anything at any time, or nothing, or not read | an answer is whole and has nothing of earlier requests; a call ends and leaves nothing behind |
| Agent CLI bridge and Codex shim (`agentcli`, `cliprotocol`, `codexshim`) | a shim process, a codex process below it | exchange, drain, kill; probe, run, parse, conclude | output after an answer, exits against outputs, orphaned grandchildren | an answer has been earned; both processes end |
| Definitions and workflows (`agentdef`, `app/agent_tools.go`, `app/workflow_tools.go`) | configured agents, the tools of a turn, a run of a workflow | load, validate, prepare, build per turn, run | two sets of rules for one file, documents that refer to each other, checks at start against building per turn | what is accepted is read in full and builds; an answer is of the last step |

Two limits connect all of them: `usecase/bot/limiter.go` keeps a conversation to
one turn and all conversations to a number of turns, and `modelcalllimiter` hands
out the permits that turns, image descriptions, resumed tools and the memory
curator share. The store has one connection, so every statement or transaction
is atomic and they are serial; what interleaves is what happens between them.

A turn asks the runtime for events; the runtime keeps them in a session of the
store, calls a model through an adapter, or an agent CLI through the bridge and
its shim, and offers the tools that the definitions name: sandboxed reads,
canvases and exports after a confirmation, child agents, ACP agents and
workflows. `Application.Run` (`app/run.go`) starts these parts in the order in
which they recover: exchanges, confirmations, progress, streamed answers, then the
worker, then the listener.

The other parts (memory domain rules, migrations, rendering, redaction, history,
model adapters, configuration, setup commands) are listed with their reasons in
`PROJECT.json`, and below under "Not modelled".

## How the models are made

A variable is a column, a field or a place in a function where a goroutine can
be overtaken or killed; a *step* is one SQL statement or transaction, one call to
Slack or the model, or one critical section. Text, rendering and logging are
left out. A call that reports an error may have had its effect. `pc`-like
variables hold where a handler stands, so an early return is a step to its end.
Bounds that exist only for model checking are constants that say so (`MaxClock`,
`Horizon`, `MaxMishaps`); the proofs hold for all their values. `PROJECT.json`
maps every definition to its lines.

| Module | Models | Runs |
|---|---|---|
| `ToolApproval` | what a confirmation promises: asked, then granted, refused or lapsed, and the tool runs only after a grant | property of `confirmation_races` and `sessions` |
| `ConfirmationDelivery` | rows, prompts, handlers and recovery of confirmations | `confirmation_races`, `sessions` |
| `RecordedReply` | a reply is sent, then recorded once with its memory work | property of `exchange_recovery` |
| `AssistantExchange` | intents, the outbox row, Slack and the reconciler | `exchange_recovery`, `exchange_source` |
| `SerialTurns` | turns are serial in a conversation and bounded altogether | property of `turn_admission` |
| `BotTurn` | deliveries, dedupe, limiter, permits, drain and restart | `turn_admission`, `permits`, `turn_busy` |
| `MemoryOutbox` | leases, attempts, receipts and the projection | `permits`, `outbox_leases` |
| `IncrementalDelivery` | rows and messages of streamed answers, and their recovery | `sessions`, `incremental_conflict` |
| `ConfirmedEffect` | an operation acts once at most, with consent, and what is written of it is true | property of `tools`, three times |
| `CanvasCreation`, `GeneratedFile` | the two tools that put an object into Slack | `tools` |
| `SandboxAudit` | the audit record of a capability | `tools` |
| `TurnProgress` | progress rows and messages through questions, confirmations and starts | `tools` |
| `TurnTools` | composes the four above: what a turn does beside its answer | `tools` |
| `SessionLog` | a session is one history, and its state is what the history made | property of `sessions` |
| `AdkSession` | events, revisions and scopes of state | `sessions` |
| `SlackListener` | from an event to a handler: acknowledgement, routing, identities | `sessions` |
| `OpenCodeCoordinator` | invocations against upgrades and rollbacks | `sessions` |
| `LastingState` | composes the three above, streams and confirmations: what lasts beyond a turn | `sessions` |
| `ModelPermits` | composes turns and the outbox, which wait for the same permits | `permits` |
| `Agents` | composes the call of an ACP agent, the exchange, definitions with workflows, and the file sandbox: the agents behind a turn | `agents` |
| `FileSandbox` | the paths that are read and listed | `agents` |
| `AcpClient` | one call of an agent over JSON-RPC pipes | `agents`, `acp_cancellation` |
| `AgentCLI`, `CodexShim` | an exchange with a shim; the shim of codex at its other end | `agents` |
| `AgentDefinitions`, `WorkflowDefinition` | what loading accepts of definition files | `agents` |
| `RootTools` | what a start accepts, what a turn builds, and runs of a workflow | `agents` |

`MC*.tla` give the constants of the runs; `*Proofs.tla` hold the proofs.
`TurnTools`, `LastingState`, `ModelPermits` and `Agents` put several components
into one specification: these share no state in the code either, so nothing is gained
by interleaving them, and `part` picks the component that moves while the others stay
where they start. Each component is checked as completely as by a run of its own, and
a theorem about the composition is one about each component, for all values of its
constants. `incremental_conflict` and
`acp_cancellation` run the component's module itself. `MCDefinitions` holds the
definition files that the run `agents` loads.

### ConfirmationDelivery

A turn that meets a guarded tool creates a row (`pending`), posts a prompt with
buttons and marks the row `published` with the prompt's timestamp; a click or a
typed answer starts a handler that looks the row up, expires it if its time has
come, takes a model permit, decides in one transaction, resumes the run and
updates the prompt. `status`, `ts` and `expiry` are the columns; `prompt[c]` is
the sequence of prompts Slack shows, so a second one would be seen. Handlers are
`Deciders`, of which two suffice for every race: a decision involves one row and
the rows are independent but for the pool of permits. `phase` and `todo` are the
start: `ReconcileConfirmations` runs before any event is accepted.

`confirmation_races` has one call, two handlers that compete for one permit, two
users, expiry, crashes and every failing call, under fair scheduling; a part of
`sessions` adds a row of an older release and a second permit, and lets the
expiry of one row fall into the publication of the other (`DecisionIsFinal`).
`ConsentIsGenuine` and `RecoveryComplete` relate two states of a step;
`PromptsAreRight` needs the recovery to look for a prompt that a crash left
unmarked, and every prompt that shows a verdict to show that of its row. A clock of two ticks is enough, since a time is only ever compared
with one deadline.

### AssistantExchange

A turn stores its question, prepares an intent, posts the parts of the reply,
marks the intent and finalizes it; the reconciler, at start and in each pass of
the worker, finalizes published intents and looks prepared ones up in Slack by
their metadata. `stamp` is the timestamp of the last part. Two conversations
suffice to let timestamps collide, and two turns to let a question slip between
a question and its answer. `RecordIsTrue` joins what must hold of a record: it is
made once, with one outbox row, only of a reply that Slack has, for every turn
that reports an answer, and no reply that Slack accepted is given up.
`exchange_recovery` is scheduled fairly, so that it
also shows that no turn and no pass goes on for ever (`EverythingEnds`): the pass
loops over published intents until there is none.

`exchange_source` is a violation: when the intent is prepared the store pairs the
reply with the latest user message of the conversation, and a decision typed in
the thread, or a message stored and then turned away as busy, can be that
message. The memory then learns from a pair that was never one exchange.

### BotTurn

`Deliver` starts a handler for a delivery; `Claim` writes both dedupe keys of the
message; `Acquire` and `Return` are the limiter, `TakePermit` and `ReturnPermit`
the pool. Each early return of `Handle` is a step with its outcome and what it
gives back. `Start` removes expired keys, `Cancel`, `Drain` and `Exit` end the
listener, and `Crash` ends the process with what only memory held. `Horizon` lets
the clock pass the lifetime of a claim once.

`turn_admission` has a question with an image that comes twice under two event
IDs, so that two turns for it meet when the first claim expires, beside a decision
in its conversation. In `permits` questions of two conversations, one with an
image, and the curator compete for one permit and one turn at a time beside a
message that is denied, under fair scheduling. That every handler comes to an end
(`HandlersReturn`) rests on permits being tried for and never waited for, and on the
turn of a conversation being given back on every way out. `NothingLeaks` says that
limiter and pool hold exactly what the running handlers took, and that a process
that is down has none.

`turn_busy` is a violation: the question is stored before the permit is asked
for, so a message turned away for lack of a permit stays in the conversation,
against the name and the message of a test that exercises the limiter only.

### MemoryOutbox

`due` is the queue as a claim sees it: pending rows whose time has come and
processing rows whose lease has passed, in the order of those times. Keeping the
order and not the times loses only how long a retry waits. `holder[i]` is the
worker whose `lease_until` the row has, which is how completion, retry and
deferral compare it. `applied` counts commits of a patch, `kept` the trusted
facts that reached the memory, `bundle` what the projected files show, with the
two renames as two steps. `Interrupt` is a panic, which is recovered, or a crash.

A part of `permits` has one worker, as in a deployment, that is scheduled fairly
and finds a permit or not: what a user stated as a fact survives a failing curator
and is settled, every item is claimed (`ItemsSettle`), an item fails only after
all its attempts (`SettledHonestly`), and files never show less than what is done
(`BundleShowsDone`). `outbox_leases` has two, of which one may outlive its lease. Two items, two
attempts and one or two mishaps let each failure hit each step of an attempt and
of the attempt after it. With two workers the files may lag behind and a fact
may be dropped, since both processes share one staging directory and read topics
before they write them; `SettledHonestly` and `BundleShowsDone` are stated for one.

### IncrementalDelivery

A streamed turn inserts a row (`row`, `ts`), creates one message with the first
safe part of the text, edits it as the model goes on, and edits the answer into
it, or a note that the text ends. `shown[t]` is what Slack shows of the turn, so
that a second message would be seen; a message is told apart by what it is, a
part, a closed part, an answer or an apology, since its metadata follow from
that: `FinalizeIncremental` replaces those of the stream with those of the
exchange, which is why a start that looks for streams does not find an answer.
`seen[t]` is the timestamp a handler, or the start, holds in memory. `intent` is
the exchange, reduced to what this part sees of it. A start whose
`ReconcileIncremental` fails ends the process (`Stop`).

A part of `sessions` lets every call and statement fail, calls with and without
their effect, and the process die at every step. Turns share nothing but the
process and the list of a start, so two of them are enough. `StreamIsFound` says
that no failure makes a turn speak twice (`OneMessage`), that what is half-written
stays listed (`PartIsFound`) and that the last status tells the truth
(`FinalizedIsAnswered`); `AnswerStays`, that neither a turn nor a start writes
over an answer it does not know of.

`incremental_conflict` is a violation. A row whose creation failed is advanced to
`unknown` without a timestamp. If Slack had accepted the message, the next start
finds it, but can mark it only in `prepared`; the store reports a conflict with
an identity that the row never had, and the start ends. So do all later ones.

`ReconcileAssistantExchange` is left open: the finder skips messages marked as
edited (`slack/history.go`), and a streamed answer is always put in by an edit.
If Slack marks those edits, an answer whose row could not be written stays out of
the conversation, and nothing here promises that it is recorded.

### CanvasCreation, GeneratedFile and SandboxAudit

A call of a tool names an operation, a digest of the conversation and of the
identifier the model gave the call, so two calls can be the same operation with
the same arguments or others, one after the other or at once. `status`, `owner`
and `canvasID` (`fileID`) are the row; `pc`, `ask` and the rest are the locals of a
call; `canvases` and `files` are what Slack has, a file with how far it has come:
a target, its bytes, shown. `consents` is what users have approved, which ADK
keeps and the services trust. A document is a record of the sizes and marks that
the validation looks at, before and after sanitizing, and the instances hold one
document for each rule that refuses it. A call to Slack may succeed, be refused, or do its work and report an
error; a context may end at any step, after which a canvas call can no longer write
its row, while a file call can, since it records progress without the context.

All three implement one abstract specification, `ConfirmedEffect`, each by a
mapping of its own: an operation acts at most once, only with consent, a verdict
once written stays, and "done" and "undone" are true. The mappings say what each
row is worth: `failed` of a canvas is "undone", of an export it is so only when
nothing was shown (a lost completion is recorded as failed), of a capability it
says nothing. `AnswerIsOwn` is stronger than the row: the canvas or file that
answers a call was made for its operation, its user and its document.

Run `tools`: two calls, one identifier, two users. Two calls are enough because
the statements compare a call with the row and never with a third party.
`EffectsOnce` are the three refinements, `AnswersAreOwn` the answers of canvases and
files, `NoStaleProgress` what `TurnProgress` says.

### FileSandbox

The path rules exist three times in the code: for the arguments, for reading and
for listing. `probe` holds a file system and a path; of a file system it is known which
absolute paths are directories, which are files, and where links point (`dirs`,
`files`, `target`), and resolution follows links as `filepath.EvalSymlinks` does,
`MaxLinks` of them at most. `ListedIsReadable` states the
agreement of the three: a directory lists exactly the entries that can be read or
listed, and nothing is read outside the project or in a restricted directory of
it. Two kinds of names are excepted. Those that contain a tilde are listed, and the
arguments refuse them. And the links on the way to an entry are counted from the
directory when it is listed, from the project when it is read, so an entry behind
nearly as many links as Go follows can be listed and not read (`TooManyLinks`); the
proof of the statement failed without this, where the instance, which has no ways as
long, had nothing to say. The instance, a part of `agents`, has every pair of targets for two links, into the
project, out of it, to each other, to themselves and to nothing.

### TurnProgress

`row` and `rowTs` are the stored operation, `shown` the message, and `act[a]` what
the handler of a question, that of its confirmation, or the start holds of it.
`waitingProgress` looks for the row by its conversation, so a decision may take up
the row of another question; the code allows it, `shared` records it, and the
properties except such rows. `Fallible` are the questions about which calls may
fail, `trouble` those about which one has failed since the start.
`NoStaleProgress` has two halves: a message that says work goes on has a row that
the next start lists (`StaleIsListed`), because Slack is told before the store; and
once the program serves, such a message has a handler at work (`NoStaleWork`).
Suggested prompts keep no state and are left out.

### AdkSession

A turn reads its session in four statements (row, application state, user state,
events) and appends in transactions that compare `revision` with its copy's. A
state is a function from keys with a scope; `trimTempDeltaState`, the division of
a delta by scope and the merge are those of the code. The agent library is
external and may yield any events between. `ImplementsLog` says by refinement of
`SessionLog` that a turn appends only to a history it has read to its end, though
the reads are not one transaction, and that the state of a session is what its
events made of it, though it is written from a copy. `FamiliesNeverMix` holds
although the family is checked before the first event stores it, because the
revision keeps two first events apart. Two sessions share one user and one
application, and two turns make every overlap; `MaxEvents` of two lets a stale
turn lose. `Delete` and `List` have no callers.

### SlackListener

`outstanding` are the events Slack has not seen acknowledged, `loop` the one
between acknowledgement and dispatch, `handlers` what runs. `Route` and the five
functions of an invocation (conversation key, dedupe keys, reply target, metadata
root, history root) are operators. `AddressedIsHandled` joins four statements: what
is meant for the bot, defined without its events, is in hand until it is handled
or a stop interrupts it, and nothing else is handled; it is handled once, by
whichever of its events; two messages share a conversation exactly when their
answers go to one place; and direct messages are kept by channel or by thread,
whatever the configuration says at later starts. The messages are one of each way
to address the bot and, for each condition of the router, one that fails it. One
message at a time suffices for all but the last two, which compare with every
message of the instance.

### OpenCodeCoordinator

`active` and `maintenance` are the coordinator, `held` the invocations an operation
holds (a delivery workflow holds one while its steps take others), `processes` what
runs, `binary` and `prior` the installed and the kept executable. Every command of
an upgrade can fail, before or after it changed something. `UpgradeIsAlone` says
that nothing runs and no other call is in flight while the executable may be
replaced, and that a version reported as installed, or as rolled back to, is the
one that is there. Three operations, of which two may manage OpenCode, let two
upgrades and a nested invocation meet.

### AcpClient

One call of the client: requests are written to a pipe of `PipeSize`, the reader
goroutine takes messages from the other pipe into a queue of `QueueSize`, and the
client takes them from there while it waits for a response. The agent may answer,
speak, ask, exit, or do nothing at any time; it answers a request once, after it has
read it, while what it sends besides, such as a response to nothing, is not tied to
anything. When it is gone, its output may be lost before it is read. Sizes are in
units that matter only by comparison: a prompt that is larger than the pipe, a queue
that is full.

What counts as the answer follows from where the client receives. Only a prompt has a
handler for what is not its response; a request before it drops notifications. What
the agent says after its answer to the last of these (`LastBefore`) waits, at the
latest in the queue, until the prompt's own receiving takes it, even when it was sent
before the prompt was written; what it says after its answer to the prompt finds
another request, or none. `Heard` is this interval, and the agent numbers the chunks
it sends in it, while those before and after, which it may send as freely, have the
number 0. `AnswerIsWhole` follows them through both buffers: a successful run returns
exactly the numbered chunks, in order, and every option of the definition had its
value, by the agent's own last word, when it gave its answer. So the answer is not
"what was said to the prompt": text sent just before it is part of it. That text of
an earlier request is not is the duty of `Unhandled`, whose mutant collects it.
`CallEnds` (in `ChildrenEnd`) needs an agent that reads.

`acp_cancellation` is a violation: `process.write` does not look at the context, and
termination comes after it, so with an agent that stops reading and a prompt larger
than the pipe the end of the context ends neither the call nor the process.

### AgentCLI and CodexShim

`AgentCLI` is `LLM.exchange` against a shim that may write any lines, to two pipes,
and exit at any time; `lines` remembers all it wrote. `VerdictIsDeserved` recomputes
the verdict from `lines` and the exit as if nothing had to be read concurrently:
what comes after an answer counts as much as what comes before. `CodexShim` extends
it with the shim of this repository and codex below it, so that the same exchange
runs with either. `AnswerIsCompleted` says, through two processes and four pipes,
that an answer stems from a turn that codex completed as its last event and exited
well from. `ChildrenEnd` includes that codex does not outlive the exchange, which
rests on the signal the kernel sends when the shim dies (`DieWithShim`).

### AgentDefinitions, WorkflowDefinition and RootTools

Loading is modelled as operators on parsed files: a file is the set of fields it
states, with those whose value is refused in `bad`. `NothingIgnored` compares two
parts of the code that know nothing of each other, what validation allows to be
stated and what resolving a reference reads. `WorkflowDefinition` follows
`loadWorkflowDocument`, depth first with its sets of active and loaded documents.
Instead of recursion it has `Loading`, what every visit of a path gives when so many
levels are left, as a function of what the visits one level below give. `LoadsTrees`
compares it with a definition that mentions no order (`IsTree`): all walks from the
root end within `MaxDepth` documents, every document is referred to from one place,
each is well-formed, and there are `MaxNodes` at most. What is read are then all
documents below the root (`Below`, the least set that no reference leads out of), and
a document that may call `exit_loop` is below a loop. `RootTools` makes them a system: a configuration is written, a start accepts or
refuses it, every turn builds its tools, and a workflow runs. `StartedBuilds`
compares what the start checks with what a turn needs, and excepts the two cases
listed as disagreements. `AnswerIsEarned` says that a run that answers has left no
step undone and that what it delivered is of this project and worktree. These
three are parts of `StartIsSound`, `OnlyTreesLoad` and `AnswersAreEarned` of `Agents`.
The instance has, for every field, reference and limit, a configuration that is wrong
in just that (`MCDefinitions`); the bounds `MaxDepth`, `MaxNodes` and
`MaxLoopIterations` are those of the code made small. How ADK runs nodes is
external; the body of an ACP child agent is that of `AcpClient`.

## Fairness

Liveness is checked under weak fairness of the steps of a goroutine that is
running, because every call it makes has a timeout or a cancelled context and
the Go scheduler runs it. Nothing is assumed of users, of Slack's deliveries, of
crashes or of restarts, and a permit may always be taken by somebody else when
the outbox asks for one. In `MemoryOutbox` it is assumed that time passes
(`Due`).

Of child processes nothing is assumed but what the kernel does. In `AcpClient` the
client and its reader go on and the context ends (it has a deadline); `ChildrenEnd`
adds that the agent reads its input, and `acp_cancellation` shows what happens
otherwise. In `CodexShim` the exchange, the drain of the diagnostics, the kill on
cancellation and the steps of the shim are fair, and codex dies when its shim has;
codex itself need never write or exit. A run of a workflow goes on (`RunStep`).

## What is proved

For all values of the constants, from the assumptions named in each module:

- *ConfirmationDelivery*: types; a tool runs at most once (`ToolRunsAtMostOnce`)
  and a committed decision has one handler (`SingleWinner`); verdicts stay; the
  delivery implements `ToolApproval`. `ToolRunsOnce` alone is not inductive: a
  second handler might be about to resume. `OneWinner` says that from the commit
  to the reply a call belongs to one handler, for which nothing has run yet.
  The rest of its run follows: consent, because a handler
  that may decide has looked up what nothing takes back while it runs; recovery,
  because no row is created before the listener starts; the balance of permits,
  counted before and after each step; and the prompts, where each place of a
  handler says what it knows of its row (`Informed`), and a publication knows that
  there is no prompt yet (`OnePrompt`).
- *AssistantExchange*: types; a reply is recorded once, only if posted, is not
  lost once accepted, and is recorded when the turn reports an answer; a start
  leaves nothing behind (`StartRecovers`); the exchange implements
  `RecordedReply`. `IntentTracksTurn` ties the place of a turn to its intent, its
  rows and Slack. `StartCoversAll` says where each reply stands relative to the
  pass of a start: ahead, behind, or beside a twin of its timestamp.
- *BotTurn*: types; the limiter and the pool hold what the running handlers took
  (`LimitersNeverLeak`, by counting the holders before and after each step);
  turns of a conversation are apart; a message is claimed once per lifetime,
  where the invariant says that the row of a claim is there, or its lifetime has
  passed on the clock; no handler outlives the listener; one visible result per
  delivery, where the invariant accounts for the posts and runs at each place of
  a handler; the bot implements `SerialTurns`.
- *MemoryOutbox*: types; a patch is applied once at most, because receipt and
  operations are one transaction; what is settled stays settled, because whoever
  settles an item holds its lease; an item that failed was tried as often as
  configured, because a holder's count of attempts is the row's. For one worker
  (`OneWorker` is an assumption of the theorems): facts are kept, and files show
  what is done, where the invariant follows the snapshot through the renames.
- *IncrementalDelivery* (in `LastingStateProofs`): types; all that its parts of the runs check. Two statements
  about the place of a handler make them inductive (`Fits`): where it holds no
  timestamp and has posted nothing, Slack shows nothing, and where an edit is still
  to come that is not the answer, no answer is there.
- *TurnTools*: all that `tools` checks, from the invariants of its components.
  *CanvasCreation*, *GeneratedFile* and *SandboxAudit* implement `ConfirmedEffect`
  and answers are own. In each, the call that inserted a row owns it (`Owned`,
  `OneUploads`, `OneExecutes`), so no other call may act for the operation or settle
  its row, and the row stays as that call left it when it fails or dies. That an
  operation has one canvas (`OneCanvas`), or begins one file (`BegunOnce`), is needed
  for the answers as well: a second call answers with what the row names.
  *TurnProgress*: `NoStaleProgress` rests on what a handler may rely on for a row
  that no other holds (`HolderFits`) and on the store never being ahead of Slack
  (`RowFits`). Rows that two handlers share are in neither, as in the statement.
- *LastingState*: all that `sessions` checks.
  *AdkSession*: that families never mix, and the refinement of `SessionLog`, come
  from one invariant: whoever holds a copy with the revision of the session has its
  state and, after the last of its reads, its events (`Coherent`). So the append that
  succeeds is one by a turn that has seen the family, though the check came before
  the first event (`OneFamily`).
  *SlackListener*: a message is claimed exactly when it is answered
  (`ClaimsAreAnswers`), the event that carries it stays in hand until then
  (`CarrierKept`), and the stored mode governs all conversations (`ModeKept`).
  *OpenCodeCoordinator*: the coordinator keeps one number for all invocations and
  those nested in them; the invariant counts the operations that hold one and those
  that hold another (`Counted`), so that zero means nobody is anywhere. Then nobody
  moves the executable or the kept version while an upgrade goes on (`Alone`), which
  makes its answer true (`Honest`).
- *ModelPermits*: `NothingLeaks` of `permits`, by instances of the proofs of `BotTurn`.
- *Agents*: all that `agents` checks but its liveness, for all sizes of pipes and
  queues, all configurations and all file systems.
  *AcpClient*: the invariant is about `Coming`, the messages in the queue, in the hand
  of the reader and in the pipe as one sequence. It has at most one response, to the
  last request; before a response to the prompt come all chunks that the client lacks,
  once and in order, and the refusal of an option that is not kept; once the reader has
  given up, nothing need come any more. While the request before the prompt is open,
  the chunks of the answer come behind its response, so that it drops none of them, and
  all those of earlier steps before it, so that none is left for the prompt
  (`ChunksFit`). So whatever is next, the client collects what is of the answer, and can
  have the response only after all of it.
  *AgentCLI*: the host has read a prefix of the lines in order, or has found what puts
  them out of order (`ReadFits`), and the pipe holds the rest (`PipeFits`); what it
  keeps as the answer is then what the definition over all lines gives. *CodexShim*:
  what has been parsed says of the events taken what they say themselves (`TurnFits`),
  and nothing is left in the pipe when the shim concludes (`CodexFits`); the answer it
  writes is the last line, which the host reads if it reads any answer (`LinesFit`).
  *RootTools*: a process that serves has a configuration that a start accepted
  (`ToolsInv`); the proof that it builds goes through both conditions, name by name. Of
  a run the invariant says that nothing is lost from the agenda: what is done, what is
  on it or below what is on it, and what a loop contains are together the whole
  workflow (`AgendaFits`), and only what is inside a loop may be dropped, because
  whatever lies above a loop on the agenda is below it in the workflow (`Nested`).
  *WorkflowDefinition* (`TreesAreRead`): whether a visit succeeds is stated without
  reference to what is read first (`Fits`): the document is not among those read or
  being read, all below it is referred to once, well-formed and apart from them, and
  the limits are kept. A document fits exactly when it is acceptable itself and its
  references fit one after the other, each beside what those before it have added
  (`FitsByChildren`); this needs that what is below two references of a tree is
  disjoint (`ChildrenAreApart`) and, conversely, that disjoint trees below one document
  make a tree (`TreesMakeATree`). `LoadingIsRight` follows by induction on the levels
  left, with another over the references of a document. Both inductions are taken from
  the least element of a set of numbers, which the well-foundedness of inclusion gives
  (`Induction`), and so are the recursive functions (`FunctionUpTo`).
  *FileSandbox* (`FilesAreInside`): following links turns the way to an entry into the
  way to its directory, resolved, with the name appended (`EntryLeads`), so that
  listing, which starts from the resolved directory, and reading, which starts from the
  project, go on with the same way (`SharedWay`, `WayGoesOn`), and what exists at its
  end has no links left to follow (`ResolvedStays`).

A theorem about a composition has three parts: its initial states are those of the
component, each of its steps is a step of the component or leaves it alone, and the
theorem about the component. The last is in the module of the composition or in a
proof module of the component, which is then an instance.

What the proofs take for granted is named in the modules. Sets are finite and limits
positive where the code makes them so; the methods and requests of an exchange are those
of its protocol. Of what an operator configures it is assumed that files hold fields
and lists of names of the kinds their decoders know, that a workflow refers to paths,
and that a directory has finitely many documents (`SetupsAssumption`); nothing is
assumed of what the fields say. Of a file system, that no entry is called "", "." or
".." and that a link is neither a file nor a directory (`FileSystemsAssumption`); it
may have any shape, with entries below nothing, links to links and circles. The depth,
the number of documents and the number of links are any numbers. Two assumptions of `LastingState` are about
the world around it. `DeltasAssumption`: no event writes the reserved key of the
family. Only `ensureSession` does; deltas of events are made by ADK from output keys
of workflows, whose sessions are in memory (`workflow_tools.go:336`).
`MessagesAssumption`: Slack says of a direct message in both the type and the
identifier of the channel that it is one; the router looks at the type for a message
and at the identifier for a mention.

Only model-checked:

- liveness (`HandlersFinish`, `EverythingEnds`, `HandlersReturn`, `ItemsSettle` and
  `ChildrenEnd`), which needs fairness and ENABLED, of which the proof system knows
  nothing. All other properties of the passing runs are theorems;
- the properties of the four runs that show a disagreement, which do not hold.

## Disagreements between code and documentation

The runs `exchange_source`, `turn_busy`, `incremental_conflict` and
`acp_cancellation` show one each, above. Five more came up in modelling and are
excepted where a property would meet them: a progress message whose timestamp
could not be stored, or whose row two handlers shared, is not marked as
interrupted; exports are refused in a threaded direct message after they were
confirmed; tools that need a registered project are accepted at start without one;
the check of tool names does not look at all tools, nor always; and children of the
root agent are given the export tools. The lines are in `PROJECT.json` under
`findings`.

## Not modelled

- What a prompt, an answer or a patch says: rendering in blocks, redaction, the
  rules for fields of a patch. They are text in, text out, and keep no state.
- Which part of a streamed text is safe to show (the carry of the sanitizer), and
  the comparison of the streamed text with the final one: both depend on what the
  text says.
- Recall, enrichment, history and suggested prompts, which only shape the prompt
  of a model or offer a choice, and the conversions of the model adapters.
- What the operations of a patch do to topics, revisions and entities; files under
  two workers, which share one staging directory.
- Listing projects and worktrees and the truncation of long results in the
  sandbox; `Delete` and `List` of sessions, which nothing calls.
- Streaming that is switched off between two starts.
- Migrations, which are SQL text run once, configuration, and the interactive setup
  commands, which run before the program does.
- Redelivery after a handler that failed: a claim is never given back, so the
  message stays unanswered for the lifetime of its keys, and no property promises
  otherwise.

## Plan

What is left, in the order of what it would add:

1. A composition of the turn, the exchange and the outbox, so that a question that
   is answered is learned from once.
2. The effects of a patch on topics and revisions, with two workers that read
   before they write; retention of finished rows.
3. The carry of the incremental sanitizer, against a definition over whole texts.
