------------------------------ MODULE AcpClient ------------------------------
(* One call of Client in adapter/acpclient/client.go: a child process that  *)
(* speaks JSON-RPC over its pipes, a goroutine that reads its output, and   *)
(* the requests of the call, one after the other. The agent answers a       *)
(* request once, if it has read it, and may send anything else at any time, *)
(* stop reading, or exit; the context of the call ends at its timeout at    *)
(* the latest.                                                              *)
EXTENDS Naturals, Sequences

CONSTANTS
    Calls,          \* a subset of {"describe", "probe", "run"}
    Options,        \* how many configuration options are set
    PipeSize,       \* what the pipe to the agent holds in units, the one back in messages
    PromptSize,     \* units a prompt takes; every other message takes one
    QueueSize,      \* the capacity of process.messages
    MaxChunks,      \* bound on the chunks that are the answer's
    MaxExtra        \* bound on the messages that no request asked for

ASSUME OptionsAssumption == Options \in Nat

VARIABLES
    call,           \* the operation
    pc,             \* where the client stands
    method,         \* the request in hand
    applied,        \* how many options are set
    closes,         \* does the agent advertise session/close?
    left, next,     \* what is left to write, and where the client goes then
    input,          \* units in the pipe to the agent
    served,         \* the last request the agent has read, by method and number
    asked,          \* the request the agent has and did not answer, or "none"
    output,         \* messages in the pipe from the agent
    reader,         \* readStdout: <<>>, the message in hand if any, or Finished
    messages,       \* process.messages
    fatal,          \* is an error in process.fatal?
    alive,          \* does the process of the agent run?
    ended,          \* is the context of the call done?
    text,           \* promptCollector.text
    result,         \* "none", "ok" or "error"
    said,           \* chunks the agent has sent that are the answer's (Heard)
    retained,       \* the options as the agent last reported them before its answer
    extra           \* messages that no request asked for

client == <<call, pc, method, applied, closes, left, next, text, result>>
agent == <<served, asked, said, retained, extra>>
vars == <<client, input, output, reader, messages, fatal, alive, ended, agent>>

------------------------------------------------------------------------------
(* Messages. "valid" is whatever makes a response acceptable at all: the    *)
(* version, the identifier, no error, a result of the expected form, and    *)
(* the capability that additional directories need, if there are any. A     *)
(* configuration is the set of the options that have the value asked for;   *)
(* there may be options that have another.                                  *)

Configurations == SUBSET (1..Options)

Responses(m) ==
    CASE m = "initialize" ->
            [kind : {m}, valid : BOOLEAN, close : BOOLEAN]
      [] m = "session/new" ->
            {r \in [kind : {m}, valid : BOOLEAN, config : Configurations, options : BOOLEAN] :
                r.config # {} => r.options}
      [] m = "session/set_config_option" ->
            [kind : {m}, valid : BOOLEAN, config : Configurations]
      [] m = "session/prompt" -> [kind : {m}, valid : BOOLEAN, stop : {"end_turn", "other"}]
      [] m = "session/close" -> [kind : {m}, valid : BOOLEAN]
      [] OTHER -> {}

\* A permission is asked for with one option of the configured kind, or with
\* one thing wrong; a response may answer no request, or one that has its answer.
Permission == [kind |-> "permission", own |-> TRUE, id |-> TRUE, offers |-> 1]

Unasked ==
    [kind : {"config"}, own : {TRUE}, config : Configurations]
    \cup {[kind |-> "config", own |-> FALSE, config |-> {}]}
    \cup {Permission, [Permission EXCEPT !.own = FALSE], [Permission EXCEPT !.id = FALSE],
          [Permission EXCEPT !.offers = 2]}
    \cup [kind : {"method"}, id : BOOLEAN]
    \cup [kind : {"response"}, valid : {FALSE}]
    \cup [kind : {"garbage"}]

Finished == <<[kind |-> "done"]>>

Chunk(n) == [kind |-> "chunk", n |-> n]

Init ==
    /\ call \in Calls
    /\ pc = "start"
    /\ method = "initialize"
    /\ applied = 0
    /\ closes = FALSE
    /\ left = 0
    /\ next = "wait"
    /\ input = 0
    /\ served = <<>>
    /\ asked = "none"
    /\ output = <<>>
    /\ reader = <<>>
    /\ messages = <<>>
    /\ fatal = FALSE
    /\ alive = FALSE
    /\ ended = FALSE
    /\ text = <<>>
    /\ result = "none"
    /\ said = 0
    /\ retained = {}
    /\ extra = 0

------------------------------------------------------------------------------
(* The agent, and the end of the context                                    *)

Send(m) ==
    /\ alive
    /\ Len(output) < PipeSize
    /\ output' = Append(output, m)
    /\ UNCHANGED <<client, input, reader, messages, fatal, alive, ended>>

Respond ==
    /\ asked # "none"
    /\ \E m \in Responses(asked) :
        /\ Send(m)
        /\ retained' = IF m.kind \in {"session/new", "session/set_config_option"}
                       THEN m.config ELSE retained
    /\ asked' = "none"
    /\ UNCHANGED <<served, said, extra>>

\* The agent has answered the prompt.
Answered ==
    /\ served # <<>>
    /\ served[1] \in {"session/prompt", "session/close"}
    /\ asked # "session/prompt"

\* The last request of a run before its prompt.
LastBefore ==
    IF Options = 0 THEN <<"session/new", 0>> ELSE <<"session/set_config_option", Options - 1>>

\* The answer of a run is what the agent says after it answered LastBefore and
\* before it answers the prompt: the client has nowhere to put what it receives
\* before, and what waits when it sends the prompt it takes for the prompt's.
Heard ==
    /\ call = "run"
    /\ asked = "session/prompt" \/ (asked = "none" /\ served = LastBefore)

\* The chunks that are heard are numbered.
Speak ==
    /\ \/ /\ Heard
          /\ said < MaxChunks
          /\ said' = said + 1
          /\ UNCHANGED extra
          /\ Send(Chunk(said + 1))
       \/ /\ ~Heard
          /\ extra < MaxExtra
          /\ extra' = extra + 1
          /\ UNCHANGED said
          /\ Send(Chunk(0))
    /\ UNCHANGED <<served, asked, retained>>

\* A configuration reported once the prompt is answered is no business of it.
Interject ==
    /\ extra < MaxExtra
    /\ extra' = extra + 1
    /\ \E m \in Unasked :
        /\ Send(m)
        /\ retained' = IF m.kind = "config" /\ m.own /\ ~Answered
                       THEN m.config ELSE retained
    /\ UNCHANGED <<served, asked, said>>

\* A request is the agent's when all of it is read.
Read ==
    /\ alive
    /\ input > 0
    /\ input' = input - 1
    /\ IF input = 1 /\ left = 0 /\ served # <<method, applied>>
       THEN asked' = method /\ served' = <<method, applied>>
       ELSE UNCHANGED <<asked, served>>
    /\ UNCHANGED <<client, output, reader, messages, fatal, alive, ended, said, retained, extra>>

Exit ==
    /\ alive
    /\ alive' = FALSE
    /\ UNCHANGED <<client, input, output, reader, messages, fatal, ended, agent>>

StderrExceeds ==
    /\ alive
    /\ extra < MaxExtra
    /\ extra' = extra + 1
    /\ fatal' = TRUE
    /\ UNCHANGED <<client, input, output, reader, messages, alive, ended, served, asked, said,
                   retained>>

EndContext ==
    /\ ~ended
    /\ ended' = TRUE
    /\ UNCHANGED <<client, input, output, reader, messages, fatal, alive, agent>>

------------------------------------------------------------------------------
(* readStdout                                                               *)

Reading == pc # "start" /\ reader = <<>>

\* What does not decode, or is too much, ends the reading.
Decode ==
    /\ Reading
    /\ output # <<>>
    /\ output' = Tail(output)
    /\ IF Head(output).kind = "garbage"
       THEN reader' = Finished /\ fatal' = TRUE
       ELSE reader' = <<Head(output)>> /\ UNCHANGED fatal
    /\ UNCHANGED <<client, input, messages, alive, ended, agent>>

\* The pipe of a process that is gone is closed, perhaps before all is read.
EndOfOutput ==
    /\ Reading
    /\ ~alive
    /\ reader' = Finished
    /\ fatal' = TRUE
    /\ UNCHANGED <<client, input, output, messages, alive, ended, agent>>

\* Mutant: the goroutine delivers its message or waits for ever.
DeliverBlocking ==
    /\ reader \notin {<<>>, Finished}
    /\ Len(messages) < QueueSize
    /\ messages' = Append(messages, reader[1])
    /\ reader' = <<>>
    /\ UNCHANGED <<client, input, output, fatal, alive, ended, agent>>

Deliver ==
    /\ reader \notin {<<>>, Finished}
    /\ \/ /\ Len(messages) < QueueSize
          /\ messages' = Append(messages, reader[1])
          /\ reader' = <<>>
       \/ /\ ended \/ pc = "returned"
          /\ reader' = Finished
          /\ UNCHANGED messages
    /\ UNCHANGED <<client, input, output, fatal, alive, ended, agent>>

Reader == Decode \/ EndOfOutput \/ Deliver

------------------------------------------------------------------------------
(* The client                                                               *)

pipes == <<input, output, reader, fatal, ended, agent>>

\* The client goes on to write size units, and then to a place.
Write(size, place) == pc' = "write" /\ left' = size /\ next' = place

Request(m) ==
    /\ method' = m
    /\ Write(IF m = "session/prompt" THEN PromptSize ELSE 1, "wait")

Reject ==
    /\ result' = "error"
    /\ pc' = "terminate"
    /\ UNCHANGED <<call, method, applied, closes, left, next, text>>

\* How a request fails: a prompt whose context is done is cancelled first.
Fail ==
    IF method = "session/prompt" /\ ended
    THEN /\ result' = "error"
         /\ Write(1, "terminate")
         /\ UNCHANGED <<call, method, applied, closes, text>>
    ELSE Reject

Succeed ==
    /\ result' = "ok"
    /\ pc' = "terminate"
    /\ UNCHANGED <<call, method, applied, closes, left, next, text>>

Start ==
    /\ pc = "start"
    /\ \/ alive' = TRUE /\ Request("initialize") /\ UNCHANGED result
       \/ UNCHANGED <<alive, method, left, next>> /\ pc' = "returned" /\ result' = "error"
    /\ UNCHANGED <<call, applied, closes, text, messages, pipes>>

\* A write waits for room in the pipe, whatever becomes of the context; one to
\* a process that is gone fails.
WriteUnit ==
    /\ pc = "write"
    /\ \/ /\ alive
          /\ input < PipeSize
          /\ input' = input + 1
          /\ left' = left - 1
          /\ pc' = IF left = 1 THEN next ELSE pc
          /\ UNCHANGED <<call, method, applied, closes, next, text, result>>
       \/ /\ ~alive
          /\ left' = 0
          /\ pc' = "terminate"
          /\ result' = "error"
          /\ UNCHANGED <<call, method, applied, closes, next, text, input>>
    /\ UNCHANGED <<output, reader, messages, fatal, alive, ended, agent>>

Interrupted ==
    /\ pc = "wait"
    /\ ended \/ fatal
    /\ Fail
    /\ UNCHANGED <<messages, alive, pipes>>

\* Options are set one by one, then a run prompts and a probe is over.
Configure(k) ==
    IF k < Options THEN Request("session/set_config_option") /\ UNCHANGED result
    ELSE IF call = "run" THEN Request("session/prompt") /\ UNCHANGED result
    ELSE IF closes THEN Request("session/close") /\ UNCHANGED result
    ELSE result' = "ok" /\ pc' = "terminate" /\ UNCHANGED <<method, left, next>>

Initialized(m) ==
    IF call = "describe" THEN Succeed
    ELSE /\ closes' = m.close
         /\ Request("session/new")
         /\ UNCHANGED <<call, applied, text, result>>

\* A run that sets options needs an agent that has options.
Opened(m) ==
    IF call = "run" /\ Options > 0 /\ ~m.options THEN Reject
    ELSE Configure(0) /\ UNCHANGED <<call, applied, closes, text>>

\* Mutant: of the options that are set, the last is verified.
ConfiguredOne(m) ==
    IF applied + 1 \notin m.config THEN Reject
    ELSE /\ applied' = applied + 1
         /\ Configure(applied + 1)
         /\ UNCHANGED <<call, closes, text>>

\* Every option set so far must be retained.
Configured(m) ==
    IF ~(1..(applied + 1) \subseteq m.config) THEN Reject
    ELSE /\ applied' = applied + 1
         /\ Configure(applied + 1)
         /\ UNCHANGED <<call, closes, text>>

Prompted(m) ==
    IF m.stop # "end_turn" \/ text = <<>> THEN Reject
    ELSE IF closes THEN Request("session/close") /\ UNCHANGED <<call, applied, closes, text, result>>
    ELSE Succeed

\* A response that is not valid fails its request, or its result fails the call.
Accept(m) ==
    IF m.kind # method THEN Fail
    ELSE IF ~m.valid THEN Fail \/ Reject
    ELSE CASE m.kind = "initialize" -> Initialized(m)
           [] m.kind = "session/new" -> Opened(m)
           [] m.kind = "session/set_config_option" -> Configured(m)
           [] m.kind = "session/prompt" -> Prompted(m)
           [] m.kind = "session/close" -> Succeed

Ignore == UNCHANGED client

\* An agent that calls a method of the client is told so, and the call fails.
Unsupported(m) ==
    IF m.id THEN /\ result' = "error"
                 /\ Write(1, "terminate")
                 /\ UNCHANGED <<call, method, applied, closes, text>>
    ELSE Ignore

Collect(m) ==
    /\ text' = Append(text, m.n)
    /\ UNCHANGED <<call, pc, method, applied, closes, left, next, result>>

\* promptCollector.handle.
handle(m) ==
    CASE m.kind = "chunk" -> Collect(m)
      [] m.kind = "config" -> IF m.own /\ 1..Options \subseteq m.config THEN Ignore ELSE Fail
      [] m.kind = "permission" ->
            IF ~m.id \/ ~m.own \/ (~ended /\ m.offers # 1) THEN Fail
            ELSE Write(1, "wait") /\ UNCHANGED <<call, method, applied, closes, text, result>>
      [] m.kind = "method" -> Unsupported(m)

\* Mutant: every request collects what the agent says.
UnhandledCollected(m) ==
    IF m.kind \in {"permission", "method"} THEN Unsupported(m)
    ELSE IF m.kind = "chunk" THEN Collect(m) ELSE Ignore

\* Only a prompt has a handler for what is not its response; elsewhere a
\* request of the agent is an error and a notification is nothing.
Unhandled(m) == IF m.kind \in {"permission", "method"} THEN Unsupported(m) ELSE Ignore

Receive ==
    /\ pc = "wait"
    /\ messages # <<>>
    /\ messages' = Tail(messages)
    /\ LET m == Head(messages)
       IN  IF m.kind \notin {"chunk", "config", "permission", "method"} THEN Accept(m)
           ELSE IF method = "session/prompt" THEN handle(m)
           ELSE Unhandled(m)
    /\ UNCHANGED <<alive, pipes>>

\* terminate: the process ends by itself when its input is closed, or it is
\* killed, at once or after a grace, and is waited for.
Terminate ==
    /\ pc = "terminate"
    /\ alive' = FALSE
    /\ pc' = "returned"
    /\ UNCHANGED <<call, method, applied, closes, left, next, text, result, messages, pipes>>

Client == Start \/ WriteUnit \/ Interrupted \/ Receive \/ Terminate

Agent == Respond \/ Speak \/ Interject \/ Read \/ Exit \/ StderrExceeds

Next == Client \/ Reader \/ Agent \/ EndContext

\* The goroutines go on, and the context has a deadline; the agent need do
\* nothing.
Spec == Init /\ [][Next]_vars /\ WF_vars(Client) /\ WF_vars(Reader) /\ WF_vars(EndContext)

\* An agent that reads its input.
ReadingSpec == Spec /\ WF_vars(Read)

------------------------------------------------------------------------------
(* Properties                                                               *)

\* The variables keep their types.
TypeOK ==
    /\ pc \in {"start", "write", "wait", "terminate", "returned"}
    /\ method \in {"initialize", "session/new", "session/set_config_option",
                   "session/prompt", "session/close"}
    /\ applied \in 0..Options
    /\ input \in 0..PipeSize
    /\ Len(messages) <= QueueSize
    /\ result \in {"none", "ok", "error"}

\* A run that succeeds returns what the agent said between its last answer
\* before the prompt and its answer to the prompt, all of it, in order and
\* nothing said earlier or later, through a pipe, a goroutine and a channel that
\* lose what comes too late, and every option of the profile held when the
\* answer was given, by the agent's own last word (request, prompt, handleUpdate,
\* verifyConfigState).
AnswerIsWhole ==
    result = "ok" /\ call = "run" =>
        /\ text = [i \in 1..said |-> i]
        /\ 1..Options \subseteq retained

\* The client, its process and its goroutine are done: nothing is left that
\* could make the goroutine wait.
Over ==
    /\ pc = "returned" /\ ~alive
    /\ reader = Finished \/ (reader = <<>> /\ output = <<>>)

\* With an agent that reads its input every call returns, whatever the agent
\* says or fails to say, and leaves no process and no goroutine that waits for
\* ever (request, terminate, readStdout).
CallEnds == <>Over

\* The end of the context kills the process.
CancellationKillsProcess == ended ~> ~alive
=============================================================================
