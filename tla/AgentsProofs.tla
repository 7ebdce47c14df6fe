---------------------------- MODULE AgentsProofs ----------------------------
(* What Agents promises, proved: the call of an agent that speaks ACP, the  *)
(* exchange with a shim, whatever the shim does, the shim of codex, the      *)
(* configuration of agents and the runs of workflows, and all of them        *)
(* together.                                                                 *)
EXTENDS Agents, SequenceTheorems, FiniteSetTheorems, WellFoundedInduction, TLAPS

------------------------------------------------------------------------------
(* The inductive invariant of a call                                         *)

\* The requests of a call, in their order.
MethodNames == {"initialize", "session/new", "session/set_config_option", "session/prompt",
                "session/close"}

\* What the agent has sent and the client may still receive, in order.
Coming == messages \o (IF reader = Finished THEN <<>> ELSE reader \o output)

\* What the agent may send.
Spoken ==
    (UNION {Responses(m) : m \in MethodNames}) \cup Unasked \cup [kind : {"chunk"}, n : Nat]

\* The type invariant of a call.
AcpTyped ==
    /\ messages \in Seq(Spoken) /\ output \in Seq(Spoken)
    /\ reader \in {<<>>, Finished} \/ \E m \in Spoken : reader = <<m>>
    /\ method \in MethodNames /\ next \in {"wait", "terminate"}
    /\ applied \in 0..Options
    /\ text \in Seq(Nat) /\ said \in Nat
    /\ asked \in {"none"} \cup MethodNames
    /\ served \in {<<>>} \cup (MethodNames \X (0..Options))
    /\ result \in {"none", "ok", "error"}

\* What can be under way: a response, a chunk of the answer (0 when it is of none),
\* a report that lacks an option; and the state of the call that waits for it.
IsResponse(i) == Coming[i].kind \in MethodNames
IsChunk(i, n) == Coming[i].kind = "chunk" /\ Coming[i].n = n
Refused(i) == Coming[i].kind = "config" /\ ~(Coming[i].own /\ 1..Options \subseteq Coming[i].config)
Prompting == method = "session/prompt" /\ result = "none"
Opening == call = "run" /\ <<method, applied>> = LastBefore /\ result = "none"
Hearing == Prompting \/ Opening
Lossless == reader # Finished
Kept == 1..Options \subseteq retained

\* The requests of the client, and the last that the agent has.
RequestsFit ==
    /\ pc = "start" => method = "initialize"
    /\ pc \in {"start", "wait"} \/ (pc = "write" /\ next = "wait") => result = "none"
    /\ method \in {"initialize", "session/new"} => applied = 0
    /\ method = "session/set_config_option" /\ result = "none" => applied < Options
    /\ asked # "none" => asked = method /\ served = <<method, applied>>
    /\ served # <<>> => /\ served[1] = "session/close" => method = "session/close"
                        /\ served[1] = "session/prompt" =>
                               method = "session/close" \/ served = <<method, applied>>
    /\ call = "run" /\ served = LastBefore =>
           served = <<method, applied>> \/ method \in {"session/prompt", "session/close"}
    /\ method = "session/prompt" => served = LastBefore \/ served = <<method, applied>>

\* The text of the client is a prefix of what was said.
TextFits ==
    /\ Len(text) <= said
    /\ text = [i \in 1..Len(text) |-> i]
    /\ Len(text) > 0 => method \in {"session/prompt", "session/close"}
    /\ said > 0 => /\ call = "run"
                   /\ \/ method \in {"session/prompt", "session/close"}
                      \/ asked = "none" /\ served = <<method, applied>> /\ served = LastBefore

\* A prompt that is answered was answered with all of it.
AnswerFits ==
    /\ method = "session/close" \/ (method = "session/prompt" /\ result = "ok") =>
           /\ Len(text) = said
           /\ asked # "session/prompt"
           /\ call = "run" => Kept /\ Answered
    /\ method = "session/prompt" => call = "run"
    /\ call = "run" /\ result = "ok" => method \in {"session/prompt", "session/close"}

\* A response is to the last request, is the only one, and comes.
ResponseFits ==
    \A i \in DOMAIN Coming : IsResponse(i) =>
        asked = "none" /\ served = <<method, applied>> /\ Coming[i].kind = method

\* No request is answered twice.
OneResponse == \A i, j \in DOMAIN Coming : IsResponse(i) /\ IsResponse(j) => i = j

\* A request that the agent has taken is answered while the reader reads on.
ResponseComes ==
    served = <<method, applied>> /\ asked = "none" /\ result = "none" /\ Lossless =>
        \E i \in DOMAIN Coming : IsResponse(i)

\* A chunk that is not the answer's comes after the response to the prompt; when
\* the request before the prompt is in hand, before the response to that one,
\* and all others after it.
After(i) == \E j \in 1..(i - 1) : IsResponse(j)

ChunksFit ==
    /\ Prompting => \A i \in DOMAIN Coming : IsChunk(i, 0) => After(i)
    /\ Opening => \A i \in DOMAIN Coming, n \in Nat : IsChunk(i, n) => (n # 0 <=> After(i))

\* The other chunks are under way in order, from the end of the text on, and
\* all of them before the response to the prompt.
ChunksSaid == \A i \in DOMAIN Coming, n \in Nat : IsChunk(i, n) => n <= said

ChunksFollow ==
    Hearing => \A i \in DOMAIN Coming, n \in Nat \ {0} : IsChunk(i, n) =>
        /\ n > Len(text)
        /\ \A k \in (Len(text) + 1)..n : \E j \in 1..i : IsChunk(j, k)
        /\ \A j \in 1..(i - 1), k \in Nat : IsChunk(j, k) => k < n

ChunksCome ==
    Hearing /\ Lossless => \A k \in (Len(text) + 1)..said : \E j \in DOMAIN Coming : IsChunk(j, k)

ChunksPrecede ==
    Prompting => \A i \in DOMAIN Coming : IsResponse(i) =>
        \A k \in (Len(text) + 1)..said : \E j \in 1..(i - 1) : IsChunk(j, k)

\* Options that are not kept are refused by the client before it has the
\* response to the prompt.
RefusalComes == Prompting /\ Lossless => Kept \/ \E j \in DOMAIN Coming : Refused(j)

RefusalPrecedes ==
    Prompting => \A i \in DOMAIN Coming : IsResponse(i) =>
        Kept \/ \E j \in 1..(i - 1) : Refused(j)

\* What an agent reports in a response it retains, or reports once more.
ReportFits ==
    Lossless => \A i \in DOMAIN Coming :
        Coming[i].kind \in {"session/new", "session/set_config_option"} =>
            \/ retained = Coming[i].config
            \/ \E j \in (i + 1)..Len(Coming) :
                 Coming[j].kind = "config" /\ Coming[j].own /\ Coming[j].config = retained

\* The inductive invariant of a call: how what is under way fits the request that
\* waits, what was said, and what the agent has retained.
AcpInv ==
    /\ AcpTyped
    /\ RequestsFit /\ TextFits /\ AnswerFits
    /\ ResponseFits /\ OneResponse /\ ResponseComes
    /\ ChunksFit /\ ChunksSaid /\ ChunksFollow /\ ChunksCome /\ ChunksPrecede
    /\ RefusalComes /\ RefusalPrecedes /\ ReportFits

------------------------------------------------------------------------------
(* Sequences of messages                                                     *)

\* A sequence of one element.
LEMMA Singleton ==
    ASSUME NEW S, NEW e \in S
    PROVE  <<e>> \in Seq(S) /\ Len(<<e>>) = 1 /\ <<e>>[1] = e
OBVIOUS

\* Sending appends to all that is under way.
LEMMA AppendToLast ==
    ASSUME NEW S, NEW e \in S, NEW a \in Seq(S), NEW b \in Seq(S), NEW c \in Seq(S)
    PROVE  a \o (b \o Append(c, e)) = Append(a \o (b \o c), e)
<1>1. <<e>> \in Seq(S) /\ b \o c \in Seq(S) /\ a \o (b \o c) \in Seq(S)
  BY Singleton, ConcatProperties
<1>2. Append(c, e) = c \o <<e>>
  BY AppendIsConcat
<1>3. b \o (c \o <<e>>) = (b \o c) \o <<e>>
  BY <1>1, ConcatAssociative
<1>4. a \o ((b \o c) \o <<e>>) = (a \o (b \o c)) \o <<e>>
  BY <1>1, ConcatAssociative
<1>5. Append(a \o (b \o c), e) = (a \o (b \o c)) \o <<e>>
  BY <1>1, AppendIsConcat
<1> QED BY <1>2, <1>3, <1>4, <1>5

\* An element in the hand of the reader moves on without a change of the whole.
LEMMA AppendMovesOn ==
    ASSUME NEW S, NEW e \in S, NEW a \in Seq(S), NEW b \in Seq(S)
    PROVE  Append(a, e) \o (<<>> \o b) = a \o (<<e>> \o b)
<1>1. <<e>> \in Seq(S)
  BY Singleton
<1>2. <<>> \o b = b
  BY ConcatEmptySeq
<1>3. Append(a, e) = a \o <<e>>
  BY AppendIsConcat
<1>4. (a \o <<e>>) \o b = a \o (<<e>> \o b)
  BY <1>1, ConcatAssociative
<1> QED BY <1>2, <1>3, <1>4

\* The same when the reader takes it.
LEMMA HeadMovesOn ==
    ASSUME NEW S, NEW b \in Seq(S), b # <<>>
    PROVE  <<>> \o b = <<Head(b)>> \o Tail(b)
BY HeadTailProperties, ConcatEmptySeq

\* Receiving takes the first of all that is under way.
LEMMA TailOfFirst ==
    ASSUME NEW S, NEW a \in Seq(S), NEW b \in Seq(S), a # <<>>
    PROVE  /\ Len(a \o b) > 0 /\ (a \o b)[1] = Head(a)
           /\ Len(Tail(a) \o b) = Len(a \o b) - 1
           /\ \A i \in 1..(Len(a \o b) - 1) : (Tail(a) \o b)[i] = (a \o b)[i + 1]
OBVIOUS

------------------------------------------------------------------------------
(* What is under way                                                         *)

\* A response is of the kind of its request.
LEMMA ResponseKind ==
    \A k \in MethodNames : \A m \in Responses(k) : m.kind = k /\ m \in Spoken
<1> SUFFICES ASSUME NEW k \in MethodNames, NEW m \in Responses(k)
             PROVE  m.kind = k
  BY DEF Spoken
<1>1. CASE k = "initialize"
  BY <1>1 DEF Responses
<1>2. CASE k = "session/new"
  BY <1>2 DEF Responses
<1>3. CASE k = "session/set_config_option"
  BY <1>3 DEF Responses
<1>4. CASE k = "session/prompt"
  BY <1>4 DEF Responses
<1>5. CASE k = "session/close"
  BY <1>5 DEF Responses
<1> QED BY <1>1, <1>2, <1>3, <1>4, <1>5 DEF MethodNames

\* What is sent unasked answers no request.
LEMMA UnaskedKind ==
    \A m \in Unasked : m.kind \in {"config", "permission", "method", "response", "garbage"}
<1> SUFFICES ASSUME NEW m \in Unasked
             PROVE  m.kind \in {"config", "permission", "method", "response", "garbage"}
  OBVIOUS
<1>1. CASE m \in [kind : {"config"}, own : {TRUE}, config : Configurations]
  BY <1>1
<1>2. CASE m \in {[kind |-> "config", own |-> FALSE, config |-> {}]}
  BY <1>2
<1>3. CASE m \in {Permission, [Permission EXCEPT !.own = FALSE], [Permission EXCEPT !.id = FALSE],
                  [Permission EXCEPT !.offers = 2]}
  BY <1>3 DEF Permission
<1>4. CASE m \in [kind : {"method"}, id : BOOLEAN]
  BY <1>4
<1>5. CASE m \in [kind : {"response"}, valid : {FALSE}]
  BY <1>5
<1>6. CASE m \in [kind : {"garbage"}]
  BY <1>6
<1> QED BY <1>1, <1>2, <1>3, <1>4, <1>5, <1>6, Zenon DEF Unasked

\* The kinds of messages, and that none of them is the end of the output.
LEMMA SpokenFacts ==
    \A m \in Spoken :
        /\ m.kind \in MethodNames \cup {"chunk", "config", "permission", "method", "response",
                                       "garbage"}
        /\ m.kind = "chunk" => m.n \in Nat
        /\ <<m>> # Finished /\ <<m>> # <<>>
<1> SUFFICES ASSUME NEW m \in Spoken
             PROVE  /\ m.kind \in MethodNames \cup {"chunk", "config", "permission", "method",
                           "response", "garbage"}
                    /\ m.kind = "chunk" => m.n \in Nat
                    /\ <<m>> # Finished /\ <<m>> # <<>>
  OBVIOUS
<1>1. CASE m \in [kind : {"chunk"}, n : Nat]
  BY <1>1 DEF Finished
<1>2. CASE m \in Unasked
  <2>1. m.kind \in {"config", "permission", "method", "response", "garbage"}
    BY <1>2, UnaskedKind
  <2> QED BY <2>1 DEF Finished
<1>3. CASE \E k \in MethodNames : m \in Responses(k)
  <2>1. m.kind \in MethodNames
    BY <1>3, ResponseKind
  <2> QED BY <2>1 DEF Finished, MethodNames
<1> QED
  <2>1. \/ m \in [kind : {"chunk"}, n : Nat] \/ m \in Unasked
        \/ \E k \in MethodNames : m \in Responses(k)
    BY Zenon DEF Spoken
  <2> QED BY <2>1, <1>1, <1>2, <1>3

\* What is sent unasked, and every chunk, is a message of the agent.
LEMMA UnaskedIsSpoken ==
    /\ \A m \in Unasked :
           m \in Spoken /\ m.kind \in {"config", "permission", "method", "response", "garbage"}
    /\ \A n \in Nat : Chunk(n) \in Spoken /\ Chunk(n).kind = "chunk" /\ Chunk(n).n = n
<1>1. \A m \in Unasked : m \in Spoken
  BY Zenon DEF Spoken
<1>2. \A m \in Unasked : m.kind \in {"config", "permission", "method", "response", "garbage"}
  BY UnaskedKind
<1>3. \A n \in Nat : Chunk(n) \in Spoken
  <2>1. \A n \in Nat : Chunk(n) \in [kind : {"chunk"}, n : Nat]
    BY DEF Chunk
  <2> QED BY <2>1, Zenon DEF Spoken
<1> QED BY <1>1, <1>2, <1>3 DEF Chunk

\* What is under way is a sequence of what was said.
LEMMA ComingFacts ==
    AcpTyped => /\ Coming \in Seq(Spoken) /\ Len(Coming) \in Nat /\ DOMAIN Coming = 1..Len(Coming)
                /\ \A i \in 1..Len(Coming) : Coming[i] \in Spoken
<1> SUFFICES ASSUME AcpTyped
             PROVE  /\ Coming \in Seq(Spoken) /\ Len(Coming) \in Nat
                    /\ DOMAIN Coming = 1..Len(Coming)
                    /\ \A i \in 1..Len(Coming) : Coming[i] \in Spoken
  OBVIOUS
<1>1. <<>> \in Seq(Spoken)
  BY EmptySeq
<1>2. reader # Finished => reader \in Seq(Spoken)
  BY <1>1, Singleton DEF AcpTyped
<1>3. Coming \in Seq(Spoken)
  <2>1. reader # Finished => reader \o output \in Seq(Spoken)
    BY <1>2, ConcatProperties DEF AcpTyped
  <2> QED BY <1>1, <2>1, ConcatProperties DEF AcpTyped, Coming
<1> QED BY <1>3, LenProperties, ElementOfSeq

\* What is sent is the last under way, or lost when the reader has finished.
LEMMA SentComes ==
    ASSUME AcpTyped, NEW m \in Spoken, Send(m)
    PROVE  /\ Lossless' = Lossless /\ output' \in Seq(Spoken)
           /\ ~Lossless => Coming' = Coming
           /\ Lossless => /\ Len(Coming') = Len(Coming) + 1
                          /\ DOMAIN Coming' = 1..(Len(Coming) + 1)
                          /\ \A i \in 1..Len(Coming) : Coming'[i] = Coming[i]
                          /\ Coming'[Len(Coming) + 1] = m
<1>1. output' = Append(output, m) /\ messages' = messages /\ reader' = reader
  BY DEF Send
<1>2. output' \in Seq(Spoken) /\ Lossless' = Lossless
  BY <1>1 DEF AcpTyped, Lossless
<1>3. CASE ~Lossless
  BY <1>1, <1>2, <1>3 DEF Coming, Lossless
<1>4. CASE Lossless
  <2>1. reader \in Seq(Spoken) /\ Coming = messages \o (reader \o output)
    BY <1>4, Singleton, EmptySeq DEF AcpTyped, Coming, Lossless
  <2>2. Coming' = messages \o (reader \o Append(output, m))
    BY <1>1, <1>4 DEF Coming, Lossless
  <2>3. Coming' = Append(Coming, m)
    <3>1. messages \in Seq(Spoken) /\ output \in Seq(Spoken)
      BY DEF AcpTyped
    <3>2. /\ m \in Spoken /\ messages \in Seq(Spoken)
          /\ reader \in Seq(Spoken) /\ output \in Seq(Spoken)
      BY <2>1, <3>1
    <3>3. messages \o (reader \o Append(output, m)) = Append(messages \o (reader \o output), m)
      BY <3>2, AppendToLast, SMTT(40)
    <3> QED BY <2>1, <2>2, <3>3
  <2> QED BY <1>2, <1>4, <2>3, ComingFacts, AppendProperties, LenProperties
<1> QED BY <1>2, <1>3, <1>4

\* What is received was the first under way.
LEMMA ReceivedWasComing ==
    ASSUME AcpTyped, messages # <<>>, messages' = Tail(messages), UNCHANGED <<reader, output>>
    PROVE  /\ Lossless' = Lossless /\ messages' \in Seq(Spoken)
           /\ Len(Coming) > 0 /\ Coming[1] = Head(messages) /\ Coming[1] \in Spoken
           /\ Len(Coming') = Len(Coming) - 1 /\ DOMAIN Coming' = 1..(Len(Coming) - 1)
           /\ \A i \in 1..(Len(Coming) - 1) : Coming'[i] = Coming[i + 1]
<1>1. messages' \in Seq(Spoken) /\ Head(messages) \in Spoken /\ Lossless' = Lossless
  BY HeadTailProperties DEF AcpTyped, Lossless
<1> DEFINE rest == IF reader = Finished THEN <<>> ELSE reader \o output
<1>2. rest \in Seq(Spoken)
  <2>1. CASE reader = Finished
    BY <2>1, EmptySeq
  <2>2. CASE reader # Finished
    <3>1. reader \in Seq(Spoken)
      BY <2>2, Singleton, EmptySeq DEF AcpTyped
    <3> QED BY <2>2, <3>1, ConcatProperties DEF AcpTyped
  <2> QED BY <2>1, <2>2
<1>3. Coming = messages \o rest /\ Coming' = Tail(messages) \o rest
  BY DEF Coming
<1> HIDE DEF rest
<1>4. /\ Len(Coming) > 0 /\ Coming[1] = Head(messages)
      /\ Len(Coming') = Len(Coming) - 1
      /\ \A i \in 1..(Len(Coming) - 1) : Coming'[i] = Coming[i + 1]
  BY <1>2, <1>3, TailOfFirst DEF AcpTyped
<1>5. Coming' \in Seq(Spoken)
  BY <1>1, <1>2, <1>3, ConcatProperties
<1> QED BY <1>1, <1>4, <1>5, LenProperties

\* The reader passes on what it reads, or reads no more.
LEMMA ReaderPasses ==
    ASSUME AcpTyped, Reader
    PROVE  /\ AcpTyped'
           /\ \/ Coming' = Coming /\ Lossless' = Lossless
              \/ /\ ~Lossless'
                 /\ Len(Coming') <= Len(Coming) /\ DOMAIN Coming' = 1..Len(Coming')
                 /\ \A i \in DOMAIN Coming' : i \in DOMAIN Coming /\ Coming'[i] = Coming[i]
<1> USE DEF AcpTyped, client, agent
<1>1. ASSUME reader' = Finished, messages' = messages, Lossless
      PROVE  /\ ~Lossless'
             /\ Len(Coming') <= Len(Coming) /\ DOMAIN Coming' = 1..Len(Coming')
             /\ \A i \in DOMAIN Coming' : i \in DOMAIN Coming /\ Coming'[i] = Coming[i]
  <2>1. Coming' = messages /\ ~Lossless'
    BY <1>1 DEF Coming, Lossless
  <2>2. reader \in Seq(Spoken) /\ Coming = messages \o (reader \o output)
    BY <1>1, Singleton, EmptySeq, ZenonT(30) DEF Coming, Lossless
  <2>3. reader \o output \in Seq(Spoken)
    BY <2>2, ConcatProperties
  <2>4. /\ Len(Coming) = Len(messages) + Len(reader \o output)
        /\ Len(messages) \in Nat /\ Len(reader \o output) \in Nat
        /\ DOMAIN Coming = 1..Len(Coming) /\ DOMAIN messages = 1..Len(messages)
    BY <2>2, <2>3, ConcatProperties, LenProperties, ComingFacts
  <2>5. \A i \in 1..Len(messages) : Coming[i] = messages[i]
    BY <2>2, <2>3, <2>4, ConcatProperties
  <2> QED BY <2>1, <2>4, <2>5
<1>2. CASE Decode
  <2>1. reader = <<>> /\ output # <<>> /\ output' = Tail(output) /\ messages' = messages
    BY <1>2 DEF Decode, Reading
  <2>2. Head(output) \in Spoken /\ Tail(output) \in Seq(Spoken) /\ Lossless
    <3>1. Lossless
      BY <2>1 DEF Lossless, Finished
    <3>2. output \in Seq(Spoken)
      OBVIOUS
    <3> QED BY <2>1, <3>1, <3>2, HeadTailProperties
  <2>3. CASE reader' = Finished
    BY <1>1, <1>2, <2>1, <2>2, <2>3 DEF Decode
  <2>4. CASE reader' = <<Head(output)>>
    <3>1. reader' # Finished
      BY <2>2, <2>4, SpokenFacts
    <3>2. /\ Coming = messages \o (<<>> \o output)
          /\ Coming' = messages \o (<<Head(output)>> \o Tail(output))
      BY <2>1, <2>2, <2>4, <3>1 DEF Coming, Lossless
    <3>3. <<>> \o output = <<Head(output)>> \o Tail(output)
      BY <2>1
    <3> QED BY <1>2, <2>1, <2>2, <2>4, <3>1, <3>2, <3>3 DEF Decode, Lossless
  <2> QED BY <1>2, <2>3, <2>4 DEF Decode
<1>3. CASE EndOfOutput
  <2>1. Lossless
    BY <1>3 DEF EndOfOutput, Reading, Lossless, Finished
  <2> QED BY <1>1, <1>3, <2>1 DEF EndOfOutput
<1>4. CASE Deliver
  <2>1. PICK m \in Spoken : reader = <<m>>
    BY <1>4 DEF Deliver
  <2>2. Lossless /\ reader[1] = m
    BY <1>4, <2>1 DEF Deliver, Lossless
  <2>3. CASE reader' = Finished /\ messages' = messages
    BY <1>1, <1>4, <2>2, <2>3 DEF Deliver
  <2>4. CASE messages' = Append(messages, m) /\ reader' = <<>>
    <3>1. Lossless' /\ Coming' = Append(messages, m) \o (<<>> \o output)
      BY <1>4, <2>4 DEF Deliver, Coming, Lossless, Finished
    <3>2. Coming = messages \o (<<m>> \o output)
      BY <2>1, <2>2 DEF Coming, Lossless
    <3>3. Append(messages, m) \o (<<>> \o output) = messages \o (<<m>> \o output)
      BY <2>1
    <3> QED BY <1>4, <2>2, <2>4, <3>1, <3>2, <3>3 DEF Deliver
  <2> QED BY <1>4, <2>2, <2>3, <2>4 DEF Deliver
<1> QED BY <1>2, <1>3, <1>4 DEF Reader

------------------------------------------------------------------------------
(* The steps of a call                                                       *)

\* The length of what is under way, and of the text.
LEMMA LenIsNat ==
    AcpTyped => Len(Coming) \in Nat /\ DOMAIN Coming = 1..Len(Coming) /\ Len(text) \in Nat
BY ComingFacts DEF AcpTyped

\* What is lost or stays under way, while nothing else changes.
LEMMA LossKeeps ==
    ASSUME AcpInv, AcpTyped', UNCHANGED <<client, agent>>, Lossless' =>
           Coming' = Coming /\ Lossless,
           Len(Coming') <= Len(Coming), \A i \in 1..Len(Coming') : Coming'[i] = Coming[i]
    PROVE  AcpInv'
<1>1. /\ Len(Coming) \in Nat /\ DOMAIN Coming = 1..Len(Coming) /\ Len(text) \in Nat
      /\ Len(Coming') \in Nat /\ DOMAIN Coming' = 1..Len(Coming')
      /\ \A i \in DOMAIN Coming' : i \in DOMAIN Coming
  <2>1. AcpTyped
    BY DEF AcpInv
  <2>2. (AcpTyped => Len(Coming) \in Nat /\ DOMAIN Coming = 1..Len(Coming) /\ Len(text) \in Nat)'
    BY LenIsNat, PTL
  <2> QED BY <2>1, <2>2, LenIsNat
<1>2. \A i \in 1..Len(Coming') :
          /\ IsResponse(i)' <=> IsResponse(i)
          /\ Refused(i)' <=> Refused(i)
          /\ \A n \in Nat : IsChunk(i, n)' <=> IsChunk(i, n)
  BY DEF IsResponse, Refused, IsChunk
<1> USE DEF client, agent
<1>3. RequestsFit' /\ TextFits' /\ AnswerFits'
  BY DEF AcpInv, RequestsFit, TextFits, AnswerFits, Kept, Answered
<1>4. ResponseFits' /\ OneResponse'
  BY <1>1, <1>2 DEF AcpInv, ResponseFits, OneResponse
<1>5. ResponseComes'
  BY <1>1, <1>2 DEF AcpInv, ResponseComes
<1>6. ChunksFit'
  BY <1>1, <1>2 DEF AcpInv, ChunksFit, After, Prompting, Opening
<1>7. ChunksSaid'
  BY <1>1, <1>2 DEF AcpInv, ChunksSaid
<1>8. ChunksFollow'
  <2> SUFFICES ASSUME Hearing', NEW i \in 1..Len(Coming'), NEW n \in Nat \ {0}, IsChunk(i, n)'
               PROVE  /\ n > Len(text')
                      /\ \A k \in (Len(text') + 1)..n : \E j \in 1..i : IsChunk(j, k)'
                      /\ \A j \in 1..(i - 1), k \in Nat : IsChunk(j, k)' => k < n
    BY <1>1 DEF ChunksFollow
  <2>1. Hearing /\ i \in DOMAIN Coming /\ IsChunk(i, n) /\ text' = text
    BY <1>1, <1>2 DEF Hearing, Prompting, Opening
  <2>2. /\ n > Len(text)
        /\ \A k \in (Len(text) + 1)..n : \E j \in 1..i : IsChunk(j, k)
        /\ \A j \in 1..(i - 1), k \in Nat : IsChunk(j, k) => k < n
    BY <2>1 DEF AcpInv, ChunksFollow
  <2>3. \A k \in (Len(text) + 1)..n : k \in Nat
    BY <1>1
  <2>4. \A j \in 1..i, k \in Nat : IsChunk(j, k)' <=> IsChunk(j, k)
    BY <1>1, <1>2
  <2>5. \A k \in (Len(text') + 1)..n : \E j \in 1..i : IsChunk(j, k)'
    BY <2>1, <2>2, <2>3, <2>4
  <2>6. \A j \in 1..(i - 1), k \in Nat : IsChunk(j, k)' => k < n
    BY <2>2, <2>4
  <2> QED BY <2>1, <2>2, <2>5, <2>6
<1>9. ChunksCome'
  BY <1>1, <1>2 DEF AcpInv, ChunksCome, Hearing, Prompting, Opening
<1>10. ChunksPrecede'
  BY <1>1, <1>2 DEF AcpInv, ChunksPrecede, Prompting
<1>11. RefusalComes' /\ RefusalPrecedes'
  BY <1>1, <1>2 DEF AcpInv, RefusalComes, RefusalPrecedes, Prompting, Kept
<1>12. ReportFits'
  BY <1>1, <1>2 DEF AcpInv, ReportFits
<1> QED BY <1>3, <1>4, <1>5, <1>6, <1>7, <1>8, <1>9, <1>10, <1>11, <1>12 DEF AcpInv

\* The reader of the output passes on or loses what is under way.
LEMMA ReaderKeeps == ASSUME AcpInv, Reader PROVE AcpInv'
<1>1. UNCHANGED <<client, agent>>
  BY DEF Reader, Decode, EndOfOutput, Deliver
<1>2. /\ AcpTyped'
      /\ \/ Coming' = Coming /\ Lossless' = Lossless
         \/ /\ ~Lossless'
            /\ Len(Coming') <= Len(Coming) /\ DOMAIN Coming' = 1..Len(Coming')
            /\ \A i \in DOMAIN Coming' : i \in DOMAIN Coming /\ Coming'[i] = Coming[i]
  BY ReaderPasses DEF AcpInv
<1>3. Len(Coming) \in Nat
  BY LenIsNat DEF AcpInv
<1> QED BY <1>1, <1>2, <1>3, LossKeeps

\* What is said is the last that comes, unless the client reads no more.
LEMMA SaidLast ==
    ASSUME AcpInv, NEW m \in Spoken, Send(m), NEW N \in Nat, N = Len(Coming)
    PROVE  /\ UNCHANGED client /\ Lossless' = Lossless
           /\ messages' \in Seq(Spoken) /\ output' \in Seq(Spoken) /\ reader' = reader
           /\ DOMAIN Coming = 1..N /\ Len(text) \in Nat
           /\ Len(Coming') = IF Lossless THEN N + 1 ELSE N
           /\ \A i \in DOMAIN Coming' :
                 i \in Nat /\ 1..(i - 1) \subseteq 1..N /\ (i \in 1..N \/ (i = N + 1 /\ Lossless))
           /\ 1..N \subseteq DOMAIN Coming'
           /\ \A i \in 1..N :
                 /\ Coming'[i] = Coming[i]
                 /\ IsResponse(i)' <=> IsResponse(i)
                 /\ Refused(i)' <=> Refused(i)
                 /\ \A n \in Nat : IsChunk(i, n)' <=> IsChunk(i, n)
           /\ Lossless => /\ Coming'[N + 1] = m /\ N + 1 \in DOMAIN Coming'
                          /\ IsResponse(N + 1)' <=> m.kind \in MethodNames
                          /\ \A n \in Nat : IsChunk(N + 1, n)' <=> m.kind = "chunk" /\ m.n = n
                          /\ Refused(N + 1)' <=>
                               m.kind = "config" /\ ~(m.own /\ 1..Options \subseteq m.config)
<1>1. AcpTyped
  BY DEF AcpInv
<1>2. /\ UNCHANGED client /\ Lossless' = Lossless
      /\ messages' \in Seq(Spoken) /\ output' \in Seq(Spoken) /\ reader' = reader
  BY <1>1, SentComes DEF Send, AcpTyped
<1>3. DOMAIN Coming = 1..N /\ Len(text) \in Nat
  BY <1>1, LenIsNat
<1>4. /\ Len(Coming') = IF Lossless THEN N + 1 ELSE N
      /\ DOMAIN Coming' = IF Lossless THEN 1..(N + 1) ELSE 1..N
      /\ \A i \in 1..N : Coming'[i] = Coming[i]
      /\ Lossless => Coming'[N + 1] = m
  BY <1>1, <1>3, SentComes
<1>5. \A i \in 1..N : /\ IsResponse(i)' <=> IsResponse(i)
                      /\ Refused(i)' <=> Refused(i)
                      /\ \A n \in Nat : IsChunk(i, n)' <=> IsChunk(i, n)
  BY <1>4 DEF IsResponse, Refused, IsChunk
<1>6. ASSUME Lossless
      PROVE  /\ IsResponse(N + 1)' <=> m.kind \in MethodNames
             /\ \A n \in Nat : IsChunk(N + 1, n)' <=> m.kind = "chunk" /\ m.n = n
             /\ Refused(N + 1)' <=> m.kind = "config" /\ ~(m.own /\ 1..Options \subseteq m.config)
  <2>1. Coming'[N + 1] = m
    BY <1>4, <1>6
  <2>2. IsResponse(N + 1)' <=> m.kind \in MethodNames
    BY <2>1 DEF IsResponse
  <2>3. \A n \in Nat : IsChunk(N + 1, n)' <=> m.kind = "chunk" /\ m.n = n
    BY <2>1 DEF IsChunk
  <2>4. Refused(N + 1)' <=> m.kind = "config" /\ ~(m.own /\ 1..Options \subseteq m.config)
    BY <2>1 DEF Refused
  <2> QED BY <2>2, <2>3, <2>4
<1>7. /\ \A i \in DOMAIN Coming' :
            i \in Nat /\ 1..(i - 1) \subseteq 1..N /\ (i \in 1..N \/ (i = N + 1 /\ Lossless))
      /\ 1..N \subseteq DOMAIN Coming'
      /\ Lossless => N + 1 \in DOMAIN Coming'
  BY <1>4
<1> QED BY <1>2, <1>3, <1>4, <1>5, <1>6, <1>7

\* What is no chunk leaves the chunks as they are.
LEMMA OthersKeepChunks ==
    ASSUME AcpInv, NEW m \in Spoken, Send(m), m.kind # "chunk", said' = said
    PROVE  ChunksSaid' /\ ChunksFollow' /\ ChunksCome'
<1>1. PICK N \in Nat : N = Len(Coming)
  BY LenIsNat DEF AcpInv
<1>2. /\ text' = text /\ method' = method /\ result' = result /\ Lossless' = Lossless
      /\ call' = call /\ applied' = applied
      /\ DOMAIN Coming = 1..N /\ Len(text) \in Nat /\ said \in Nat
      /\ \A i \in DOMAIN Coming' :
            i \in Nat /\ 1..(i - 1) \subseteq 1..N /\ (i \in 1..N \/ (i = N + 1 /\ Lossless))
      /\ 1..N \subseteq DOMAIN Coming'
  BY <1>1, SaidLast DEF client, AcpInv, AcpTyped
<1>3. /\ \A i \in 1..N, n \in Nat : IsChunk(i, n)' <=> IsChunk(i, n)
      /\ Lossless => \A n \in Nat : ~IsChunk(N + 1, n)'
  BY <1>1, SaidLast
<1>4. ChunksSaid'
  <2>1. \A i \in DOMAIN Coming', n \in Nat : IsChunk(i, n)' => i \in DOMAIN Coming /\ IsChunk(i, n)
    BY <1>2, <1>3
  <2> QED BY <2>1 DEF AcpInv, ChunksSaid
<1>5. ChunksFollow'
  <2> SUFFICES ASSUME Hearing', NEW i \in DOMAIN Coming', NEW n \in Nat \ {0}, IsChunk(i, n)'
               PROVE  /\ n > Len(text')
                      /\ \A k \in (Len(text') + 1)..n : \E j \in 1..i : IsChunk(j, k)'
                      /\ \A j \in 1..(i - 1), k \in Nat : IsChunk(j, k)' => k < n
    BY <1>2 DEF ChunksFollow
  <2>1. Hearing /\ i \in DOMAIN Coming /\ IsChunk(i, n) /\ text' = text
    BY <1>2, <1>3 DEF Hearing, Prompting, Opening
  <2>2. /\ n > Len(text)
        /\ \A k \in (Len(text) + 1)..n : \E j \in 1..i : IsChunk(j, k)
        /\ \A j \in 1..(i - 1), k \in Nat : IsChunk(j, k) => k < n
    BY <2>1 DEF AcpInv, ChunksFollow
  <2>3. \A k \in (Len(text) + 1)..n : k \in Nat
    BY <1>2
  <2>4. \A j \in 1..i, k \in Nat : IsChunk(j, k)' <=> IsChunk(j, k)
    BY <2>1, <1>2, <1>3
  <2>5. \A k \in (Len(text') + 1)..n : \E j \in 1..i : IsChunk(j, k)'
    BY <2>1, <2>2, <2>3, <2>4
  <2>6. \A j \in 1..(i - 1), k \in Nat : IsChunk(j, k)' => k < n
    BY <2>1, <2>2, <2>4, <1>2
  <2> QED BY <2>1, <2>2, <2>5, <2>6
<1>6. ChunksCome'
  <2> SUFFICES ASSUME Hearing', Lossless', NEW k \in (Len(text') + 1)..said'
               PROVE  \E j \in DOMAIN Coming' : IsChunk(j, k)'
    BY DEF ChunksCome
  <2>1. PICK j \in DOMAIN Coming : IsChunk(j, k)
    BY <1>2 DEF AcpInv, ChunksCome, Hearing, Prompting, Opening
  <2>2. k \in Nat /\ j \in DOMAIN Coming'
    BY <1>2
  <2> QED BY <2>1, <2>2, <1>2, <1>3
<1> QED BY <1>4, <1>5, <1>6

\* The agent responds to the request it has taken, other than a prompt.
LEMMA RespondKeeps == ASSUME AcpInv, Respond PROVE AcpInv'
<1>1. PICK m \in Responses(asked) :
          /\ Send(m)
          /\ retained' = IF m.kind \in {"session/new", "session/set_config_option"}
                         THEN m.config ELSE retained
  BY DEF Respond
<1>2. asked \in MethodNames /\ asked' = "none" /\ UNCHANGED <<served, said>>
  BY DEF Respond, AcpInv, AcpTyped
<1>3. m \in Spoken /\ m.kind = method /\ asked = method /\ served = <<method, applied>>
  BY <1>2, ResponseKind DEF AcpInv, RequestsFit, MethodNames
<1>4. m.kind \in MethodNames /\ m.kind # "chunk" /\ m.kind # "config"
  BY <1>2, <1>3 DEF MethodNames
<1>5. \A i \in DOMAIN Coming : ~IsResponse(i)
  BY <1>2 DEF AcpInv, ResponseFits, MethodNames
<1>a. PICK N \in Nat : N = Len(Coming)
  BY LenIsNat DEF AcpInv
<1>6. /\ UNCHANGED client /\ Lossless' = Lossless
      /\ messages' \in Seq(Spoken) /\ output' \in Seq(Spoken) /\ reader' = reader
      /\ DOMAIN Coming = 1..N /\ Len(text) \in Nat
      /\ \A i \in DOMAIN Coming' :
            i \in Nat /\ 1..(i - 1) \subseteq 1..N /\ (i \in 1..N \/ (i = N + 1 /\ Lossless))
      /\ 1..N \subseteq DOMAIN Coming'
      /\ Lossless => N + 1 \in DOMAIN Coming'
  BY <1>1, <1>3, <1>a, SaidLast
<1>7. /\ \A i \in 1..N : /\ Coming'[i] = Coming[i]
                         /\ IsResponse(i)' <=> IsResponse(i)
                         /\ Refused(i)' <=> Refused(i)
                         /\ \A n \in Nat : IsChunk(i, n)' <=> IsChunk(i, n)
      /\ Lossless => /\ Coming'[N + 1] = m
                     /\ IsResponse(N + 1)' /\ ~Refused(N + 1)'
                     /\ \A n \in Nat : ~IsChunk(N + 1, n)'
  BY <1>1, <1>3, <1>4, <1>a, SaidLast
<1> USE DEF client
<1>8. AcpTyped'
  BY <1>2, <1>6 DEF AcpInv, AcpTyped
<1>9. RequestsFit' /\ TextFits'
  BY <1>2, <1>6 DEF AcpInv, RequestsFit, TextFits
<1>10. AnswerFits'
  BY <1>1, <1>2, <1>3, <1>6 DEF AcpInv, AnswerFits, Kept, Answered
<1>11. ResponseFits' /\ OneResponse' /\ ResponseComes'
  <2>1. \A i \in DOMAIN Coming' : IsResponse(i)' => i = N + 1 /\ Lossless
    BY <1>5, <1>6, <1>7
  <2> QED BY <2>1, <1>2, <1>3, <1>6, <1>7 DEF ResponseFits, OneResponse, ResponseComes
\* Until the request before the prompt is answered no chunk is numbered.
<1>12. ChunksFit'
  <2>1. \A i \in DOMAIN Coming', n \in Nat : IsChunk(i, n)' => i \in 1..N /\ IsChunk(i, n)
    BY <1>6, <1>7
  <2>2. \A i \in 1..N : ~After(i)' /\ ~After(i)
    <3>1. \A i \in 1..N : \A j \in 1..(i - 1) : j \in 1..N
      OBVIOUS
    <3> QED BY <3>1, <1>5, <1>6, <1>7 DEF After
  <2>3. ASSUME Prompting', NEW i \in DOMAIN Coming', IsChunk(i, 0)'
        PROVE  FALSE
    <3>1. Prompting
      BY <2>3, <1>6 DEF Prompting
    <3> QED BY <2>1, <2>2, <2>3, <3>1, <1>6 DEF AcpInv, ChunksFit
  <2>4. ASSUME Opening', NEW i \in DOMAIN Coming', NEW n \in Nat, IsChunk(i, n)'
        PROVE  n = 0 /\ ~After(i)'
    <3>1. Opening
      BY <2>4, <1>6 DEF Opening
    <3> QED BY <2>1, <2>2, <2>4, <3>1, <1>6 DEF AcpInv, ChunksFit
  <2> QED BY <2>3, <2>4 DEF ChunksFit
<1>13. ChunksSaid' /\ ChunksFollow' /\ ChunksCome'
  BY <1>1, <1>2, <1>3, <1>4, OthersKeepChunks
<1>14. Prompting' /\ Lossless => \A k \in (Len(text) + 1)..said : \E j \in 1..N : IsChunk(j, k)'
  <2> SUFFICES ASSUME Prompting', Lossless, NEW k \in (Len(text) + 1)..said
               PROVE  \E j \in 1..N : IsChunk(j, k)'
    OBVIOUS
  <2>1. PICK j \in DOMAIN Coming : IsChunk(j, k)
    BY <1>6 DEF AcpInv, ChunksCome, Hearing, Prompting
  <2>2. k \in Nat
    BY <1>6 DEF AcpInv, AcpTyped
  <2> QED BY <2>1, <2>2, <1>6, <1>7
<1>15. ChunksPrecede'
  <2>1. \A i \in DOMAIN Coming' : IsResponse(i)' => i - 1 = N /\ Lossless
    BY <1>5, <1>6, <1>7
  <2>2. \A j \in 1..N : j \in DOMAIN Coming'
    BY <1>6
  <2> QED BY <2>1, <2>2, <1>2, <1>6, <1>14 DEF ChunksPrecede
<1>16. RefusalComes' /\ RefusalPrecedes'
  <2>1. \A i \in DOMAIN Coming' : IsResponse(i)' => i - 1 = N /\ Lossless
    BY <1>5, <1>6, <1>7
  <2>2. Prompting' => Prompting /\ retained' = retained
    BY <1>1, <1>3, <1>6 DEF Prompting
  <2>3. \A j \in 1..N : j \in DOMAIN Coming'
    BY <1>6
  <2> QED BY <2>1, <2>2, <2>3, <1>6, <1>7 DEF AcpInv, RefusalComes, RefusalPrecedes, Kept
<1>17. ReportFits'
  <2>1. \A i \in DOMAIN Coming' :
            Coming'[i].kind \in {"session/new", "session/set_config_option"} =>
            i = N + 1 /\ Lossless
    BY <1>5, <1>6, <1>7 DEF IsResponse, MethodNames
  <2> QED BY <2>1, <1>1, <1>7 DEF ReportFits
<1> QED BY <1>8, <1>9, <1>10, <1>11, <1>12, <1>13, <1>15, <1>16, <1>17 DEF AcpInv

\* The agent says what nobody asked for.
LEMMA InterjectKeeps == ASSUME AcpInv, Interject PROVE AcpInv'
<1>1. PICK m \in Unasked :
          /\ Send(m)
          /\ retained' = IF m.kind = "config" /\ m.own /\ ~Answered THEN m.config ELSE retained
  BY DEF Interject
<1>2. /\ m \in Spoken /\ m.kind # "chunk" /\ m.kind \notin MethodNames
      /\ m.kind \notin {"session/new", "session/set_config_option"}
  BY UnaskedIsSpoken DEF MethodNames
<1>3. UNCHANGED <<served, asked, said>>
  BY DEF Interject
<1>4. PICK N \in Nat : N = Len(Coming)
  BY LenIsNat DEF AcpInv
<1>5. /\ UNCHANGED client /\ Lossless' = Lossless
      /\ messages' \in Seq(Spoken) /\ output' \in Seq(Spoken) /\ reader' = reader
      /\ DOMAIN Coming = 1..N /\ Len(text) \in Nat
      /\ Len(Coming') = IF Lossless THEN N + 1 ELSE N
      /\ \A i \in DOMAIN Coming' :
            i \in Nat /\ 1..(i - 1) \subseteq 1..N /\ (i \in 1..N \/ (i = N + 1 /\ Lossless))
      /\ 1..N \subseteq DOMAIN Coming'
  BY <1>1, <1>2, <1>4, SaidLast
<1>6. /\ \A i \in 1..N : /\ Coming'[i] = Coming[i]
                         /\ IsResponse(i)' <=> IsResponse(i)
                         /\ Refused(i)' <=> Refused(i)
                         /\ \A n \in Nat : IsChunk(i, n)' <=> IsChunk(i, n)
      /\ Lossless => /\ Coming'[N + 1] = m /\ N + 1 \in DOMAIN Coming'
                     /\ ~IsResponse(N + 1)'
                     /\ \A n \in Nat : ~IsChunk(N + 1, n)'
                     /\ Refused(N + 1)' <=>
                          m.kind = "config" /\ ~(m.own /\ 1..Options \subseteq m.config)
  BY <1>1, <1>2, <1>4, SaidLast
<1>7. /\ \A i \in DOMAIN Coming' : IsResponse(i)' => i \in DOMAIN Coming /\ IsResponse(i)
      /\ \A i \in DOMAIN Coming' : IsChunk(i, 0)' => i \in DOMAIN Coming /\ IsChunk(i, 0)
  BY <1>5, <1>6
<1> USE DEF client
\* Once the prompt is answered what is retained stays.
<1>8. Answered => retained' = retained
  BY <1>1
<1>9. ASSUME Prompting, NEW i \in DOMAIN Coming, IsResponse(i) PROVE Answered
  <2>1. asked = "none" /\ served = <<method, applied>> /\ method = "session/prompt"
    BY <1>9 DEF AcpInv, ResponseFits, Prompting
  <2> QED BY <2>1 DEF Answered
<1>10. AcpTyped'
  <2>1. AcpTyped
    BY DEF AcpInv
  <2>2. UNCHANGED <<reader, method, next, applied, text, said, asked, served, result>>
    BY <1>3, <1>5
  <2> QED BY <2>1, <2>2, <1>5 DEF AcpTyped
<1>11. RequestsFit' /\ TextFits'
  BY <1>3, <1>5 DEF AcpInv, RequestsFit, TextFits
<1>12. AnswerFits'
  <2>1. Answered' = Answered
    BY <1>3 DEF Answered
  <2> QED BY <2>1, <1>3, <1>5, <1>8 DEF AcpInv, AnswerFits, Kept
<1>13. ResponseFits' /\ OneResponse'
  BY <1>3, <1>5, <1>6, <1>7 DEF AcpInv, ResponseFits, OneResponse
<1>14. ResponseComes'
  <2> SUFFICES ASSUME served = <<method, applied>>, asked = "none", result = "none", Lossless
               PROVE  \E i \in DOMAIN Coming' : IsResponse(i)'
    BY <1>3, <1>5 DEF ResponseComes
  <2>1. PICK i \in DOMAIN Coming : IsResponse(i)
    BY DEF AcpInv, ResponseComes
  <2> QED BY <2>1, <1>5, <1>6
<1>15. ChunksFit'
  <2>1. \A i \in DOMAIN Coming', n \in Nat : IsChunk(i, n)' => i \in 1..N /\ IsChunk(i, n)
    BY <1>5, <1>6
  <2>2. ASSUME NEW i \in 1..N PROVE After(i)' <=> After(i)
    <3>1. \A j \in 1..(i - 1) : j \in 1..N
      OBVIOUS
    <3> QED BY <3>1, <1>6 DEF After
  <2>3. (Prompting' <=> Prompting) /\ (Opening' <=> Opening)
    BY <1>5 DEF Prompting, Opening
  <2> QED BY <2>1, <2>2, <2>3, <1>5 DEF AcpInv, ChunksFit
<1>16. ChunksSaid' /\ ChunksFollow' /\ ChunksCome'
  BY <1>1, <1>2, <1>3, OthersKeepChunks
<1>17. ChunksPrecede'
  <2> SUFFICES ASSUME Prompting', NEW i \in DOMAIN Coming', IsResponse(i)',
                      NEW k \in (Len(text') + 1)..said'
               PROVE  \E j \in 1..(i - 1) : IsChunk(j, k)'
    BY DEF ChunksPrecede
  <2>1. PICK j \in 1..(i - 1) : IsChunk(j, k)
    BY <1>3, <1>5, <1>7 DEF AcpInv, ChunksPrecede, Prompting
  <2>2. k \in Nat /\ j \in 1..N
    BY <1>3, <1>5 DEF AcpInv, AcpTyped
  <2> QED BY <2>1, <2>2, <1>6
<1>18. RefusalComes'
  <2> SUFFICES ASSUME Prompting', Lossless, ~Kept'
               PROVE  \E j \in DOMAIN Coming' : Refused(j)'
    BY <1>5 DEF RefusalComes
  <2>1. CASE retained' = retained
    <3>1. PICK j \in DOMAIN Coming : Refused(j)
      BY <2>1, <1>5 DEF AcpInv, RefusalComes, Prompting, Kept
    <3> QED BY <3>1, <1>5, <1>6
  <2>2. CASE m.kind = "config" /\ m.own /\ retained' = m.config
    BY <2>2, <1>6 DEF Kept
  <2> QED BY <2>1, <2>2, <1>1
<1>19. RefusalPrecedes'
  <2> SUFFICES ASSUME Prompting', NEW i \in DOMAIN Coming', IsResponse(i)', ~Kept'
               PROVE  \E j \in 1..(i - 1) : Refused(j)'
    BY DEF RefusalPrecedes
  <2>1. Prompting /\ i \in DOMAIN Coming /\ IsResponse(i) /\ ~Kept
    BY <1>5, <1>7, <1>8, <1>9 DEF Prompting, Kept
  <2>2. PICK j \in 1..(i - 1) : Refused(j)
    BY <2>1 DEF AcpInv, RefusalPrecedes
  <2> QED BY <2>2, <1>5, <1>6
<1>20. ReportFits'
  <2> SUFFICES ASSUME Lossless, NEW i \in DOMAIN Coming',
                      Coming'[i].kind \in {"session/new", "session/set_config_option"}
               PROVE  \/ retained' = Coming'[i].config
                      \/ \E j \in (i + 1)..(N + 1) : /\ Coming'[j].kind = "config" /\ Coming'[j].own
                                                    /\ Coming'[j].config = retained'
    BY <1>5 DEF ReportFits
  <2>1. i \in DOMAIN Coming /\ Coming'[i] = Coming[i] /\ i \in 1..N
    BY <1>2, <1>5, <1>6
  <2>2. CASE retained' = retained
    <3>1. CASE retained = Coming[i].config
      BY <2>1, <2>2, <3>1
    <3>2. CASE \E j \in (i + 1)..Len(Coming) :
                 Coming[j].kind = "config" /\ Coming[j].own /\ Coming[j].config = retained
      <4>1. PICK j \in (i + 1)..N :
                Coming[j].kind = "config" /\ Coming[j].own /\ Coming[j].config = retained
        BY <3>2, <1>4
      <4>2. j \in 1..N /\ j \in (i + 1)..(N + 1)
        BY <2>1
      <4> QED BY <4>1, <4>2, <2>2, <1>6
    <3> QED BY <2>1, <3>1, <3>2 DEF AcpInv, ReportFits
  <2>3. CASE m.kind = "config" /\ m.own /\ retained' = m.config
    <3>1. N + 1 \in (i + 1)..(N + 1)
      BY <2>1
    <3> QED BY <3>1, <2>3, <1>6
  <2> QED BY <2>2, <2>3, <1>1
<1> QED BY <1>10, <1>11, <1>12, <1>13, <1>14, <1>15, <1>16, <1>17, <1>18, <1>19, <1>20 DEF AcpInv

\* A chunk of the answer.
LEMMA SpeakKeeps ==
    ASSUME AcpInv, Heard, said' = said + 1, Send(Chunk(said + 1)),
           UNCHANGED <<served, asked, retained, extra>>
    PROVE  AcpInv'
<1>0. UNCHANGED <<served, asked, retained>>
  OBVIOUS
<1>a. PICK c \in Nat \ {0} : c = said + 1
  BY DEF AcpInv, AcpTyped
<1>1. Send(Chunk(c))
  BY <1>a
<1>2. Chunk(c) \in Spoken /\ Chunk(c).kind = "chunk" /\ Chunk(c).n = c /\ "chunk" \notin MethodNames
      /\ Chunk(c).kind # "session/new" /\ Chunk(c).kind # "session/set_config_option"
  BY UnaskedIsSpoken DEF MethodNames
<1>3. PICK N \in Nat : N = Len(Coming)
  BY LenIsNat DEF AcpInv
<1>4. /\ UNCHANGED client /\ Lossless' = Lossless
      /\ messages' \in Seq(Spoken) /\ output' \in Seq(Spoken) /\ reader' = reader
      /\ DOMAIN Coming = 1..N /\ Len(text) \in Nat
      /\ Len(Coming') = IF Lossless THEN N + 1 ELSE N
      /\ \A i \in DOMAIN Coming' :
            i \in Nat /\ 1..(i - 1) \subseteq 1..N /\ (i \in 1..N \/ (i = N + 1 /\ Lossless))
      /\ 1..N \subseteq DOMAIN Coming'
  BY <1>1, <1>2, <1>3, SaidLast
<1>5. /\ \A i \in 1..N : /\ Coming'[i] = Coming[i]
                         /\ IsResponse(i)' <=> IsResponse(i)
                         /\ Refused(i)' <=> Refused(i)
                         /\ \A n \in Nat : IsChunk(i, n)' <=> IsChunk(i, n)
      /\ Lossless => /\ Coming'[N + 1] = Chunk(c) /\ N + 1 \in DOMAIN Coming'
                     /\ ~IsResponse(N + 1)' /\ ~Refused(N + 1)'
                     /\ \A n \in Nat : IsChunk(N + 1, n)' <=> n = c
  BY <1>1, <1>2, <1>3, SaidLast
<1>6. \A i \in DOMAIN Coming' : IsResponse(i)' => i \in DOMAIN Coming /\ IsResponse(i)
  BY <1>4, <1>5
<1>b. \A i \in 1..N, n \in Nat : IsChunk(i, n)' <=> IsChunk(i, n)
  BY <1>5
<1>c. \A i \in DOMAIN Coming' :
          i \in Nat /\ 1..(i - 1) \subseteq 1..N /\ (i \in 1..N \/ (i = N + 1 /\ Lossless))
  BY <1>4
<1>d. Lossless => \A n \in Nat : IsChunk(N + 1, n)' <=> n = c
  BY <1>5
<1> USE DEF client
<1>7. ReportFits'
  <2> SUFFICES ASSUME Lossless, NEW i \in DOMAIN Coming',
                      Coming'[i].kind \in {"session/new", "session/set_config_option"}
               PROVE  \/ retained' = Coming'[i].config
                      \/ \E j \in (i + 1)..(N + 1) : /\ Coming'[j].kind = "config" /\ Coming'[j].own
                                                    /\ Coming'[j].config = retained'
    BY <1>4 DEF ReportFits
  <2>1. i \in DOMAIN Coming /\ Coming'[i] = Coming[i] /\ i \in 1..N
    BY <1>2, <1>4, <1>5
  <2>2. CASE retained = Coming[i].config
    BY <2>1, <2>2, <1>0
  <2>3. CASE \E j \in (i + 1)..Len(Coming) :
               Coming[j].kind = "config" /\ Coming[j].own /\ Coming[j].config = retained
    <3>1. PICK j \in (i + 1)..N :
              Coming[j].kind = "config" /\ Coming[j].own /\ Coming[j].config = retained
      BY <2>3, <1>3
    <3>2. j \in 1..N /\ j \in (i + 1)..(N + 1)
      BY <2>1
    <3> QED BY <3>1, <3>2, <1>0, <1>5
  <2> QED BY <2>1, <2>2, <2>3 DEF AcpInv, ReportFits
<1>8. RefusalComes' /\ RefusalPrecedes'
  <2>1. \A j \in 1..N : j \in DOMAIN Coming'
    BY <1>4
  <2> QED BY <2>1, <1>0, <1>4, <1>5, <1>6 DEF AcpInv, RefusalComes, RefusalPrecedes, Prompting, Kept
<1>9. ResponseFits' /\ OneResponse' /\ ResponseComes'
  <2>1. \A j \in 1..N : j \in DOMAIN Coming'
    BY <1>4
  <2> QED BY <2>1, <1>0, <1>4, <1>5, <1>6 DEF AcpInv, ResponseFits, OneResponse, ResponseComes
<1>10. AcpTyped' /\ RequestsFit'
  BY <1>0, <1>4 DEF AcpInv, AcpTyped, RequestsFit
<1>11. said \in Nat /\ call = "run" /\ result # "ok" /\ method # "session/close"
  <2>1. LastBefore[1] \notin {"session/prompt", "session/close"} /\ LastBefore # <<>>
    BY DEF LastBefore
  <2>2. asked = "session/prompt" => method = "session/prompt" /\ call = "run"
    BY DEF AcpInv, RequestsFit, AnswerFits
  <2>3. served = LastBefore => ~Answered
    BY <2>1 DEF Answered
  <2> QED BY <2>1, <2>2, <2>3 DEF AcpInv, AcpTyped, AnswerFits, Heard
<1>e. \/ method = "session/prompt"
      \/ asked = "none" /\ served = <<method, applied>> /\ served = LastBefore
  BY <1>11 DEF AcpInv, RequestsFit, Heard
<1>12. method = "session/prompt" => \A i \in DOMAIN Coming : ~IsResponse(i)
  <2>1. method = "session/prompt" => served # <<method, applied>> \/ asked # "none"
    BY DEF Heard, LastBefore
  <2> QED BY <2>1 DEF AcpInv, ResponseFits
<1>13. TextFits' /\ AnswerFits'
  <2>1. UNCHANGED <<call, method, applied, text, result>> /\ LastBefore' = LastBefore
    BY <1>4 DEF LastBefore
  <2>2. TextFits'
    BY <2>1, <1>0, <1>4, <1>11, <1>e DEF AcpInv, TextFits
  <2>3. AnswerFits'
    BY <2>1, <1>0, <1>11 DEF AcpInv, AnswerFits
  <2> QED BY <2>2, <2>3
<1>14. ChunksFit'
  <2>1. ASSUME NEW i \in 1..N PROVE After(i)' <=> After(i)
    <3>1. \A j \in 1..(i - 1) : j \in 1..N
      OBVIOUS
    <3> QED BY <3>1, <1>5 DEF After
  <2>2. (Prompting' <=> Prompting) /\ (Opening' <=> Opening)
    BY <1>4 DEF Prompting, Opening
  <2>3. ASSUME Prompting', NEW i \in DOMAIN Coming', IsChunk(i, 0)'
        PROVE  After(i)'
    <3>1. i \in 1..N /\ IsChunk(i, 0)
      BY <2>3, <1>b, <1>c, <1>d
    <3> QED BY <2>1, <2>2, <2>3, <3>1, <1>4 DEF AcpInv, ChunksFit
  <2>4. ASSUME Opening', NEW i \in DOMAIN Coming', NEW n \in Nat, IsChunk(i, n)'
        PROVE  n # 0 <=> After(i)'
    <3>1. CASE i \in 1..N
      <4>1. IsChunk(i, n)
        BY <2>4, <3>1, <1>b
      <4> QED BY <2>1, <2>2, <2>4, <3>1, <4>1, <1>4 DEF AcpInv, ChunksFit
    <3>2. CASE i = N + 1 /\ Lossless
      <4>1. n # 0
        BY <2>4, <3>2, <1>d
      <4>2. method # "session/prompt" /\ result = "none"
        BY <2>2, <2>4 DEF Opening, LastBefore
      <4>3. PICK j \in DOMAIN Coming : IsResponse(j)
        BY <3>2, <4>2, <1>e DEF AcpInv, ResponseComes
      <4>4. j \in 1..(i - 1) /\ IsResponse(j)'
        BY <3>2, <4>3, <1>4, <1>5
      <4> QED BY <4>1, <4>4 DEF After
    <3> QED BY <3>1, <3>2, <1>c
  <2> QED BY <2>3, <2>4 DEF ChunksFit
<1>15. ChunksSaid'
  <2> SUFFICES ASSUME NEW i \in DOMAIN Coming', NEW n \in Nat, IsChunk(i, n)'
               PROVE  n <= c
    BY <1>a DEF ChunksSaid
  <2>1. i \in 1..N => n <= said
    BY <1>4, <1>b DEF AcpInv, ChunksSaid
  <2> QED BY <2>1, <1>a, <1>c, <1>d, <1>11
<1>16. ChunksFollow'
  <2> SUFFICES ASSUME Hearing', NEW i \in DOMAIN Coming', NEW n \in Nat \ {0}, IsChunk(i, n)'
               PROVE  /\ n > Len(text')
                      /\ \A k \in (Len(text') + 1)..n : \E j \in 1..i : IsChunk(j, k)'
                      /\ \A j \in 1..(i - 1), k \in Nat : IsChunk(j, k)' => k < n
    BY DEF ChunksFollow
  <2>1. CASE i \in 1..N
    <3>1. Hearing /\ i \in DOMAIN Coming /\ IsChunk(i, n) /\ text' = text
      BY <2>1, <1>4, <1>5 DEF Hearing, Prompting, Opening
    <3>2. /\ n > Len(text)
          /\ \A k \in (Len(text) + 1)..n : \E j \in 1..i : IsChunk(j, k)
          /\ \A j \in 1..(i - 1), k \in Nat : IsChunk(j, k) => k < n
      BY <3>1 DEF AcpInv, ChunksFollow
    <3>3. \A k \in (Len(text) + 1)..n : k \in Nat
      BY <1>4
    <3>4. \A j \in 1..i, k \in Nat : IsChunk(j, k)' <=> IsChunk(j, k)
      BY <2>1, <1>b
    <3>5. \A k \in (Len(text') + 1)..n : \E j \in 1..i : IsChunk(j, k)'
      BY <3>1, <3>2, <3>3, <3>4
    <3>6. ASSUME NEW j \in 1..(i - 1), NEW k \in Nat, IsChunk(j, k)' PROVE k < n
      <4>1. j \in 1..i
        BY <1>c
      <4>2. IsChunk(j, k)
        BY <3>4, <3>6, <4>1
      <4> QED BY <3>2, <4>2
    <3> QED BY <3>1, <3>2, <3>5, <3>6
  <2>2. CASE i = N + 1 /\ Lossless
    <3>1. n = c /\ Hearing /\ text' = text
      BY <2>2, <1>4, <1>5 DEF Hearing, Prompting, Opening
    <3>2. n > Len(text')
      BY <3>1, <1>a, <1>4, <1>11 DEF AcpInv, TextFits
    <3>3. ASSUME NEW k \in (Len(text') + 1)..n
          PROVE  \E j \in 1..i : IsChunk(j, k)'
      <4>1. k \in Nat /\ (k = c \/ k \in (Len(text) + 1)..said)
        BY <3>1, <1>a, <1>4, <1>11
      <4>2. CASE k = c
        <5>1. IsChunk(N + 1, k)' /\ N + 1 \in 1..i
          BY <4>2, <2>2, <1>5
        <5> QED BY <5>1
      <4>3. CASE k \in (Len(text) + 1)..said
        <5>1. PICK j \in DOMAIN Coming : IsChunk(j, k)
          BY <4>3, <3>1, <2>2 DEF AcpInv, ChunksCome
        <5>2. IsChunk(j, k)' /\ j \in 1..i
          BY <5>1, <4>1, <2>2, <1>4, <1>5
        <5> QED BY <5>2
      <4> QED BY <4>1, <4>2, <4>3
    <3>4. ASSUME NEW j \in 1..(i - 1), NEW k \in Nat, IsChunk(j, k)'
          PROVE  k < n
      <4>1. j \in DOMAIN Coming /\ IsChunk(j, k)
        BY <3>4, <2>2, <1>4, <1>5
      <4>2. k <= said
        BY <4>1 DEF AcpInv, ChunksSaid
      <4> QED BY <4>2, <3>1, <1>a, <1>11
    <3> QED BY <3>2, <3>3, <3>4
  <2> QED BY <2>1, <2>2, <1>4
<1>17. ChunksCome'
  <2> SUFFICES ASSUME Hearing', Lossless, NEW k \in (Len(text') + 1)..said'
               PROVE  \E j \in DOMAIN Coming' : IsChunk(j, k)'
    BY <1>4 DEF ChunksCome
  <2>1. k \in Nat /\ (k = c \/ k \in (Len(text) + 1)..said) /\ Hearing
    BY <1>a, <1>4, <1>11 DEF Hearing, Prompting, Opening
  <2>2. CASE k = c
    BY <2>2, <1>5
  <2>3. CASE k \in (Len(text) + 1)..said
    <3>1. PICK j \in DOMAIN Coming : IsChunk(j, k)
      BY <2>1, <2>3 DEF AcpInv, ChunksCome
    <3> QED BY <3>1, <2>1, <1>4, <1>5
  <2> QED BY <2>1, <2>2, <2>3
<1>18. ChunksPrecede'
  BY <1>4, <1>6, <1>12 DEF ChunksPrecede, Prompting
<1> QED BY <1>7, <1>8, <1>9, <1>10, <1>13, <1>14, <1>15, <1>16, <1>17, <1>18 DEF AcpInv

\* A chunk that is none of the answer.
LEMMA BabbleKeeps ==
    ASSUME AcpInv, ~Heard, said' = said, Send(Chunk(0)), UNCHANGED <<served, asked, retained>>
    PROVE  AcpInv'
<1>0. UNCHANGED <<served, asked, retained>>
  OBVIOUS
<1>a. PICK c \in {0} : TRUE
  OBVIOUS
<1>1. Send(Chunk(c))
  BY <1>a
<1>2. Chunk(c) \in Spoken /\ Chunk(c).kind = "chunk" /\ Chunk(c).n = c /\ "chunk" \notin MethodNames
      /\ Chunk(c).kind # "session/new" /\ Chunk(c).kind # "session/set_config_option"
  BY UnaskedIsSpoken DEF MethodNames
<1>3. PICK N \in Nat : N = Len(Coming)
  BY LenIsNat DEF AcpInv
<1>4. /\ UNCHANGED client /\ Lossless' = Lossless
      /\ messages' \in Seq(Spoken) /\ output' \in Seq(Spoken) /\ reader' = reader
      /\ DOMAIN Coming = 1..N /\ Len(text) \in Nat
      /\ Len(Coming') = IF Lossless THEN N + 1 ELSE N
      /\ \A i \in DOMAIN Coming' :
            i \in Nat /\ 1..(i - 1) \subseteq 1..N /\ (i \in 1..N \/ (i = N + 1 /\ Lossless))
      /\ 1..N \subseteq DOMAIN Coming'
  BY <1>1, <1>2, <1>3, SaidLast
<1>5. /\ \A i \in 1..N : /\ Coming'[i] = Coming[i]
                         /\ IsResponse(i)' <=> IsResponse(i)
                         /\ Refused(i)' <=> Refused(i)
                         /\ \A n \in Nat : IsChunk(i, n)' <=> IsChunk(i, n)
      /\ Lossless => /\ Coming'[N + 1] = Chunk(c) /\ N + 1 \in DOMAIN Coming'
                     /\ ~IsResponse(N + 1)' /\ ~Refused(N + 1)'
                     /\ \A n \in Nat : IsChunk(N + 1, n)' <=> n = c
  BY <1>1, <1>2, <1>3, SaidLast
<1>6. \A i \in DOMAIN Coming' : IsResponse(i)' => i \in DOMAIN Coming /\ IsResponse(i)
  BY <1>4, <1>5
<1>b. \A i \in 1..N, n \in Nat : IsChunk(i, n)' <=> IsChunk(i, n)
  BY <1>5
<1>c. \A i \in DOMAIN Coming' :
          i \in Nat /\ 1..(i - 1) \subseteq 1..N /\ (i \in 1..N \/ (i = N + 1 /\ Lossless))
  BY <1>4
<1>d. Lossless => \A n \in Nat : IsChunk(N + 1, n)' <=> n = c
  BY <1>5
<1> USE DEF client
<1>7. ReportFits'
  <2> SUFFICES ASSUME Lossless, NEW i \in DOMAIN Coming',
                      Coming'[i].kind \in {"session/new", "session/set_config_option"}
               PROVE  \/ retained' = Coming'[i].config
                      \/ \E j \in (i + 1)..(N + 1) : /\ Coming'[j].kind = "config" /\ Coming'[j].own
                                                    /\ Coming'[j].config = retained'
    BY <1>4 DEF ReportFits
  <2>1. i \in DOMAIN Coming /\ Coming'[i] = Coming[i] /\ i \in 1..N
    BY <1>2, <1>4, <1>5
  <2>2. CASE retained = Coming[i].config
    BY <2>1, <2>2, <1>0
  <2>3. CASE \E j \in (i + 1)..Len(Coming) :
               Coming[j].kind = "config" /\ Coming[j].own /\ Coming[j].config = retained
    <3>1. PICK j \in (i + 1)..N :
              Coming[j].kind = "config" /\ Coming[j].own /\ Coming[j].config = retained
      BY <2>3, <1>3
    <3>2. j \in 1..N /\ j \in (i + 1)..(N + 1)
      BY <2>1
    <3> QED BY <3>1, <3>2, <1>0, <1>5
  <2> QED BY <2>1, <2>2, <2>3 DEF AcpInv, ReportFits
<1>8. RefusalComes' /\ RefusalPrecedes'
  <2>1. \A j \in 1..N : j \in DOMAIN Coming'
    BY <1>4
  <2> QED BY <2>1, <1>0, <1>4, <1>5, <1>6 DEF AcpInv, RefusalComes, RefusalPrecedes, Prompting, Kept
<1>9. ResponseFits' /\ OneResponse' /\ ResponseComes'
  <2>1. \A j \in 1..N : j \in DOMAIN Coming'
    BY <1>4
  <2> QED BY <2>1, <1>0, <1>4, <1>5, <1>6 DEF AcpInv, ResponseFits, OneResponse, ResponseComes
<1>10. AcpTyped' /\ RequestsFit'
  BY <1>0, <1>4 DEF AcpInv, AcpTyped, RequestsFit
<1>11. said \in Nat /\ c = 0
  BY DEF AcpInv, AcpTyped
<1>12. TextFits' /\ AnswerFits'
  BY <1>0, <1>4, <1>11 DEF AcpInv, AcpTyped, TextFits, AnswerFits, Kept, Answered
<1>13. ChunksFit'
  <2>1. ASSUME NEW i \in 1..N PROVE After(i)' <=> After(i)
    <3>1. \A j \in 1..(i - 1) : j \in 1..N
      OBVIOUS
    <3> QED BY <3>1, <1>5 DEF After
  <2>2. (Prompting' <=> Prompting) /\ (Opening' <=> Opening)
    BY <1>4 DEF Prompting, Opening
  <2>3. ASSUME Prompting', NEW i \in DOMAIN Coming', IsChunk(i, 0)'
        PROVE  After(i)'
    <3>1. CASE i \in 1..N
      <4>1. IsChunk(i, 0)
        BY <2>3, <3>1, <1>b
      <4> QED BY <2>1, <2>2, <2>3, <3>1, <4>1, <1>4 DEF AcpInv, ChunksFit
    <3>2. CASE i = N + 1 /\ Lossless
      <4>1. method = "session/prompt" /\ result = "none" /\ call = "run"
        BY <2>2, <2>3 DEF Prompting, AcpInv, AnswerFits
      <4>2. asked = "none" /\ served = <<method, applied>>
        BY <4>1 DEF AcpInv, RequestsFit, Heard
      <4>3. PICK j \in DOMAIN Coming : IsResponse(j)
        BY <3>2, <4>1, <4>2 DEF AcpInv, ResponseComes
      <4>4. j \in 1..(i - 1) /\ IsResponse(j)'
        BY <3>2, <4>3, <1>4, <1>5
      <4> QED BY <4>4 DEF After
    <3> QED BY <3>1, <3>2, <1>c
  <2>4. ASSUME Opening', NEW i \in DOMAIN Coming', NEW n \in Nat, IsChunk(i, n)'
        PROVE  n # 0 <=> After(i)'
    <3>1. CASE i \in 1..N
      <4>1. IsChunk(i, n)
        BY <2>4, <3>1, <1>b
      <4> QED BY <2>1, <2>2, <2>4, <3>1, <4>1, <1>4 DEF AcpInv, ChunksFit
    <3>2. CASE i = N + 1 /\ Lossless
      <4>1. n = 0
        BY <2>4, <3>2, <1>d, <1>11
      <4>2. \A j \in DOMAIN Coming : ~IsResponse(j)
        BY <2>2, <2>4 DEF Opening, Heard, AcpInv, ResponseFits
      <4>3. \A j \in 1..(i - 1) : j \in DOMAIN Coming /\ ~IsResponse(j)'
        BY <3>2, <4>2, <1>4, <1>5
      <4> QED BY <4>1, <4>3 DEF After
    <3> QED BY <3>1, <3>2, <1>c
  <2> QED BY <2>3, <2>4 DEF ChunksFit
<1>14. \A i \in DOMAIN Coming', n \in Nat \ {0} : IsChunk(i, n)' =>
           i \in DOMAIN Coming /\ IsChunk(i, n)
  BY <1>4, <1>5, <1>11
<1>15. ChunksSaid'
  <2> SUFFICES ASSUME NEW i \in DOMAIN Coming', NEW n \in Nat, IsChunk(i, n)'
               PROVE  n <= said
    BY DEF ChunksSaid
  <2>1. CASE n = 0
    BY <2>1, <1>11
  <2>2. CASE n # 0
    BY <2>2, <1>14 DEF AcpInv, ChunksSaid
  <2> QED BY <2>1, <2>2
<1>16. ChunksFollow'
  <2> SUFFICES ASSUME Hearing', NEW i \in DOMAIN Coming', NEW n \in Nat \ {0}, IsChunk(i, n)'
               PROVE  /\ n > Len(text')
                      /\ \A k \in (Len(text') + 1)..n : \E j \in 1..i : IsChunk(j, k)'
                      /\ \A j \in 1..(i - 1), k \in Nat : IsChunk(j, k)' => k < n
    BY DEF ChunksFollow
  <2>1. Hearing /\ i \in DOMAIN Coming /\ IsChunk(i, n) /\ text' = text
    BY <1>4, <1>14 DEF Hearing, Prompting, Opening
  <2>2. /\ n > Len(text)
        /\ \A k \in (Len(text) + 1)..n : \E j \in 1..i : IsChunk(j, k)
        /\ \A j \in 1..(i - 1), k \in Nat : IsChunk(j, k) => k < n
    BY <2>1 DEF AcpInv, ChunksFollow
  <2>3. \A k \in (Len(text) + 1)..n : k \in Nat
    BY <1>4
  <2>4. \A j \in 1..i, k \in Nat : IsChunk(j, k)' <=> IsChunk(j, k)
    BY <2>1, <1>4, <1>5
  <2>5. \A k \in (Len(text') + 1)..n : \E j \in 1..i : IsChunk(j, k)'
    BY <2>1, <2>2, <2>3, <2>4
  <2>6. ASSUME NEW j \in 1..(i - 1), NEW k \in Nat, IsChunk(j, k)' PROVE k < n
    <3>1. j \in 1..i
      BY <1>c
    <3>2. IsChunk(j, k)
      BY <2>4, <2>6, <3>1
    <3> QED BY <2>2, <3>2
  <2> QED BY <2>1, <2>2, <2>5, <2>6
<1>17. ChunksCome'
  <2> SUFFICES ASSUME Hearing', Lossless, NEW k \in (Len(text') + 1)..said'
               PROVE  \E j \in DOMAIN Coming' : IsChunk(j, k)'
    BY <1>4 DEF ChunksCome
  <2>1. k \in Nat /\ Hearing
    BY <1>4, <1>11 DEF Hearing, Prompting, Opening
  <2>2. PICK j \in DOMAIN Coming : IsChunk(j, k)
    BY <2>1, <1>4 DEF AcpInv, ChunksCome
  <2> QED BY <2>1, <2>2, <1>4, <1>5
<1>18. ChunksPrecede'
  <2> SUFFICES ASSUME Prompting', NEW i \in DOMAIN Coming', IsResponse(i)',
                      NEW k \in (Len(text') + 1)..said'
               PROVE  \E j \in 1..(i - 1) : IsChunk(j, k)'
    BY DEF ChunksPrecede
  <2>1. PICK j \in 1..(i - 1) : IsChunk(j, k)
    BY <1>4, <1>6 DEF AcpInv, ChunksPrecede, Prompting
  <2>2. k \in Nat /\ j \in 1..N
    BY <1>4, <1>11
  <2> QED BY <2>1, <2>2, <1>5
<1> QED BY <1>7, <1>8, <1>9, <1>10, <1>12, <1>13, <1>15, <1>16, <1>17, <1>18 DEF AcpInv

\* The agent takes a request, and begins to serve it.
LEMMA ReadKeeps == ASSUME AcpInv, Read PROVE AcpInv'
<1> USE DEF client
<1>1. /\ UNCHANGED <<client, reader, messages, output, said, retained>>
      /\ Coming' = Coming /\ Lossless' = Lossless
  BY DEF Read, Coming, Lossless
<1>2. \/ UNCHANGED <<asked, served>>
      \/ served # <<method, applied>> /\ asked' = method /\ served' = <<method, applied>>
  BY DEF Read
<1>3. /\ \A i \in DOMAIN Coming : IsResponse(i)' <=> IsResponse(i)
      /\ \A i \in DOMAIN Coming : Refused(i)' <=> Refused(i)
      /\ \A i \in DOMAIN Coming, n \in Nat : IsChunk(i, n)' <=> IsChunk(i, n)
  BY <1>1 DEF IsResponse, Refused, IsChunk
<1>4. DOMAIN Coming = 1..Len(Coming) /\ Len(Coming) \in Nat /\ Len(text) \in Nat
  BY LenIsNat DEF AcpInv
<1>5. AcpTyped'
  BY <1>1, <1>2 DEF AcpInv, AcpTyped
<1>6. TextFits'
  <2>1. /\ call' = call /\ method' = method /\ text' = text /\ said' = said /\ applied' = applied
        /\ LastBefore' = LastBefore
    BY <1>1 DEF LastBefore
  <2>2. asked = "none" /\ served = <<method, applied>> => UNCHANGED <<asked, served>>
    BY <1>2
  <2> QED BY <2>1, <2>2 DEF AcpInv, TextFits
<1>7. RequestsFit'
  BY <1>1, <1>2 DEF AcpInv, AcpTyped, RequestsFit, MethodNames
<1>8. ResponseFits' /\ OneResponse' /\ ResponseComes'
  <2>1. served # <<method, applied>> => \A i \in DOMAIN Coming : ~IsResponse(i)
    BY DEF AcpInv, ResponseFits
  <2>2. asked' = method => asked' # "none"
    BY DEF AcpInv, AcpTyped, MethodNames
  <2> QED BY <2>1, <2>2, <1>1, <1>2, <1>3 DEF AcpInv, ResponseFits, OneResponse, ResponseComes
<1>9. AnswerFits'
  <2>1. CASE UNCHANGED <<asked, served>>
    BY <2>1, <1>1 DEF AcpInv, AnswerFits, Kept, Answered
  <2>2. CASE served # <<method, applied>> /\ asked' = method /\ served' = <<method, applied>>
    <3>1. ~(method = "session/prompt" /\ result = "ok")
      BY <2>2 DEF AcpInv, AnswerFits, RequestsFit, Answered
    <3>2. method = "session/close" => asked' # "session/prompt" /\ Answered'
      BY <2>2 DEF Answered
    <3> QED BY <3>1, <3>2, <1>1 DEF AcpInv, AnswerFits, Kept
  <2> QED BY <2>1, <2>2, <1>2
<1>11. /\ Prompting' = Prompting /\ Opening' = Opening /\ Hearing' = Hearing
       /\ Kept' = Kept
  BY <1>1 DEF Prompting, Opening, Hearing, Kept
<1>10. ChunksFit' /\ ChunksSaid'
  <2>1. ASSUME NEW i \in DOMAIN Coming PROVE After(i)' <=> After(i)
    <3>1. \A j \in 1..(i - 1) : j \in DOMAIN Coming
      BY <1>4
    <3> QED BY <3>1, <1>3 DEF After
  <2>2. ChunksFit'
    BY <2>1, <1>1, <1>3, <1>11 DEF AcpInv, ChunksFit
  <2> QED BY <2>2, <1>1, <1>3 DEF AcpInv, ChunksSaid
<1>12. ChunksFollow'
  <2> SUFFICES ASSUME Hearing', NEW i \in DOMAIN Coming', NEW n \in Nat \ {0}, IsChunk(i, n)'
               PROVE  /\ n > Len(text')
                      /\ \A k \in (Len(text') + 1)..n : \E j \in 1..i : IsChunk(j, k)'
                      /\ \A j \in 1..(i - 1), k \in Nat : IsChunk(j, k)' => k < n
    BY DEF ChunksFollow
  <2>1. Hearing /\ i \in DOMAIN Coming /\ IsChunk(i, n) /\ text' = text
    BY <1>1, <1>3, <1>11
  <2>2. /\ n > Len(text)
        /\ \A k \in (Len(text) + 1)..n : \E j \in 1..i : IsChunk(j, k)
        /\ \A j \in 1..(i - 1), k \in Nat : IsChunk(j, k) => k < n
    BY <2>1 DEF AcpInv, ChunksFollow
  <2>3. \A k \in (Len(text) + 1)..n : k \in Nat
    BY <1>4
  <2>4. \A j \in 1..i, k \in Nat : IsChunk(j, k)' <=> IsChunk(j, k)
    <3>1. \A j \in 1..i : j \in DOMAIN Coming
      BY <2>1, <1>4
    <3> QED BY <3>1, <1>3
  <2>5. \A k \in (Len(text') + 1)..n : \E j \in 1..i : IsChunk(j, k)'
    BY <2>1, <2>2, <2>3, <2>4
  <2>6. ASSUME NEW j \in 1..(i - 1), NEW k \in Nat, IsChunk(j, k)' PROVE k < n
    <3>1. j \in 1..i
      BY <2>1, <1>4
    <3> QED BY <2>2, <2>4, <2>6, <3>1
  <2> QED BY <2>1, <2>2, <2>5, <2>6
<1>13. ChunksCome' /\ ChunksPrecede'
  <2>1. \A k \in (Len(text) + 1)..said : k \in Nat
    BY <1>4 DEF AcpInv, AcpTyped
  <2>2. ChunksCome'
    BY <2>1, <1>1, <1>3, <1>11 DEF AcpInv, ChunksCome
  <2>3. ASSUME Prompting, NEW i \in DOMAIN Coming, IsResponse(i), NEW k \in (Len(text) + 1)..said
        PROVE  \E j \in 1..(i - 1) : IsChunk(j, k)'
    <3>1. PICK j \in 1..(i - 1) : IsChunk(j, k)
      BY <2>3 DEF AcpInv, ChunksPrecede
    <3>2. j \in DOMAIN Coming
      BY <1>4
    <3> QED BY <3>1, <3>2, <2>1, <1>3
  <2>4. ChunksPrecede'
    BY <2>3, <1>1, <1>3, <1>11 DEF ChunksPrecede
  <2> QED BY <2>2, <2>4
<1>14. RefusalComes' /\ RefusalPrecedes'
  <2>1. \A i \in DOMAIN Coming : \A j \in 1..(i - 1) : j \in DOMAIN Coming
    BY <1>4
  <2> QED BY <2>1, <1>1, <1>3, <1>11 DEF AcpInv, RefusalComes, RefusalPrecedes
<1>15. ReportFits'
  BY <1>1 DEF AcpInv, ReportFits
<1> QED BY <1>5, <1>6, <1>7, <1>8, <1>9, <1>10, <1>12, <1>13, <1>14, <1>15 DEF AcpInv

\* A step that leaves all but the program counter alone, or fails.
LEMMA PlainKeeps ==
    ASSUME AcpInv, UNCHANGED <<call, method, applied, text, messages, reader, output, served,
           asked, said, retained>>,
           result' \in {result, "error"}, next' \in {"wait", "terminate"},
           pc' = "start" => pc = "start",
           pc' \in {"start", "wait"} \/ (pc' = "write" /\ next' = "wait") => result' = "none"
    PROVE  AcpInv'
<1>1. Coming' = Coming /\ Lossless' = Lossless
  BY DEF Coming, Lossless
<1>2. (Prompting' => Prompting) /\ (Opening' => Opening) /\ (Hearing' => Hearing)
  BY DEF AcpInv, AcpTyped, Prompting, Opening, Hearing
<1>3. \A i \in DOMAIN Coming, n \in Nat : IsChunk(i, n)' <=> IsChunk(i, n)
  BY <1>1 DEF IsChunk
<1>4. AcpTyped' /\ TextFits' /\ AnswerFits'
  BY DEF AcpInv, AcpTyped, TextFits, AnswerFits, Kept, Answered
<1>5. RequestsFit'
  BY DEF AcpInv, AcpTyped, RequestsFit
<1>6. ResponseFits' /\ OneResponse' /\ ResponseComes'
  BY <1>1 DEF AcpInv, ResponseFits, OneResponse, ResponseComes, IsResponse
<1>7. ChunksFit' /\ ChunksSaid'
  BY <1>1, <1>2 DEF AcpInv, ChunksFit, ChunksSaid, IsChunk, IsResponse, After
<1>8. ChunksFollow'
  BY <1>1, <1>2 DEF AcpInv, ChunksFollow, IsChunk
<1>9. ChunksCome' /\ ChunksPrecede'
  BY <1>1, <1>2 DEF AcpInv, ChunksCome, ChunksPrecede, IsChunk, IsResponse
<1>10. RefusalComes' /\ RefusalPrecedes' /\ ReportFits'
  BY <1>1, <1>2 DEF AcpInv, RefusalComes, RefusalPrecedes, ReportFits, Refused, IsResponse, Kept
<1> QED BY <1>4, <1>5, <1>6, <1>7, <1>8, <1>9, <1>10 DEF AcpInv

\* What the client receives was the first under way.
LEMMA FirstReceived ==
    ASSUME AcpInv, pc = "wait", messages # <<>>, messages' = Tail(messages),
           UNCHANGED <<reader, output>>, NEW N \in Nat, N = Len(Coming) - 1
    PROVE  /\ result = "none" /\ Lossless' = Lossless /\ messages' \in Seq(Spoken)
           /\ Coming[1] = Head(messages) /\ Coming[1] \in Spoken /\ 1 \in DOMAIN Coming
           /\ DOMAIN Coming = 1..(N + 1) /\ DOMAIN Coming' = 1..N /\ Len(Coming') = N
           /\ Len(text) \in Nat
           /\ \A i \in 1..N : /\ Coming'[i] = Coming[i + 1] /\ i + 1 \in DOMAIN Coming
                              /\ IsResponse(i)' <=> IsResponse(i + 1)
                              /\ Refused(i)' <=> Refused(i + 1)
           /\ \A i \in 1..N, n \in Nat : IsChunk(i, n)' <=> IsChunk(i + 1, n)
<1>1. AcpTyped /\ result = "none"
  BY DEF AcpInv, RequestsFit
<1>2. /\ Lossless' = Lossless /\ messages' \in Seq(Spoken)
      /\ Coming[1] = Head(messages) /\ Coming[1] \in Spoken
      /\ DOMAIN Coming' = 1..N /\ \A i \in 1..N : Coming'[i] = Coming[i + 1]
      /\ Len(Coming') = N
  BY <1>1, ReceivedWasComing
<1>3. DOMAIN Coming = 1..(N + 1) /\ Len(text) \in Nat
  BY <1>1, LenIsNat
<1>4. \A i \in 1..N : i + 1 \in DOMAIN Coming
  BY <1>3
<1>5. \A i \in 1..N : IsResponse(i)' <=> IsResponse(i + 1)
  BY <1>2 DEF IsResponse
<1>6. \A i \in 1..N : Refused(i)' <=> Refused(i + 1)
  BY <1>2 DEF Refused
<1>7. \A i \in 1..N, n \in Nat : IsChunk(i, n)' <=> IsChunk(i + 1, n)
  BY <1>2 DEF IsChunk
<1> QED BY <1>1, <1>2, <1>3, <1>4, <1>5, <1>6, <1>7

\* The length of what is under way once one is received.
LEMMA ReceivedLen ==
    ASSUME AcpInv, messages # <<>>, messages' = Tail(messages), UNCHANGED <<reader, output>>
    PROVE  \E N \in Nat : N = Len(Coming) - 1
BY ReceivedWasComing, LenIsNat DEF AcpInv

\* A step that passes over what it receives, or fails over it.
LEMMA PassKeeps ==
    ASSUME AcpInv, pc = "wait", messages # <<>>, messages' = Tail(messages),
           UNCHANGED <<call, method, applied, text, reader, output, agent>>,
           result' \in {result, "error"}, next' \in {"wait", "terminate"}, pc' # "start",
           pc' = "wait" \/ (pc' = "write" /\ next' = "wait") => result' = "none",
           result' = "none" => /\ ~IsResponse(1)
                               /\ Prompting => ~Refused(1)
                               /\ Hearing => \A n \in Nat \ {0} : ~IsChunk(1, n)
    PROVE  AcpInv'
<1> USE DEF agent
<1>1. PICK N \in Nat : N = Len(Coming) - 1
  BY ReceivedLen
<1>2. /\ result = "none" /\ Lossless' = Lossless /\ messages' \in Seq(Spoken)
      /\ 1 \in DOMAIN Coming /\ DOMAIN Coming = 1..(N + 1) /\ DOMAIN Coming' = 1..N
      /\ Len(Coming') = N /\ Len(text) \in Nat /\ result' \in {"none", "error"}
  BY <1>1, FirstReceived
<1>3. \A i \in 1..N : /\ Coming'[i] = Coming[i + 1] /\ i + 1 \in DOMAIN Coming
                      /\ IsResponse(i)' <=> IsResponse(i + 1)
                      /\ Refused(i)' <=> Refused(i + 1)
  BY <1>1, FirstReceived
<1>4. \A i \in 1..N, n \in Nat : IsChunk(i, n)' <=> IsChunk(i + 1, n)
  BY <1>1, FirstReceived
<1>5. /\ Prompting' => Prompting /\ result' = "none" /\ Kept' = Kept
      /\ Opening' => Opening /\ result' = "none"
      /\ Hearing' => Hearing /\ result' = "none"
  BY <1>2 DEF Hearing, Prompting, Opening, Kept
<1>6. AcpTyped' /\ TextFits' /\ AnswerFits'
  BY <1>2 DEF AcpInv, AcpTyped, TextFits, AnswerFits, Kept, Answered
<1>7. RequestsFit'
  BY <1>2 DEF AcpInv, AcpTyped, RequestsFit
<1>8. \A j \in DOMAIN Coming : j # 1 => j - 1 \in 1..N /\ (j - 1) + 1 = j
  BY <1>2
<1>9. ResponseFits' /\ OneResponse'
  <2>1. ResponseFits'
    <3> SUFFICES ASSUME NEW i \in 1..N, IsResponse(i)'
                 PROVE  /\ asked' = "none" /\ served' = <<method', applied'>>
                        /\ Coming'[i].kind = method'
      BY <1>2 DEF ResponseFits
    <3> QED BY <1>3 DEF AcpInv, ResponseFits
  <2>2. OneResponse'
    <3> SUFFICES ASSUME NEW i \in 1..N, NEW j \in 1..N, IsResponse(i)', IsResponse(j)'
                 PROVE  i = j
      BY <1>2 DEF OneResponse
    <3>1. i + 1 = j + 1
      BY <1>3 DEF AcpInv, OneResponse
    <3> QED BY <3>1
  <2> QED BY <2>1, <2>2
<1>10. ResponseComes'
  <2> SUFFICES ASSUME served = <<method, applied>>, asked = "none", result' = "none", Lossless
               PROVE  \E i \in DOMAIN Coming' : IsResponse(i)'
    BY <1>2 DEF ResponseComes
  <2>1. PICK j \in DOMAIN Coming : IsResponse(j)
    BY <1>2 DEF AcpInv, ResponseComes
  <2> QED BY <2>1, <1>2, <1>3, <1>8
<1>11. ChunksFit'
  <2>1. ASSUME result' = "none", NEW i \in 1..N PROVE After(i)' <=> After(i + 1)
    <3>1. ASSUME NEW j \in 1..(i - 1), IsResponse(j)' PROVE After(i + 1)
      <4>1. IsResponse(j + 1) /\ j + 1 \in 1..((i + 1) - 1)
        BY <3>1, <1>3
      <4> QED BY <4>1 DEF After
    <3>2. ASSUME NEW j \in 1..((i + 1) - 1), IsResponse(j) PROVE After(i)'
      <4>1. j # 1
        BY <2>1, <3>2
      <4>2. j - 1 \in 1..(i - 1) /\ j - 1 \in 1..N /\ (j - 1) + 1 = j
        BY <4>1
      <4>3. IsResponse(j - 1)'
        BY <3>2, <4>2, <1>3
      <4> QED BY <4>2, <4>3 DEF After
    <3> QED BY <3>1, <3>2 DEF After
  <2>2. ASSUME Prompting', NEW i \in 1..N, IsChunk(i, 0)'
        PROVE  After(i)'
    <3>1. IsChunk(i + 1, 0) /\ i + 1 \in DOMAIN Coming
      BY <2>2, <1>3, <1>4
    <3> QED BY <2>1, <2>2, <3>1, <1>5 DEF AcpInv, ChunksFit
  <2>3. ASSUME Opening', NEW i \in 1..N, NEW n \in Nat, IsChunk(i, n)'
        PROVE  n # 0 <=> After(i)'
    <3>1. IsChunk(i + 1, n) /\ i + 1 \in DOMAIN Coming
      BY <2>3, <1>3, <1>4
    <3> QED BY <2>1, <2>3, <3>1, <1>5 DEF AcpInv, ChunksFit
  <2> QED BY <2>2, <2>3, <1>2 DEF ChunksFit
<1>12. ChunksSaid'
  BY <1>2, <1>3, <1>4 DEF AcpInv, ChunksSaid
<1>13. ChunksFollow'
  <2> SUFFICES ASSUME Hearing', NEW i \in 1..N, NEW n \in Nat \ {0}, IsChunk(i, n)'
               PROVE  /\ n > Len(text')
                      /\ \A k \in (Len(text') + 1)..n : \E j \in 1..i : IsChunk(j, k)'
                      /\ \A j \in 1..(i - 1), k \in Nat : IsChunk(j, k)' => k < n
    BY <1>2 DEF ChunksFollow
  <2>1. IsChunk(i + 1, n) /\ i + 1 \in DOMAIN Coming /\ Hearing /\ result' = "none"
    BY <1>3, <1>4, <1>5
  <2>2. /\ n > Len(text)
        /\ \A k \in (Len(text) + 1)..n : \E j \in 1..(i + 1) : IsChunk(j, k)
        /\ \A j \in 1..((i + 1) - 1), k \in Nat : IsChunk(j, k) => k < n
    BY <2>1 DEF AcpInv, ChunksFollow
  <2>3. ASSUME NEW k \in (Len(text) + 1)..n
        PROVE  \E j \in 1..i : IsChunk(j, k)'
    <3>1. PICK j \in 1..(i + 1) : IsChunk(j, k)
      BY <2>2
    <3>2. k \in Nat \ {0} /\ j # 1
      BY <2>1, <3>1, <1>2
    <3>3. j - 1 \in 1..i /\ j - 1 \in 1..N /\ (j - 1) + 1 = j
      BY <3>2
    <3> QED BY <3>1, <3>2, <3>3, <1>4
  <2>4. ASSUME NEW j \in 1..(i - 1), NEW k \in Nat, IsChunk(j, k)'
        PROVE  k < n
    <3>1. j \in 1..N /\ j + 1 \in 1..((i + 1) - 1)
      OBVIOUS
    <3>2. IsChunk(j + 1, k)
      BY <2>4, <3>1, <1>4
    <3> QED BY <2>2, <3>1, <3>2
  <2> QED BY <2>2, <2>3, <2>4
<1>14. ChunksCome'
  <2> SUFFICES ASSUME Hearing', Lossless, NEW k \in (Len(text) + 1)..said
               PROVE  \E j \in 1..N : IsChunk(j, k)'
    BY <1>2 DEF ChunksCome
  <2>1. k \in Nat \ {0}
    BY <1>2 DEF AcpInv, AcpTyped
  <2>2. PICK j \in DOMAIN Coming : IsChunk(j, k)
    BY <1>5 DEF AcpInv, ChunksCome
  <2>3. j # 1
    BY <2>1, <2>2, <1>5
  <2> QED BY <2>1, <2>2, <2>3, <1>4, <1>8
<1>15. ChunksPrecede'
  <2> SUFFICES ASSUME Prompting', NEW i \in 1..N, IsResponse(i)', NEW k \in (Len(text) + 1)..said
               PROVE  \E j \in 1..(i - 1) : IsChunk(j, k)'
    BY <1>2 DEF ChunksPrecede
  <2>1. k \in Nat \ {0}
    BY <1>2 DEF AcpInv, AcpTyped
  <2>2. PICK j \in 1..((i + 1) - 1) : IsChunk(j, k)
    BY <1>3, <1>5 DEF AcpInv, ChunksPrecede
  <2>3. j # 1
    BY <2>1, <2>2, <1>5 DEF Hearing
  <2>4. j - 1 \in 1..(i - 1) /\ j - 1 \in 1..N /\ (j - 1) + 1 = j
    BY <2>3
  <2> QED BY <2>1, <2>2, <2>4, <1>4
<1>16. RefusalComes'
  <2> SUFFICES ASSUME Prompting', Lossless, ~Kept
               PROVE  \E j \in 1..N : Refused(j)'
    BY <1>2, <1>5 DEF RefusalComes
  <2>1. PICK j \in DOMAIN Coming : Refused(j)
    BY <1>5 DEF AcpInv, RefusalComes
  <2>2. j # 1
    BY <2>1, <1>5
  <2> QED BY <2>1, <2>2, <1>3, <1>8
<1>17. RefusalPrecedes'
  <2> SUFFICES ASSUME Prompting', NEW i \in 1..N, IsResponse(i)', ~Kept
               PROVE  \E j \in 1..(i - 1) : Refused(j)'
    BY <1>2, <1>5 DEF RefusalPrecedes
  <2>1. PICK j \in 1..((i + 1) - 1) : Refused(j)
    BY <1>3, <1>5 DEF AcpInv, RefusalPrecedes
  <2>2. j # 1
    BY <2>1, <1>5
  <2>3. j - 1 \in 1..(i - 1) /\ j - 1 \in 1..N /\ (j - 1) + 1 = j
    BY <2>2
  <2> QED BY <2>1, <2>3, <1>3
<1>18. ReportFits'
  <2> SUFFICES ASSUME Lossless, NEW i \in 1..N,
                      Coming'[i].kind \in {"session/new", "session/set_config_option"},
                      retained # Coming'[i].config
               PROVE  \E j \in (i + 1)..N : /\ Coming'[j].kind = "config" /\ Coming'[j].own
                                            /\ Coming'[j].config = retained
    BY <1>2 DEF ReportFits
  <2>1. PICK j \in ((i + 1) + 1)..Len(Coming) :
            Coming[j].kind = "config" /\ Coming[j].own /\ Coming[j].config = retained
    BY <1>3 DEF AcpInv, ReportFits
  <2>2. j - 1 \in (i + 1)..N /\ j - 1 \in 1..N /\ (j - 1) + 1 = j
    BY <2>1, <1>1
  <2> QED BY <2>1, <2>2, <1>3
<1> QED BY <1>6, <1>7, <1>9, <1>10, <1>11, <1>12, <1>13, <1>14, <1>15, <1>16, <1>17,
        <1>18 DEF AcpInv

\* A chunk of the answer is received.
LEMMA CollectKeeps ==
    ASSUME AcpInv, pc = "wait", messages # <<>>, messages' = Tail(messages),
           UNCHANGED <<call, method, applied, result, next, reader, output, agent>>, pc' = "wait",
           method = "session/prompt", Head(messages).kind = "chunk",
           text' = Append(text, Head(messages).n)
    PROVE  AcpInv'
<1> USE DEF agent
<1>1. PICK N \in Nat : N = Len(Coming) - 1
  BY ReceivedLen
<1>2. /\ result = "none" /\ Lossless' = Lossless /\ messages' \in Seq(Spoken)
      /\ 1 \in DOMAIN Coming /\ DOMAIN Coming = 1..(N + 1) /\ DOMAIN Coming' = 1..N
      /\ Len(Coming') = N /\ Len(text) \in Nat
  BY <1>1, FirstReceived
<1>3. \A i \in 1..N : /\ Coming'[i] = Coming[i + 1] /\ i + 1 \in DOMAIN Coming
                      /\ IsResponse(i)' <=> IsResponse(i + 1)
                      /\ Refused(i)' <=> Refused(i + 1)
  BY <1>1, FirstReceived
<1>4. \A i \in 1..N, n \in Nat : IsChunk(i, n)' <=> IsChunk(i + 1, n)
  BY <1>1, FirstReceived
<1>5. /\ Prompting /\ Prompting' /\ Kept' = Kept /\ said \in Nat /\ result' = "none"
      /\ Hearing /\ ~Opening' /\ text \in Seq(Nat)
  BY <1>2 DEF Prompting, Opening, Hearing, LastBefore, Kept, AcpInv, AcpTyped
<1>6. PICK c \in Nat : c = Head(messages).n /\ \A n \in Nat : IsChunk(1, n) <=> n = c
  <2>1. Coming[1] = Head(messages) /\ Coming[1] \in Spoken
    BY <1>1, FirstReceived
  <2>2. Coming[1].kind = "chunk" /\ Coming[1].n \in Nat
    BY <2>1, SpokenFacts
  <2> QED BY <2>1, <2>2 DEF IsChunk
<1>7. c = Len(text) + 1
  <2>1. c # 0
    <3>1. IsChunk(1, 0) => \E j \in 1..(1 - 1) : IsResponse(j)
      BY <1>2, <1>5 DEF AcpInv, ChunksFit, After
    <3> QED BY <3>1, <1>6
  <2>2. /\ c > Len(text)
        /\ \A k \in (Len(text) + 1)..c : \E j \in 1..1 : IsChunk(j, k)
    BY <2>1, <1>2, <1>5, <1>6 DEF AcpInv, ChunksFollow
  <2>3. Len(text) + 1 \in (Len(text) + 1)..c /\ Len(text) + 1 \in Nat
    BY <2>2, <1>2
  <2>4. IsChunk(1, Len(text) + 1)
    BY <2>2, <2>3
  <2> QED BY <2>3, <2>4, <1>6
<1>8. c <= said
  BY <1>2, <1>6 DEF AcpInv, ChunksSaid
<1>9. text' = Append(text, c) /\ Len(text') = Len(text) + 1 /\ text' \in Seq(Nat)
  BY <1>5, <1>6, AppendProperties
<1>10. ~IsResponse(1) /\ ~Refused(1)
  <2>1. Coming[1].kind = "chunk"
    BY <1>6 DEF IsChunk
  <2> QED BY <2>1 DEF IsResponse, Refused, MethodNames
<1>11. AcpTyped'
  BY <1>2, <1>9 DEF AcpInv, AcpTyped
<1>12. RequestsFit' /\ AnswerFits'
  <2>1. method = "session/prompt" /\ result = "none"
    BY <1>5 DEF Prompting
  <2> QED BY <2>1 DEF AcpInv, RequestsFit, AnswerFits
<1>13. TextFits'
  <2>1. /\ text = [i \in 1..Len(text) |-> i] /\ method' = method /\ said' = said
        /\ said > 0 => call = "run"
    BY DEF AcpInv, TextFits
  <2>2. \A i \in 1..Len(text') : text'[i] = i
    BY <2>1, <1>2, <1>5, <1>7, <1>9, AppendProperties
  <2>3. text' = [i \in 1..Len(text') |-> i]
    BY <2>2, <1>9, LenProperties
  <2> QED BY <2>1, <2>3, <1>5, <1>7, <1>8, <1>9 DEF TextFits, Prompting
<1>14. \A j \in DOMAIN Coming : j # 1 => j - 1 \in 1..N /\ (j - 1) + 1 = j
  BY <1>2
<1>15. ResponseFits' /\ OneResponse'
  <2>1. ResponseFits'
    BY <1>2, <1>3 DEF AcpInv, ResponseFits
  <2>2. ASSUME NEW i \in 1..N, NEW j \in 1..N, IsResponse(i)', IsResponse(j)' PROVE i = j
    <3>1. i + 1 = j + 1
      BY <2>2, <1>3 DEF AcpInv, OneResponse
    <3> QED BY <3>1
  <2> QED BY <2>1, <2>2, <1>2 DEF OneResponse
<1>16. ResponseComes'
  <2> SUFFICES ASSUME served = <<method, applied>>, asked = "none", Lossless
               PROVE  \E i \in DOMAIN Coming' : IsResponse(i)'
    BY <1>2 DEF ResponseComes
  <2>1. PICK j \in DOMAIN Coming : IsResponse(j)
    BY <1>2 DEF AcpInv, ResponseComes
  <2> QED BY <2>1, <1>2, <1>3, <1>10, <1>14
<1>17. ChunksFit'
  <2> SUFFICES ASSUME NEW i \in 1..N, IsChunk(i, 0)'
               PROVE  After(i)'
    BY <1>2, <1>5 DEF ChunksFit
  <2>1. PICK j \in 1..((i + 1) - 1) : IsResponse(j)
    BY <1>2, <1>3, <1>4, <1>5 DEF AcpInv, ChunksFit, After
  <2>2. j - 1 \in 1..(i - 1) /\ j - 1 \in 1..N /\ (j - 1) + 1 = j
    BY <2>1, <1>10
  <2> QED BY <2>1, <2>2, <1>3 DEF After
<1>18. ChunksSaid'
  BY <1>2, <1>3, <1>4 DEF AcpInv, ChunksSaid
<1>19. ChunksFollow'
  <2> SUFFICES ASSUME NEW i \in 1..N, NEW n \in Nat \ {0}, IsChunk(i, n)'
               PROVE  /\ n > c
                      /\ \A k \in (c + 1)..n : \E j \in 1..i : IsChunk(j, k)'
                      /\ \A j \in 1..(i - 1), k \in Nat : IsChunk(j, k)' => k < n
    BY <1>2, <1>7, <1>9 DEF ChunksFollow
  <2>1. IsChunk(i + 1, n) /\ i + 1 \in DOMAIN Coming
    BY <1>3, <1>4
  <2>2. /\ \A k \in c..n : \E j \in 1..(i + 1) : IsChunk(j, k)
        /\ \A j \in 1..((i + 1) - 1), k \in Nat : IsChunk(j, k) => k < n
    BY <2>1, <1>5, <1>7 DEF AcpInv, ChunksFollow
  <2>3. n > c
    BY <2>2, <1>6
  <2>4. ASSUME NEW k \in (c + 1)..n
        PROVE  \E j \in 1..i : IsChunk(j, k)'
    <3>1. PICK j \in 1..(i + 1) : IsChunk(j, k)
      BY <2>2
    <3>2. k \in Nat /\ k # c
      OBVIOUS
    <3>3. j # 1
      BY <3>1, <3>2, <1>6
    <3>4. j - 1 \in 1..i /\ j - 1 \in 1..N /\ (j - 1) + 1 = j
      BY <3>3
    <3> QED BY <3>1, <3>2, <3>4, <1>4
  <2>5. ASSUME NEW j \in 1..(i - 1), NEW k \in Nat, IsChunk(j, k)'
        PROVE  k < n
    <3>1. j \in 1..N /\ j + 1 \in 1..((i + 1) - 1)
      OBVIOUS
    <3>2. IsChunk(j + 1, k)
      BY <2>5, <3>1, <1>4
    <3> QED BY <2>2, <3>1, <3>2
  <2> QED BY <2>3, <2>4, <2>5
<1>20. ChunksCome'
  <2> SUFFICES ASSUME Lossless, NEW k \in (c + 1)..said
               PROVE  \E j \in 1..N : IsChunk(j, k)'
    BY <1>2, <1>7, <1>9 DEF ChunksCome
  <2>1. k \in Nat /\ k # c
    BY <1>5
  <2>2. PICK j \in DOMAIN Coming : IsChunk(j, k)
    BY <1>2, <1>5, <1>7, SMTT(30) DEF AcpInv, ChunksCome
  <2>3. j # 1
    BY <2>1, <2>2, <1>6
  <2> QED BY <2>1, <2>2, <2>3, <1>4, <1>14
<1>21. ChunksPrecede'
  <2> SUFFICES ASSUME NEW i \in 1..N, IsResponse(i)', NEW k \in (c + 1)..said
               PROVE  \E j \in 1..(i - 1) : IsChunk(j, k)'
    BY <1>2, <1>7, <1>9 DEF ChunksPrecede
  <2>1. k \in Nat /\ k # c
    BY <1>5
  <2>2. PICK j \in 1..((i + 1) - 1) : IsChunk(j, k)
    <3>1. IsResponse(i + 1) /\ i + 1 \in DOMAIN Coming
      BY <1>3
    <3>2. k \in (Len(text) + 1)..said
      BY <1>2, <1>5, <1>7
    <3> QED BY <3>1, <3>2, <1>5 DEF AcpInv, ChunksPrecede
  <2>3. j # 1
    BY <2>1, <2>2, <1>6
  <2>4. j - 1 \in 1..(i - 1) /\ j - 1 \in 1..N /\ (j - 1) + 1 = j
    BY <2>3
  <2> QED BY <2>1, <2>2, <2>4, <1>4
<1>22. RefusalComes'
  <2> SUFFICES ASSUME Lossless, ~Kept
               PROVE  \E j \in 1..N : Refused(j)'
    BY <1>2, <1>5 DEF RefusalComes
  <2>1. PICK j \in DOMAIN Coming : Refused(j)
    BY <1>5 DEF AcpInv, RefusalComes
  <2> QED BY <2>1, <1>3, <1>10, <1>14
<1>23. RefusalPrecedes'
  <2> SUFFICES ASSUME NEW i \in 1..N, IsResponse(i)', ~Kept
               PROVE  \E j \in 1..(i - 1) : Refused(j)'
    BY <1>2, <1>5 DEF RefusalPrecedes
  <2>1. PICK j \in 1..((i + 1) - 1) : Refused(j)
    BY <1>3, <1>5 DEF AcpInv, RefusalPrecedes
  <2>2. j - 1 \in 1..(i - 1) /\ j - 1 \in 1..N /\ (j - 1) + 1 = j
    BY <2>1, <1>10
  <2> QED BY <2>1, <2>2, <1>3
<1>24. ReportFits'
  <2> SUFFICES ASSUME Lossless, NEW i \in 1..N,
                      Coming'[i].kind \in {"session/new", "session/set_config_option"},
                      retained # Coming'[i].config
               PROVE  \E j \in (i + 1)..N : /\ Coming'[j].kind = "config" /\ Coming'[j].own
                                            /\ Coming'[j].config = retained
    BY <1>2 DEF ReportFits
  <2>1. PICK j \in ((i + 1) + 1)..Len(Coming) :
            Coming[j].kind = "config" /\ Coming[j].own /\ Coming[j].config = retained
    BY <1>3 DEF AcpInv, ReportFits
  <2>2. j - 1 \in (i + 1)..N /\ j - 1 \in 1..N /\ (j - 1) + 1 = j
    BY <2>1, <1>1
  <2> QED BY <2>1, <2>2, <1>3
<1> QED BY <1>11, <1>12, <1>13, <1>15, <1>16, <1>17, <1>18, <1>19, <1>20, <1>21, <1>22, <1>23,
           <1>24 DEF AcpInv

\* The response to a request is received, and the next is made.
LEMMA MoveKeeps ==
    ASSUME AcpInv, pc = "wait", messages # <<>>, messages' = Tail(messages),
           UNCHANGED <<call, text, result, reader, output, agent>>, pc' = "write", next' = "wait",
           IsResponse(1), method # "session/close",
           method' \in MethodNames \ {"initialize"}, applied' \in 0..Options,
           method' # method \/ applied' # applied,
           method' = "session/new" => applied' = 0,
           method' = "session/set_config_option" => applied' < Options,
           method = "session/prompt" => method' = "session/close",
           method' = "session/prompt" =>
               /\ call = "run"
               /\ \/ Options = 0
                  \/ /\ method \in {"session/new", "session/set_config_option"}
                     /\ 1..Options \subseteq Head(messages).config,
           (call = "run" /\ <<method, applied>> = LastBefore) <=> method' = "session/prompt",
           method' = "session/close" => Len(text) = said /\ (call = "run" => Kept /\ Answered)
    PROVE  AcpInv'
<1> USE DEF agent
<1>1. PICK N \in Nat : N = Len(Coming) - 1
  BY ReceivedLen
<1>2. /\ result = "none" /\ Lossless' = Lossless /\ messages' \in Seq(Spoken)
      /\ 1 \in DOMAIN Coming /\ DOMAIN Coming = 1..(N + 1) /\ DOMAIN Coming' = 1..N
      /\ Len(Coming') = N /\ Len(text) \in Nat
  BY <1>1, FirstReceived
<1>3. \A i \in 1..N : /\ Coming'[i] = Coming[i + 1] /\ i + 1 \in DOMAIN Coming
                      /\ IsResponse(i)' <=> IsResponse(i + 1)
                      /\ Refused(i)' <=> Refused(i + 1)
  BY <1>1, FirstReceived
<1>4. \A i \in 1..N, n \in Nat : IsChunk(i, n)' <=> IsChunk(i + 1, n)
  BY <1>1, FirstReceived
<1>5. /\ said \in Nat /\ text \in Seq(Nat) /\ method' # "initialize" /\ result' = "none"
      /\ method' \in MethodNames /\ method # "none" /\ method' # "none"
  BY <1>2 DEF AcpInv, AcpTyped, MethodNames
<1>6. asked = "none" /\ served = <<method, applied>> /\ Coming[1].kind = method
  BY <1>2 DEF AcpInv, ResponseFits
<1>7. served # <<method', applied'>>
  BY <1>6
<1>8. ASSUME NEW i \in 1..N PROVE ~IsResponse(i)'
  <2> SUFFICES ASSUME IsResponse(i)' PROVE FALSE
    OBVIOUS
  <2>1. IsResponse(i + 1) /\ i + 1 \in DOMAIN Coming
    BY <1>3
  <2>2. 1 = i + 1
    BY <2>1, <1>2 DEF AcpInv, OneResponse
  <2> QED BY <2>2
\* The request in hand was the one before the prompt, or nothing is said yet.
<1>9. /\ method' = "session/prompt" => Opening /\ Hearing /\ Len(text) = 0
      /\ method' \notin {"session/prompt", "session/close"} => said = 0 /\ Len(text) = 0
  <2>1. Len(text) <= said /\ (said > 0 => call = "run")
    BY DEF AcpInv, TextFits
  <2>2. method' = "session/prompt" => Opening /\ Hearing /\ Len(text) = 0
    <3>1. method' = "session/prompt" => method # "session/prompt"
      OBVIOUS
    <3>2. Len(text) > 0 => method = "session/prompt"
      BY DEF AcpInv, TextFits
    <3> QED BY <3>1, <3>2, <1>2 DEF Opening, Hearing
  <2>3. method' \notin {"session/prompt", "session/close"} => ~(said > 0)
    BY DEF AcpInv, TextFits
  <2> QED BY <2>1, <2>2, <2>3, <1>2, <1>5
<1>a. LastBefore' = LastBefore /\ Opening' => method' \notin {"session/prompt", "session/close"}
  BY DEF LastBefore, Opening
<1>b. /\ Prompting' <=> method' = "session/prompt"
      /\ Opening' => said = 0 /\ Len(text) = 0
  BY <1>9, <1>a, <1>5 DEF Prompting, LastBefore
<1>10. AcpTyped'
  BY <1>2, <1>5 DEF AcpInv, AcpTyped
<1>11. RequestsFit'
  <2>1. call = "run" /\ served = LastBefore => method' = "session/prompt"
    BY <1>6
  <2>2. method' = "session/prompt" => served = LastBefore
    BY <1>6
  <2>3. LastBefore' = LastBefore /\ served' = served /\ asked' = asked /\ call' = call
    BY DEF LastBefore
  <2> QED BY <2>1, <2>2, <2>3, <1>2, <1>5, <1>6 DEF AcpInv, RequestsFit
<1>12. TextFits'
  <2>1. said > 0 => call = "run" /\ method' \in {"session/prompt", "session/close"}
    BY <1>5, <1>9 DEF AcpInv, TextFits
  <2>2. Len(text) > 0 => method' \in {"session/prompt", "session/close"}
    BY <1>2, <1>9
  <2> QED BY <2>1, <2>2 DEF AcpInv, TextFits
<1>13. AnswerFits'
  <2>1. method' = "session/close" => /\ Len(text') = said' /\ asked' # "session/prompt"
                                     /\ call' = "run" => Kept' /\ Answered'
    BY <1>6 DEF Kept, Answered
  <2> QED BY <2>1, <1>5 DEF AnswerFits
<1>14. ResponseFits' /\ OneResponse' /\ ResponseComes'
  BY <1>2, <1>7, <1>8 DEF ResponseFits, OneResponse, ResponseComes
\* What was said before the response to the request before the prompt is gone,
\* and what was said after it is the answer's.
<1>15. ChunksFit'
  <2>1. ASSUME Prompting', NEW i \in 1..N, IsChunk(i, 0)'
        PROVE  FALSE
    <3>1. IsChunk(i + 1, 0) /\ i + 1 \in DOMAIN Coming /\ Opening
      BY <2>1, <1>3, <1>4, <1>9, <1>b
    <3>2. ~After(i + 1)
      BY <3>1 DEF AcpInv, ChunksFit
    <3>3. 1 \in 1..((i + 1) - 1)
      OBVIOUS
    <3> QED BY <3>2, <3>3 DEF After
  <2>2. ASSUME Opening', NEW i \in 1..N, NEW n \in Nat, IsChunk(i, n)'
        PROVE  n = 0 /\ ~After(i)'
    <3>1. IsChunk(i + 1, n) /\ i + 1 \in DOMAIN Coming
      BY <2>2, <1>3, <1>4
    <3>2. n <= said /\ said = 0
      BY <2>2, <3>1, <1>b DEF AcpInv, ChunksSaid
    <3>3. \A j \in 1..(i - 1) : j \in 1..N
      OBVIOUS
    <3> QED BY <3>2, <3>3, <1>8 DEF After
  <2> QED BY <2>1, <2>2, <1>2 DEF ChunksFit
<1>16. ChunksSaid'
  BY <1>2, <1>3, <1>4 DEF AcpInv, ChunksSaid
<1>c. \A n \in Nat : ~IsChunk(1, n)
  BY DEF IsResponse, IsChunk, MethodNames
<1>17. ChunksFollow'
  <2> SUFFICES ASSUME Hearing', NEW i \in 1..N, NEW n \in Nat \ {0}, IsChunk(i, n)'
               PROVE  /\ n > Len(text)
                      /\ \A k \in (Len(text) + 1)..n : \E j \in 1..i : IsChunk(j, k)'
                      /\ \A j \in 1..(i - 1), k \in Nat : IsChunk(j, k)' => k < n
    BY <1>2 DEF ChunksFollow
  <2>1. n <= said
    BY <1>2, <1>16 DEF ChunksSaid
  <2>2. IsChunk(i + 1, n) /\ i + 1 \in DOMAIN Coming /\ Hearing
    BY <2>1, <1>3, <1>4, <1>9, <1>b DEF Hearing
  <2>3. /\ n > Len(text)
        /\ \A k \in (Len(text) + 1)..n : \E j \in 1..(i + 1) : IsChunk(j, k)
        /\ \A j \in 1..((i + 1) - 1), k \in Nat : IsChunk(j, k) => k < n
    BY <2>2 DEF AcpInv, ChunksFollow
  <2>4. ASSUME NEW k \in (Len(text) + 1)..n
        PROVE  \E j \in 1..i : IsChunk(j, k)'
    <3>1. PICK j \in 1..(i + 1) : IsChunk(j, k)
      BY <2>3
    <3>2. k \in Nat /\ j # 1
      BY <3>1, <1>2, <1>c
    <3>3. j - 1 \in 1..i /\ j - 1 \in 1..N /\ (j - 1) + 1 = j
      BY <3>2
    <3> QED BY <3>1, <3>2, <3>3, <1>4
  <2>5. ASSUME NEW j \in 1..(i - 1), NEW k \in Nat, IsChunk(j, k)'
        PROVE  k < n
    <3>1. j \in 1..N /\ j + 1 \in 1..((i + 1) - 1)
      OBVIOUS
    <3>2. IsChunk(j + 1, k)
      BY <2>5, <3>1, <1>4
    <3> QED BY <2>3, <3>1, <3>2
  <2> QED BY <2>3, <2>4, <2>5
<1>18. ChunksCome' /\ ChunksPrecede'
  <2>1. ChunksPrecede'
    BY <1>2, <1>8 DEF ChunksPrecede
  <2> SUFFICES ASSUME Hearing', Lossless, NEW k \in (Len(text) + 1)..said
               PROVE  \E j \in 1..N : IsChunk(j, k)'
    BY <2>1, <1>2 DEF ChunksCome
  <2>2. k \in Nat /\ Hearing
    BY <1>2, <1>5, <1>9, <1>b DEF Hearing
  <2>3. PICK j \in DOMAIN Coming : IsChunk(j, k)
    BY <2>2 DEF AcpInv, ChunksCome
  <2>4. j # 1 /\ j - 1 \in 1..N /\ (j - 1) + 1 = j
    BY <2>2, <2>3, <1>2, <1>c
  <2> QED BY <2>2, <2>3, <2>4, <1>4
<1>19. RefusalComes' /\ RefusalPrecedes'
  <2> SUFFICES ASSUME method' = "session/prompt", Lossless, ~Kept
               PROVE  \E j \in 1..N : Refused(j)'
    BY <1>2, <1>8 DEF RefusalComes, RefusalPrecedes, Prompting, Kept
  <2>1. /\ Coming[1].kind \in {"session/new", "session/set_config_option"}
        /\ 1..Options \subseteq Coming[1].config
    <3>1. Options # 0
      BY DEF Kept
    <3>2. Coming[1] = Head(messages)
      BY <1>1, FirstReceived
    <3> QED BY <3>1, <3>2, <1>6
  <2>2. PICK j \in (1 + 1)..Len(Coming) :
            Coming[j].kind = "config" /\ Coming[j].own /\ Coming[j].config = retained
    BY <2>1, <1>2 DEF AcpInv, ReportFits, Kept
  <2>3. Refused(j)
    BY <2>2 DEF Refused, Kept
  <2>4. j - 1 \in 1..N /\ (j - 1) + 1 = j
    BY <2>2, <1>1
  <2> QED BY <2>3, <2>4, <1>3
<1>20. ReportFits'
  <2>1. \A i \in 1..N : Coming'[i].kind \notin {"session/new", "session/set_config_option"}
    BY <1>8 DEF IsResponse, MethodNames
  <2> QED BY <2>1, <1>2 DEF ReportFits
<1> QED BY <1>10, <1>11, <1>12, <1>13, <1>14, <1>15, <1>16, <1>17, <1>18, <1>19, <1>20 DEF AcpInv

\* When the response to the prompt is next, the client has all of the answer.
LEMMA AnswerIsComplete ==
    ASSUME AcpInv, 1 \in DOMAIN Coming, IsResponse(1)
    PROVE  /\ asked = "none" /\ served = <<method, applied>> /\ Coming[1].kind = method
           /\ Prompting => Len(text) = said /\ Kept /\ Answered
           /\ call # "run" => Len(text) = said
<1>1. asked = "none" /\ served = <<method, applied>> /\ Coming[1].kind = method
  BY DEF AcpInv, ResponseFits
<1>2. Len(text) <= said /\ Len(text) \in Nat /\ said \in Nat
  BY LenIsNat DEF AcpInv, TextFits, AcpTyped
<1>3. ASSUME Prompting PROVE Len(text) = said /\ Kept /\ Answered
  <2>1. \A k \in (Len(text) + 1)..said : \E j \in 1..(1 - 1) : IsChunk(j, k)
    BY <1>3 DEF AcpInv, ChunksPrecede
  <2>2. Kept \/ \E j \in 1..(1 - 1) : Refused(j)
    BY <1>3 DEF AcpInv, RefusalPrecedes
  <2>3. ~(Len(text) < said)
    <3>1. Len(text) < said => Len(text) + 1 \in (Len(text) + 1)..said
      BY <1>2
    <3> QED BY <2>1, <3>1
  <2> QED BY <2>2, <2>3, <1>1, <1>2, <1>3 DEF Answered, Prompting
<1>4. call # "run" => ~(said > 0)
  BY DEF AcpInv, TextFits
<1> QED BY <1>1, <1>2, <1>3, <1>4

\* The response to the last request is received.
LEMMA SucceedKeeps ==
    ASSUME AcpInv, pc = "wait", messages # <<>>, messages' = Tail(messages),
           UNCHANGED <<call, method, text, next, reader, output, agent>>, pc' = "terminate",
           result' = "ok", IsResponse(1), applied' \in 0..Options,
           applied' # applied => method = "session/set_config_option",
           call = "run" => method \in {"session/prompt", "session/close"}
    PROVE  AcpInv'
<1> USE DEF agent
<1>1. PICK N \in Nat : N = Len(Coming) - 1
  BY ReceivedLen
<1>2. /\ result = "none" /\ Lossless' = Lossless /\ messages' \in Seq(Spoken)
      /\ 1 \in DOMAIN Coming /\ DOMAIN Coming = 1..(N + 1) /\ DOMAIN Coming' = 1..N
      /\ Len(Coming') = N /\ Len(text) \in Nat
  BY <1>1, FirstReceived
<1>3. \A i \in 1..N : /\ Coming'[i] = Coming[i + 1] /\ i + 1 \in DOMAIN Coming
                      /\ IsResponse(i)' <=> IsResponse(i + 1)
                      /\ Refused(i)' <=> Refused(i + 1)
  BY <1>1, FirstReceived
<1>4. \A i \in 1..N, n \in Nat : IsChunk(i, n)' <=> IsChunk(i + 1, n)
  BY <1>1, FirstReceived
<1>5. /\ asked = "none" /\ served = <<method, applied>>
      /\ Prompting => Len(text) = said /\ Kept /\ Answered
  BY <1>2, AnswerIsComplete
<1>6. ASSUME NEW i \in 1..N PROVE ~IsResponse(i)'
  <2> SUFFICES ASSUME IsResponse(i)' PROVE FALSE
    OBVIOUS
  <2>1. IsResponse(i + 1) /\ i + 1 \in DOMAIN Coming
    BY <1>3
  <2>2. 1 = i + 1
    BY <2>1, <1>2 DEF AcpInv, OneResponse
  <2> QED BY <2>2
<1>7. ~Prompting' /\ ~Opening' /\ ~Hearing'
  BY DEF Prompting, Opening, Hearing
<1>8. AcpTyped' /\ TextFits'
  <2>1. TextFits'
    BY <1>2 DEF AcpInv, TextFits
  <2> QED BY <2>1, <1>2 DEF AcpInv, AcpTyped
<1>9. RequestsFit'
  BY <1>2, <1>5 DEF AcpInv, RequestsFit
<1>10. AnswerFits'
  <2>1. method = "session/prompt" => Prompting
    BY <1>2 DEF Prompting
  <2> QED BY <2>1, <1>5 DEF AcpInv, AnswerFits, Kept, Answered
<1>11. ResponseFits' /\ OneResponse' /\ ResponseComes'
  BY <1>2, <1>6 DEF ResponseFits, OneResponse, ResponseComes
<1>12. ChunksFit'
  BY <1>7 DEF ChunksFit
<1>13. ChunksSaid'
  BY <1>2, <1>3, <1>4 DEF AcpInv, ChunksSaid
<1>14. ChunksFollow' /\ ChunksCome' /\ ChunksPrecede' /\ RefusalComes' /\ RefusalPrecedes'
  BY <1>7 DEF ChunksFollow, ChunksCome, ChunksPrecede, RefusalComes, RefusalPrecedes
<1>15. ReportFits'
  <2>1. \A i \in 1..N : Coming'[i].kind \notin {"session/new", "session/set_config_option"}
    BY <1>6 DEF IsResponse, MethodNames
  <2> QED BY <2>1, <1>2 DEF ReportFits
<1> QED BY <1>8, <1>9, <1>10, <1>11, <1>12, <1>13, <1>14, <1>15 DEF AcpInv

\* The client receives.
LEMMA ReceiveKeeps == ASSUME AcpInv, Receive PROVE AcpInv'
<1> USE OptionsAssumption DEF pipes, agent, client
<1>1. /\ pc = "wait" /\ messages # <<>> /\ messages' = Tail(messages)
      /\ UNCHANGED <<reader, output, agent>>
  BY DEF Receive
<1>2. PICK N \in Nat : N = Len(Coming) - 1
  BY <1>1, ReceivedLen
<1>3. PICK m \in Spoken :
          m = Head(messages) /\ m = Coming[1] /\ 1 \in DOMAIN Coming /\ result = "none"
  BY <1>1, <1>2, FirstReceived
<1>a. next \in {"wait", "terminate"}
  BY DEF AcpInv, AcpTyped
<1>4. IsResponse(1) <=> m.kind \in MethodNames
  BY <1>3 DEF IsResponse
<1>5. method \in MethodNames /\ applied \in 0..Options /\ (Prompting <=> method = "session/prompt")
  BY <1>3 DEF AcpInv, AcpTyped, Prompting
<1>6. CASE Fail
  <2>1. /\ UNCHANGED <<call, method, applied, text>> /\ result' = "error"
        /\ \/ pc' = "terminate" /\ next' = next
           \/ pc' = "write" /\ next' = "terminate"
    BY <1>6 DEF Fail, Reject, Write
  <2> QED BY <2>1, <1>1, <1>a, PassKeeps
<1>r. CASE Reject
  <2>1. /\ UNCHANGED <<call, method, applied, text>> /\ result' = "error"
        /\ pc' = "terminate" /\ next' = next
    BY <1>r DEF Reject
  <2> QED BY <2>1, <1>1, <1>a, PassKeeps
<1>7. CASE Unsupported(m) /\ m.kind \in {"permission", "method"}
  <2>1. /\ UNCHANGED <<call, method, applied, text>>
        /\ \/ /\ result' = "error" /\ pc' = "write" /\ next' = "terminate"
           \/ UNCHANGED <<pc, next, result>>
    BY <1>7 DEF Unsupported, Write, Ignore
  <2>2. ~IsResponse(1) /\ ~Refused(1) /\ \A n \in Nat : ~IsChunk(1, n)
    BY <1>3, <1>4, <1>7 DEF Refused, IsChunk, MethodNames
  <2> QED BY <2>1, <2>2, <1>1, <1>3, <1>a, PassKeeps
<1>8. CASE Ignore /\ m.kind \in {"chunk", "config"} /\ method # "session/prompt"
  <2>1. ~IsResponse(1) /\ ~Prompting
    BY <1>4, <1>5, <1>8 DEF MethodNames
  <2>2. Hearing => \A n \in Nat \ {0} : ~IsChunk(1, n)
    BY <2>1, <1>3 DEF Hearing, AcpInv, ChunksFit, After
  <2> QED BY <2>1, <2>2, <1>1, <1>3, <1>8, <1>a, PassKeeps DEF Ignore
<1>9. CASE method = "session/prompt" /\ handle(m) /\ m.kind \in {"chunk", "config", "permission"}
  <2>1. CASE m.kind = "chunk"
    BY <2>1, <1>1, <1>3, <1>9, CollectKeeps DEF handle, Collect
  <2>2. CASE m.kind = "config"
    <3>1. CASE m.own /\ 1..Options \subseteq m.config
      <4>1. ~IsResponse(1) /\ ~Refused(1) /\ \A n \in Nat : ~IsChunk(1, n)
        BY <2>2, <3>1, <1>3, <1>4 DEF Refused, IsChunk, MethodNames
      <4>2. UNCHANGED client
        BY <2>2, <3>1, <1>9 DEF handle, Ignore
      <4> QED BY <4>1, <4>2, <1>1, <1>3, <1>a, PassKeeps
    <3>2. CASE ~(m.own /\ 1..Options \subseteq m.config)
      BY <2>2, <3>2, <1>6, <1>9 DEF handle
    <3> QED BY <3>1, <3>2
  <2>3. CASE m.kind = "permission"
    <3>1. CASE Write(1, "wait") /\ UNCHANGED <<call, method, applied, closes, text, result>>
      <4>1. ~IsResponse(1) /\ ~Refused(1) /\ \A n \in Nat : ~IsChunk(1, n)
        BY <2>3, <1>3, <1>4 DEF Refused, IsChunk, MethodNames
      <4>2. pc' = "write" /\ next' = "wait" /\ UNCHANGED <<call, method, applied, text, result>>
        BY <3>1 DEF Write
      <4> QED BY <4>1, <4>2, <1>1, <1>3, <1>a, PassKeeps
    <3> QED BY <2>3, <3>1, <1>6, <1>9 DEF handle
  <2> QED BY <2>1, <2>2, <2>3, <1>9
<1>10. CASE Accept(m) /\ m.kind = method
  <2>1. IsResponse(1) /\ m.kind = method
    BY <1>4, <1>5, <1>10
  <2>2. /\ Prompting => Len(text) = said /\ Kept /\ Answered
        /\ call # "run" => Len(text) = said
    BY <2>1, <1>3, AnswerIsComplete
  <2>3. ASSUME Succeed, call = "run" => method \in {"session/prompt", "session/close"} PROVE AcpInv'
    <3>1. UNCHANGED <<call, method, applied, text, next>> /\ pc' = "terminate" /\ result' = "ok"
      BY <2>3 DEF Succeed
    <3> QED BY <3>1, <2>1, <2>3, <1>1, <1>5, SucceedKeeps
  <2>4. CASE method = "initialize" /\ Initialized(m)
    <3>1. CASE call = "describe"
      BY <2>3, <2>4, <3>1 DEF Initialized
    <3>2. CASE call # "describe"
      <4>1. /\ method' = "session/new" /\ pc' = "write" /\ next' = "wait"
            /\ UNCHANGED <<call, applied, text, result>>
        BY <2>4, <3>2 DEF Initialized, Request, Write
      <4>2. applied = 0
        BY <2>4 DEF AcpInv, RequestsFit
      <4>3. <<method, applied>> # LastBefore
        BY <2>4 DEF LastBefore
      <4> QED BY <4>1, <4>2, <4>3, <2>1, <2>4, <1>1, <1>5, MoveKeeps DEF MethodNames
    <3> QED BY <3>1, <3>2
  <2>5. ASSUME NEW k \in 0..Options, Configure(k), applied' = k, UNCHANGED <<call, text>>,
               method \in {"session/new", "session/set_config_option"}, 1..k \subseteq m.config,
               method = "session/set_config_option" => k = applied + 1, method = "session/new" =>
                   k = applied
        PROVE  AcpInv'
    <3>1. CASE k < Options
      <4>1. /\ method' = "session/set_config_option" /\ pc' = "write" /\ next' = "wait"
            /\ UNCHANGED result
        BY <2>5, <3>1 DEF Configure, Request, Write
      <4>2. method' # method \/ applied' # applied
        BY <2>5, <4>1, <1>5
      <4>3. <<method, applied>> # LastBefore
        BY <2>5, <3>1, <1>5 DEF LastBefore
      <4> QED BY <4>1, <4>2, <4>3, <2>1, <2>5, <3>1, <1>1, MoveKeeps DEF MethodNames
    <3>2. CASE ~(k < Options) /\ call = "run"
      <4>1. method' = "session/prompt" /\ pc' = "write" /\ next' = "wait" /\ UNCHANGED result
        BY <2>5, <3>2 DEF Configure, Request, Write
      <4>2. k = Options
        BY <2>5, <3>2
      <4>3. <<method, applied>> = LastBefore
        BY <2>5, <4>2, <1>5 DEF LastBefore, AcpInv, RequestsFit
      <4> QED BY <4>1, <4>2, <4>3, <2>1, <2>5, <3>2, <1>1, <1>3, MoveKeeps DEF MethodNames
    <3>3. CASE ~(k < Options) /\ call # "run" /\ closes
      <4>1. method' = "session/close" /\ pc' = "write" /\ next' = "wait" /\ UNCHANGED result
        BY <2>5, <3>3 DEF Configure, Request, Write
      <4> QED BY <4>1, <2>1, <2>2, <2>5, <3>3, <1>1, MoveKeeps DEF MethodNames
    <3>4. CASE ~(k < Options) /\ call # "run" /\ ~closes
      <4>1. result' = "ok" /\ pc' = "terminate" /\ UNCHANGED <<method, next>>
        BY <2>5, <3>4 DEF Configure
      <4> QED BY <4>1, <2>1, <2>5, <3>4, <1>1, SucceedKeeps
    <3> QED BY <3>1, <3>2, <3>3, <3>4
  <2>6. CASE method = "session/new" /\ Opened(m) /\ ~Reject
    <3>1. Configure(0) /\ UNCHANGED <<call, applied, text>>
      BY <2>6 DEF Opened
    <3>2. applied = 0
      BY <2>6 DEF AcpInv, RequestsFit
    <3> QED BY <2>5, <2>6, <3>1, <3>2
  <2>7. CASE method = "session/set_config_option" /\ Configured(m) /\ ~Reject
    <3>1. /\ 1..(applied + 1) \subseteq m.config /\ applied' = applied + 1
          /\ Configure(applied + 1) /\ UNCHANGED <<call, text>>
      BY <2>7 DEF Configured
    <3>2. applied + 1 \in 0..Options
      BY <2>7, <1>3, <1>5 DEF AcpInv, RequestsFit
    <3> QED BY <2>5, <2>7, <3>1, <3>2
  <2>8. CASE method = "session/prompt" /\ Prompted(m) /\ ~Reject
    <3>1. CASE closes
      <4>1. /\ method' = "session/close" /\ pc' = "write" /\ next' = "wait"
            /\ UNCHANGED <<call, applied, text, result>>
        BY <2>8, <3>1 DEF Prompted, Request, Write
      <4>2. <<method, applied>> # LastBefore
        BY <2>8 DEF LastBefore
      <4> QED BY <4>1, <4>2, <2>1, <2>2, <2>8, <1>1, <1>5, MoveKeeps DEF MethodNames
    <3>2. CASE ~closes
      BY <2>3, <2>8, <3>2 DEF Prompted
    <3> QED BY <3>1, <3>2
  <2>9. CASE method = "session/close" /\ Succeed
    BY <2>3, <2>9
  <2> QED BY <1>5, <1>6, <1>r, <1>10, <2>4, <2>6, <2>7, <2>8, <2>9 DEF Accept, MethodNames
<1>11. m.kind \notin {"chunk", "config", "permission", "method"} /\ m.kind # method => Fail
  BY <1>3 DEF Receive, Accept
<1>12. m.kind = method => m.kind \notin {"chunk", "config", "permission", "method"}
  BY <1>5 DEF MethodNames
<1>13. m.kind = method => Accept(m)
  BY <1>3, <1>12 DEF Receive
<1>14. CASE m.kind \in {"chunk", "config", "permission", "method"}
  <2>1. \/ method = "session/prompt" /\ handle(m)
        \/ method # "session/prompt" /\ m.kind \in {"permission", "method"} /\ Unsupported(m)
        \/ method # "session/prompt" /\ m.kind \in {"chunk", "config"} /\ Ignore
    BY <1>3, <1>14 DEF Receive, Unhandled
  <2>2. method = "session/prompt" /\ handle(m) /\ m.kind = "method" => Unsupported(m)
    BY DEF handle
  <2> QED BY <2>1, <2>2, <1>7, <1>8, <1>9, <1>14
<1> QED BY <1>6, <1>10, <1>11, <1>13, <1>14

------------------------------------------------------------------------------
(* The answer of a call                                                      *)

\* A call begins as the invariant says.
LEMMA InitFits == Init => AcpInv
<1> SUFFICES ASSUME Init PROVE AcpInv
  OBVIOUS
<1> USE OptionsAssumption DEF Init
<1>1. <<>> \in Seq(Spoken) /\ <<>> \in Seq(Nat) /\ Len(<<>>) = 0
  BY EmptySeq
<1>2. AcpTyped
  BY <1>1 DEF AcpTyped, MethodNames
<1>3. Coming = <<>> /\ DOMAIN Coming = {}
  <2>1. reader # Finished
    BY DEF Finished
  <2>2. Coming = <<>> \o (<<>> \o <<>>)
    BY <2>1 DEF Coming
  <2>3. Coming = <<>>
    BY <2>2, <1>1, ConcatEmptySeq
  <2> QED BY <2>3
<1>4. RequestsFit /\ AnswerFits
  <2>1. served # LastBefore
    BY DEF LastBefore
  <2>2. RequestsFit
    BY <2>1 DEF RequestsFit
  <2>3. AnswerFits
    BY DEF AnswerFits
  <2> QED BY <2>2, <2>3
<1>5. TextFits
  <2>1. \A i \in 1..0 : FALSE
    OBVIOUS
  <2>2. <<>> = [i \in 1..0 |-> i]
    BY <2>1
  <2> QED BY <1>1, <2>2 DEF TextFits
<1>6. ResponseFits /\ OneResponse /\ ResponseComes /\ ChunksFit /\ ChunksSaid
  BY <1>3 DEF ResponseFits, OneResponse, ResponseComes, ChunksFit, ChunksSaid
<1>7. ChunksFollow /\ ChunksCome /\ ChunksPrecede /\ RefusalComes /\ RefusalPrecedes /\ ReportFits
  BY <1>3 DEF ChunksFollow, ChunksCome, ChunksPrecede, RefusalComes, RefusalPrecedes, ReportFits,
              Prompting, Opening, Hearing
<1> QED BY <1>2, <1>4, <1>5, <1>6, <1>7 DEF AcpInv

\* A step of the client.
LEMMA ClientKeeps == ASSUME AcpInv, Client PROVE AcpInv'
<1> USE DEF pipes, agent, client
<1>a. next \in {"wait", "terminate"}
  BY DEF AcpInv, AcpTyped
<1>1. CASE Start
  <2>1. method' = method /\ pc' # "start" /\ pc' # "wait" /\ next' \in {next, "wait"}
    BY <1>1 DEF Start, Request, Write, AcpInv, RequestsFit
  <2>2. pc = "start" => result = "none"
    BY DEF AcpInv, RequestsFit
  <2> QED BY <2>1, <2>2, <1>1, <1>a, PlainKeeps DEF Start
<1>2. CASE WriteUnit
  <2>1. /\ UNCHANGED <<call, method, applied, text, messages, reader, output, agent>>
        /\ \/ result' = result /\ next' = next /\ pc' \in {next, pc}
           \/ result' = "error" /\ next' = next /\ pc' = "terminate"
        /\ pc = "write"
    BY <1>2 DEF WriteUnit
  <2> QED BY <2>1, <1>a, PlainKeeps DEF AcpInv, RequestsFit
<1>3. CASE Interrupted
  <2>1. /\ UNCHANGED <<call, method, applied, text>> /\ result' = "error"
        /\ \/ pc' = "terminate" /\ next' = next
           \/ pc' = "write" /\ next' = "terminate"
    BY <1>3 DEF Interrupted, Fail, Reject, Write
  <2> QED BY <2>1, <1>3, <1>a, PlainKeeps DEF Interrupted
<1>4. CASE Receive
  BY <1>4, ReceiveKeeps
<1>5. CASE Terminate
  BY <1>5, <1>a, PlainKeeps DEF Terminate
<1> QED BY <1>1, <1>2, <1>3, <1>4, <1>5 DEF Client

\* A step of the call.
LEMMA NextKeeps == ASSUME AcpInv, [Next]_vars PROVE AcpInv'
<1> USE DEF agent, client
<1>1. ASSUME UNCHANGED <<call, pc, next, method, applied, text, result, messages, reader, output,
                       served, asked, said, retained>>
      PROVE  AcpInv'
  BY <1>1, PlainKeeps DEF AcpInv, RequestsFit, AcpTyped
<1>2. CASE Client
  BY <1>2, ClientKeeps
<1>3. CASE Reader
  BY <1>3, ReaderKeeps
<1>4. CASE Respond
  BY <1>4, RespondKeeps
<1>5. CASE Speak
  BY <1>5, SpeakKeeps, BabbleKeeps DEF Speak
<1>6. CASE Interject
  BY <1>6, InterjectKeeps
<1>7. CASE Read
  BY <1>7, ReadKeeps
<1>8. CASE Exit \/ StderrExceeds \/ EndContext
  BY <1>1, <1>8 DEF Exit, StderrExceeds, EndContext
<1>9. CASE UNCHANGED vars
  BY <1>1, <1>9 DEF vars
<1> QED BY <1>2, <1>3, <1>4, <1>5, <1>6, <1>7, <1>8, <1>9 DEF Next, Agent

\* A call that returns an answer has all that was said.
LEMMA FitsIsWhole == AcpInv => AnswerIsWhole
<1> SUFFICES ASSUME AcpInv, result = "ok", call = "run"
             PROVE  text = [i \in 1..said |-> i] /\ 1..Options \subseteq retained
  BY DEF AnswerIsWhole
<1>1. Len(text) = said /\ Kept
  BY DEF AcpInv, AnswerFits
<1>2. text = [i \in 1..Len(text) |-> i]
  BY DEF AcpInv, TextFits
<1> QED BY <1>1, <1>2 DEF Kept

\* A run of an ACP agent that succeeds returns every chunk the agent sent between its
\* answer to the last request before the prompt and its answer to the prompt, once
\* and in order, with every option of the definition kept: nothing of that is lost,
\* and nothing that was sent before or comes later is in it (request, prompt).
THEOREM AnswersAreWhole == Spec => []AnswerIsWhole
<1>1. AcpInv /\ [Next]_vars => AcpInv'
  BY NextKeeps
<1> QED BY <1>1, InitFits, FitsIsWhole, PTL DEF Spec

------------------------------------------------------------------------------
(* The inductive invariant of the exchange                                   *)

\* The type invariant of an exchange.
CliTyped ==
    /\ cliMethod \in Methods
    /\ place \in {"start", "read", "kill", "wait", "returned"}
    /\ cliAlive \in BOOLEAN /\ noise \in BOOLEAN /\ readErr \in BOOLEAN /\ cancelled \in BOOLEAN
    /\ exit \in {"none", "zero", "nonzero", "killed"}
    /\ stdout \in Seq(Shim!Lines) /\ lines \in Seq(Shim!Lines)
    /\ total \in Nat
    /\ terminal \subseteq Shim!Terminals

\* A line that the host does not reject by itself.
MayCome(l) == l \in {"unknown", Shim!Success(cliMethod), "error"} \/ (l = "activity" /\ cliMethod =
    "run")

\* Lines that the host does not reject: not too many, and one that ends the exchange.
ReadInOrder(n) ==
    /\ n <= MaxLines
    /\ \A i \in 1..n : MayCome(lines[i])
    /\ \A i, j \in 1..n : lines[i] \in Shim!Terminals /\ lines[j] \in Shim!Terminals => i = j

\* The ends among the first n lines.
KeptOf(n) == {lines[i] : i \in 1..n} \cap Shim!Terminals

\* The host has read a prefix of what the shim wrote, and stopped at what it rejects.
ReadFits ==
    /\ total <= Len(lines)
    /\ ~readErr => ReadInOrder(total) /\ terminal = KeptOf(total)
    /\ readErr => ~ReadInOrder(Len(lines))

\* The pipe holds what is written and not read.
PipeFits ==
    place \in {"start", "read"} =>
        /\ ~readErr
        /\ Len(lines) = total + Len(stdout)
        /\ \A i \in 1..Len(stdout) : stdout[i] = lines[total + i]

\* The process of the shim, and the verdict once the host returns.
ProcessFits ==
    /\ place = "start" => ~cliAlive /\ lines = <<>> /\ exit = "none"
    /\ cliAlive => exit = "none"
    /\ place \in {"read", "kill", "wait"} /\ ~cliAlive => exit # "none"
    /\ place \in {"wait", "returned"} => ~cliAlive /\ (readErr \/ total = Len(lines))
    /\ place = "kill" => readErr
    /\ exit = "killed" => cancelled \/ readErr
    /\ place = "returned" =>
          \/ verdict = Shim!Classify /\ exit # "none"
          \/ verdict = "not started" /\ lines = <<>>

\* The inductive invariant of an exchange, whatever the shim does.
CliInv == CliTyped /\ ReadFits /\ PipeFits /\ ProcessFits

\* A step of the exchange, with any shim.
CliStep ==
    \/ Shim!Exchange \/ Shim!DrainStderr \/ Shim!CancelExchange \/ Shim!KillOnCancel
    \/ \E l \in Shim!Lines : Shim!WriteLine(l)
    \/ Shim!Diagnose
    \/ \E code \in {"zero", "nonzero"} : Shim!ExitShim(code)

------------------------------------------------------------------------------
(* The inductive invariant of the shim of codex                              *)

\* The type invariant of the shim of codex.
CodexTyped ==
    /\ shim \in {"codex", "any"}
    /\ shim = "codex" => request \in Shim!RequestType
    /\ step \in {"read", "describe", "validate", "run", "parse", "terminate", "conclude",
                 "write", "exit"}
    /\ codex \in BOOLEAN /\ candidate \in BOOLEAN
    /\ codexExit \in {"none", "zero", "nonzero", "killed"}
    /\ eventPipe \in Seq(Shim!Events) /\ emitted \in Seq(Shim!Events)
    /\ taken \in Nat
    /\ parsed \subseteq {"completed", "failed", "closed", "error"}
    /\ answer \subseteq Shim!Lines

\* The steps of the shim, its answer, and its exit.
StepsFit ==
    shim = "codex" =>
    /\ step \in {"parse", "terminate", "conclude"} => cliMethod = "run" /\ request.valid
    /\ step \in {"describe", "validate", "run"} => step = cliMethod /\ request.valid
    /\ answer # {} => step \in {"write", "exit"}
    /\ step \in {"write", "exit"} =>
          \/ ~request.valid /\ answer \in {{"malformed"}, {"error"}}
          \/ request.valid /\ answer \in {{Shim!Success(cliMethod)}, {"error"}}
    /\ exit = "zero" => request.valid /\ step = "exit"
    /\ exit = "nonzero" => ~request.valid /\ step = "exit"

\* The shim writes activity while it runs, and at the end its answer.
LinesFit ==
    shim = "codex" =>
    /\ step \in {"read", "describe", "validate", "run"} => lines = <<>>
    /\ step # "exit" => \A i \in 1..Len(lines) : lines[i] = "activity"
    /\ step = "exit" => /\ lines # <<>>
                        /\ answer = {lines[Len(lines)]}
                        /\ \A i \in 1..(Len(lines) - 1) : lines[i] = "activity"
    /\ \A i \in 1..Len(lines) : lines[i] = "activity" => cliMethod = "run" /\ request.valid

\* The shim has started codex, or needs it no longer.
Begun == step \in {"parse", "terminate", "conclude", "write", "exit"}

\* The shim has taken a prefix of what codex said, and all of it when it concludes.
CodexFits ==
    shim = "codex" =>
    /\ ~Begun => /\ ~codex /\ codexExit = "none" /\ parsed = {} /\ ~candidate
                 /\ taken = 0 /\ emitted = <<>> /\ eventPipe = <<>>
    /\ step = "parse" => /\ "error" \notin parsed
                         /\ Len(emitted) = taken + Len(eventPipe)
                         /\ \A i \in 1..Len(eventPipe) : eventPipe[i] = emitted[taken + i]
    /\ step = "terminate" => "error" \in parsed
    /\ step \in {"conclude", "write", "exit"} =>
          ~codex /\ ("error" \in parsed \/ taken = Len(emitted))
    /\ taken <= Len(emitted)

\* What the shim has understood of the events is what codex has said in them.
TurnFits ==
    shim = "codex" /\ "error" \notin parsed =>
        /\ \A i \in 1..taken : emitted[i] # "malformed"
        /\ \A i \in 1..taken : emitted[i] \in {"turn.completed", "turn.failed"} =>
                               i = taken /\ "closed" \in parsed
        /\ "completed" \in parsed => taken > 0 /\ emitted[taken] = "turn.completed"
        /\ "failed" \notin parsed => \A i \in 1..taken : emitted[i] \notin {"turn.failed", "error"}
        /\ candidate => \E i \in 1..taken : emitted[i] = "message"

\* A result is only of a turn that codex completed, with a message, and an exit of zero.
ResultFits ==
    shim = "codex" /\ answer = {"result"} =>
        /\ {"error", "failed"} \cap parsed = {}
        /\ codexExit = "zero" /\ "completed" \in parsed /\ candidate

\* The inductive invariant of the shim of codex.
CodexInv == CodexTyped /\ StepsFit /\ LinesFit /\ CodexFits /\ TurnFits /\ ResultFits

\* The inductive invariant of an exchange whose shim may be that of codex.
ShimInv == CliInv /\ CodexInv

------------------------------------------------------------------------------
(* Lines and events                                                          *)

\* What a sequence is after an append.
LEMMA AppendFacts ==
    ASSUME NEW S, NEW s \in Seq(S), NEW e \in S
    PROVE  /\ Append(s, e) \in Seq(S)
           /\ Len(Append(s, e)) = Len(s) + 1
           /\ \A i \in 1..Len(s) : Append(s, e)[i] = s[i]
           /\ Append(s, e)[Len(s) + 1] = e
  BY AppendProperties, LenProperties

\* What a sequence is without its head.
LEMMA TailFacts ==
    ASSUME NEW S, NEW s \in Seq(S), s # <<>>
    PROVE  /\ Head(s) \in S /\ Head(s) = s[1]
           /\ Tail(s) \in Seq(S)
           /\ Len(s) \in Nat /\ Len(s) > 0 /\ Len(Tail(s)) = Len(s) - 1
           /\ \A i \in 1..Len(Tail(s)) : Tail(s)[i] = s[i + 1]
  BY HeadTailProperties, LenProperties, EmptySeq

------------------------------------------------------------------------------
(* The exchange                                                              *)

\* An exchange begins as its invariant says.
LEMMA CliInitFits == Shim!CliInit => CliInv
<1> SUFFICES ASSUME Shim!CliInit PROVE CliInv
  OBVIOUS
<1> USE DEF Shim!CliInit
<1>s. <<>> \in Seq(Shim!Lines)
  BY EmptySeq
<1>1. CliTyped
  BY <1>s, Zenon DEF CliTyped
<1>2. Len(lines) = 0 /\ Len(stdout) = 0
  BY EmptySeq
<1>3. ReadFits
  BY <1>2, MaxLinesAssumption, SMT DEF ReadFits, ReadInOrder, KeptOf
<1>4. PipeFits
  BY <1>2, SMT DEF PipeFits
<1>5. ProcessFits
  BY SMT DEF ProcessFits
<1>. QED
  BY <1>1, <1>3, <1>4, <1>5 DEF CliInv

\* The shim writes a line.
LEMMA WriteLineKeeps == ASSUME CliInv, NEW l \in Shim!Lines, Shim!WriteLine(l) PROVE CliInv'
<1>1. /\ lines \in Seq(Shim!Lines) /\ stdout \in Seq(Shim!Lines) /\ Len(lines) \in Nat
      /\ Len(stdout) \in Nat
      /\ total \in Nat
  BY LenProperties DEF CliInv, CliTyped
<1>2. /\ lines' \in Seq(Shim!Lines) /\ Len(lines') = Len(lines) + 1
      /\ \A i \in 1..Len(lines) : lines'[i] = lines[i]
      /\ lines'[Len(lines) + 1] = l
  BY <1>1, AppendFacts, SMT DEF Shim!WriteLine
<1>3. /\ stdout' \in Seq(Shim!Lines) /\ Len(stdout') = Len(stdout) + 1
      /\ \A i \in 1..Len(stdout) : stdout'[i] = stdout[i]
      /\ stdout'[Len(stdout) + 1] = l
  BY <1>1, AppendFacts, SMT DEF Shim!WriteLine
<1>u. /\ cliAlive = TRUE /\ cliAlive' = cliAlive /\ exit' = exit /\ noise' = noise
      /\ cancelled' = cancelled
      /\ cliMethod' = cliMethod /\ place' = place /\ total' = total /\ terminal' = terminal
      /\ readErr' = readErr /\ verdict' = verdict
  BY SMT DEF Shim!WriteLine, Shim!exchangeVars, CliInv, CliTyped
<1>4. CliTyped'
  BY <1>2, <1>3, <1>u, SMT DEF CliInv, CliTyped
<1>a. \A k : MayCome(k)' <=> MayCome(k)
  BY <1>u, SMT DEF MayCome, Shim!Success
<1>b. total' = total /\ total <= Len(lines)
  BY <1>u, SMT DEF CliInv, ReadFits
<1>l. \A i \in 1..total : lines'[i] = lines[i]
  BY <1>1, <1>2, <1>b, SMT
<1>c. ReadInOrder(total)' <=> ReadInOrder(total)
  BY <1>u, <1>l, <1>a, SMT DEF ReadInOrder
<1>d. ReadInOrder(Len(lines))' => ReadInOrder(Len(lines))
  BY <1>u, <1>1, <1>2, <1>a, <1>b, MaxLinesAssumption, SMT DEF ReadInOrder
<1>e. KeptOf(total)' = KeptOf(total)
  BY <1>u, <1>l, SMT DEF KeptOf
<1>5. /\ ReadInOrder(total)' <=> ReadInOrder(total)
      /\ ReadInOrder(Len(lines))' => ReadInOrder(Len(lines))
      /\ KeptOf(total)' = KeptOf(total)
  BY <1>c, <1>d, <1>e
<1>6. ReadFits'
  BY <1>u, <1>1, <1>2, <1>5, SMT DEF CliInv, ReadFits
<1>7. PipeFits'
  <2> SUFFICES ASSUME place' \in {"start", "read"}
               PROVE  /\ ~readErr'
                      /\ Len(lines') = total' + Len(stdout')
                      /\ \A i \in 1..Len(stdout') : stdout'[i] = lines'[total' + i]
    BY SMT DEF PipeFits
  <2>1. /\ ~readErr
        /\ Len(lines) = total + Len(stdout)
        /\ \A i \in 1..Len(stdout) : stdout[i] = lines[total + i]
    BY <1>u, SMT DEF CliInv, PipeFits
  <2>2. ~readErr' /\ Len(lines') = total' + Len(stdout')
    BY <2>1, <1>u, <1>1, <1>2, <1>3, SMT
  <2>3. ASSUME NEW i \in 1..Len(stdout') PROVE stdout'[i] = lines'[total' + i]
    <3>1. CASE i \in 1..Len(stdout)
      <4>1. total + i \in 1..Len(lines)
        BY <3>1, <2>1, <1>1, SMT
      <4>. QED
        BY <3>1, <4>1, <2>1, <1>u, <1>2, <1>3, Zenon
    <3>2. CASE i = Len(stdout) + 1
      <4>1. total + i = Len(lines) + 1
        BY <3>2, <2>1, <1>1, SMT
      <4>. QED
        BY <3>2, <4>1, <1>u, <1>2, <1>3, Zenon
    <3>. QED
      BY <3>1, <3>2, <1>1, <1>3, SMT
  <2>. QED
    BY <2>2, <2>3
<1>8. ProcessFits'
  <2>1. place \notin {"start", "wait", "returned"} /\ exit = "none" /\ (place = "kill" => readErr)
    BY <1>u, Zenon DEF CliInv, ProcessFits
  <2>. QED
    BY <1>u, <2>1, Zenon DEF ProcessFits
<1>. QED
  BY <1>4, <1>6, <1>7, <1>8 DEF CliInv

\* What a step leaves alone.
LEMMA ReadStays ==
    ASSUME ReadFits, UNCHANGED <<cliMethod, lines, total, terminal, readErr>>
    PROVE  ReadFits'
  BY Zenon DEF ReadFits, ReadInOrder, MayCome, Shim!Success, KeptOf

\* The pipe, when no line is written or read.
LEMMA PipeStays ==
    ASSUME PipeFits, UNCHANGED <<stdout, lines, total, readErr>>,
           place' \in {"start", "read"} => place \in {"start", "read"}
    PROVE  PipeFits'
  BY Zenon DEF PipeFits

\* The standard error of the shim, which the host drains.
LEMMA DiagnosticsKeep == ASSUME CliInv, Shim!Diagnose \/ Shim!DrainStderr PROVE CliInv'
<1>1. /\ noise' \in BOOLEAN
      /\ UNCHANGED <<Shim!exchangeVars, cliAlive, exit, stdout, lines, cancelled>>
  BY Zenon DEF Shim!Diagnose, Shim!DrainStderr
<1>2. CliTyped'
  BY <1>1, Zenon DEF CliInv, CliTyped, Shim!exchangeVars
<1>3. ReadFits' /\ PipeFits'
  BY <1>1, ReadStays, PipeStays, Zenon DEF CliInv, Shim!exchangeVars
<1>4. ProcessFits'
  BY <1>1, Zenon DEF CliInv, ProcessFits, Shim!exchangeVars, Shim!Classify
<1>. QED
  BY <1>2, <1>3, <1>4 DEF CliInv

\* The shim exits.
LEMMA ExitShimKeeps ==
    ASSUME CliInv, NEW code \in {"zero", "nonzero"}, Shim!ExitShim(code)
    PROVE  CliInv'
<1>1. /\ cliAlive /\ cliAlive' = FALSE /\ exit' = code
      /\ UNCHANGED <<Shim!exchangeVars, stdout, lines, noise, cancelled>>
  BY Zenon DEF Shim!ExitShim, Shim!pipeVars
<1>2. CliTyped'
  BY <1>1, Zenon DEF CliInv, CliTyped, Shim!exchangeVars
<1>3. ReadFits' /\ PipeFits'
  BY <1>1, ReadStays, PipeStays, Zenon DEF CliInv, Shim!exchangeVars
<1>4. ProcessFits'
  <2>1. place \notin {"start", "wait", "returned"} /\ (place = "kill" => readErr)
    BY <1>1, Zenon DEF CliInv, ProcessFits
  <2>2. exit' # "none" /\ exit' # "killed"
    BY <1>1, SMT
  <2>. QED
    BY <1>1, <2>1, <2>2, Zenon DEF ProcessFits, Shim!exchangeVars
<1>. QED
  BY <1>2, <1>3, <1>4 DEF CliInv

\* The context of the exchange ends.
LEMMA CancelExchangeKeeps == ASSUME CliInv, Shim!CancelExchange PROVE CliInv'
<1>1. /\ place # "returned" /\ cancelled' = TRUE
      /\ UNCHANGED <<Shim!exchangeVars, cliAlive, exit, stdout, lines, noise>>
  BY Zenon DEF Shim!CancelExchange, Shim!pipeVars
<1>2. CliTyped'
  BY <1>1, Zenon DEF CliInv, CliTyped, Shim!exchangeVars
<1>3. ReadFits' /\ PipeFits'
  BY <1>1, ReadStays, PipeStays, Zenon DEF CliInv, Shim!exchangeVars
<1>4. ProcessFits'
  BY <1>1, Zenon DEF CliInv, ProcessFits, Shim!exchangeVars
<1>. QED
  BY <1>2, <1>3, <1>4 DEF CliInv

\* The host kills the shim of a cancelled exchange.
LEMMA KillOnCancelKeeps == ASSUME CliInv, Shim!KillOnCancel PROVE CliInv'
<1>1. /\ cancelled = TRUE /\ cliAlive /\ cliAlive' = FALSE /\ exit' = "killed"
      /\ UNCHANGED <<Shim!exchangeVars, stdout, lines, noise, cancelled>>
  BY Zenon DEF Shim!KillOnCancel, Shim!killProcessGroup, Shim!pipeVars, CliInv, CliTyped
<1>2. CliTyped'
  BY <1>1, Zenon DEF CliInv, CliTyped, Shim!exchangeVars
<1>3. ReadFits' /\ PipeFits'
  BY <1>1, ReadStays, PipeStays, Zenon DEF CliInv, Shim!exchangeVars
<1>4. ProcessFits'
  <2>1. place \notin {"start", "wait", "returned"} /\ (place = "kill" => readErr)
    BY <1>1, Zenon DEF CliInv, ProcessFits
  <2>. QED
    BY <1>1, <2>1, Zenon DEF ProcessFits, Shim!exchangeVars
<1>. QED
  BY <1>2, <1>3, <1>4 DEF CliInv

\* The host starts the shim, or cannot.
LEMMA StartShimKeeps == ASSUME CliInv, Shim!StartShim PROVE CliInv'
<1>1. /\ place = "start" /\ ~cliAlive /\ lines = <<>> /\ exit = "none"
      /\ UNCHANGED <<cliMethod, total, terminal, readErr, exit, stdout, lines, noise, cancelled>>
  BY Zenon DEF Shim!StartShim, Shim!pipeVars, CliInv, ProcessFits
<1>2. \/ place' = "read" /\ cliAlive' = TRUE
      \/ place' = "returned" /\ verdict' = "not started" /\ cliAlive' = cliAlive
  BY Zenon DEF Shim!StartShim
<1>3. CliTyped'
  BY <1>1, <1>2, Zenon DEF CliInv, CliTyped
<1>4. ReadFits' /\ PipeFits'
  BY <1>1, <1>2, ReadStays, PipeStays, Zenon DEF CliInv
<1>5. total = Len(lines)
  <2>1. Len(lines) = 0
    BY <1>1, EmptySeq
  <2>. QED
    BY <2>1, SMT DEF CliInv, CliTyped, ReadFits
<1>6. ProcessFits'
  <2>1. CASE place' = "read" /\ cliAlive' = TRUE
    <3>1. place' \notin {"start", "wait", "returned", "kill"} /\ exit' = "none"
      BY <1>1, <2>1, SMT
    <3>. QED
      BY <3>1, <2>1, Zenon DEF ProcessFits
  <2>2. CASE place' = "returned" /\ verdict' = "not started" /\ cliAlive' = cliAlive
    <3>1. place' \notin {"start", "wait", "read", "kill"} /\ exit' = "none"
      BY <1>1, <2>2, Zenon
    <3>. QED
      BY <1>1, <1>5, <2>2, <3>1, Zenon DEF ProcessFits
  <2>. QED
    BY <1>2, <2>1, <2>2
<1>. QED
  BY <1>3, <1>4, <1>6 DEF CliInv

\* The host reads the output to its end.
LEMMA EndOfStdoutKeeps == ASSUME CliInv, Shim!EndOfStdout PROVE CliInv'
<1>1. /\ place = "read" /\ place' = "wait" /\ stdout = <<>> /\ ~cliAlive
      /\ UNCHANGED <<cliMethod, total, terminal, readErr, verdict, cliAlive, exit, stdout, lines,
             noise,
                     cancelled>>
  BY Zenon DEF Shim!EndOfStdout, Shim!pipeVars
<1>2. CliTyped'
  BY <1>1, Zenon DEF CliInv, CliTyped
<1>3. ReadFits' /\ PipeFits'
  BY <1>1, ReadStays, PipeStays, SMT DEF CliInv
<1>4. ProcessFits'
  <2>1. exit # "none" /\ (exit = "killed" => cancelled \/ readErr)
    BY <1>1, Zenon DEF CliInv, ProcessFits
  <2>2. total = Len(lines)
    <3>1. Len(stdout) = 0
      BY <1>1, EmptySeq
    <3>2. Len(lines) = total + Len(stdout)
      BY <1>1, Zenon DEF CliInv, PipeFits
    <3>. QED
      BY <3>1, <3>2, SMT DEF CliInv, CliTyped
  <2>3. place' \notin {"start", "read", "returned", "kill"}
    BY <1>1, SMT
  <2>. QED
    BY <1>1, <2>1, <2>2, <2>3, Zenon DEF ProcessFits
<1>. QED
  BY <1>2, <1>3, <1>4 DEF CliInv

\* The host kills a shim whose output it rejects.
LEMMA KillReaderKeeps == ASSUME CliInv, Shim!KillReader PROVE CliInv'
<1>1. /\ place = "kill" /\ place' = "wait" /\ stdout' = <<>> /\ cliAlive' = FALSE
      /\ exit' = IF cliAlive THEN "killed" ELSE exit
      /\ UNCHANGED <<cliMethod, total, terminal, readErr, verdict, lines, noise, cancelled>>
  BY Zenon DEF Shim!KillReader, Shim!killProcessGroup
<1>2. CliTyped'
  <2>1. stdout' \in Seq(Shim!Lines)
    BY <1>1, EmptySeq
  <2>. QED
    BY <1>1, <2>1, Zenon DEF CliInv, CliTyped
<1>3. ReadFits' /\ PipeFits'
  <2>1. place' \notin {"start", "read"}
    BY <1>1, SMT
  <2>. QED
    BY <1>1, <2>1, ReadStays, Zenon DEF CliInv, PipeFits
<1>4. ProcessFits'
  <2>1. readErr /\ exit' # "none"
    BY <1>1, Zenon DEF CliInv, ProcessFits
  <2>2. place' \notin {"start", "read", "returned", "kill"}
    BY <1>1, SMT
  <2>. QED
    BY <1>1, <2>1, <2>2, Zenon DEF ProcessFits
<1>. QED
  BY <1>2, <1>3, <1>4 DEF CliInv

\* The host waits for the shim, and classifies the exchange.
LEMMA WaitShimKeeps == ASSUME CliInv, Shim!WaitShim PROVE CliInv'
<1>1. /\ place = "wait" /\ place' = "returned" /\ ~cliAlive /\ verdict' = Shim!Classify
      /\ UNCHANGED <<cliMethod, total, terminal, readErr, cliAlive, exit, stdout, lines, noise,
             cancelled>>
  BY Zenon DEF Shim!WaitShim, Shim!pipeVars
<1>2. CliTyped'
  BY <1>1, Zenon DEF CliInv, CliTyped
<1>3. ReadFits' /\ PipeFits'
  BY <1>1, ReadStays, PipeStays, SMT DEF CliInv
<1>4. ProcessFits'
  <2>1. /\ exit # "none"
        /\ (readErr \/ total = Len(lines))
        /\ (exit = "killed" => cancelled \/ readErr)
    BY <1>1, Zenon DEF CliInv, ProcessFits
  <2>2. place' \notin {"start", "read", "wait", "kill"}
    BY <1>1, SMT
  <2>3. verdict' = Shim!Classify'
    BY <1>1, Zenon DEF Shim!Classify
  <2>. QED
    BY <1>1, <2>1, <2>2, <2>3, Zenon DEF ProcessFits
<1>. QED
  BY <1>2, <1>3, <1>4 DEF CliInv

\* The host reads a line.
LEMMA ReadLineKeeps == ASSUME CliInv, Shim!ReadLine PROVE CliInv'
<1> DEFINE l == Head(stdout)
           fails == total + 1 > MaxLines \/ ~Shim!Accepts(l)
<1>1. /\ place = "read" /\ stdout # <<>>
      /\ readErr' = fails
      /\ terminal' = IF ~fails /\ l \in Shim!Terminals THEN {l} ELSE terminal
      /\ place' = IF fails THEN "kill" ELSE "read"
      /\ total' = total + 1 /\ stdout' = Tail(stdout)
      /\ UNCHANGED <<cliMethod, verdict, cliAlive, exit, lines, noise, cancelled>>
  BY Zenon DEF Shim!ReadLine
<1>2. /\ ~readErr /\ Len(lines) = total + Len(stdout)
      /\ \A i \in 1..Len(stdout) : stdout[i] = lines[total + i]
      /\ total \in Nat /\ Len(lines) \in Nat /\ stdout \in Seq(Shim!Lines)
  BY <1>1, LenProperties, Zenon DEF CliInv, PipeFits, CliTyped
<1>3. /\ l \in Shim!Lines /\ l = lines[total + 1] /\ Len(lines) >= total + 1
      /\ stdout' \in Seq(Shim!Lines) /\ Len(stdout) \in Nat /\ Len(stdout') = Len(stdout) - 1
      /\ \A i \in 1..Len(stdout') : stdout'[i] = stdout[i + 1]
  <2>1. stdout \in Seq(Shim!Lines) /\ stdout # <<>>
    BY <1>1, <1>2
  <2>2. /\ Head(stdout) \in Shim!Lines /\ Head(stdout) = stdout[1]
        /\ Tail(stdout) \in Seq(Shim!Lines)
        /\ Len(stdout) \in Nat /\ Len(stdout) > 0 /\ Len(Tail(stdout)) = Len(stdout) - 1
        /\ \A i \in 1..Len(Tail(stdout)) : Tail(stdout)[i] = stdout[i + 1]
    BY <2>1, TailFacts, SMT
  <2>3. 1 \in 1..Len(stdout)
    BY <2>2, SMT
  <2>. QED
    BY <1>1, <1>2, <2>2, <2>3, SMT
<1>4. CliTyped'
  <2>1. /\ total' \in Nat /\ place' \in {"read", "kill"} /\ readErr' \in BOOLEAN
        /\ terminal' \subseteq Shim!Terminals
    BY <1>1, <1>2, SMT DEF CliInv, CliTyped
  <2>. QED
    BY <1>1, <1>3, <2>1, SMT DEF CliInv, CliTyped
<1>5. /\ ReadInOrder(total) /\ terminal = KeptOf(total)
  BY <1>2, Zenon DEF CliInv, ReadFits
<1>m. /\ Shim!Success(cliMethod) \in Shim!Terminals
      /\ \A k : MayCome(k)' <=> MayCome(k)
  BY <1>1, MethodsAssumption, SMT DEF CliInv, CliTyped, MayCome, Shim!Success, Shim!Terminals
<1>6. CASE ~fails
  <2>1. /\ total + 1 <= MaxLines /\ Shim!Accepts(l)
        /\ place' = "read" /\ ~readErr'
        /\ terminal' = IF l \in Shim!Terminals THEN {l} ELSE terminal
    <3>1. ~(total + 1 > MaxLines) /\ Shim!Accepts(l)
      BY <1>6
    <3>2. total + 1 <= MaxLines
      BY <3>1, <1>2, MaxLinesAssumption, SMT
    <3>. QED
      BY <3>1, <3>2, <1>1, <1>6, Zenon
  <2>2. MayCome(l)
    BY <2>1, Zenon DEF Shim!Accepts, MayCome
  <2>3. l \in Shim!Terminals => terminal = {}
    BY <2>1, SMT DEF Shim!Accepts, Shim!Terminals
  <2>4. l \in Shim!Terminals => \A i \in 1..total : lines[i] \notin Shim!Terminals
    BY <2>3, <1>5, Zenon DEF KeptOf
  <2>5. ReadInOrder(total + 1)
    <3>1. \A i \in 1..(total + 1) : MayCome(lines[i])
      BY <2>2, <1>2, <1>3, <1>5, SMT DEF ReadInOrder
    <3>2. ASSUME NEW i \in 1..(total + 1), NEW j \in 1..(total + 1),
                 lines[i] \in Shim!Terminals, lines[j] \in Shim!Terminals
          PROVE  i = j
      BY <3>2, <2>4, <1>2, <1>3, <1>5, SMT DEF ReadInOrder
    <3>. QED
      BY <3>1, <3>2, <2>1, Zenon DEF ReadInOrder
  <2>6. terminal' = KeptOf(total + 1)
    <3>1. KeptOf(total + 1) = KeptOf(total) \cup ({l} \cap Shim!Terminals)
      BY <1>2, <1>3, SMT DEF KeptOf
    <3>. QED
      BY <3>1, <2>1, <2>3, <1>5, SMT
  <2>7. ReadInOrder(total)' /\ terminal' = KeptOf(total)'
    <3>1. lines' = lines /\ total' = total + 1
      BY <1>1
    <3>. QED
      BY <3>1, <2>5, <2>6, <1>m, Zenon DEF ReadInOrder, KeptOf
  <2>8. ReadFits'
    BY <1>1, <1>3, <2>1, <2>7, Zenon DEF ReadFits
  <2>9. PipeFits'
    BY <1>1, <1>2, <1>3, <2>1, SMT DEF PipeFits
  <2>10. ProcessFits'
    <3>1. place' \notin {"start", "wait", "returned", "kill"}
      BY <2>1, SMT
    <3>2. /\ (cliAlive => exit = "none")
          /\ (~cliAlive => exit # "none")
          /\ (exit = "killed" => cancelled)
      BY <1>1, <1>2, Zenon DEF CliInv, ProcessFits
    <3>. QED
      BY <1>1, <3>1, <3>2, Zenon DEF ProcessFits
  <2>. QED
    BY <1>4, <2>8, <2>9, <2>10 DEF CliInv
<1>7. CASE fails
  <2>1. place' = "kill" /\ readErr' = TRUE
    BY <1>1, <1>7, Zenon
  <2>2. ~ReadInOrder(Len(lines))
    <3>1. CASE total + 1 > MaxLines
      BY <3>1, <1>2, <1>3, MaxLinesAssumption, SMT DEF ReadInOrder
    <3>2. CASE ~MayCome(l)
      <4>1. total + 1 \in 1..Len(lines)
        BY <1>2, <1>3, SMT
      <4>. QED
        BY <3>2, <4>1, <1>3, Zenon DEF ReadInOrder
    <3>3. CASE MayCome(l) /\ ~Shim!Accepts(l)
      <4>1. l \in {Shim!Success(cliMethod), "error"} /\ terminal # {}
        BY <3>3, SMT DEF MayCome, Shim!Accepts
      <4>2. l \in Shim!Terminals
        BY <4>1, <1>m, SMT DEF Shim!Terminals
      <4>3. PICK i \in 1..total : lines[i] \in Shim!Terminals
        BY <4>1, <1>5, Zenon DEF KeptOf
      <4>4. i \in 1..Len(lines) /\ total + 1 \in 1..Len(lines) /\ i # total + 1
        BY <1>2, <1>3, SMT
      <4>. QED
        BY <4>2, <4>3, <4>4, <1>3, Zenon DEF ReadInOrder
    <3>. QED
      BY <1>7, <3>1, <3>2, <3>3
  <2>3. ~ReadInOrder(Len(lines))'
    BY <2>2, <1>1, <1>m, Zenon DEF ReadInOrder
  <2>4. ReadFits' /\ PipeFits'
    <3>1. place' \notin {"start", "read"} /\ total' <= Len(lines')
      BY <2>1, <1>1, <1>2, <1>3, SMT
    <3>. QED
      BY <3>1, <2>1, <2>3, Zenon DEF ReadFits, PipeFits
  <2>5. ProcessFits'
    <3>1. place' \notin {"start", "wait", "returned"}
      BY <2>1, SMT
    <3>2. (cliAlive => exit = "none") /\ (~cliAlive => exit # "none")
      BY <1>1, Zenon DEF CliInv, ProcessFits
    <3>. QED
      BY <1>1, <2>1, <3>1, <3>2, Zenon DEF ProcessFits
  <2>. QED
    BY <1>4, <2>4, <2>5 DEF CliInv
<1>. QED
  BY <1>6, <1>7

\* Every step of an exchange.
LEMMA CliKeeps == ASSUME CliInv, CliStep \/ UNCHANGED Shim!cliVars PROVE CliInv'
<1>1. CASE UNCHANGED Shim!cliVars
  <2>1. /\ UNCHANGED <<cliMethod, place, total, terminal, readErr, verdict>>
        /\ UNCHANGED <<cliAlive, exit, stdout, lines, noise, cancelled>>
    BY <1>1, Zenon DEF Shim!cliVars, Shim!exchangeVars, Shim!pipeVars
  <2>2. ReadFits' /\ PipeFits'
    BY <2>1, ReadStays, PipeStays, Zenon DEF CliInv
  <2>3. CliTyped'
    BY <2>1, Zenon DEF CliInv, CliTyped
  <2>4. ProcessFits'
    BY <2>1, Zenon DEF CliInv, ProcessFits, Shim!Classify
  <2>. QED
    BY <2>2, <2>3, <2>4 DEF CliInv
<1>2. CASE Shim!Exchange
  BY <1>2, StartShimKeeps, ReadLineKeeps, EndOfStdoutKeeps, KillReaderKeeps, WaitShimKeeps
  DEF Shim!Exchange
<1>3. CASE Shim!DrainStderr \/ Shim!CancelExchange \/ Shim!KillOnCancel \/ Shim!Diagnose
  BY <1>3, DiagnosticsKeep, CancelExchangeKeeps, KillOnCancelKeeps
<1>4. ASSUME NEW l \in Shim!Lines, Shim!WriteLine(l) PROVE CliInv'
  BY <1>4, WriteLineKeeps, SMT
<1>5. ASSUME NEW code \in {"zero", "nonzero"}, Shim!ExitShim(code) PROVE CliInv'
  BY <1>5, ExitShimKeeps, SMT
<1>. QED
  BY <1>1, <1>2, <1>3, <1>4, <1>5 DEF CliStep

------------------------------------------------------------------------------
(* The verdict of an exchange                                                *)

\* The verdict is the one that what the shim wrote deserves.
LEMMA FitsIsDeserved == ASSUME CliInv PROVE Shim!VerdictIsDeserved
<1> DEFINE known == {"unknown", Shim!Success(cliMethod), "error"}
                    \cup (IF cliMethod = "run" THEN {"activity"} ELSE {})
           answers == {i \in DOMAIN lines : lines[i] \in Shim!Terminals}
           given == {lines[i] : i \in answers}
           inOrder == /\ Len(lines) <= MaxLines
                      /\ Shim!ToSet(lines) \subseteq known
                      /\ \A i, j \in answers : i = j
<1> SUFFICES ASSUME place = "returned" PROVE Shim!Deserves(verdict)
  BY DEF Shim!VerdictIsDeserved
<1>1. DOMAIN lines = 1..Len(lines) /\ Len(lines) \in Nat /\ lines \in Seq(Shim!Lines)
  BY LenProperties DEF CliInv, CliTyped
<1>2. inOrder <=> ReadInOrder(Len(lines))
  <2>1. Shim!ToSet(lines) \subseteq known <=> \A i \in 1..Len(lines) : MayCome(lines[i])
    BY <1>1, SMT DEF Shim!ToSet, MayCome
  <2>2. (\A i, j \in answers : i = j)
        <=> \A i, j \in 1..Len(lines) :
            lines[i] \in Shim!Terminals /\ lines[j] \in Shim!Terminals => i = j
    BY <1>1, Zenon
  <2>. QED
    BY <2>1, <2>2, Zenon DEF ReadInOrder
<1>3. given = KeptOf(Len(lines))
  BY <1>1, SMT DEF KeptOf
<1>d. /\ Shim!Deserves("ok") <=> inOrder /\ given = {Shim!Success(cliMethod)} /\ exit = "zero"
      /\ Shim!Deserves("shim error") <=> inOrder /\ given = {"error"}
      /\ Shim!Deserves("no_response") <=> inOrder /\ given = {} /\ exit = "zero"
      /\ Shim!Deserves("process_failed") <=> inOrder /\ exit # "zero" /\ given # {"error"}
      /\ Shim!Deserves("protocol_error") <=> ~inOrder
      /\ Shim!Deserves("timeout") <=> cancelled
      /\ Shim!Deserves("not started") <=> lines = <<>>
  <2>1. Shim!Deserves("ok") <=> inOrder /\ given = {Shim!Success(cliMethod)} /\ exit = "zero"
    BY Zenon DEF Shim!Deserves
  <2>2. Shim!Deserves("shim error") <=> inOrder /\ given = {"error"}
    BY Zenon DEF Shim!Deserves
  <2>3. Shim!Deserves("no_response") <=> inOrder /\ given = {} /\ exit = "zero"
    BY Zenon DEF Shim!Deserves
  <2>4. Shim!Deserves("process_failed") <=> inOrder /\ exit # "zero" /\ given # {"error"}
    BY Zenon DEF Shim!Deserves
  <2>5. Shim!Deserves("protocol_error") <=> ~inOrder
    BY Zenon DEF Shim!Deserves
  <2>6. Shim!Deserves("timeout") <=> cancelled
    BY Zenon DEF Shim!Deserves
  <2>7. Shim!Deserves("not started") <=> lines = <<>>
    BY Zenon DEF Shim!Deserves
  <2>. QED
    BY <2>1, <2>2, <2>3, <2>4, <2>5, <2>6, <2>7
<1> HIDE DEF inOrder, given
<1>4. CASE verdict = "not started" /\ lines = <<>>
  BY <1>4, <1>d, Zenon
<1>5. CASE verdict = Shim!Classify /\ exit # "none"
  <2>1. readErr => ~inOrder
    BY <1>2, Zenon DEF CliInv, ReadFits
  <2>2. ~readErr => inOrder /\ terminal = given
    BY <1>2, <1>3, Zenon DEF CliInv, ReadFits, ProcessFits
  <2>3. inOrder /\ given \notin {{}, {"error"}} => given = {Shim!Success(cliMethod)}
    <3> SUFFICES ASSUME inOrder, given # {}, given # {"error"} PROVE given =
                     {Shim!Success(cliMethod)}
      BY Zenon
    <3>1. PICK i \in answers : lines[i] \in given /\ \A j \in answers : j = i
      BY ZenonT(30) DEF inOrder, given
    <3>2. given = {lines[i]}
      BY <3>1, Zenon DEF given
    <3>3. lines[i] \in known /\ lines[i] \in Shim!Terminals
      BY <3>1, <1>1, Zenon DEF inOrder, Shim!ToSet
    <3>4. lines[i] \in {Shim!Success(cliMethod), "error"}
      BY <3>3, SMT DEF Shim!Terminals
    <3>. QED
      BY <3>2, <3>4, Zenon
  <2>4. CASE cancelled
    BY <1>5, <1>d, <2>4, Zenon DEF Shim!Classify
  <2>5. CASE ~cancelled /\ readErr
    BY <1>5, <1>d, <2>1, <2>5, Zenon DEF Shim!Classify
  <2>6. CASE ~cancelled /\ ~readErr /\ terminal = {}
    BY <1>5, <1>d, <2>2, <2>6, Zenon DEF Shim!Classify
  <2>7. CASE ~cancelled /\ ~readErr /\ terminal = {"error"}
    BY <1>5, <1>d, <2>2, <2>7, Zenon DEF Shim!Classify
  <2>8. CASE ~cancelled /\ ~readErr /\ terminal \notin {{}, {"error"}}
    BY <1>5, <1>d, <2>2, <2>3, <2>8, Zenon DEF Shim!Classify
  <2>. QED
    BY <2>4, <2>5, <2>6, <2>7, <2>8, Zenon
<1>. QED
  BY <1>4, <1>5, Zenon DEF CliInv, ProcessFits

------------------------------------------------------------------------------
(* The shim of codex                                                         *)

\* An exchange with the shim of codex begins as its invariant says.
LEMMA ShimInitFits == ASSUME Shim!Init PROVE ShimInv
<1> USE DEF Shim!Init
<1>1. CliInv
  BY CliInitFits
<1>2. /\ eventPipe \in Seq(Shim!Events) /\ emitted \in Seq(Shim!Events)
      /\ Len(emitted) = 0 /\ Len(lines) = 0
  BY EmptySeq DEF Shim!CliInit
<1>3. shim = "codex" => request \in Shim!RequestType
  BY RequestsAssumption, Zenon
<1>4. CodexTyped
  BY <1>2, <1>3, Zenon DEF CodexTyped
<1>5. StepsFit
  BY Zenon DEF StepsFit, Shim!CliInit
<1>6. LinesFit
  BY <1>2, SMT DEF LinesFit, Shim!CliInit
<1>7. CodexFits
  BY <1>2, SMT DEF CodexFits, Begun
<1>8. TurnFits
  BY SMT DEF TurnFits
<1>9. ResultFits
  BY Zenon DEF ResultFits
<1>. QED
  BY <1>1, <1>4, <1>5, <1>6, <1>7, <1>8, <1>9 DEF ShimInv, CodexInv

\* A line of the shim of codex is a line.
LEMMA NextIsCliStep == ASSUME ShimInv, Shim!Next PROVE CliStep \/ UNCHANGED Shim!cliVars
<1>1. CASE \/ Shim!Host(Shim!Exchange) \/ Shim!Host(Shim!DrainStderr)
          \/ Shim!Host(Shim!CancelExchange) \/ Shim!Host(Shim!KillOnCancel)
  BY <1>1, Zenon DEF Shim!Host, CliStep
<1>2. CASE Shim!AnyShim
  BY <1>2, Zenon DEF Shim!AnyShim, CliStep
<1>3. CASE Shim!Codex
  BY <1>3, Zenon DEF Shim!Codex, Shim!EmitEvent, Shim!ExitCodex, Shim!DieWithShim
<1>4. CASE \/ Shim!ReadRequest \/ Shim!describe \/ Shim!validate \/ Shim!StartRun
          \/ Shim!EndOfEvents \/ Shim!TerminateCodex \/ Shim!Conclude
  BY <1>4, Zenon
  DEF Shim!ReadRequest, Shim!describe, Shim!validate, Shim!StartRun, Shim!EndOfEvents,
      Shim!TerminateCodex, Shim!Conclude
<1>5. CASE Shim!ParseEvent
  <2>1. "activity" \in Shim!Lines
    BY DEF Shim!Lines
  <2>. QED
    BY <1>5, <2>1, Zenon DEF Shim!ParseEvent, CliStep
<1>6. CASE Shim!WriteResponse
  BY <1>6, Zenon DEF Shim!WriteResponse, CliStep, ShimInv, CodexInv, CodexTyped
<1>7. CASE Shim!ExitRun
  BY <1>7, Zenon DEF Shim!ExitRun, CliStep
<1>. QED
  BY <1>1, <1>2, <1>3, <1>4, <1>5, <1>6, <1>7, Zenon DEF Shim!Next, Shim!Shim

\* What a step leaves alone.
LEMMA LinesStay ==
    ASSUME LinesFit, UNCHANGED <<shim, request, cliMethod, lines>>, step # "exit", step' # "exit",
           step' \in {"read", "describe", "validate", "run"}
               => step \in {"read", "describe", "validate", "run"}
    PROVE  LinesFit'
  BY Zenon DEF LinesFit

\* What codex has said, when more of it is emitted.
LEMMA TurnStays ==
    ASSUME TurnFits, UNCHANGED <<shim, parsed, taken, candidate>>,
           taken \in Nat, \A i \in 1..taken : emitted'[i] = emitted[i]
    PROVE  TurnFits'
<1> SUFFICES ASSUME shim = "codex", "error" \notin parsed
    PROVE  /\ \A i \in 1..taken : emitted'[i] # "malformed"
           /\ \A i \in 1..taken : emitted'[i] \in {"turn.completed", "turn.failed"} =>
                                  i = taken /\ "closed" \in parsed
           /\ "completed" \in parsed => taken > 0 /\ emitted'[taken] = "turn.completed"
           /\ "failed" \notin parsed =>
                 \A i \in 1..taken : emitted'[i] \notin {"turn.failed", "error"}
           /\ candidate => \E i \in 1..taken : emitted'[i] = "message"
  BY Zenon DEF TurnFits
<1>1. /\ \A i \in 1..taken : emitted[i] # "malformed"
      /\ \A i \in 1..taken : emitted[i] \in {"turn.completed", "turn.failed"} =>
                               i = taken /\ "closed" \in parsed
      /\ "completed" \in parsed => taken > 0 /\ emitted[taken] = "turn.completed"
      /\ "failed" \notin parsed => \A i \in 1..taken : emitted[i] \notin {"turn.failed", "error"}
      /\ candidate => \E i \in 1..taken : emitted[i] = "message"
  BY Zenon DEF TurnFits
<1>2. taken > 0 => taken \in 1..taken
  BY SMT
<1>. QED
  BY <1>1, <1>2, Zenon

\* The result, when the shim takes no step.
LEMMA ResultStays ==
    ASSUME ResultFits, UNCHANGED <<shim, answer, parsed, codexExit, candidate>>
    PROVE  ResultFits'
  BY Zenon DEF ResultFits

\* A step that neither the shim of codex nor codex takes part in.
LEMMA HostKeeps ==
    ASSUME ShimInv, UNCHANGED <<Shim!shimVars, Shim!codexVars, cliMethod>>,
           shim = "codex" => lines' = lines /\ exit' \in {exit, "killed"}
    PROVE  CodexInv'
<1>1. /\ UNCHANGED <<shim, request, step, taken, candidate, parsed, answer, codex, codexExit>>
      /\ UNCHANGED <<eventPipe, emitted, cliMethod>>
  BY Zenon DEF Shim!shimVars, Shim!codexVars
<1>2. CodexTyped'
  BY <1>1, Zenon DEF ShimInv, CodexInv, CodexTyped
<1>3. StepsFit'
  BY <1>1, Zenon DEF ShimInv, CodexInv, StepsFit, Shim!Success
<1>4. LinesFit'
  BY <1>1, Zenon DEF ShimInv, CodexInv, LinesFit
<1>5. CodexFits'
  BY <1>1, Zenon DEF ShimInv, CodexInv, CodexFits, Begun
<1>6. TurnFits' /\ ResultFits'
  BY <1>1, TurnStays, ResultStays, Zenon DEF ShimInv, CodexInv, CodexTyped
<1>. QED
  BY <1>2, <1>3, <1>4, <1>5, <1>6 DEF CodexInv

\* Codex emits an event.
LEMMA EmitEventKeeps == ASSUME ShimInv, NEW e \in Shim!Events, Shim!EmitEvent(e) PROVE CodexInv'
<1>1. /\ UNCHANGED <<shim, request, step, taken, candidate, parsed, answer, codex, codexExit>>
      /\ UNCHANGED <<cliMethod, lines, exit>>
      /\ codex /\ eventPipe' = Append(eventPipe, e) /\ emitted' = Append(emitted, e)
  BY Zenon DEF Shim!EmitEvent, Shim!shimVars, Shim!cliVars, Shim!exchangeVars, Shim!pipeVars
<1>2. /\ eventPipe \in Seq(Shim!Events) /\ emitted \in Seq(Shim!Events) /\ taken \in Nat
      /\ Len(eventPipe) \in Nat /\ Len(emitted) \in Nat
  BY LenProperties DEF ShimInv, CodexInv, CodexTyped
<1>3. /\ eventPipe' \in Seq(Shim!Events) /\ Len(eventPipe') = Len(eventPipe) + 1
      /\ \A i \in 1..Len(eventPipe) : eventPipe'[i] = eventPipe[i]
      /\ eventPipe'[Len(eventPipe) + 1] = e
  BY <1>1, <1>2, AppendFacts, SMT
<1>4. /\ emitted' \in Seq(Shim!Events) /\ Len(emitted') = Len(emitted) + 1
      /\ \A i \in 1..Len(emitted) : emitted'[i] = emitted[i]
      /\ emitted'[Len(emitted) + 1] = e
  BY <1>1, <1>2, AppendFacts, SMT
<1>5. CodexTyped'
  BY <1>1, <1>3, <1>4, Zenon DEF ShimInv, CodexInv, CodexTyped
<1>6. StepsFit'
  BY <1>1, Zenon DEF ShimInv, CodexInv, StepsFit, Shim!Success
<1>7. LinesFit'
  BY <1>1, Zenon DEF ShimInv, CodexInv, LinesFit
<1>8. ResultFits'
  BY <1>1, ResultStays, Zenon DEF ShimInv, CodexInv
<1>9. CASE shim # "codex"
  <2>1. CodexFits' /\ TurnFits'
    BY <1>1, <1>9, Zenon DEF CodexFits, TurnFits
  <2>. QED
    BY <1>5, <1>6, <1>7, <1>8, <2>1 DEF CodexInv
<1>10. CASE shim = "codex"
  <2>1. /\ step \in {"parse", "terminate"} /\ taken <= Len(emitted)
        /\ step = "terminate" => "error" \in parsed
        /\ step = "parse" => /\ "error" \notin parsed
                             /\ Len(emitted) = taken + Len(eventPipe)
                             /\ \A i \in 1..Len(eventPipe) : eventPipe[i] = emitted[taken + i]
    BY <1>1, <1>10, SMT DEF ShimInv, CodexInv, CodexTyped, CodexFits, Begun
  <2>2. ASSUME step = "parse", NEW i \in 1..Len(eventPipe')
        PROVE  eventPipe'[i] = emitted'[taken + i]
    <3>1. CASE i \in 1..Len(eventPipe)
      <4>1. taken + i \in 1..Len(emitted)
        BY <2>1, <2>2, <3>1, <1>2, SMT
      <4>. QED
        BY <2>1, <2>2, <3>1, <4>1, <1>3, <1>4, Zenon
    <3>2. CASE i = Len(eventPipe) + 1
      <4>1. taken + i = Len(emitted) + 1
        BY <2>1, <2>2, <3>2, <1>2, SMTT(30)
      <4>. QED
        BY <3>2, <4>1, <1>3, <1>4, Zenon
    <3>. QED
      BY <3>1, <3>2, <1>2, <1>3, SMT
  <2>3. taken <= Len(emitted') /\ (step = "parse" => Len(emitted') = taken + Len(eventPipe'))
    BY <2>1, <1>2, <1>3, <1>4, SMT
  <2>4. CodexFits'
    <3>1. Begun' /\ step \notin {"conclude", "write", "exit"}
      BY <2>1, <1>1, SMT DEF Begun
    <3>. QED
      BY <1>1, <2>1, <2>2, <2>3, <3>1, Zenon DEF CodexFits
  <2>5. TurnFits'
    <3>1. \A i \in 1..taken : emitted'[i] = emitted[i]
      BY <2>1, <1>2, <1>4, SMT
    <3>. QED
      BY <3>1, <1>1, TurnStays, Zenon DEF ShimInv, CodexInv, CodexTyped
  <2>. QED
    BY <1>5, <1>6, <1>7, <1>8, <2>4, <2>5 DEF CodexInv
<1>. QED
  BY <1>9, <1>10

\* Codex exits.
LEMMA ExitCodexKeeps ==
    ASSUME ShimInv, NEW code \in {"zero", "nonzero", "killed"}, Shim!ExitCodex(code)
    PROVE  CodexInv'
<1>1. /\ UNCHANGED <<shim, request, step, taken, candidate, parsed, answer, eventPipe, emitted>>
      /\ UNCHANGED <<cliMethod, lines, exit>>
      /\ codex /\ codex' = FALSE /\ codexExit' = code
  BY Zenon DEF Shim!ExitCodex, Shim!shimVars, Shim!cliVars, Shim!exchangeVars, Shim!pipeVars
<1>2. CodexTyped'
  BY <1>1, Zenon DEF ShimInv, CodexInv, CodexTyped
<1>3. StepsFit'
  BY <1>1, Zenon DEF ShimInv, CodexInv, StepsFit, Shim!Success
<1>4. LinesFit'
  BY <1>1, Zenon DEF ShimInv, CodexInv, LinesFit
<1>5. shim = "codex" => step \in {"parse", "terminate"}
  BY <1>1, SMT DEF ShimInv, CodexInv, CodexTyped, CodexFits, Begun
<1>6. CodexFits'
  <2>1. shim = "codex" => Begun' /\ step \notin {"conclude", "write", "exit"}
    BY <1>1, <1>5, SMT DEF Begun
  <2>. QED
    BY <1>1, <2>1, Zenon DEF ShimInv, CodexInv, CodexFits
<1>7. TurnFits'
  BY <1>1, TurnStays, Zenon DEF ShimInv, CodexInv, CodexTyped
<1>8. ResultFits'
  <2>1. shim = "codex" => answer = {}
    BY <1>5, SMT DEF ShimInv, CodexInv, StepsFit
  <2>. QED
    BY <1>1, <2>1, Zenon DEF ResultFits
<1>. QED
  BY <1>2, <1>3, <1>4, <1>6, <1>7, <1>8 DEF CodexInv

\* The response is settled.
LEMMA AnswerKeeps ==
    ASSUME ShimInv, shim = "codex", cliAlive,
           NEW l, Shim!Answer(l), UNCHANGED <<Shim!cliVars, Shim!codexVars>>,
           step \in {"read", "describe", "validate", "run", "conclude"}, ~codex,
           \/ ~request.valid /\ l \in {"malformed", "error"}
           \/ request.valid /\ l \in {Shim!Success(cliMethod), "error"},
           l = "result" => /\ {"error", "failed"} \cap parsed = {}
                           /\ codexExit = "zero" /\ "completed" \in parsed /\ candidate
    PROVE  CodexInv'
<1>1. /\ step' = "write" /\ answer' = {l}
      /\ UNCHANGED <<shim, request, taken, candidate, parsed, codex, codexExit, eventPipe, emitted>>
      /\ UNCHANGED <<cliMethod, lines, exit>>
  BY Zenon DEF Shim!Answer, Shim!codexVars, Shim!cliVars, Shim!exchangeVars, Shim!pipeVars
<1>2. exit = "none"
  BY Zenon DEF ShimInv, CliInv, ProcessFits
<1>3. l \in Shim!Lines
  BY MethodsAssumption, SMT
  DEF ShimInv, CliInv, CliTyped, Shim!Success, Shim!Lines, Shim!Terminals
<1>4. CodexTyped'
  BY <1>1, <1>3, Zenon DEF ShimInv, CodexInv, CodexTyped
<1>5. StepsFit'
  <2>1. \/ ~request.valid /\ answer' \in {{"malformed"}, {"error"}}
        \/ request.valid /\ answer' \in {{Shim!Success(cliMethod)}, {"error"}}
    BY <1>1, Zenon
  <2>. QED
    BY <1>1, <1>2, <2>1, Zenon DEF StepsFit, Shim!Success
<1>6. LinesFit'
  <2>1. step # "exit" /\ step' # "exit" /\ step' \notin {"read", "describe", "validate", "run"}
    BY <1>1, SMT
  <2>. QED
    BY <1>1, <2>1, LinesStay, Zenon DEF ShimInv, CodexInv
<1>7. CodexFits'
  <2>1. Begun' /\ step' \notin {"parse", "terminate"}
    BY <1>1, SMT DEF Begun
  <2>2. taken <= Len(emitted) /\ ("error" \in parsed \/ taken = Len(emitted))
    <3>1. CASE step = "conclude"
      BY <3>1, Zenon DEF ShimInv, CodexInv, CodexFits
    <3>2. CASE step # "conclude"
      <4>1. taken = 0 /\ emitted = <<>>
        BY <3>2, SMT DEF ShimInv, CodexInv, CodexFits, Begun
      <4>2. Len(emitted) = 0
        BY <4>1, EmptySeq
      <4>. QED
        BY <4>1, <4>2, SMT
    <3>. QED
      BY <3>1, <3>2
  <2>. QED
    BY <1>1, <2>1, <2>2, Zenon DEF CodexFits
<1>8. TurnFits'
  BY <1>1, TurnStays, Zenon DEF ShimInv, CodexInv, CodexTyped
<1>9. ResultFits'
  BY <1>1, Zenon DEF ResultFits
<1>. QED
  BY <1>4, <1>5, <1>6, <1>7, <1>8, <1>9 DEF CodexInv

\* The shim reads its request.
LEMMA ReadRequestKeeps == ASSUME ShimInv, Shim!ReadRequest PROVE CodexInv'
<1>1. shim = "codex" /\ cliAlive /\ step = "read" /\ UNCHANGED <<Shim!cliVars, Shim!codexVars>>
  BY Zenon DEF Shim!ReadRequest, Shim!Runs
<1>2. /\ ~codex /\ codexExit = "none" /\ parsed = {} /\ ~candidate
      /\ taken = 0 /\ emitted = <<>> /\ eventPipe = <<>>
  BY <1>1, SMT DEF ShimInv, CodexInv, CodexTyped, CodexFits, Begun
<1>3. CASE ~request.valid
  <2>1. PICK l \in {"malformed", "error"} : Shim!Answer(l)
    BY <1>3, Zenon DEF Shim!ReadRequest
  <2>. QED
    BY <1>1, <1>2, <1>3, <2>1, AnswerKeeps, SMTT(30)
<1>4. CASE request.valid
  <2>1. /\ step' = cliMethod
        /\ UNCHANGED <<shim, request, taken, candidate, parsed, answer>>
        /\ UNCHANGED <<codex, codexExit, eventPipe, emitted, cliMethod, lines, exit>>
    BY <1>1, <1>4, Zenon DEF Shim!ReadRequest, Shim!At, Shim!codexVars, Shim!cliVars,
                             Shim!exchangeVars, Shim!pipeVars
  <2>2. step' \in {"describe", "validate", "run"}
    BY <2>1, MethodsAssumption, SMT DEF ShimInv, CliInv, CliTyped
  <2>3. CodexTyped'
    BY <2>1, <2>2, SMT DEF ShimInv, CodexInv, CodexTyped
  <2>4. StepsFit'
    <3>1. answer = {} /\ exit \notin {"zero", "nonzero"}
      BY <1>1, SMT DEF ShimInv, CodexInv, StepsFit
    <3>2. step' \notin {"parse", "terminate", "conclude", "write", "exit"}
      BY <2>2, SMT
    <3>. QED
      BY <1>4, <2>1, <3>1, <3>2, Zenon DEF StepsFit
  <2>5. LinesFit'
    <3>1. step # "exit" /\ step' # "exit" /\ step \in {"read", "describe", "validate", "run"}
      BY <1>1, <2>2, SMT
    <3>. QED
      BY <2>1, <3>1, LinesStay, Zenon DEF ShimInv, CodexInv
  <2>6. CodexFits'
    <3>1. ~Begun' /\ step' \notin {"parse", "terminate", "conclude", "write", "exit"}
      BY <2>2, SMT DEF Begun
    <3>2. taken <= Len(emitted)
      BY <1>1, Zenon DEF ShimInv, CodexInv, CodexFits
    <3>. QED
      BY <1>2, <2>1, <3>1, <3>2, Zenon DEF CodexFits
  <2>7. TurnFits' /\ ResultFits'
    BY <2>1, TurnStays, ResultStays, Zenon DEF ShimInv, CodexInv, CodexTyped
  <2>. QED
    BY <2>3, <2>4, <2>5, <2>6, <2>7 DEF CodexInv
<1>. QED
  BY <1>3, <1>4

\* A request to describe or to validate is answered at once.
LEMMA LookUpKeeps == ASSUME ShimInv, Shim!describe \/ Shim!validate PROVE CodexInv'
<1>1. /\ shim = "codex" /\ cliAlive /\ UNCHANGED <<Shim!cliVars, Shim!codexVars>>
      /\ step \in {"describe", "validate"}
  BY Zenon DEF Shim!describe, Shim!validate, Shim!Runs
<1>2. ~codex /\ request.valid /\ step = cliMethod
  BY <1>1, SMT DEF ShimInv, CodexInv, CodexTyped, CodexFits, Begun, StepsFit
<1>3. PICK l \in {Shim!Success(cliMethod), "error"} : Shim!Answer(l) /\ l # "result"
  <2>1. CASE Shim!describe
    <3>1. Shim!Success(cliMethod) = "description"
      BY <1>2, <2>1, SMT DEF Shim!describe, Shim!Runs, Shim!Success
    <3>. QED
      BY <2>1, <3>1, SMT DEF Shim!describe
  <2>2. CASE Shim!validate
    <3>1. Shim!Success(cliMethod) = "validated"
      BY <1>2, <2>2, SMT DEF Shim!validate, Shim!Runs, Shim!Success
    <3>. QED
      BY <2>2, <3>1, SMT DEF Shim!validate
  <2>. QED
    BY <2>1, <2>2
<1>. QED
  BY <1>1, <1>2, <1>3, AnswerKeeps, SMTT(30)

\* The shim starts codex, or cannot.
LEMMA StartRunKeeps == ASSUME ShimInv, Shim!StartRun PROVE CodexInv'
<1>1. /\ shim = "codex" /\ cliAlive /\ step = "run"
      /\ UNCHANGED <<Shim!cliVars, codexExit, eventPipe, emitted>>
  BY Zenon DEF Shim!StartRun, Shim!Runs
<1>2. /\ ~codex /\ codexExit = "none" /\ parsed = {} /\ ~candidate
      /\ taken = 0 /\ emitted = <<>> /\ eventPipe = <<>>
      /\ request.valid /\ cliMethod = "run" /\ answer = {}
  BY <1>1, SMT DEF ShimInv, CodexInv, CodexTyped, CodexFits, Begun, StepsFit
<1>3. CASE UNCHANGED codex /\ Shim!Answer("error")
  <2>1. UNCHANGED Shim!codexVars
    BY <1>1, <1>3 DEF Shim!codexVars
  <2>. QED
    BY <1>1, <1>2, <1>3, <2>1, AnswerKeeps, SMTT(30)
<1>4. CASE codex' = TRUE /\ Shim!At("parse")
  <2>1. /\ step' = "parse" /\ codex' = TRUE
        /\ UNCHANGED <<shim, request, taken, candidate, parsed, answer>>
        /\ UNCHANGED <<codexExit, eventPipe, emitted, cliMethod, lines, exit>>
    BY <1>1, <1>4, Zenon DEF Shim!At, Shim!cliVars, Shim!exchangeVars, Shim!pipeVars
  <2>2. CodexTyped'
    BY <2>1, Zenon DEF ShimInv, CodexInv, CodexTyped
  <2>3. StepsFit'
    <3>1. exit \notin {"zero", "nonzero"}
      BY <1>1, SMT DEF ShimInv, CodexInv, StepsFit
    <3>. QED
      BY <1>2, <2>1, <3>1, Zenon DEF StepsFit
  <2>4. LinesFit'
    BY <1>1, <2>1, LinesStay, Zenon DEF ShimInv, CodexInv
  <2>5. CodexFits'
    <3>1. Begun' /\ Len(emitted) = 0 /\ Len(eventPipe) = 0
      BY <1>2, <2>1, EmptySeq DEF Begun
    <3>2. taken <= Len(emitted) /\ Len(emitted) = taken + Len(eventPipe) /\ 1..Len(eventPipe) = {}
      BY <1>2, <3>1, SMT
    <3>. QED
      BY <1>2, <2>1, <3>1, <3>2, Zenon DEF CodexFits
  <2>6. TurnFits' /\ ResultFits'
    BY <2>1, TurnStays, ResultStays, Zenon DEF ShimInv, CodexInv, CodexTyped
  <2>. QED
    BY <2>2, <2>3, <2>4, <2>5, <2>6 DEF CodexInv
<1>. QED
  BY <1>3, <1>4 DEF Shim!StartRun

\* The shim concludes what it answers from what it has understood of the events.
LEMMA ConcludeKeeps == ASSUME ShimInv, Shim!Conclude PROVE CodexInv'
<1>1. /\ shim = "codex" /\ cliAlive /\ step = "conclude"
      /\ UNCHANGED <<Shim!cliVars, Shim!codexVars>> /\ ~codex
  BY Zenon DEF Shim!Conclude, Shim!Runs
<1>2. request.valid /\ Shim!Success(cliMethod) = "result"
  BY <1>1, SMT DEF ShimInv, CodexInv, StepsFit, Shim!Success
<1>3. Shim!Answer(Shim!Outcome) /\ Shim!Outcome \in {"result", "error"}
  BY Zenon DEF Shim!Conclude, Shim!Outcome
<1>4. Shim!Outcome = "result" => /\ {"error", "failed"} \cap parsed = {}
                                 /\ codexExit = "zero" /\ "completed" \in parsed /\ candidate
  BY Zenon DEF Shim!Outcome
<1>. QED
  BY <1>1, <1>2, <1>3, <1>4, AnswerKeeps, SMTT(30)

\* The shim reads the events to their end.
LEMMA EndOfEventsKeeps == ASSUME ShimInv, Shim!EndOfEvents PROVE CodexInv'
<1>1. /\ shim = "codex" /\ cliAlive /\ step = "parse" /\ eventPipe = <<>> /\ ~codex
      /\ step' = "conclude"
      /\ UNCHANGED <<shim, request, taken, candidate, parsed, answer>>
      /\ UNCHANGED <<codex, codexExit, eventPipe, emitted, cliMethod, lines, exit>>
  BY Zenon DEF Shim!EndOfEvents, Shim!Runs, Shim!At, Shim!codexVars, Shim!cliVars,
               Shim!exchangeVars, Shim!pipeVars
<1>2. CodexTyped'
  BY <1>1, Zenon DEF ShimInv, CodexInv, CodexTyped
<1>3. StepsFit'
  BY <1>1, SMT DEF ShimInv, CodexInv, StepsFit, Shim!Success
<1>4. LinesFit'
  <2>1. step # "exit" /\ step' # "exit" /\ step' \notin {"read", "describe", "validate", "run"}
    BY <1>1, SMT
  <2>. QED
    BY <1>1, <2>1, LinesStay, Zenon DEF ShimInv, CodexInv
<1>5. CodexFits'
  <2>1. /\ Len(emitted) = taken + Len(eventPipe) /\ taken \in Nat /\ Len(eventPipe) = 0
        /\ taken <= Len(emitted)
    BY <1>1, EmptySeq, Zenon DEF ShimInv, CodexInv, CodexTyped, CodexFits
  <2>2. taken = Len(emitted)
    BY <2>1, SMT
  <2>3. Begun' /\ step' \notin {"parse", "terminate"}
    BY <1>1, SMT DEF Begun
  <2>. QED
    BY <1>1, <2>1, <2>2, <2>3, Zenon DEF CodexFits
<1>6. TurnFits' /\ ResultFits'
  BY <1>1, TurnStays, ResultStays, Zenon DEF ShimInv, CodexInv, CodexTyped
<1>. QED
  BY <1>2, <1>3, <1>4, <1>5, <1>6 DEF CodexInv

\* The shim terminates a codex whose events it rejects.
LEMMA TerminateCodexKeeps == ASSUME ShimInv, Shim!TerminateCodex PROVE CodexInv'
<1>1. /\ shim = "codex" /\ cliAlive /\ step = "terminate"
      /\ step' = "conclude" /\ codex' = FALSE /\ eventPipe' = <<>>
      /\ codexExit' = IF codex THEN "killed" ELSE codexExit
      /\ UNCHANGED <<shim, request, taken, candidate, parsed, answer>>
      /\ UNCHANGED <<emitted, cliMethod, lines, exit>>
  BY Zenon DEF Shim!TerminateCodex, Shim!Runs, Shim!At, Shim!cliVars, Shim!exchangeVars,
               Shim!pipeVars
<1>2. CodexTyped'
  <2>1. eventPipe' \in Seq(Shim!Events) /\ codexExit' \in {"none", "zero", "nonzero", "killed"}
    BY <1>1, EmptySeq, SMT DEF ShimInv, CodexInv, CodexTyped
  <2>. QED
    BY <1>1, <2>1, Zenon DEF ShimInv, CodexInv, CodexTyped
<1>3. StepsFit'
  BY <1>1, SMT DEF ShimInv, CodexInv, StepsFit, Shim!Success
<1>4. LinesFit'
  <2>1. step # "exit" /\ step' # "exit" /\ step' \notin {"read", "describe", "validate", "run"}
    BY <1>1, SMT
  <2>. QED
    BY <1>1, <2>1, LinesStay, Zenon DEF ShimInv, CodexInv
<1>5. "error" \in parsed /\ taken <= Len(emitted) /\ answer = {}
  BY <1>1, SMT DEF ShimInv, CodexInv, CodexFits, StepsFit
<1>6. CodexFits'
  <2>1. Begun' /\ step' \notin {"parse", "terminate"}
    BY <1>1, SMT DEF Begun
  <2>. QED
    BY <1>1, <1>5, <2>1, Zenon DEF CodexFits
<1>7. TurnFits'
  BY <1>1, TurnStays, Zenon DEF ShimInv, CodexInv, CodexTyped
<1>8. ResultFits'
  BY <1>1, <1>5, Zenon DEF ResultFits
<1>. QED
  BY <1>2, <1>3, <1>4, <1>6, <1>7, <1>8 DEF CodexInv

\* The shim exits.
LEMMA ExitRunKeeps == ASSUME ShimInv, Shim!ExitRun PROVE CodexInv'
<1>1. /\ shim = "codex" /\ cliAlive /\ step = "exit"
      /\ exit' = IF request.valid THEN "zero" ELSE "nonzero"
      /\ UNCHANGED <<shim, request, step, taken, candidate, parsed, answer>>
      /\ UNCHANGED <<codex, codexExit, eventPipe, emitted, cliMethod, lines>>
  BY Zenon DEF Shim!ExitRun, Shim!ExitShim, Shim!Runs, Shim!shimVars, Shim!codexVars,
               Shim!exchangeVars, Shim!pipeVars
<1>2. CodexTyped'
  BY <1>1, Zenon DEF ShimInv, CodexInv, CodexTyped
<1>3. StepsFit'
  <2>1. (exit' = "zero" => request.valid) /\ (exit' = "nonzero" => ~request.valid)
    BY <1>1, SMT
  <2>. QED
    BY <1>1, <2>1, Zenon DEF ShimInv, CodexInv, StepsFit, Shim!Success
<1>4. LinesFit'
  BY <1>1, Zenon DEF ShimInv, CodexInv, LinesFit
<1>5. CodexFits'
  BY <1>1, Zenon DEF ShimInv, CodexInv, CodexFits, Begun
<1>6. TurnFits' /\ ResultFits'
  BY <1>1, TurnStays, ResultStays, Zenon DEF ShimInv, CodexInv, CodexTyped
<1>. QED
  BY <1>2, <1>3, <1>4, <1>5, <1>6 DEF CodexInv

\* The shim writes its answer.
LEMMA WriteResponseKeeps == ASSUME ShimInv, Shim!WriteResponse PROVE CodexInv'
<1>1. PICK l \in answer : Shim!WriteLine(l)
  BY DEF Shim!WriteResponse
<1>2. /\ shim = "codex" /\ cliAlive /\ step = "write" /\ step' = "exit"
      /\ lines' = Append(lines, l)
      /\ UNCHANGED <<shim, request, taken, candidate, parsed, answer>>
      /\ UNCHANGED <<codex, codexExit, eventPipe, emitted, cliMethod, exit>>
  BY <1>1, Zenon DEF Shim!WriteResponse, Shim!WriteLine, Shim!Runs, Shim!At, Shim!codexVars,
                     Shim!exchangeVars
<1>3. /\ answer = {l} /\ l # "activity"
      /\ \A i \in 1..Len(lines) : lines[i] = "activity"
      /\ \A i \in 1..Len(lines) : lines[i] = "activity" => cliMethod = "run" /\ request.valid
  <2>1. /\ \/ ~request.valid /\ answer \in {{"malformed"}, {"error"}}
           \/ request.valid /\ answer \in {{Shim!Success(cliMethod)}, {"error"}}
        /\ \A i \in 1..Len(lines) : lines[i] = "activity"
        /\ \A i \in 1..Len(lines) : lines[i] = "activity" => cliMethod = "run" /\ request.valid
    BY <1>2, Zenon DEF ShimInv, CodexInv, StepsFit, LinesFit
  <2>2. \E k \in Shim!Lines : answer = {k} /\ k # "activity"
    BY <2>1, MethodsAssumption, SMT DEF ShimInv, CliInv, CliTyped, Shim!Success, Shim!Lines,
                                        Shim!Terminals
  <2>3. answer = {l} /\ l # "activity"
    BY <1>1, <2>2, Zenon
  <2>. QED
    BY <2>1, <2>3
<1>4. /\ lines \in Seq(Shim!Lines) /\ l \in Shim!Lines /\ Len(lines) \in Nat
  BY LenProperties DEF ShimInv, CliInv, CliTyped, CodexInv, CodexTyped
<1>5. /\ Len(lines') = Len(lines) + 1
      /\ \A i \in 1..Len(lines) : lines'[i] = lines[i]
      /\ lines'[Len(lines) + 1] = l
  BY <1>2, <1>4, AppendFacts, SMT
<1>6. CodexTyped'
  BY <1>2, Zenon DEF ShimInv, CodexInv, CodexTyped
<1>7. StepsFit'
  <2>1. exit = "none"
    BY <1>2, Zenon DEF ShimInv, CliInv, ProcessFits
  <2>. QED
    BY <1>2, <2>1, Zenon DEF ShimInv, CodexInv, StepsFit, Shim!Success
<1>8. LinesFit'
  <2>1. /\ Len(lines') - 1 = Len(lines) /\ lines' # <<>>
        /\ \A i \in 1..Len(lines') : i \in 1..Len(lines) \/ i = Len(lines) + 1
    <3>1. Len(lines') # 0
      BY <1>4, <1>5, SMT
    <3>2. lines' # <<>>
      BY <3>1, EmptySeq
    <3>. QED
      BY <3>2, <1>4, <1>5, SMT
  <2>. QED
    BY <1>2, <1>3, <1>5, <2>1, Zenon DEF LinesFit
<1>9. CodexFits'
  BY <1>2, Zenon DEF ShimInv, CodexInv, CodexFits, Begun
<1>10. TurnFits' /\ ResultFits'
  BY <1>2, TurnStays, ResultStays, Zenon DEF ShimInv, CodexInv, CodexTyped
<1>. QED
  BY <1>6, <1>7, <1>8, <1>9, <1>10 DEF CodexInv

\* The shim takes an event.
LEMMA ParseEventKeeps == ASSUME ShimInv, Shim!ParseEvent PROVE CodexInv'
<1> DEFINE e == Head(eventPipe)
           fails == taken + 1 > MaxEvents \/ e = "malformed" \/ "closed" \in parsed
<1>1. /\ shim = "codex" /\ cliAlive /\ step = "parse" /\ eventPipe # <<>>
      /\ parsed' = IF fails THEN parsed \cup {"error"} ELSE parsed \cup Shim!Marks(e)
      /\ candidate' = (candidate \/ (~fails /\ e = "message"))
      /\ step' = IF fails THEN "terminate" ELSE "parse"
      /\ taken' = taken + 1 /\ eventPipe' = Tail(eventPipe)
      /\ UNCHANGED <<shim, request, answer, codex, codexExit, emitted>>
  BY Zenon DEF Shim!ParseEvent, Shim!Runs
<1>2. Shim!WriteLine("activity") \/ UNCHANGED Shim!cliVars
  BY Zenon DEF Shim!ParseEvent
<1>3. /\ cliMethod' = cliMethod /\ exit' = exit /\ exit = "none"
      /\ lines' = lines \/ lines' = Append(lines, "activity")
  BY <1>1, <1>2, Zenon
  DEF Shim!WriteLine, Shim!cliVars, Shim!exchangeVars, Shim!pipeVars, ShimInv, CliInv, ProcessFits
<1>4. /\ "error" \notin parsed /\ Len(emitted) = taken + Len(eventPipe)
      /\ \A i \in 1..Len(eventPipe) : eventPipe[i] = emitted[taken + i]
      /\ taken \in Nat /\ eventPipe \in Seq(Shim!Events) /\ emitted \in Seq(Shim!Events)
      /\ Len(eventPipe) \in Nat /\ Len(emitted) \in Nat
      /\ cliMethod = "run" /\ request.valid /\ answer = {}
  <2>1. answer = {} /\ cliMethod = "run" /\ request.valid
    BY <1>1, SMT DEF ShimInv, CodexInv, StepsFit
  <2>. QED
    BY <1>1, <2>1, LenProperties, Zenon DEF ShimInv, CodexInv, CodexTyped, CodexFits
<1>5. /\ e \in Shim!Events /\ e = emitted[taken + 1] /\ taken + 1 <= Len(emitted)
      /\ eventPipe' \in Seq(Shim!Events) /\ Len(eventPipe') = Len(eventPipe) - 1
      /\ \A i \in 1..Len(eventPipe') : eventPipe'[i] = eventPipe[i + 1]
  <2>1. /\ Head(eventPipe) \in Shim!Events /\ Head(eventPipe) = eventPipe[1]
        /\ Tail(eventPipe) \in Seq(Shim!Events)
        /\ Len(eventPipe) > 0 /\ Len(Tail(eventPipe)) = Len(eventPipe) - 1
        /\ \A i \in 1..Len(Tail(eventPipe)) : Tail(eventPipe)[i] = eventPipe[i + 1]
    BY <1>1, <1>4, TailFacts, SMT
  <2>2. 1 \in 1..Len(eventPipe)
    BY <1>4, <2>1, SMT
  <2>. QED
    BY <1>1, <1>4, <2>1, <2>2, SMT
<1>6. /\ Shim!Marks(e) \subseteq {"completed", "failed", "closed"}
      /\ "closed" \in Shim!Marks(e) <=> e \in {"turn.completed", "turn.failed"}
      /\ "completed" \in Shim!Marks(e) <=> e = "turn.completed"
      /\ "failed" \in Shim!Marks(e) <=> e \in {"turn.failed", "error"}
  BY <1>5, SMT DEF Shim!Marks, Shim!Events
<1> HIDE DEF e
<1>7. CodexTyped'
  <2>1. /\ parsed' \subseteq {"completed", "failed", "closed", "error"}
        /\ candidate' \in BOOLEAN /\ step' \in {"parse", "terminate"} /\ taken' \in Nat
    <3>1. step' \in {"parse", "terminate"} /\ candidate' \in BOOLEAN
      BY <1>1, Zenon
    <3>2. parsed' \subseteq {"completed", "failed", "closed", "error"}
      <4>1. parsed \subseteq {"completed", "failed", "closed", "error"}
        BY Zenon DEF ShimInv, CodexInv, CodexTyped
      <4>2. parsed' = parsed \cup {"error"} \/ parsed' = parsed \cup Shim!Marks(e)
        BY <1>1, Zenon
      <4>. QED
        BY <1>6, <4>1, <4>2, Zenon
    <3>. QED
      BY <1>1, <1>4, <3>1, <3>2, SMT
  <2>2. step' \in {"read", "describe", "validate", "run", "parse", "terminate", "conclude", "write",
                   "exit"}
    BY <2>1, SMT
  <2>. QED
    BY <1>1, <1>5, <2>1, <2>2, Zenon DEF ShimInv, CodexInv, CodexTyped
<1>8. StepsFit'
  BY <1>1, <1>3, <1>4, Zenon DEF StepsFit
<1>9. LinesFit'
  <2>1. step' \notin {"read", "describe", "validate", "run", "exit"}
    BY <1>1, SMT
  <2>2. \A i \in 1..Len(lines') : lines'[i] = "activity"
    <3>1. \A i \in 1..Len(lines) : lines[i] = "activity"
      BY <1>1, SMT DEF ShimInv, CodexInv, LinesFit
    <3>2. CASE lines' = lines
      BY <3>1, <3>2
    <3>3. CASE lines' = Append(lines, "activity")
      <4>1. lines \in Seq(Shim!Lines) /\ Len(lines) \in Nat /\ "activity" \in Shim!Lines
        BY LenProperties DEF ShimInv, CliInv, CliTyped, Shim!Lines
      <4>2. /\ Len(lines') = Len(lines) + 1 /\ lines'[Len(lines) + 1] = "activity"
            /\ \A i \in 1..Len(lines) : lines'[i] = lines[i]
        BY <3>3, <4>1, AppendFacts, SMT
      <4>3. \A i \in 1..Len(lines') : i \in 1..Len(lines) \/ i = Len(lines) + 1
        BY <4>1, <4>2, SMT
      <4>. QED
        BY <3>1, <4>2, <4>3, Zenon
    <3>. QED
      BY <1>3, <3>2, <3>3
  <2>. QED
    BY <1>1, <1>3, <1>4, <2>1, <2>2, Zenon DEF LinesFit
<1>10. ResultFits'
  BY <1>1, <1>4, Zenon DEF ResultFits
<1>11. taken' <= Len(emitted') /\ Begun' /\ step' \notin {"conclude", "write", "exit"}
  BY <1>1, <1>4, <1>5, SMT DEF Begun
<1>12. CASE fails
  <2>1. "error" \in parsed' /\ step' = "terminate"
    BY <1>1, <1>12, Zenon
  <2>2. CodexFits'
    BY <1>11, <2>1, Zenon DEF CodexFits
  <2>3. TurnFits'
    BY <2>1, Zenon DEF TurnFits
  <2>. QED
    BY <1>7, <1>8, <1>9, <1>10, <2>2, <2>3 DEF CodexInv
<1>13. CASE ~fails
  <2>1. /\ e # "malformed" /\ "closed" \notin parsed
        /\ step' = "parse" /\ parsed' = parsed \cup Shim!Marks(e)
        /\ candidate' = (candidate \/ e = "message")
    BY <1>1, <1>13, Zenon
  <2>2. CodexFits'
    <3>1. /\ "error" \notin parsed' /\ Len(emitted') = taken' + Len(eventPipe')
      BY <1>1, <1>4, <1>5, <1>6, <2>1, SMT
    <3>2. \A i \in 1..Len(eventPipe') : eventPipe'[i] = emitted'[taken' + i]
      BY <1>1, <1>4, <1>5, SMT
    <3>. QED
      BY <1>11, <2>1, <3>1, <3>2, Zenon DEF CodexFits
  <2>3. /\ \A i \in 1..taken : emitted[i] # "malformed"
        /\ \A i \in 1..taken : emitted[i] \notin {"turn.completed", "turn.failed"}
        /\ "completed" \notin parsed
        /\ "failed" \notin parsed => \A i \in 1..taken : emitted[i] \notin {"turn.failed", "error"}
        /\ candidate => \E i \in 1..taken : emitted[i] = "message"
    <3>1. /\ \A i \in 1..taken : emitted[i] # "malformed"
          /\ \A i \in 1..taken : emitted[i] \in {"turn.completed", "turn.failed"} =>
                                   i = taken /\ "closed" \in parsed
          /\ "completed" \in parsed => taken > 0 /\ emitted[taken] = "turn.completed"
          /\ "failed" \notin parsed =>
                 \A i \in 1..taken : emitted[i] \notin {"turn.failed", "error"}
          /\ candidate => \E i \in 1..taken : emitted[i] = "message"
      BY <1>1, <1>4, Zenon DEF ShimInv, CodexInv, TurnFits
    <3>2. taken > 0 => taken \in 1..taken
      BY <1>4, SMT
    <3>3. "completed" \notin parsed
      BY <2>1, <3>1, <3>2, Zenon
    <3>. QED
      BY <2>1, <3>1, <3>3, Zenon
  <2>4. /\ taken' > 0 /\ taken' \in 1..taken' /\ emitted'[taken'] = e
        /\ \A i \in 1..taken' : i \in 1..taken \/ i = taken'
        /\ \A i \in 1..taken : i \in 1..taken'
    BY <1>1, <1>4, <1>5, SMT
  <2>5. /\ "completed" \in parsed' => e = "turn.completed"
        /\ "failed" \notin parsed' => "failed" \notin parsed /\ e \notin {"turn.failed", "error"}
        /\ e \in {"turn.completed", "turn.failed"} => "closed" \in parsed'
    BY <1>6, <2>1, <2>3, Zenon
  <2>6. TurnFits'
    <3>1. emitted' = emitted
      BY <1>1
    <3>2. \A i \in 1..taken' : emitted'[i] # "malformed"
      BY <2>1, <2>3, <2>4, <3>1, Zenon
    <3>3. \A i \in 1..taken' : emitted'[i] \in {"turn.completed", "turn.failed"} =>
                                i = taken' /\ "closed" \in parsed'
      BY <2>3, <2>4, <2>5, <3>1, Zenon
    <3>4. "completed" \in parsed' => taken' > 0 /\ emitted'[taken'] = "turn.completed"
      BY <2>4, <2>5, Zenon
    <3>5. "failed" \notin parsed' =>
              \A i \in 1..taken' : emitted'[i] \notin {"turn.failed", "error"}
      BY <2>3, <2>4, <2>5, <3>1, Zenon
    <3>6. candidate' => \E i \in 1..taken' : emitted'[i] = "message"
      BY <2>1, <2>3, <2>4, <3>1, Zenon
    <3>. QED
      BY <3>2, <3>3, <3>4, <3>5, <3>6, Zenon DEF TurnFits
  <2>. QED
    BY <1>7, <1>8, <1>9, <1>10, <2>2, <2>6 DEF CodexInv
<1>. QED
  BY <1>12, <1>13

\* Every step of an exchange whose shim may be that of codex.
LEMMA ShimNextKeeps == ASSUME ShimInv, [Shim!Next]_(Shim!vars) PROVE ShimInv'
<1>1. CliInv'
  <2>1. CASE Shim!Next
    BY <2>1, NextIsCliStep, CliKeeps DEF ShimInv
  <2>2. CASE UNCHANGED Shim!vars
    BY <2>2, CliKeeps DEF ShimInv, Shim!vars
  <2>. QED
    BY <2>1, <2>2
<1>2. CASE UNCHANGED Shim!vars
  <2>1. UNCHANGED <<Shim!shimVars, Shim!codexVars, cliMethod>> /\ lines' = lines /\ exit' = exit
    BY <1>2, Zenon DEF Shim!vars, Shim!cliVars, Shim!exchangeVars, Shim!pipeVars
  <2>. QED
    BY <1>1, <2>1, HostKeeps, SMTT(30) DEF ShimInv
<1>3. CASE \/ Shim!Host(Shim!Exchange) \/ Shim!Host(Shim!DrainStderr)
          \/ Shim!Host(Shim!CancelExchange) \/ Shim!Host(Shim!KillOnCancel)
  <2>1. /\ UNCHANGED <<Shim!shimVars, Shim!codexVars, cliMethod>> /\ lines' = lines
        /\ exit' \in {exit, "killed"}
    <3>1. UNCHANGED <<Shim!shimVars, Shim!codexVars>>
      BY <1>3, Zenon DEF Shim!Host
    <3>2. cliMethod' = cliMethod /\ lines' = lines /\ exit' \in {exit, "killed"}
      BY <1>3, Zenon
      DEF Shim!Host, Shim!Exchange, Shim!StartShim, Shim!ReadLine, Shim!EndOfStdout,
          Shim!KillReader, Shim!WaitShim, Shim!DrainStderr,
          Shim!CancelExchange, Shim!KillOnCancel, Shim!killProcessGroup, Shim!exchangeVars,
          Shim!pipeVars
    <3>. QED
      BY <3>1, <3>2
  <2>. QED
    BY <1>1, <2>1, HostKeeps, SMTT(30) DEF ShimInv
<1>4. CASE shim = "any" /\ Shim!AnyShim /\ UNCHANGED <<Shim!shimVars, Shim!codexVars>>
  <2>1. cliMethod' = cliMethod
    BY <1>4, Zenon DEF Shim!AnyShim, Shim!WriteLine, Shim!Diagnose, Shim!ExitShim, Shim!exchangeVars
  <2>2. shim # "codex"
    BY <1>4, SMT
  <2>. QED
    BY <1>1, <1>4, <2>1, <2>2, HostKeeps, SMTT(30) DEF ShimInv
<1>5. CASE Shim!Shim
  BY <1>1, <1>5, ReadRequestKeeps, LookUpKeeps, StartRunKeeps, ParseEventKeeps, EndOfEventsKeeps,
     TerminateCodexKeeps, ConcludeKeeps, WriteResponseKeeps, ExitRunKeeps, Zenon
  DEF Shim!Shim, ShimInv
<1>6. CASE Shim!Codex
  <2>1. ASSUME NEW e \in Shim!Events, Shim!EmitEvent(e) PROVE CodexInv'
    BY <2>1, EmitEventKeeps, SMT
  <2>2. ASSUME NEW code \in {"zero", "nonzero", "killed"}, Shim!ExitCodex(code) PROVE CodexInv'
    BY <2>2, ExitCodexKeeps, SMT
  <2>. QED
    BY <1>1, <1>6, <2>1, <2>2, SMT DEF Shim!Codex, Shim!DieWithShim, ShimInv
<1>. QED
  BY <1>2, <1>3, <1>4, <1>5, <1>6 DEF Shim!Next

------------------------------------------------------------------------------
(* The answer of the shim of codex                                           *)

\* An index is the last or comes before it.
LEMMA UpToLast == \A n \in Nat : \A i \in 1..n : i \in 1..(n - 1) \/ i = n
  BY SMT

\* A run of codex that the host accepts was completed.
LEMMA FitsIsCompleted == ASSUME ShimInv PROVE Shim!AnswerIsCompleted
<1> SUFFICES ASSUME shim = "codex", place = "returned"
    PROVE  /\ verdict = "ok" /\ cliMethod = "run" =>
               /\ Shim!Last(emitted) = "turn.completed"
               /\ codexExit = "zero"
               /\ {"turn.failed", "error", "malformed"} \cap Shim!ToSet(emitted) = {}
               /\ "message" \in Shim!ToSet(emitted)
           /\ verdict \in {"process_failed", "no_response"} => ~request.valid
           /\ verdict = "protocol_error" => ~request.valid \/ Len(lines) > MaxLines
  BY Zenon DEF Shim!AnswerIsCompleted
<1>1. /\ DOMAIN lines = 1..Len(lines) /\ Len(lines) \in Nat /\ lines \in Seq(Shim!Lines)
      /\ DOMAIN emitted = 1..Len(emitted) /\ Len(emitted) \in Nat
  BY LenProperties DEF ShimInv, CliInv, CliTyped, CodexInv, CodexTyped
<1>2. \/ verdict = Shim!Classify /\ exit # "none"
      \/ verdict = "not started" /\ lines = <<>>
  BY Zenon DEF ShimInv, CliInv, ProcessFits
<1>3. verdict # "not started" =>
        /\ readErr \/ (total = Len(lines) /\ terminal = KeptOf(Len(lines)))
        /\ exit = "killed" => cancelled \/ readErr
        /\ exit # "none" /\ verdict = Shim!Classify
  BY <1>2, Zenon DEF ShimInv, CliInv, ProcessFits, ReadFits
<1>4. step = "exit" => Len(lines) \in 1..Len(lines)
  <2>1. step = "exit" => lines # <<>>
    BY Zenon DEF ShimInv, CodexInv, LinesFit
  <2>2. lines # <<>> => Len(lines) # 0
    BY <1>1, EmptySeq
  <2>. QED
    BY <1>1, <2>1, <2>2, SMT
<1>5. verdict = "ok" => ~cancelled /\ ~readErr /\ exit = "zero" /\ terminal \notin {{}, {"error"}}
  BY <1>2, SMT DEF Shim!Classify
<1>6. verdict \in {"process_failed", "no_response"} =>
        /\ ~cancelled /\ ~readErr
        /\ verdict = "process_failed" => exit # "zero"
        /\ verdict = "no_response" => terminal = {} /\ exit = "zero"
  <2>1. verdict = "process_failed" => ~cancelled /\ ~readErr /\ exit # "zero"
    BY <1>2, SMT DEF Shim!Classify
  <2>2. verdict = "no_response" => ~cancelled /\ ~readErr /\ terminal = {} /\ exit = "zero"
    BY <1>2, SMT DEF Shim!Classify
  <2>. QED
    BY <2>1, <2>2, Zenon
<1>7. verdict = "protocol_error" => readErr
  BY <1>2, SMT DEF Shim!Classify
<1>8. /\ exit = "zero" => request.valid /\ step = "exit"
      /\ exit = "nonzero" => ~request.valid
      /\ step = "exit" /\ request.valid => answer \in {{Shim!Success(cliMethod)}, {"error"}}
  BY Zenon DEF ShimInv, CodexInv, StepsFit
<1>m. /\ Shim!Success(cliMethod) \in Shim!Terminals
      /\ (cliMethod = "run" => Shim!Success(cliMethod) = "result")
  BY MethodsAssumption, SMT DEF ShimInv, CliInv, CliTyped, Shim!Success, Shim!Terminals
<1>9. step = "exit" /\ request.valid =>
        /\ lines[Len(lines)] \in {Shim!Success(cliMethod), "error"} /\ answer = {lines[Len(lines)]}
        /\ KeptOf(Len(lines)) = answer
  <2> SUFFICES ASSUME step = "exit", request.valid
               PROVE  /\ lines[Len(lines)] \in {Shim!Success(cliMethod), "error"}
                      /\ answer = {lines[Len(lines)]} /\ KeptOf(Len(lines)) = answer
    OBVIOUS
  <2>1. answer = {lines[Len(lines)]} /\ \A i \in 1..(Len(lines) - 1) : lines[i] = "activity"
    BY Zenon DEF ShimInv, CodexInv, LinesFit
  <2>2. lines[Len(lines)] \in {Shim!Success(cliMethod), "error"}
    BY <1>8, <2>1, Zenon
  <2>3. lines[Len(lines)] \in Shim!Terminals /\ "activity" \notin Shim!Terminals
    BY <1>m, <2>2, SMT DEF Shim!Terminals
  <2>4. \A i \in 1..Len(lines) : i \in 1..(Len(lines) - 1) \/ i = Len(lines)
    BY <1>1, UpToLast, Zenon
  <2>5. KeptOf(Len(lines)) = {lines[Len(lines)]}
    BY <1>4, <2>1, <2>3, <2>4, Zenon DEF KeptOf
  <2>. QED
    BY <2>1, <2>2, <2>5
<1>10. ASSUME verdict = "ok", cliMethod = "run"
       PROVE  /\ Shim!Last(emitted) = "turn.completed"
              /\ codexExit = "zero"
              /\ {"turn.failed", "error", "malformed"} \cap Shim!ToSet(emitted) = {}
              /\ "message" \in Shim!ToSet(emitted)
  <2>1. step = "exit" /\ request.valid /\ terminal = KeptOf(Len(lines)) /\ terminal # {"error"}
    BY <1>10, <1>3, <1>5, <1>8, Zenon
  <2>2. answer = {"result"}
    BY <1>8, <1>9, <1>10, <1>m, <2>1, Zenon
  <2>3. /\ {"error", "failed"} \cap parsed = {}
        /\ codexExit = "zero" /\ "completed" \in parsed /\ candidate
    BY <2>2, Zenon DEF ShimInv, CodexInv, ResultFits
  <2>4. /\ "error" \notin parsed /\ "failed" \notin parsed
    BY <2>3, Zenon
  <2>5. taken = Len(emitted)
    BY <2>1, <2>4, Zenon DEF ShimInv, CodexInv, CodexFits
  <2>6. /\ \A i \in 1..taken : emitted[i] # "malformed"
        /\ taken > 0 /\ emitted[taken] = "turn.completed"
        /\ \A i \in 1..taken : emitted[i] \notin {"turn.failed", "error"}
        /\ \E i \in 1..taken : emitted[i] = "message"
    BY <2>3, <2>4, Zenon DEF ShimInv, CodexInv, TurnFits
  <2>. QED
    BY <1>1, <2>3, <2>5, <2>6, Zenon DEF Shim!Last, Shim!ToSet
<1>11. ASSUME verdict \in {"process_failed", "no_response"} PROVE ~request.valid
  <2> SUFFICES ASSUME request.valid PROVE FALSE
    OBVIOUS
  <2>0. verdict # "not started"
    BY <1>11, Zenon
  <2>1. exit = "zero"
    BY <1>3, <1>6, <1>8, <1>11, <2>0, Zenon DEF ShimInv, CliInv, CliTyped
  <2>2. step = "exit" /\ verdict = "no_response" /\ terminal = {} /\ terminal = KeptOf(Len(lines))
    BY <1>3, <1>6, <1>8, <1>11, <2>0, <2>1, Zenon
  <2>. QED
    BY <1>9, <2>2, Zenon
<1>12. ASSUME verdict = "protocol_error", request.valid, Len(lines) <= MaxLines PROVE FALSE
  <2>1. ~ReadInOrder(Len(lines))
    BY <1>7, <1>12, Zenon DEF ShimInv, CliInv, ReadFits
  <2>2. \A i \in 1..Len(lines) : lines[i] = "activity" => cliMethod = "run"
    BY Zenon DEF ShimInv, CodexInv, LinesFit
  <2>3. \A i \in 1..Len(lines) : lines[i] = "activity"
                                 \/ (i = Len(lines) /\ lines[i] \in {Shim!Success(cliMethod),
                                        "error"})
    <3>1. CASE step = "exit"
      <4>1. \A i \in 1..(Len(lines) - 1) : lines[i] = "activity"
        BY <3>1, Zenon DEF ShimInv, CodexInv, LinesFit
      <4>2. \A i \in 1..Len(lines) : i \in 1..(Len(lines) - 1) \/ i = Len(lines)
        BY <1>1, UpToLast, Zenon
      <4>. QED
        BY <1>9, <1>12, <3>1, <4>1, <4>2, Zenon
    <3>2. CASE step # "exit"
      BY <3>2, Zenon DEF ShimInv, CodexInv, LinesFit
    <3>. QED
      BY <3>1, <3>2
  <2>4. \A i \in 1..Len(lines) : MayCome(lines[i])
    BY <2>2, <2>3, Zenon DEF MayCome
  <2>5. "activity" \notin Shim!Terminals
    BY SMT DEF Shim!Terminals
  <2>6. \A i, j \in 1..Len(lines) : lines[i] \in Shim!Terminals /\ lines[j] \in Shim!Terminals =>
            i = j
    BY <2>3, <2>5, Zenon
  <2>. QED
    BY <1>12, <2>1, <2>4, <2>6, Zenon DEF ReadInOrder
<1>13. verdict = "protocol_error" => ~request.valid \/ Len(lines) > MaxLines
  BY <1>1, <1>12, MaxLinesAssumption, SMT
<1>. QED
  BY <1>10, <1>11, <1>13, Zenon

\* The verdict of an exchange is the one that all the shim wrote deserves, whatever
\* it wrote and when it died; and a run that succeeds with the shim of codex is one
\* that codex completed, with a message, before it exited with zero.
THEOREM AnswersOfShims == Shim!Spec => [](Shim!VerdictIsDeserved /\ Shim!AnswerIsCompleted)
<1>1. ShimInv => Shim!VerdictIsDeserved /\ Shim!AnswerIsCompleted
  BY FitsIsDeserved, FitsIsCompleted DEF ShimInv
<1>. QED
  BY <1>1, ShimInitFits, ShimNextKeeps, PTL DEF Shim!Spec

------------------------------------------------------------------------------
(* The documents below another                                              *)

\* A document is below itself, and nothing that is no document is.
LEMMA BelowHolds ==
    ASSUME NEW dir, NEW file
    PROVE  /\ Tools!Below(dir, file) \subseteq DOMAIN dir.document
           /\ file \in DOMAIN dir.document => file \in Tools!Below(dir, file)
BY DEF Tools!Below

\* The references of what is below a document lead to what is below it.
LEMMA BelowIsClosed ==
    ASSUME NEW dir, NEW file
    PROVE  Tools!Closed(dir, Tools!Below(dir, file))
BY DEF Tools!Below, Tools!Closed

\* It is the least such set.
LEMMA BelowIsLeast ==
    ASSUME NEW dir, NEW file, NEW files \in SUBSET DOMAIN dir.document,
           file \in DOMAIN dir.document => file \in files, Tools!Closed(dir, files)
    PROVE  Tools!Below(dir, file) \subseteq files
BY DEF Tools!Below

\* What is below a document that is below another is below that one.
LEMMA BelowIsTransitive ==
    ASSUME NEW dir, NEW file, NEW lower \in Tools!Below(dir, file)
    PROVE  Tools!Below(dir, lower) \subseteq Tools!Below(dir, file)
BY BelowHolds, BelowIsClosed, BelowIsLeast

\* So is what a document refers to.
LEMMA TargetIsBelow ==
    ASSUME NEW dir, NEW file \in DOMAIN dir.document,
           NEW target \in Tools!Targets(dir, file), target \in DOMAIN dir.document
    PROVE  target \in Tools!Below(dir, file)
BY BelowHolds, BelowIsClosed DEF Tools!Closed

\* What is below a document is that document, or is below one it refers to.
LEMMA BelowSplits ==
    ASSUME NEW dir, NEW file \in DOMAIN dir.document, NEW lower \in Tools!Below(dir, file),
           lower # file
    PROVE  \E target \in Tools!Targets(dir, file) : lower \in Tools!Below(dir, target)
<1>. DEFINE Files ==
         {file} \cup {f \in DOMAIN dir.document :
                        \E target \in Tools!Targets(dir, file) : f \in Tools!Below(dir, target)}
<1>1. Tools!Closed(dir, Files)
  <2>. SUFFICES ASSUME NEW f \in Files, NEW t \in Tools!Targets(dir, f), t \in DOMAIN dir.document
                PROVE  t \in Files
    BY DEF Tools!Closed
  <2>1. CASE f = file
    BY <2>1, BelowHolds
  <2>2. ASSUME NEW target \in Tools!Targets(dir, file), f \in Tools!Below(dir, target)
        PROVE  t \in Files
    BY <2>2, BelowIsClosed DEF Tools!Closed
  <2>. QED
    BY <2>1, <2>2
<1>2. Tools!Below(dir, file) \subseteq Files
  BY <1>1, BelowIsLeast
<1>. QED
  BY <1>2

------------------------------------------------------------------------------
(* What a run still has to do                                               *)

\* A workflow whose references all lead to a document, as startup leaves it.
Complete(dir) ==
    /\ Tools!IsDirectory(dir)
    /\ \A file \in Tools!OrderedDocuments(dir) :
          Tools!Targets(dir, file) \subseteq DOMAIN dir.document

\* The documents a frame stands for, and those of all frames.
Waiting(dir, frames) == UNION {Tools!Below(dir, frames[i].file) : i \in DOMAIN frames}

Frames(dir) == [file : Tools!OrderedDocuments(dir), left : Nat]

\* What is above a loop on the agenda is of that loop.
Nested(dir, frames) ==
    \A i \in DOMAIN frames : frames[i].left > 0 =>
        /\ dir.document[frames[i].file].class = "LoopAgent"
        /\ \A j \in 1..(i - 1) : frames[j].file \in Tools!Below(dir, frames[i].file)

Inside(dir, file, frames) ==
    \A i \in DOMAIN frames : frames[i].left > 0 => file \in Tools!Below(dir, frames[i].file)

\* What a run has left to do, has done, or need not do, is the workflow.
AgendaFits(dir, frames, through) ==
    /\ frames \in Seq(Frames(dir))
    /\ Nested(dir, frames)
    /\ Tools!OrderedDocuments(dir)
           \subseteq through \cup Tools!buildLoopAncestorMap(dir) \cup Waiting(dir, frames)

ChildFrames(dir, frame) ==
    LET subs == Tools!SubAgents(dir.document[frame.file])
    IN  [i \in DOMAIN subs |-> [file |-> dir.target[subs[i]], left |-> 0]]

\* The documents below one of a workflow are of the workflow.
LEMMA BelowIsOfWorkflow ==
    ASSUME NEW dir, NEW file \in Tools!OrderedDocuments(dir)
    PROVE  /\ file \in DOMAIN dir.document
           /\ Tools!Below(dir, file) \subseteq Tools!OrderedDocuments(dir)
BY BelowHolds, BelowIsTransitive DEF Tools!OrderedDocuments

\* All that is below a loop is in a loop.
LEMMA BelowLoopIsLooped ==
    ASSUME NEW dir, NEW file \in Tools!OrderedDocuments(dir),
           dir.document[file].class = "LoopAgent"
    PROVE  Tools!Below(dir, file) \subseteq Tools!buildLoopAncestorMap(dir)
BY DEF Tools!buildLoopAncestorMap

\* The frames of what a document refers to.
LEMMA ChildFramesFit ==
    ASSUME NEW dir, Complete(dir), NEW frame \in Frames(dir)
    PROVE  LET children == ChildFrames(dir, frame) IN
           /\ children \in Seq(Frames(dir))
           /\ \A i \in DOMAIN children : /\ children[i].left = 0
                                         /\ children[i].file \in Tools!Below(dir, frame.file)
           /\ Tools!Below(dir, frame.file) \subseteq {frame.file} \cup Waiting(dir, children)
<1>. DEFINE subs == Tools!SubAgents(dir.document[frame.file])
            children == ChildFrames(dir, frame)
<1>1. frame.file \in Tools!OrderedDocuments(dir) /\ frame.file \in DOMAIN dir.document
  BY BelowIsOfWorkflow DEF Frames
<1>2. subs \in Seq(DOMAIN dir.target)
  <2>1. dir.document[frame.file].subs \in Seq(DOMAIN dir.target)
    BY <1>1, Zenon DEF Complete, Tools!IsDirectory
  <2>2. subs \in {dir.document[frame.file].subs, <<>>}
    BY Zenon DEF Tools!SubAgents
  <2>3. <<>> \in Seq(DOMAIN dir.target)
    BY SMT
  <2>. QED
    BY <2>1, <2>2, <2>3, Zenon
<1>3. Tools!Targets(dir, frame.file) = {dir.target[subs[i]] : i \in DOMAIN subs}
  BY DEF Tools!Targets
<1>. HIDE DEF subs
<1>4. children = [i \in DOMAIN subs |-> [file |-> dir.target[subs[i]], left |-> 0]]
  BY DEF ChildFrames, subs
<1>5. \A i \in DOMAIN subs :
        /\ dir.target[subs[i]] \in Tools!Below(dir, frame.file)
        /\ dir.target[subs[i]] \in Tools!OrderedDocuments(dir)
  BY <1>1, <1>3, TargetIsBelow, BelowIsOfWorkflow DEF Complete
<1>6. children \in Seq(Frames(dir))
  <2>1. \A i \in DOMAIN subs : [file |-> dir.target[subs[i]], left |-> 0] \in Frames(dir)
    BY <1>5, SMT DEF Frames
  <2>2. Len(subs) \in Nat /\ DOMAIN subs = 1..Len(subs)
    BY <1>2, LenProperties
  <2>. QED
    BY <1>4, <2>1, <2>2, SMT
<1>7. ASSUME NEW lower \in Tools!Below(dir, frame.file), lower # frame.file
      PROVE  lower \in Waiting(dir, children)
  <2>1. PICK target \in Tools!Targets(dir, frame.file) : lower \in Tools!Below(dir, target)
    BY <1>1, <1>7, BelowSplits
  <2>2. PICK i \in DOMAIN subs : target = dir.target[subs[i]]
    BY <1>3
  <2>. QED
    BY <1>4, <2>1, <2>2 DEF Waiting
<1>. QED
  BY <1>4, <1>5, <1>6, <1>7

\* Frames put before others.
LEMMA ConcatFits ==
    ASSUME NEW dir, NEW above \in Seq(Frames(dir)), NEW rest \in Seq(Frames(dir))
    PROVE  /\ above \o rest \in Seq(Frames(dir))
           /\ Waiting(dir, above \o rest) = Waiting(dir, above) \cup Waiting(dir, rest)
           /\ /\ Nested(dir, above) /\ Nested(dir, rest)
              /\ \A i \in DOMAIN above : Inside(dir, above[i].file, rest)
              => Nested(dir, above \o rest)
<1>. DEFINE all == above \o rest
<1>1. all \in Seq(Frames(dir)) /\ DOMAIN all = 1..(Len(above) + Len(rest))
  BY ConcatProperties, LenProperties
<1>2. /\ DOMAIN above = 1..Len(above) /\ Len(above) \in Nat
      /\ DOMAIN rest = 1..Len(rest) /\ Len(rest) \in Nat
  BY LenProperties
<1>3. /\ \A i \in DOMAIN above : all[i] = above[i]
      /\ \A i \in DOMAIN rest : all[i + Len(above)] = rest[i]
  BY <1>1, <1>2, ConcatProperties
<1>. HIDE DEF all
<1>4. \A i \in DOMAIN all : i \notin DOMAIN above =>
          i - Len(above) \in DOMAIN rest /\ all[i] = rest[i - Len(above)]
  BY <1>1, <1>2, <1>3
<1>5. /\ \A i \in DOMAIN above : i \in DOMAIN all
      /\ \A i \in DOMAIN rest : i + Len(above) \in DOMAIN all
  BY <1>1, <1>2
<1>6. Waiting(dir, all) = Waiting(dir, above) \cup Waiting(dir, rest)
  BY <1>3, <1>4, <1>5, Zenon DEF Waiting
<1>7. ASSUME Nested(dir, above), Nested(dir, rest),
             \A i \in DOMAIN above : Inside(dir, above[i].file, rest)
      PROVE  Nested(dir, all)
  <2>. SUFFICES ASSUME NEW i \in DOMAIN all, all[i].left > 0
                PROVE  /\ dir.document[all[i].file].class = "LoopAgent"
                       /\ \A j \in 1..(i - 1) : all[j].file \in Tools!Below(dir, all[i].file)
    BY DEF Nested
  <2>1. CASE i \in DOMAIN above
    <3>1. \A j \in 1..(i - 1) : j \in DOMAIN above
      BY <1>2, <2>1
    <3>2. above[i].left > 0
      BY <1>3, <2>1
    <3>. QED
      BY <1>3, <1>7, <2>1, <3>1, <3>2 DEF Nested
  <2>2. CASE i \notin DOMAIN above
    <3>. DEFINE k == i - Len(above)
    <3>1. k \in DOMAIN rest /\ all[i] = rest[k]
      BY <1>4, <2>2
    <3>2. /\ dir.document[rest[k].file].class = "LoopAgent"
          /\ \A j \in 1..(k - 1) : rest[j].file \in Tools!Below(dir, rest[k].file)
      BY <1>7, <3>1 DEF Nested
    <3>3. \A j \in DOMAIN above : above[j].file \in Tools!Below(dir, rest[k].file)
      BY <1>7, <3>1 DEF Inside
    <3>4. ASSUME NEW j \in 1..(i - 1) PROVE all[j].file \in Tools!Below(dir, all[i].file)
      <4>1. CASE j \in DOMAIN above
        BY <1>3, <3>1, <3>3, <4>1
      <4>2. CASE j \notin DOMAIN above
        <5>1. j \in DOMAIN all /\ j - Len(above) \in 1..(k - 1)
          BY <1>1, <1>2, <4>2
        <5>. QED
          BY <1>4, <3>1, <3>2, <4>2, <5>1
      <4>. QED
        BY <4>1, <4>2
    <3>. QED
      BY <3>1, <3>2, <3>4
  <2>. QED
    BY <2>1, <2>2
<1>. QED
  BY <1>1, <1>6, <1>7 DEF all

\* Frames left when those before them are dropped; what was dropped is inside the
\* loops among them.
LEMMA SuffixFits ==
    ASSUME NEW dir, NEW frames \in Seq(Frames(dir)), Nested(dir, frames),
           NEW i \in DOMAIN frames, NEW rest, rest = SubSeq(frames, i + 1, Len(frames))
    PROVE  /\ rest \in Seq(Frames(dir))
           /\ Nested(dir, rest)
           /\ \A j \in 1..i : Inside(dir, frames[j].file, rest)
           /\ Waiting(dir, frames)
                  = Waiting(dir, rest) \cup UNION {Tools!Below(dir, frames[j].file) : j \in 1..i}
<1>1. /\ Len(frames) \in Nat /\ DOMAIN frames = 1..Len(frames) /\ i \in 1..Len(frames)
  BY LenProperties
<1>2. /\ rest \in Seq(Frames(dir))
      /\ DOMAIN rest = 1..(Len(frames) - i)
      /\ \A k \in DOMAIN rest : rest[k] = frames[k + i]
  <2>1. i + 1 \in 1..(Len(frames) + 1) /\ Len(frames) \in i..Len(frames)
    BY <1>1
  <2>. QED
    BY <1>1, <2>1, SMT
<1>3. \A k \in DOMAIN rest : k + i \in DOMAIN frames
  BY <1>1, <1>2
<1>4. Nested(dir, rest)
  <2>. SUFFICES ASSUME NEW k \in DOMAIN rest, rest[k].left > 0
                PROVE  /\ dir.document[rest[k].file].class = "LoopAgent"
                       /\ \A j \in 1..(k - 1) : rest[j].file \in Tools!Below(dir, rest[k].file)
    BY DEF Nested
  <2>1. rest[k] = frames[k + i] /\ k + i \in DOMAIN frames
    BY <1>2, <1>3
  <2>2. ASSUME NEW j \in 1..(k - 1)
        PROVE  rest[j] = frames[j + i] /\ j + i \in 1..((k + i) - 1)
    <3>1. DOMAIN rest = 1..(Len(frames) - i) /\ k \in 1..(Len(frames) - i)
      BY <1>2, Zenon
    <3>2. j \in 1..(Len(frames) - i) /\ j + i \in 1..((k + i) - 1)
      BY <1>1, <3>1, SMT
    <3>. QED
      BY <1>2, <3>1, <3>2, Zenon
  <2>. QED
    BY <2>1, <2>2 DEF Nested
<1>5. ASSUME NEW j \in 1..i PROVE Inside(dir, frames[j].file, rest)
  <2>. SUFFICES ASSUME NEW k \in DOMAIN rest, rest[k].left > 0
                PROVE  frames[j].file \in Tools!Below(dir, rest[k].file)
    BY DEF Inside
  <2>1. rest[k] = frames[k + i] /\ k + i \in DOMAIN frames /\ j \in 1..((k + i) - 1)
    BY <1>1, <1>2, <1>3
  <2>. QED
    BY <2>1 DEF Nested
<1>6. Waiting(dir, frames)
          = Waiting(dir, rest) \cup UNION {Tools!Below(dir, frames[j].file) : j \in 1..i}
  <2>1. ASSUME NEW k \in DOMAIN frames, k \notin 1..i
        PROVE  k - i \in DOMAIN rest /\ rest[k - i] = frames[k]
    <3>1. k - i \in 1..(Len(frames) - i) /\ (k - i) + i = k
      BY <1>1, <2>1, SMT
    <3>2. DOMAIN rest = 1..(Len(frames) - i)
      BY <1>2, Zenon
    <3>. QED
      BY <1>2, <3>1, <3>2, Zenon
  <2>2. \A j \in 1..i : j \in DOMAIN frames
    BY <1>1
  <2>. QED
    BY <1>2, <1>3, <2>1, <2>2, ZenonT(30) DEF Waiting
<1>. QED
  BY <1>2, <1>4, <1>5, <1>6

\* The next frame and those after it.
LEMMA NextFrameFits ==
    ASSUME NEW dir, NEW frames, NEW through, AgendaFits(dir, frames, through), frames # <<>>
    PROVE  /\ Head(frames) \in Frames(dir) /\ Head(frames) = frames[1]
           /\ Tail(frames) \in Seq(Frames(dir))
           /\ Nested(dir, Tail(frames))
           /\ Inside(dir, Head(frames).file, Tail(frames))
           /\ Waiting(dir, frames)
                  = Waiting(dir, Tail(frames)) \cup Tools!Below(dir, Head(frames).file)
<1>1. frames \in Seq(Frames(dir)) /\ Nested(dir, frames)
  BY DEF AgendaFits
<1>2. 1 \in DOMAIN frames /\ Head(frames) = frames[1] /\ Head(frames) \in Frames(dir)
  BY <1>1, SMT
<1>3. Tail(frames) = SubSeq(frames, 1 + 1, Len(frames))
  BY <1>1, SMT
<1>4. /\ Tail(frames) \in Seq(Frames(dir))
      /\ Nested(dir, Tail(frames))
      /\ \A j \in 1..1 : Inside(dir, frames[j].file, Tail(frames))
      /\ Waiting(dir, frames) = Waiting(dir, Tail(frames))
                                   \cup UNION {Tools!Below(dir, frames[j].file) : j \in 1..1}
  BY <1>1, <1>2, <1>3, SuffixFits
<1>5. 1..1 = {1}
  BY SMT
<1>. QED
  BY <1>2, <1>4, <1>5

\* A frame is done with that has nothing below it, or only what is in a loop.
LEMMA DoneFits ==
    ASSUME NEW dir, NEW frames, NEW through, AgendaFits(dir, frames, through), frames # <<>>,
           Tools!Below(dir, Head(frames).file)
               \subseteq {Head(frames).file} \cup Tools!buildLoopAncestorMap(dir)
    PROVE  AgendaFits(dir, Tail(frames), through \cup {Head(frames).file})
BY NextFrameFits, ZenonT(30) DEF AgendaFits

\* The rest of the agenda after a loop is left, with all that was above it.
LEMMA ExitFits ==
    ASSUME NEW dir, NEW frames, NEW through, AgendaFits(dir, frames, through),
           NEW i \in DOMAIN frames, frames[i].left > 0, NEW more
    PROVE  AgendaFits(dir, SubSeq(frames, i + 1, Len(frames)), through \cup more)
<1>. DEFINE rest == SubSeq(frames, i + 1, Len(frames))
<1>1. frames \in Seq(Frames(dir)) /\ Nested(dir, frames)
  BY DEF AgendaFits
<1>2. /\ rest \in Seq(Frames(dir))
      /\ Nested(dir, rest)
      /\ Waiting(dir, frames)
             = Waiting(dir, rest) \cup UNION {Tools!Below(dir, frames[j].file) : j \in 1..i}
  BY <1>1, SuffixFits
<1>3. /\ frames[i].file \in Tools!OrderedDocuments(dir)
      /\ dir.document[frames[i].file].class = "LoopAgent"
  <2>1. frames[i] \in Frames(dir)
    BY <1>1, ElementOfSeq, LenProperties
  <2>. QED
    BY <1>1, <2>1 DEF Nested, Frames
<1>4. Tools!Below(dir, frames[i].file) \subseteq Tools!buildLoopAncestorMap(dir)
  BY <1>3, BelowLoopIsLooped
<1>5. ASSUME NEW j \in 1..i
      PROVE  Tools!Below(dir, frames[j].file) \subseteq Tools!Below(dir, frames[i].file)
  <2>1. CASE j = i
    BY <2>1
  <2>2. CASE j # i
    <3>1. i \in Nat /\ j \in 1..(i - 1)
      BY <1>1, <2>2, LenProperties
    <3>. QED
      BY <1>1, <3>1, BelowIsTransitive DEF Nested
  <2>. QED
    BY <2>1, <2>2
<1>. QED
  BY <1>2, <1>4, <1>5 DEF AgendaFits

\* What a sequence refers to is to be done next.
LEMMA PushFits ==
    ASSUME NEW dir, Complete(dir), NEW frames, NEW through, AgendaFits(dir, frames, through),
           frames # <<>>
    PROVE  AgendaFits(dir, ChildFrames(dir, Head(frames)) \o Tail(frames),
                      through \cup {Head(frames).file})
<1>. DEFINE frame == Head(frames)
            children == ChildFrames(dir, frame)
            rest == Tail(frames)
<1>1. /\ frame \in Frames(dir) /\ rest \in Seq(Frames(dir))
      /\ Nested(dir, rest) /\ Inside(dir, frame.file, rest)
      /\ Waiting(dir, frames) = Waiting(dir, rest) \cup Tools!Below(dir, frame.file)
  BY NextFrameFits
<1>2. /\ children \in Seq(Frames(dir))
      /\ \A i \in DOMAIN children : /\ children[i].left = 0
                                    /\ children[i].file \in Tools!Below(dir, frame.file)
      /\ Tools!Below(dir, frame.file) \subseteq {frame.file} \cup Waiting(dir, children)
  BY <1>1, ChildFramesFit
<1>. HIDE DEF frame, children, rest
<1>3. Nested(dir, children)
  BY <1>2, SMT DEF Nested
<1>4. \A i \in DOMAIN children : Inside(dir, children[i].file, rest)
  BY <1>1, <1>2, BelowIsTransitive DEF Inside
<1>5. /\ children \o rest \in Seq(Frames(dir))
      /\ Nested(dir, children \o rest)
      /\ Waiting(dir, children \o rest) = Waiting(dir, children) \cup Waiting(dir, rest)
  BY <1>1, <1>2, <1>3, <1>4, ConcatFits
<1>6. AgendaFits(dir, children \o rest, through \cup {frame.file})
  BY <1>1, <1>2, <1>5 DEF AgendaFits
<1>. QED
  BY <1>6 DEF frame, children, rest

\* What a loop refers to is to be done next, and then the loop again.
LEMMA RoundFits ==
    ASSUME NEW dir, Complete(dir), NEW frames, NEW through, AgendaFits(dir, frames, through),
           frames # <<>>, dir.document[Head(frames).file].class = "LoopAgent", NEW n \in Nat
    PROVE  AgendaFits(dir, ChildFrames(dir, Head(frames)) \o <<[Head(frames) EXCEPT !.left = n]>>
                               \o Tail(frames),
                      through \cup {Head(frames).file})
<1>. DEFINE frame == Head(frames)
            children == ChildFrames(dir, frame)
            again == <<[frame EXCEPT !.left = n]>>
            rest == Tail(frames)
<1>1. /\ frame \in Frames(dir) /\ rest \in Seq(Frames(dir))
      /\ Nested(dir, rest) /\ Inside(dir, frame.file, rest)
      /\ Waiting(dir, frames) = Waiting(dir, rest) \cup Tools!Below(dir, frame.file)
  BY NextFrameFits
<1>2. /\ children \in Seq(Frames(dir))
      /\ \A i \in DOMAIN children : /\ children[i].left = 0
                                    /\ children[i].file \in Tools!Below(dir, frame.file)
      /\ Tools!Below(dir, frame.file) \subseteq {frame.file} \cup Waiting(dir, children)
  BY <1>1, ChildFramesFit
<1>3. /\ again \in Seq(Frames(dir)) /\ DOMAIN again = {1}
      /\ again[1].file = frame.file
  BY <1>1, SMT DEF Frames
<1>4. dir.document[frame.file].class = "LoopAgent"
  OBVIOUS
<1>. HIDE DEF frame, children, again, rest
<1>5. Nested(dir, again)
  <2>1. 1..(1 - 1) = {}
    BY SMT
  <2>. QED
    BY <1>3, <1>4, <2>1, Zenon DEF Nested
<1>6. Nested(dir, children)
  BY <1>2, SMT DEF Nested
<1>7. \A i \in DOMAIN children : Inside(dir, children[i].file, again)
  BY <1>2, <1>3 DEF Inside
<1>8. /\ children \o again \in Seq(Frames(dir))
      /\ Nested(dir, children \o again)
      /\ Waiting(dir, children \o again) = Waiting(dir, children) \cup Waiting(dir, again)
  BY <1>2, <1>3, <1>5, <1>6, <1>7, ConcatFits
<1>9. \A i \in DOMAIN (children \o again) :
          (children \o again)[i].file \in Tools!Below(dir, frame.file) \cup {frame.file}
  <2>1. \A i \in DOMAIN (children \o again) :
            \/ \E k \in DOMAIN children : (children \o again)[i] = children[k]
            \/ (children \o again)[i] = again[1]
    BY <1>2, <1>3, ConcatProperties, LenProperties, SMT
  <2>. QED
    BY <1>2, <1>3, <2>1
<1>10. \A i \in DOMAIN (children \o again) : Inside(dir, (children \o again)[i].file, rest)
  BY <1>1, <1>9, BelowIsTransitive DEF Inside
<1>11. /\ (children \o again) \o rest \in Seq(Frames(dir))
       /\ Nested(dir, (children \o again) \o rest)
       /\ Waiting(dir, (children \o again) \o rest)
              = Waiting(dir, children \o again) \cup Waiting(dir, rest)
  BY <1>1, <1>8, <1>10, ConcatFits
<1>12. AgendaFits(dir, (children \o again) \o rest, through \cup {frame.file})
  BY <1>1, <1>2, <1>8, <1>11 DEF AgendaFits
<1>. QED
  BY <1>12 DEF frame, children, again, rest

------------------------------------------------------------------------------
(* What startup leaves                                                      *)

RunDir == Tools!Dir(Tools!Workflow)

\* What is read of the configuration is that of before while it is the same.
LEMMA SameConfiguration ==
    ASSUME config' = config
    PROVE  /\ Tools!RootDef' = Tools!RootDef /\ RunDir' = RunDir
           /\ Tools!Accepted' = Tools!Accepted
           /\ Tools!ToolsForInvocation' = Tools!ToolsForInvocation
<1>1. Tools!Loaded' = Tools!Loaded
  BY Zenon DEF Tools!Loaded
<1>2. Tools!RootDef' = Tools!RootDef /\ Tools!Models' = Tools!Models
  <2>1. Tools!RootDef' = Tools!RootDef
    BY <1>1, Zenon DEF Tools!RootDef
  <2>2. Tools!Models' = Tools!Models
    BY <1>1, SMT DEF Tools!Models
  <2>. QED
    BY <2>1, <2>2
<1>3. \A id : Tools!Dir(id)' = Tools!Dir(id)
  BY Zenon DEF Tools!Dir
<1>4. RunDir' = RunDir
  BY <1>2, <1>3, Zenon DEF RunDir, Tools!Workflow, Tools!Dir
<1>5. \A id : /\ Tools!RootName(id)' = Tools!RootName(id)
              /\ Tools!Blueprint(id)' = Tools!Blueprint(id)
  BY Zenon DEF Tools!RootName, Tools!Blueprint, Tools!Dir
<1>6. \A id, index, only : Tools!buildWorkflowAgent(id, index, only)'
                             = Tools!buildWorkflowAgent(id, index, only)
  <2>1. \A dir, file, index, only : Tools!buildWorkflowNode(dir, file, index, only)'
                                      = Tools!buildWorkflowNode(dir, file, index, only)
    BY <1>2, SMT DEF Tools!buildWorkflowNode
  <2>2. ASSUME NEW id, NEW index, NEW only
        PROVE  Tools!buildWorkflowAgent(id, index, only)'
                   = Tools!buildWorkflowAgent(id, index, only)
    BY <2>1, SMT DEF Tools!buildWorkflowAgent, Tools!Dir
  <2>. QED
    BY <2>2
<1>7. /\ Tools!ConfiguredNames' = Tools!ConfiguredNames
      /\ Tools!BaseTools' = Tools!BaseTools /\ Tools!ChildIndex' = Tools!ChildIndex
  BY <1>2, Zenon DEF Tools!ConfiguredNames, Tools!BaseTools, Tools!ChildIndex,
                     Tools!RootName, Tools!Dir
<1>8. Tools!ToolsAreEnabled' = Tools!ToolsAreEnabled
  BY <1>2, SMT DEF Tools!ToolsAreEnabled, Tools!Blueprint, Tools!Dir
<1>9. Tools!prepareRootWorkflowTools' = Tools!prepareRootWorkflowTools
  BY <1>2, <1>6, <1>7, <1>8, Zenon
     DEF Tools!prepareRootWorkflowTools, Tools!ValidateWorkflowComposition, Tools!Dir
<1>10. Tools!Accepted' = Tools!Accepted
  BY <1>1, <1>2, <1>9, Zenon DEF Tools!Accepted, Tools!prepareRootAgentTools
<1>11. Tools!ToolsForInvocation' = Tools!ToolsForInvocation
  BY <1>1, <1>2, <1>6, <1>7, Zenon
     DEF Tools!ToolsForInvocation, Tools!newAcpAgentTool, Tools!buildAgentTool
<1>. QED
  BY <1>2, <1>4, <1>10, <1>11

\* The root agent is one of the files, and its workflows have a directory.
LEMMA RootDefIsOfFiles ==
    ASSUME config \in Setups, Tools!Accepted
    PROVE  /\ Tools!RootDef.tools \in Seq(STRING)
           /\ Tools!RootDef.workflows \in Seq(DOMAIN config.dirs)
<1>1. "root_agent" \in DOMAIN Tools!Loaded.agents
  BY DEF Tools!Accepted
<1>2. /\ DOMAIN Tools!Loaded.agents = {a.name : a \in Tools!Range(config.defs.agents)}
      /\ \A name \in DOMAIN Tools!Loaded.agents :
            Tools!Loaded.agents[name] = CHOOSE a \in Tools!Range(config.defs.agents) : a.name = name
  BY Zenon DEF Tools!Loaded, Tools!Load
<1>3. Tools!RootDef \in Tools!Range(config.defs.agents)
  BY <1>1, <1>2, ZenonT(30) DEF Tools!RootDef
<1>. QED
  BY <1>3, SetupsAssumption, Zenon DEF Tools!IsConfiguration

\* A workflow that the root may run is complete.
LEMMA WorkflowIsComplete ==
    ASSUME config \in Setups, Tools!Accepted, NEW id \in Tools!Range(Tools!RootDef.workflows)
    PROVE  Complete(Tools!Dir(id))
<1>1. Tools!RootDef.workflows # <<>>
  BY DEF Tools!Range
<1>2. id \in DOMAIN config.dirs
  <2>1. Tools!RootDef.workflows \in Seq(DOMAIN config.dirs)
    BY RootDefIsOfFiles
  <2>. QED
    BY <2>1, ElementOfSeq, LenProperties DEF Tools!Range
<1>3. Tools!IsDirectory(Tools!Dir(id))
  BY <1>2, SetupsAssumption, Zenon DEF Tools!IsConfiguration, Tools!Dir
<1>4. Tools!buildWorkflowAgent(id, {}, TRUE)
  BY <1>1, Zenon DEF Tools!Accepted, Tools!prepareRootWorkflowTools
<1>5. ASSUME NEW file \in Tools!OrderedDocuments(Tools!Dir(id))
      PROVE  Tools!Targets(Tools!Dir(id), file) \subseteq DOMAIN Tools!Dir(id).document
  <2>. DEFINE doc == Tools!Dir(id).document[file]
  <2>1. CASE doc.class \in {"LlmAgent", "AcpAgent"}
    <3>1. Tools!SubAgents(doc) = <<>>
      BY <2>1 DEF Tools!SubAgents
    <3>. QED
      BY <3>1 DEF Tools!Targets
  <2>2. CASE doc.class \notin {"LlmAgent", "AcpAgent"}
    BY <1>4, <2>2, Zenon DEF Tools!buildWorkflowAgent, Tools!buildWorkflowNode
  <2>. QED
    BY <2>1, <2>2
<1>. QED
  BY <1>3, <1>5 DEF Complete

------------------------------------------------------------------------------
(* The inductive invariant of startup, the turns and the runs               *)

\* A process that serves was started on what it has accepted, and the tools of
\* the last turn, if there was one, are those of a turn.
StartFits ==
    /\ stage # "none" => config \in Setups
    /\ stage = "serving" => Tools!Accepted
    /\ \/ tools = [ok |-> TRUE, names |-> <<>>]
       \/ stage = "serving" /\ tools = Tools!ToolsForInvocation

\* What a run has left to do, has done, or need not do is its workflow, and what
\* it has delivered is its own.
RunFits ==
    toolPc \in {"running", "answered"} =>
        /\ stage = "serving" /\ Tools!RootDef.workflows # <<>>
        /\ toolPc = "answered" => agenda = <<>>
        /\ \A delivery \in delivered :
                delivery.repository = project /\ delivery.worktree # "other"
        /\ Tools!OrderedDocuments(RunDir) # {} => AgendaFits(RunDir, agenda, done)

ToolsInv == StartFits /\ RunFits

LEMMA ToolsInitFits == Tools!Init => ToolsInv
BY DEF Tools!Init, ToolsInv, StartFits, RunFits

\* The workflow of a run is complete.
LEMMA RunIsComplete ==
    ASSUME ToolsInv, stage = "serving", Tools!RootDef.workflows # <<>>
    PROVE  Complete(RunDir)
<1>1. config \in Setups /\ Tools!Accepted
  BY Zenon DEF ToolsInv, StartFits
<1>2. Tools!RootDef.workflows \in Seq(DOMAIN config.dirs)
  BY <1>1, RootDefIsOfFiles
<1>3. 1 \in DOMAIN Tools!RootDef.workflows
  BY <1>2, EmptySeq, LenProperties, SMT
<1>4. Tools!Workflow \in Tools!Range(Tools!RootDef.workflows)
  BY <1>3, Zenon DEF Tools!Workflow, Tools!Range
<1>. QED
  BY <1>1, <1>4, WorkflowIsComplete DEF RunDir

\* A step that leaves the configuration alone keeps what startup left.
LEMMA RunKeepsStart ==
    ASSUME ToolsInv, UNCHANGED <<config, stage, tools>>
    PROVE  StartFits'
BY SameConfiguration, Zenon DEF ToolsInv, StartFits

\* A step of a run in which the agenda fits keeps the invariant.
LEMMA RunStepKeeps ==
    ASSUME ToolsInv, toolPc = "running",
           UNCHANGED <<config, stage, tools, toolPc, project>>,
           \A delivery \in delivered' :
               delivery \in delivered
               \/ (delivery.repository = project /\ delivery.worktree # "other"),
           \/ Tools!OrderedDocuments(RunDir) = {}
           \/ AgendaFits(RunDir, agenda', done')
    PROVE  ToolsInv'
<1>1. StartFits'
  BY RunKeepsStart
<1>2. Tools!RootDef' = Tools!RootDef /\ RunDir' = RunDir
  BY SameConfiguration
<1>3. RunFits'
  <2>1. stage' = "serving" /\ Tools!RootDef'.workflows # <<>>
    BY <1>2, Zenon DEF ToolsInv, RunFits
  <2>2. \A delivery \in delivered' :
            delivery.repository = project' /\ delivery.worktree # "other"
    BY Zenon DEF ToolsInv, RunFits
  <2>3. Tools!OrderedDocuments(RunDir') # {} => AgendaFits(RunDir', agenda', done')
    BY <1>2, Zenon
  <2>. QED
    BY <2>1, <2>2, <2>3, Zenon DEF RunFits
<1>. QED
  BY <1>1, <1>3 DEF ToolsInv

\* The end of a run, whatever came of it.
LEMMA RunEndKeeps ==
    ASSUME ToolsInv, UNCHANGED <<config, stage, tools>>, toolPc' \notin {"running", "answered"}
    PROVE  ToolsInv'
BY RunKeepsStart, Zenon DEF ToolsInv, RunFits

LEMMA ConfigureKeeps == ToolsInv /\ Tools!Configure => ToolsInv'
<1>. SUFFICES ASSUME ToolsInv, Tools!Configure PROVE ToolsInv'
  OBVIOUS
<1>1. /\ stage = "none" /\ stage' = "configured" /\ config' \in Setups
      /\ tools' = tools /\ toolPc' = toolPc
  BY Zenon DEF Tools!Configure, Tools!runVars
<1>. QED
  BY <1>1 DEF ToolsInv, StartFits, RunFits

LEMMA StartKeeps == ToolsInv /\ Tools!Start => ToolsInv'
<1>. SUFFICES ASSUME ToolsInv, Tools!Start PROVE ToolsInv'
  OBVIOUS
<1>1. /\ stage = "configured" /\ config' = config /\ tools' = tools /\ toolPc' = toolPc
      /\ stage' = "refused" \/ (stage' = "serving" /\ Tools!Accepted)
  BY Zenon DEF Tools!Start, Tools!runVars
<1>2. Tools!Accepted' = Tools!Accepted
  BY <1>1, SameConfiguration
<1>. QED
  BY <1>1, <1>2 DEF ToolsInv, StartFits, RunFits

LEMMA TurnKeeps == ToolsInv /\ Tools!Turn => ToolsInv'
<1>. SUFFICES ASSUME ToolsInv, Tools!Turn PROVE ToolsInv'
  OBVIOUS
<1>1. /\ stage = "serving" /\ config' = config /\ stage' = stage
      /\ tools' = Tools!ToolsForInvocation
      /\ UNCHANGED <<toolPc, project, agenda, final, done, delivered>>
  BY Zenon DEF Tools!Turn, Tools!runVars
<1>2. /\ Tools!RootDef' = Tools!RootDef /\ RunDir' = RunDir
      /\ Tools!Accepted' = Tools!Accepted
      /\ Tools!ToolsForInvocation' = Tools!ToolsForInvocation
  BY <1>1, SameConfiguration
<1>3. StartFits'
  BY <1>1, <1>2, Zenon DEF ToolsInv, StartFits
<1>4. RunFits'
  BY <1>1, <1>2, SMT DEF ToolsInv, RunFits
<1>. QED
  BY <1>3, <1>4 DEF ToolsInv

\* A run that begins has its root to do.
LEMMA BeginFits ==
    ASSUME NEW dir, Tools!OrderedDocuments(dir) # {}
    PROVE  AgendaFits(dir, <<[file |-> dir.target[Tools!RootFile], left |-> 0]>>, {})
<1>. DEFINE root == dir.target[Tools!RootFile]
            frames == <<[file |-> root, left |-> 0]>>
<1>1. root \in DOMAIN dir.document
  <2>1. CASE root \notin DOMAIN dir.document
    <3>1. Tools!Closed(dir, {})
      BY DEF Tools!Closed
    <3>. QED
      BY <2>1, <3>1, BelowIsLeast DEF Tools!OrderedDocuments
  <2>. QED
    BY <2>1
<1>2. root \in Tools!OrderedDocuments(dir)
  BY <1>1, BelowHolds DEF Tools!OrderedDocuments
<1>3. frames \in Seq(Frames(dir)) /\ DOMAIN frames = {1} /\ frames[1] = [file |-> root, left |-> 0]
  BY <1>2, SMT DEF Frames
<1>. HIDE DEF frames
<1>4. Waiting(dir, frames) = Tools!OrderedDocuments(dir)
  BY <1>3 DEF Waiting, Tools!OrderedDocuments
<1>5. Nested(dir, frames)
  BY <1>3, SMT DEF Nested
<1>6. AgendaFits(dir, frames, {})
  BY <1>3, <1>4, <1>5 DEF AgendaFits
<1>. QED
  BY <1>6 DEF frames

LEMMA CallKeeps == ASSUME NEW p \in Projects PROVE ToolsInv /\ Tools!Call(p) => ToolsInv'
<1>. SUFFICES ASSUME ToolsInv, Tools!Call(p) PROVE ToolsInv'
  OBVIOUS
<1>1. /\ stage = "serving" /\ Tools!RootDef.workflows # <<>>
      /\ UNCHANGED <<config, stage, tools>>
      /\ Tools!Begin(p) \/ Tools!Begin("") \/ Tools!EndRun("failed")
  BY Zenon DEF Tools!Call
<1>2. CASE Tools!EndRun("failed")
  BY <1>1, <1>2, RunEndKeeps DEF Tools!EndRun
<1>3. ASSUME NEW q, Tools!Begin(q) PROVE ToolsInv'
  <2>1. /\ toolPc' = "running" /\ delivered' = {} /\ done' = {}
        /\ agenda' = <<[file |-> RunDir.target[Tools!RootFile], left |-> 0]>>
    BY <1>3, Zenon DEF Tools!Begin, RunDir
  <2>2. Tools!RootDef' = Tools!RootDef /\ RunDir' = RunDir
    BY <1>1, SameConfiguration
  <2>3. Tools!OrderedDocuments(RunDir) # {} => AgendaFits(RunDir, agenda', done')
    BY <2>1, BeginFits
  <2>4. RunFits'
    BY <1>1, <2>1, <2>2, <2>3, Zenon DEF RunFits
  <2>. QED
    BY <1>1, <2>4, RunKeepsStart DEF ToolsInv
<1>. QED
  BY <1>1, <1>2, <1>3

\* What a run that takes a step knows.
LEMMA RunningKnows ==
    ASSUME ToolsInv, NEW class, Tools!Running(class)
    PROVE  /\ toolPc = "running" /\ agenda # <<>> /\ Complete(RunDir)
           /\ RunDir.document[Head(agenda).file].class = class
           /\ Tools!OrderedDocuments(RunDir) # {} => AgendaFits(RunDir, agenda, done)
           /\ Tools!Children(Tools!Current) = ChildFrames(RunDir, Head(agenda))
<1>1. /\ toolPc = "running" /\ agenda # <<>>
      /\ RunDir.document[Head(agenda).file].class = class
  BY Zenon DEF Tools!Running, Tools!Doc, Tools!Current, RunDir
<1>2. /\ stage = "serving" /\ Tools!RootDef.workflows # <<>>
      /\ Tools!OrderedDocuments(RunDir) # {} => AgendaFits(RunDir, agenda, done)
  BY <1>1, Zenon DEF ToolsInv, RunFits
<1>3. Tools!Children(Tools!Current) = ChildFrames(RunDir, Head(agenda))
  BY Zenon DEF Tools!Children, Tools!Current, Tools!Doc, RunDir, ChildFrames
<1>. QED
  BY <1>1, <1>2, <1>3, RunIsComplete

LEMMA SequentialKeeps == ToolsInv /\ Tools!Sequential => ToolsInv'
<1>. SUFFICES ASSUME ToolsInv, Tools!Sequential PROVE ToolsInv'
  OBVIOUS
<1>1. /\ Tools!Running("SequentialAgent")
      /\ agenda' = Tools!Children(Tools!Current) \o Tail(agenda)
      /\ done' = done \cup {Head(agenda).file}
      /\ UNCHANGED <<config, stage, tools, toolPc, project, delivered>>
  BY Zenon DEF Tools!Sequential, Tools!Through, Tools!Current
<1>2. AgendaFits(RunDir, agenda, done) => AgendaFits(RunDir, agenda', done')
  BY <1>1, RunningKnows, PushFits
<1>. QED
  BY <1>1, <1>2, RunningKnows, RunStepKeeps

LEMMA LoopKeeps == ToolsInv /\ Tools!Loop => ToolsInv'
<1>. SUFFICES ASSUME ToolsInv, Tools!Loop PROVE ToolsInv'
  OBVIOUS
<1>. DEFINE round == IF Head(agenda).left = 0
                     THEN RunDir.document[Head(agenda).file].iterations + 1
                     ELSE Head(agenda).left
<1>1. /\ Tools!Running("LoopAgent")
      /\ agenda' = IF round = 1 THEN Tail(agenda)
                   ELSE Tools!Children(Tools!Current)
                            \o <<[Head(agenda) EXCEPT !.left = round - 1]>> \o Tail(agenda)
      /\ done' = done \cup {Head(agenda).file}
      /\ UNCHANGED <<config, stage, tools, toolPc, project, delivered>>
  <2>1. /\ Tools!Running("LoopAgent") /\ UNCHANGED delivered
        /\ IF round = 1 THEN Tools!Through(Tail(agenda))
           ELSE Tools!Through(Tools!Children(Tools!Current)
                    \o <<[Head(agenda) EXCEPT !.left = Tools!RoundsAfter(round)]>>
                    \o Tail(agenda))
    BY Zenon DEF Tools!Loop, Tools!Current, Tools!Doc, RunDir
  <2>. HIDE DEF round
  <2>2. Tools!RoundsAfter(round) = round - 1
    BY DEF Tools!RoundsAfter
  <2>. QED
    BY <2>1, <2>2, Zenon DEF Tools!Through, Tools!Current
<1>2. ASSUME AgendaFits(RunDir, agenda, done) PROVE AgendaFits(RunDir, agenda', done')
  <2>1. /\ agenda # <<>> /\ Complete(RunDir)
        /\ RunDir.document[Head(agenda).file].class = "LoopAgent"
        /\ Tools!Children(Tools!Current) = ChildFrames(RunDir, Head(agenda))
    BY <1>1, RunningKnows
  <2>2. /\ Head(agenda) \in Frames(RunDir)
        /\ Head(agenda).file \in Tools!OrderedDocuments(RunDir) /\ Head(agenda).left \in Nat
    BY <1>2, <2>1, NextFrameFits DEF Frames
  <2>3. CASE round = 1
    <3>1. Tools!Below(RunDir, Head(agenda).file) \subseteq Tools!buildLoopAncestorMap(RunDir)
      BY <2>1, <2>2, BelowLoopIsLooped
    <3>. QED
      BY <1>1, <1>2, <2>1, <2>3, <3>1, DoneFits
  <2>4. CASE round # 1
    <3>1. RunDir.document[Head(agenda).file].iterations \in Nat
      BY <2>1, <2>2, BelowIsOfWorkflow, Zenon DEF Complete, Tools!IsDirectory
    <3>2. round - 1 \in Nat
      BY <2>2, <2>4, <3>1, SMT
    <3>. QED
      BY <1>1, <1>2, <2>1, <2>4, <3>2, RoundFits
  <2>. QED
    BY <2>3, <2>4
<1>. QED
  BY <1>1, <1>2, RunningKnows, RunStepKeeps

\* A document that refers to no other is through with its own step.
LEMMA LeafFits ==
    ASSUME NEW dir, Complete(dir), AgendaFits(dir, agenda, done), agenda # <<>>,
           dir.document[Head(agenda).file].class \in {"LlmAgent", "AcpAgent"}
    PROVE  AgendaFits(dir, Tail(agenda), done \cup {Head(agenda).file})
<1>1. Head(agenda).file \in DOMAIN dir.document
  BY NextFrameFits, BelowIsOfWorkflow DEF Frames
<1>2. Tools!Targets(dir, Head(agenda).file) = {}
  BY DEF Tools!Targets, Tools!SubAgents
<1>3. Tools!Below(dir, Head(agenda).file) \subseteq {Head(agenda).file}
  BY <1>1, <1>2, BelowSplits
<1>. QED
  BY <1>3, DoneFits

LEMMA FailRunKeeps == ToolsInv /\ Tools!FailRun => ToolsInv'
BY RunEndKeeps DEF Tools!FailRun, Tools!EndRun

LEMMA ModelKeeps == ToolsInv /\ Tools!Model => ToolsInv'
<1>. SUFFICES ASSUME ToolsInv, Tools!Model PROVE ToolsInv'
  OBVIOUS
<1>1. CASE Tools!FailRun
  BY <1>1, FailRunKeeps
<1>2. CASE ~Tools!FailRun
  <2>1. /\ Tools!Running("LlmAgent") /\ delivered' = delivered
        /\ \/ Tools!Through(Tail(agenda))
           \/ \E rest \in Tools!AfterExit(agenda) : Tools!Through(rest)
    BY <1>2, Zenon DEF Tools!Model
  <2>2. /\ done' = done \cup {Head(agenda).file}
        /\ UNCHANGED <<config, stage, tools, toolPc, project>>
        /\ agenda' = Tail(agenda) \/ agenda' \in Tools!AfterExit(agenda)
    BY <2>1, Zenon DEF Tools!Through, Tools!Current
  <2>3. ASSUME AgendaFits(RunDir, agenda, done) PROVE AgendaFits(RunDir, agenda', done')
    <3>1. /\ agenda # <<>> /\ Complete(RunDir)
          /\ RunDir.document[Head(agenda).file].class = "LlmAgent"
      BY <2>1, RunningKnows
    <3>2. CASE agenda' = Tail(agenda)
      BY <2>2, <2>3, <3>1, <3>2, LeafFits
    <3>3. CASE agenda' \in Tools!AfterExit(agenda)
      <4>1. PICK i \in DOMAIN agenda :
                agenda[i].left > 0 /\ agenda' = SubSeq(agenda, i + 1, Len(agenda))
        BY <3>3, Zenon DEF Tools!AfterExit
      <4>. QED
        BY <2>2, <2>3, <4>1, ExitFits
    <3>. QED
      BY <2>2, <3>2, <3>3
  <2>. QED
    BY <2>1, <2>2, <2>3, RunningKnows, RunStepKeeps
<1>. QED
  BY <1>1, <1>2

LEMMA ExternalKeeps == ToolsInv /\ Tools!External => ToolsInv'
<1>. SUFFICES ASSUME ToolsInv, Tools!External PROVE ToolsInv'
  OBVIOUS
<1>1. CASE Tools!FailRun
  BY <1>1, FailRunKeeps
<1>2. CASE ~Tools!FailRun
  <2>1. /\ Tools!Running("AcpAgent") /\ Tools!Through(Tail(agenda))
        /\ \/ delivered' = delivered
           \/ \E delivery \in Deliveries :
                Tools!Validate(delivery, project) /\ delivered' = delivered \cup {delivery}
    BY <1>2, Zenon DEF Tools!External
  <2>2. /\ done' = done \cup {Head(agenda).file} /\ agenda' = Tail(agenda)
        /\ UNCHANGED <<config, stage, tools, toolPc, project>>
    BY <2>1, Zenon DEF Tools!Through, Tools!Current
  <2>3. ASSUME AgendaFits(RunDir, agenda, done) PROVE AgendaFits(RunDir, agenda', done')
    BY <2>1, <2>2, <2>3, RunningKnows, LeafFits
  <2>4. \A delivery \in delivered' :
            delivery \in delivered
            \/ (delivery.repository = project /\ delivery.worktree # "other")
    <3>1. CASE delivered' = delivered
      BY <3>1
    <3>2. ASSUME NEW delivery \in Deliveries, Tools!Validate(delivery, project),
                 delivered' = delivered \cup {delivery}
          PROVE  delivery.repository = project /\ delivery.worktree # "other"
      <4>1. delivery.repository = project /\ delivery.worktree \in {"", "own"}
        BY <3>2, Zenon DEF Tools!Validate, Tools!OfRun
      <4>. QED
        BY <4>1
    <3>. QED
      BY <2>1, <3>1, <3>2
  <2>. QED
    BY <2>1, <2>2, <2>3, <2>4, RunningKnows, RunStepKeeps
<1>. QED
  BY <1>1, <1>2

LEMMA FinishKeeps == ToolsInv /\ Tools!Finish => ToolsInv'
<1>. SUFFICES ASSUME ToolsInv, Tools!Finish PROVE ToolsInv'
  OBVIOUS
<1>1. CASE Tools!FailRun
  BY <1>1, FailRunKeeps
<1>2. CASE ~Tools!FailRun
  <2>1. /\ toolPc = "running" /\ toolPc' = "answered" /\ agenda = <<>>
        /\ UNCHANGED <<config, stage, tools, project, agenda, done, delivered>>
    BY <1>2, Zenon DEF Tools!Finish
  <2>2. Tools!RootDef' = Tools!RootDef /\ RunDir' = RunDir
    BY <2>1, SameConfiguration
  <2>3. RunFits'
    BY <2>1, <2>2, SMT DEF ToolsInv, RunFits
  <2>. QED
    BY <2>1, <2>3, RunKeepsStart DEF ToolsInv
<1>. QED
  BY <1>1, <1>2

LEMMA ReturnKeeps == ToolsInv /\ Tools!Return => ToolsInv'
BY RunEndKeeps DEF Tools!Return, Tools!EndRun

LEMMA ToolsNextKeeps == ToolsInv /\ [Tools!Next]_(Tools!vars) => ToolsInv'
<1>. SUFFICES ASSUME ToolsInv, [Tools!Next]_(Tools!vars) PROVE ToolsInv'
  OBVIOUS
<1>1. CASE UNCHANGED Tools!vars
  <2>1. UNCHANGED <<config, stage, tools, toolPc, project, agenda, done, delivered>>
    BY <1>1, Zenon DEF Tools!vars, Tools!runVars
  <2>2. Tools!RootDef' = Tools!RootDef /\ RunDir' = RunDir
    BY <2>1, SameConfiguration
  <2>3. RunFits'
    BY <2>1, <2>2, SMT DEF ToolsInv, RunFits
  <2>. QED
    BY <2>1, <2>3, RunKeepsStart DEF ToolsInv
<1>2. CASE Tools!Next
  BY <1>2, ConfigureKeeps, StartKeeps, TurnKeeps, CallKeeps, SequentialKeeps, LoopKeeps,
     ModelKeeps, ExternalKeeps, FinishKeeps, ReturnKeeps DEF Tools!Next, Tools!RunStep
<1>. QED
  BY <1>1, <1>2

\* What the invariant says of an answer.
LEMMA AnswerFitsIsEarned == ToolsInv => Tools!AnswerIsEarned
<1>. SUFFICES ASSUME ToolsInv, toolPc = "answered" PROVE Tools!AnswerIsEarned
  BY DEF Tools!AnswerIsEarned
<1>1. /\ agenda = <<>>
      /\ \A delivery \in delivered :
              delivery.repository = project /\ delivery.worktree # "other"
      /\ Tools!OrderedDocuments(RunDir) # {} => AgendaFits(RunDir, agenda, done)
  BY Zenon DEF ToolsInv, RunFits
<1>2. Waiting(RunDir, agenda) = {}
  BY <1>1 DEF Waiting
<1>3. Tools!OrderedDocuments(RunDir) \subseteq done \cup Tools!buildLoopAncestorMap(RunDir)
  BY <1>1, <1>2 DEF AgendaFits
<1>. QED
  BY <1>1, <1>3, Zenon DEF Tools!AnswerIsEarned, RunDir

------------------------------------------------------------------------------
(* What is accepted is read                                                 *)

\* What a provider and a profile that are accepted state is what is read of them.
LEMMA AcceptedIsRead ==
    ASSUME NEW provider, Tools!IsProvider(provider), Tools!validateProvider(provider),
           NEW q \in DOMAIN provider.profiles,
           NEW providers, NEW ref, Tools!TypeOfReference(providers, ref) = provider.type
    PROVE  LET profile == provider.profiles[q]
               read == Tools!ResolveModel(providers, ref)
           IN  /\ provider.fields \subseteq read.provider
               /\ profile.fields \subseteq read.profile
               /\ read.provider \ Tools!Optional \subseteq provider.fields
               /\ read.profile \ Tools!Optional \subseteq profile.fields
<1>. DEFINE profile == provider.profiles[q]
            read == Tools!ResolveModel(providers, ref)
<1>1. /\ provider.fields \subseteq Tools!ProviderFields
      /\ profile.fields \subseteq Tools!ProfileFields
  BY Zenon DEF Tools!IsProvider
<1>2. /\ provider.type \in Tools!ProviderTypes
      /\ Tools!RequiredOfProvider[provider.type] \subseteq provider.fields
      /\ provider.fields \cap Tools!ForbiddenToProvider[provider.type] = {}
      /\ Tools!RequiredOfProfile[provider.type] \subseteq profile.fields
      /\ profile.fields \cap Tools!ForbiddenToProfile[provider.type] = {}
  BY Zenon DEF Tools!validateProvider, Tools!validateProfile
<1>. DEFINE type == provider.type
            stated == provider.fields
            chosen == profile.fields
<1>3. CASE type = "openai_compatible"
  <2>1. read = [provider |-> {"base_url", "api_key_env", "headers"},
                profile |-> {"model", "reasoning_effort", "extra_body",
                             "generate_content_config"}]
    BY <1>3 DEF Tools!ResolveModel
  <2>2. /\ {"base_url", "api_key_env"} \subseteq stated /\ {"model"} \subseteq chosen
        /\ stated \cap {"shim", "command", "args"} = {}
        /\ chosen \cap {"agent", "approval", "variant", "config_options",
                        "permission_option_kind"} = {}
    BY <1>2, <1>3 DEF Tools!RequiredOfProvider, Tools!RequiredOfProfile,
                      Tools!ForbiddenToProvider, Tools!ForbiddenToProfile
  <2>. HIDE DEF read, profile, stated, chosen
  <2>3. /\ stated \subseteq {"base_url", "api_key_env", "headers"}
        /\ chosen \subseteq {"model", "reasoning_effort", "extra_body", "generate_content_config"}
    BY <1>1, <2>2 DEF Tools!ProviderFields, Tools!ProfileFields, stated, chosen
  <2>4. /\ {"base_url", "api_key_env", "headers"} \ Tools!Optional \subseteq stated
        /\ {"model", "reasoning_effort", "extra_body", "generate_content_config"} \ Tools!Optional
               \subseteq chosen
    BY <2>2 DEF Tools!Optional
  <2>. QED
    BY <2>1, <2>3, <2>4 DEF read, profile, stated, chosen
<1>4. CASE type = "agent_cli"
  <2>1. read = [provider |-> {"shim"}, profile |-> {"model", "agent", "approval", "variant"}]
    BY <1>4 DEF Tools!ResolveModel
  <2>2. /\ {"shim"} \subseteq stated /\ {"model"} \subseteq chosen
        /\ stated \cap {"base_url", "api_key_env", "headers", "command", "args"} = {}
        /\ chosen \cap {"reasoning_effort", "extra_body", "generate_content_config",
                        "config_options", "permission_option_kind"} = {}
    BY <1>2, <1>4 DEF Tools!RequiredOfProvider, Tools!RequiredOfProfile,
                      Tools!ForbiddenToProvider, Tools!ForbiddenToProfile
  <2>. HIDE DEF read, profile, stated, chosen
  <2>3. /\ stated \subseteq {"shim"}
        /\ chosen \subseteq {"model", "agent", "approval", "variant"}
    BY <1>1, <2>2 DEF Tools!ProviderFields, Tools!ProfileFields, stated, chosen
  <2>4. /\ {"shim"} \ Tools!Optional \subseteq stated
        /\ {"model", "agent", "approval", "variant"} \ Tools!Optional \subseteq chosen
    BY <2>2 DEF Tools!Optional
  <2>. QED
    BY <2>1, <2>3, <2>4 DEF read, profile, stated, chosen
<1>5. CASE type = "acp"
  <2>1. read = [provider |-> {"command", "args"},
                profile |-> {"config_options", "permission_option_kind"}]
    BY <1>5 DEF Tools!ResolveModel
  <2>2. /\ {"command"} \subseteq stated /\ {"config_options"} \subseteq chosen
        /\ stated \cap {"base_url", "api_key_env", "headers", "shim"} = {}
        /\ chosen \cap {"model", "agent", "approval", "variant", "reasoning_effort", "extra_body",
                        "generate_content_config"} = {}
    BY <1>2, <1>5 DEF Tools!RequiredOfProvider, Tools!RequiredOfProfile,
                      Tools!ForbiddenToProvider, Tools!ForbiddenToProfile
  <2>. HIDE DEF read, profile, stated, chosen
  <2>3. /\ stated \subseteq {"command", "args"}
        /\ chosen \subseteq {"config_options", "permission_option_kind"}
    BY <1>1, <2>2 DEF Tools!ProviderFields, Tools!ProfileFields, stated, chosen
  <2>4. /\ {"command", "args"} \ Tools!Optional \subseteq stated
        /\ {"config_options", "permission_option_kind"} \ Tools!Optional \subseteq chosen
    BY <2>2 DEF Tools!Optional
  <2>. QED
    BY <2>1, <2>3, <2>4 DEF read, profile, stated, chosen
<1>. QED
  BY <1>2, <1>3, <1>4, <1>5 DEF Tools!ProviderTypes

\* The accepted definitions of a setup are read to their last field.
LEMMA SetupIsRead ==
    ASSUME NEW setup \in Setups
    PROVE  Tools!NothingIgnored(setup.defs)
<1>. DEFINE loaded == Tools!Load(setup.defs)
<1>. SUFFICES ASSUME loaded.ok, NEW def \in Tools!Range(loaded.agents)
              PROVE  /\ Tools!Resolves(loaded.providers, def.ref)
                     /\ LET provider == loaded.providers[def.ref.provider]
                            profile == provider.profiles[def.ref.profile]
                            read == Tools!ResolveModel(loaded.providers, def.ref)
                        IN  /\ provider.fields \subseteq read.provider
                            /\ profile.fields \subseteq read.profile
                            /\ read.provider \ Tools!Optional \subseteq provider.fields
                            /\ read.profile \ Tools!Optional \subseteq profile.fields
  BY Zenon DEF Tools!NothingIgnored
<1>1. /\ \A p \in Tools!Range(loaded.providers) : Tools!validateProvider(p)
      /\ Tools!validateAgent(def, loaded.providers)
  BY Zenon DEF Tools!Load
<1>2. Tools!Resolves(loaded.providers, def.ref)
  BY <1>1, Zenon DEF Tools!validateAgent, Tools!validateAcpAgent, Tools!validateModelAgent
<1>. DEFINE provider == loaded.providers[def.ref.provider]
<1>3. /\ def.ref.provider \in DOMAIN loaded.providers
      /\ def.ref.profile \in DOMAIN provider.profiles
  BY <1>2 DEF Tools!Resolves
<1>4. Tools!validateProvider(provider)
  BY <1>1, <1>3 DEF Tools!Range
<1>5. /\ DOMAIN loaded.providers = {p.name : p \in Tools!Range(setup.defs.providers)}
      /\ \A name \in DOMAIN loaded.providers :
            loaded.providers[name]
                = CHOOSE p \in Tools!Range(setup.defs.providers) : p.name = name
  BY Zenon DEF Tools!Load
<1>6. provider \in Tools!Range(setup.defs.providers)
  BY <1>3, <1>5, ZenonT(30)
<1>7. Tools!IsProvider(provider)
  BY <1>6, SetupsAssumption, Zenon DEF Tools!IsConfiguration
<1>8. Tools!TypeOfReference(loaded.providers, def.ref) = provider.type
  BY DEF Tools!TypeOfReference
<1>. HIDE DEF loaded
<1>. QED
  BY <1>2, <1>3, <1>4, <1>7, <1>8, AcceptedIsRead

------------------------------------------------------------------------------
(* What is accepted builds                                                  *)

\* A list after another whose names are different.
LEMMA NamesConcat ==
    ASSUME NEW S, NEW s \in Seq(S), NEW t \in Seq(S)
    PROVE  /\ s \o t \in Seq(S)
           /\ Tools!Range(s \o t) = Tools!Range(s) \cup Tools!Range(t)
           /\ /\ Tools!IsInjective(s) /\ Tools!IsInjective(t)
              /\ Tools!Range(s) \cap Tools!Range(t) = {}
              => Tools!IsInjective(s \o t)
<1>. DEFINE all == s \o t
<1>1. all \in Seq(S) /\ DOMAIN all = 1..(Len(s) + Len(t))
  BY ConcatProperties, LenProperties
<1>2. /\ DOMAIN s = 1..Len(s) /\ Len(s) \in Nat
      /\ DOMAIN t = 1..Len(t) /\ Len(t) \in Nat
  BY LenProperties
<1>3. /\ \A i \in DOMAIN s : all[i] = s[i]
      /\ \A i \in DOMAIN t : all[i + Len(s)] = t[i]
  BY <1>1, <1>2, ConcatProperties
<1>. HIDE DEF all
<1>4. \A i \in DOMAIN all : i \notin DOMAIN s =>
          i - Len(s) \in DOMAIN t /\ all[i] = t[i - Len(s)]
  BY <1>1, <1>2, <1>3
<1>5. /\ \A i \in DOMAIN s : i \in DOMAIN all
      /\ \A i \in DOMAIN t : i + Len(s) \in DOMAIN all
  BY <1>1, <1>2
<1>6. Tools!Range(all) = Tools!Range(s) \cup Tools!Range(t)
  <2>1. Tools!Range(all) \subseteq Tools!Range(s) \cup Tools!Range(t)
    BY <1>3, <1>4, Zenon DEF Tools!Range
  <2>2. Tools!Range(s) \subseteq Tools!Range(all)
    BY <1>3, <1>5, Zenon DEF Tools!Range
  <2>3. Tools!Range(t) \subseteq Tools!Range(all)
    BY <1>3, <1>5, Zenon DEF Tools!Range
  <2>. QED
    BY <2>1, <2>2, <2>3
<1>7. ASSUME Tools!IsInjective(s), Tools!IsInjective(t), Tools!Range(s) \cap Tools!Range(t) = {}
      PROVE  Tools!IsInjective(all)
  <2>. SUFFICES ASSUME NEW i \in DOMAIN all, NEW j \in DOMAIN all, all[i] = all[j]
                PROVE  i = j
    BY DEF Tools!IsInjective
  <2>1. CASE i \in DOMAIN s /\ j \in DOMAIN s
    BY <1>3, <1>7, <2>1 DEF Tools!IsInjective
  <2>2. CASE i \notin DOMAIN s /\ j \notin DOMAIN s
    <3>1. i - Len(s) = j - Len(s)
      BY <1>4, <1>7, <2>2 DEF Tools!IsInjective
    <3>. QED
      BY <1>1, <1>2, <3>1
  <2>3. ASSUME NEW k \in DOMAIN all, NEW l \in DOMAIN all, k \in DOMAIN s, l \notin DOMAIN s,
               all[k] = all[l]
        PROVE  FALSE
    <3>1. all[k] \in Tools!Range(s) /\ all[l] \in Tools!Range(t)
      BY <1>3, <1>4, <2>3, Zenon DEF Tools!Range
    <3>. QED
      BY <1>7, <2>3, <3>1
  <2>. QED
    BY <2>1, <2>2, <2>3
<1>. QED
  BY <1>1, <1>6, <1>7 DEF all

\* The tools a turn may start from.
DirectTools ==
    {"list_messages", "list_repos", "list_directory", "read_file", "list_worktrees",
     "create_canvas", "export_text", "export_markdown", "export_csv", "export_json"}

\* A list of one name, and one of four.
LEMMA ListOfOne ==
    ASSUME NEW S, NEW a \in S
    PROVE  <<a>> \in Seq(S) /\ Tools!Range(<<a>>) = {a} /\ Tools!IsInjective(<<a>>)
<1>. DEFINE list == <<a>>
<1>1. list \in Seq(S) /\ DOMAIN list = {1} /\ list[1] = a
  BY SMT
<1>. HIDE DEF list
<1>2. Tools!Range(list) = {a} /\ Tools!IsInjective(list)
  BY <1>1, Zenon DEF Tools!Range, Tools!IsInjective
<1>. QED
  BY <1>1, <1>2 DEF list

LEMMA ListOfFour ==
    ASSUME NEW S, NEW a \in S, NEW b \in S, NEW c \in S, NEW d \in S,
           a # b, a # c, a # d, b # c, b # d, c # d
    PROVE  /\ <<a, b, c, d>> \in Seq(S)
           /\ Tools!Range(<<a, b, c, d>>) = {a, b, c, d}
           /\ Tools!IsInjective(<<a, b, c, d>>)
<1>. DEFINE list == <<a, b, c, d>>
<1>1. /\ list \in Seq(S) /\ Len(list) = 4
      /\ list[1] = a /\ list[2] = b /\ list[3] = c /\ list[4] = d
  BY SMT
<1>2. DOMAIN list = {1, 2, 3, 4}
  <2>1. DOMAIN list = 1..4
    BY <1>1, LenProperties
  <2>. QED
    BY <2>1, SMT
<1>. HIDE DEF list
<1>3. Tools!Range(list) = {a, b, c, d}
  BY <1>1, <1>2, Zenon DEF Tools!Range
<1>4. Tools!IsInjective(list)
  <2>. SUFFICES ASSUME NEW i \in {1, 2, 3, 4}, NEW j \in {1, 2, 3, 4}, list[i] = list[j]
                PROVE  i = j
    BY <1>2, Zenon DEF Tools!IsInjective
  <2>. QED
    BY <1>1
<1>. QED
  BY <1>1, <1>3, <1>4 DEF list

\* The lists they come in.
LEMMA ToolListsFit ==
    /\ /\ <<>> \in Seq(DirectTools)
       /\ Tools!Range(<<>>) = {} /\ Tools!IsInjective(<<>>)
    /\ LET list == <<"list_messages">> IN
       /\ list \in Seq(DirectTools)
       /\ Tools!Range(list) = {"list_messages"} /\ Tools!IsInjective(list)
    /\ LET list == <<"list_repos", "list_directory", "read_file", "list_worktrees">> IN
       /\ list \in Seq(DirectTools)
       /\ Tools!Range(list) = {"list_repos", "list_directory", "read_file", "list_worktrees"}
       /\ Tools!IsInjective(list)
    /\ LET list == <<"create_canvas">> IN
       /\ list \in Seq(DirectTools)
       /\ Tools!Range(list) = {"create_canvas"} /\ Tools!IsInjective(list)
    /\ LET list == Tools!ExportTools IN
       /\ list \in Seq(DirectTools)
       /\ Tools!Range(list) = {"export_text", "export_markdown", "export_csv", "export_json"}
       /\ Tools!IsInjective(list)
<1>1. /\ <<>> \in Seq(DirectTools)
      /\ Tools!Range(<<>>) = {} /\ Tools!IsInjective(<<>>)
  <2>1. <<>> \in Seq(DirectTools) /\ DOMAIN <<>> = {}
    BY SMT
  <2>. QED
    BY <2>1, Zenon DEF Tools!Range, Tools!IsInjective
<1>2. /\ "list_messages" \in DirectTools /\ "create_canvas" \in DirectTools
      /\ "list_repos" \in DirectTools /\ "list_directory" \in DirectTools
      /\ "read_file" \in DirectTools /\ "list_worktrees" \in DirectTools
      /\ "export_text" \in DirectTools /\ "export_markdown" \in DirectTools
      /\ "export_csv" \in DirectTools /\ "export_json" \in DirectTools
  BY DEF DirectTools
<1>3. /\ <<"list_messages">> \in Seq(DirectTools)
      /\ Tools!Range(<<"list_messages">>) = {"list_messages"}
      /\ Tools!IsInjective(<<"list_messages">>)
  BY <1>2, ListOfOne, Zenon
<1>4. /\ <<"create_canvas">> \in Seq(DirectTools)
      /\ Tools!Range(<<"create_canvas">>) = {"create_canvas"}
      /\ Tools!IsInjective(<<"create_canvas">>)
  BY <1>2, ListOfOne, Zenon
<1>5. LET list == <<"list_repos", "list_directory", "read_file", "list_worktrees">> IN
      /\ list \in Seq(DirectTools)
      /\ Tools!Range(list) = {"list_repos", "list_directory", "read_file", "list_worktrees"}
      /\ Tools!IsInjective(list)
  BY <1>2, ListOfFour, Zenon
<1>6. LET list == Tools!ExportTools IN
      /\ list \in Seq(DirectTools)
      /\ Tools!Range(list) = {"export_text", "export_markdown", "export_csv", "export_json"}
      /\ Tools!IsInjective(list)
  BY <1>2, ListOfFour, Zenon DEF Tools!ExportTools
<1>. QED
  BY <1>1, <1>3, <1>4, <1>5, <1>6, Zenon

\* The tools of a turn beside the agents and workflows, each once.
LEMMA BaseToolsFit ==
    /\ Tools!BaseTools \in Seq(DirectTools) /\ Tools!IsInjective(Tools!BaseTools)
    /\ Tools!Range(Tools!BaseTools)
           = {"list_messages"}
               \cup (IF config.sandbox
                     THEN {"list_repos", "list_directory", "read_file", "list_worktrees"} ELSE {})
               \cup (IF config.canvas THEN {"create_canvas"} ELSE {})
               \cup (IF config.exports
                     THEN {"export_text", "export_markdown", "export_csv", "export_json"} ELSE {})
<1>. DEFINE a == <<"list_messages">>
            b == IF config.sandbox
                 THEN <<"list_repos", "list_directory", "read_file", "list_worktrees">> ELSE <<>>
            c == IF config.canvas THEN <<"create_canvas">> ELSE <<>>
            d == IF config.exports THEN Tools!ExportTools ELSE <<>>
<1>1. /\ a \in Seq(DirectTools) /\ Tools!Range(a) = {"list_messages"} /\ Tools!IsInjective(a)
      /\ b \in Seq(DirectTools) /\ Tools!IsInjective(b)
      /\ Tools!Range(b)
             = IF config.sandbox
               THEN {"list_repos", "list_directory", "read_file", "list_worktrees"} ELSE {}
      /\ c \in Seq(DirectTools) /\ Tools!IsInjective(c)
      /\ Tools!Range(c) = IF config.canvas THEN {"create_canvas"} ELSE {}
      /\ d \in Seq(DirectTools) /\ Tools!IsInjective(d)
      /\ Tools!Range(d)
             = IF config.exports
               THEN {"export_text", "export_markdown", "export_csv", "export_json"} ELSE {}
  BY ToolListsFit, Zenon
<1>2. Tools!BaseTools = a \o b \o c \o d
  BY DEF Tools!BaseTools
<1>. HIDE DEF a, b, c, d
<1>0. \A s, t \in Seq(DirectTools) :
        /\ s \o t \in Seq(DirectTools)
        /\ Tools!Range(s \o t) = Tools!Range(s) \cup Tools!Range(t)
        /\ /\ Tools!IsInjective(s) /\ Tools!IsInjective(t)
           /\ Tools!Range(s) \cap Tools!Range(t) = {}
           => Tools!IsInjective(s \o t)
  BY NamesConcat
<1>3. Tools!Range(a) \cap Tools!Range(b) = {}
  BY <1>1
<1>4. /\ a \o b \in Seq(DirectTools) /\ Tools!IsInjective(a \o b)
      /\ Tools!Range(a \o b) = Tools!Range(a) \cup Tools!Range(b)
  BY <1>0, <1>1, <1>3, Zenon
<1>. DEFINE ab == a \o b
            abc == ab \o c
<1>. HIDE DEF ab
<1>5. Tools!Range(ab) \cap Tools!Range(c) = {}
  BY <1>1, <1>4 DEF ab
<1>6. /\ abc \in Seq(DirectTools) /\ Tools!IsInjective(abc)
      /\ Tools!Range(abc) = Tools!Range(a) \cup Tools!Range(b) \cup Tools!Range(c)
  <2>1. ab \in Seq(DirectTools) /\ Tools!IsInjective(ab)
        /\ Tools!Range(ab) = Tools!Range(a) \cup Tools!Range(b)
    BY <1>4 DEF ab
  <2>. QED
    BY <1>0, <1>1, <1>5, <2>1, ZenonT(30)
<1>. HIDE DEF abc
<1>7. Tools!Range(abc) \cap Tools!Range(d) = {}
  BY <1>1, <1>6
<1>8. /\ abc \o d \in Seq(DirectTools) /\ Tools!IsInjective(abc \o d)
      /\ Tools!Range(abc \o d)
             = Tools!Range(a) \cup Tools!Range(b) \cup Tools!Range(c) \cup Tools!Range(d)
  BY <1>0, <1>1, <1>6, <1>7, ZenonT(30)
<1>9. Tools!BaseTools = abc \o d
  BY <1>2 DEF ab, abc
<1>. QED
  BY <1>1, <1>8, <1>9

\* A workflow that was tried at the start builds with the tools of a turn.
LEMMA WorkflowBuilds ==
    ASSUME Tools!Accepted, NEW id \in Tools!Range(Tools!RootDef.workflows)
    PROVE  Tools!buildWorkflowAgent(id, Tools!ChildIndex, FALSE)
<1>. DEFINE dir == Tools!Dir(id)
<1>1. Tools!RootDef.workflows # <<>>
  BY DEF Tools!Range
<1>2. /\ Tools!LoadWorkflow(dir, Tools!Models)
      /\ Tools!ToolsAreEnabled
      /\ Tools!buildWorkflowAgent(id, {}, TRUE)
  BY <1>1, Zenon DEF Tools!Accepted, Tools!prepareRootWorkflowTools,
                     Tools!ValidateWorkflowComposition
<1>. SUFFICES ASSUME NEW file \in Tools!OrderedDocuments(dir)
              PROVE  Tools!buildWorkflowNode(dir, file, Tools!ChildIndex, FALSE)
  BY Zenon DEF Tools!buildWorkflowAgent
<1>. DEFINE doc == dir.document[file]
            looped == file \in Tools!buildLoopAncestorMap(dir)
<1>3. /\ Tools!validateWorkflowNode(doc, Tools!Models, looped)
      /\ Tools!buildWorkflowNode(dir, file, {}, TRUE)
  BY <1>2, Zenon DEF Tools!LoadWorkflow, Tools!buildWorkflowAgent
<1>4. CASE doc.class = "LlmAgent"
  <2>1. /\ doc.model \in DOMAIN Tools!Models
        /\ Tools!resolveWorkflowNodeTools(doc, {}, TRUE, looped)
    BY <1>3, <1>4 DEF Tools!buildWorkflowNode
  <2>2. \A i \in DOMAIN doc.tools : Tools!validateWorkflowTool(doc.tools[i], looped)
    BY <1>3, <1>4 DEF Tools!validateWorkflowNode
  <2>3. ASSUME NEW i \in DOMAIN doc.tools
        PROVE  IF doc.tools[i].name = "exit_loop" THEN looped
               ELSE doc.tools[i].name \in Tools!ChildIndex
    <3>1. CASE doc.tools[i].name = "exit_loop"
      BY <2>1, <3>1 DEF Tools!resolveWorkflowNodeTools
    <3>2. CASE doc.tools[i].name # "exit_loop"
      <4>1. doc.tools[i].name \in Tools!ReadOnlyTools
        BY <2>2, <3>2, Zenon DEF Tools!validateWorkflowTool
      <4>2. config.sandbox \/ doc.tools[i].name \in {"exit_loop", "list_messages"}
        BY <1>2, Zenon DEF Tools!ToolsAreEnabled, Tools!Blueprint
      <4>. QED
        BY <3>2, <4>1, <4>2, BaseToolsFit DEF Tools!ChildIndex, Tools!ReadOnlyTools
    <3>. QED
      BY <3>1, <3>2
  <2>4. Tools!resolveWorkflowNodeTools(doc, Tools!ChildIndex, FALSE, looped)
    BY <2>3, Zenon DEF Tools!resolveWorkflowNodeTools
  <2>. QED
    BY <1>4, <2>1, <2>4 DEF Tools!buildWorkflowNode
<1>5. CASE doc.class # "LlmAgent"
  BY <1>3, <1>5, Zenon DEF Tools!buildWorkflowNode
<1>. QED
  BY <1>4, <1>5

\* What startup accepts, a turn can build, but for the projects it needs.
LEMMA TurnBuilds ==
    ASSUME Tools!Accepted, Tools!NeedsProjects => config.projects # {}
    PROVE  Tools!ToolsForInvocation.ok
<1>1. ASSUME NEW name \in Tools!Range(Tools!RootDef.tools)
      PROVE  Tools!newAcpAgentTool(name)
  BY <1>1, Zenon DEF Tools!newAcpAgentTool, Tools!NeedsProjects
<1>2. ASSUME NEW id \in Tools!Range(Tools!RootDef.workflows)
      PROVE  Tools!buildAgentTool(id)
  <2>1. CASE id = "trd_generator"
    BY <1>2, <2>1, Zenon DEF Tools!buildAgentTool, Tools!NeedsProjects
  <2>2. CASE id # "trd_generator"
    BY <1>2, <2>2, WorkflowBuilds, Zenon DEF Tools!buildAgentTool
  <2>. QED
    BY <2>1, <2>2
<1>. QED
  BY <1>1, <1>2, Zenon DEF Tools!ToolsForInvocation

\* The tools of a turn have different names, when those of the agents and the
\* workflows are not of a tool that is not read-only.
LEMMA TurnNamesDiffer ==
    ASSUME config \in Setups, Tools!Accepted, Tools!RootDef.workflows # <<>>,
           Tools!Range(Tools!ConfiguredNames)
               \cap (Tools!Range(Tools!ExportTools) \cup {"create_canvas"}) = {}
    PROVE  Tools!IsInjective(Tools!ToolsForInvocation.names)
<1>. DEFINE roots == [i \in DOMAIN Tools!RootDef.workflows |->
                        Tools!RootName(Tools!RootDef.workflows[i])]
            S == STRING \cup Tools!Range(roots) \cup DirectTools
<1>1. /\ Tools!RootDef.tools \in Seq(STRING)
      /\ Tools!RootDef.workflows \in Seq(DOMAIN config.dirs)
  BY RootDefIsOfFiles
<1>2. Tools!RootDef.tools \in Seq(S)
  <2>1. STRING \subseteq S
    OBVIOUS
  <2>. HIDE DEF S
  <2>. QED
    BY <1>1, <2>1, SeqMonotonic
<1>3. roots \in Seq(S)
  <2>. DEFINE n == Len(Tools!RootDef.workflows)
  <2>1. n \in Nat /\ DOMAIN Tools!RootDef.workflows = 1..n
    BY <1>1, LenProperties
  <2>2. \A i \in 1..n : roots[i] \in S
    BY <2>1 DEF Tools!Range
  <2>3. roots = [i \in 1..n |-> roots[i]]
    BY <2>1
  <2>. HIDE DEF S, roots, n
  <2>4. roots \in [1..n -> S]
    BY <2>2, <2>3, Zenon
  <2>. QED
    BY <2>1, <2>4, SeqDef, Zenon
<1>4. Tools!ConfiguredNames \in Seq(S)
  <2>1. Tools!ConfiguredNames = Tools!RootDef.tools \o roots
    BY DEF Tools!ConfiguredNames
  <2>. HIDE DEF S, roots
  <2>. QED
    BY <1>2, <1>3, <2>1, ConcatProperties
<1>5. /\ Tools!IsInjective(Tools!ConfiguredNames)
      /\ Tools!Range(Tools!ConfiguredNames) \cap Tools!ReadOnlyTools = {}
  BY Zenon DEF Tools!Accepted, Tools!prepareRootWorkflowTools, Tools!ValidateWorkflowComposition
<1>6. /\ Tools!BaseTools \in Seq(S) /\ Tools!IsInjective(Tools!BaseTools)
      /\ Tools!Range(Tools!BaseTools)
             \subseteq Tools!ReadOnlyTools \cup Tools!Range(Tools!ExportTools)
                          \cup {"create_canvas"}
  <2>1. Tools!BaseTools \in Seq(DirectTools) /\ DirectTools \subseteq S
    BY BaseToolsFit
  <2>2. Tools!BaseTools \in Seq(S)
    <3>. HIDE DEF S
    <3>. QED
      BY <2>1, SeqMonotonic
  <2>3. Tools!Range(Tools!ExportTools)
            = {"export_text", "export_markdown", "export_csv", "export_json"}
    BY ToolListsFit
  <2>. HIDE DEF S
  <2>. QED
    BY <2>2, <2>3, BaseToolsFit DEF Tools!ReadOnlyTools
<1>7. Tools!Range(Tools!ConfiguredNames) \cap Tools!Range(Tools!BaseTools) = {}
  BY <1>5, <1>6
<1>8. Tools!IsInjective(Tools!ConfiguredNames \o Tools!BaseTools)
  <2>. HIDE DEF S
  <2>. QED
    BY <1>4, <1>5, <1>6, <1>7, NamesConcat
<1>9. Tools!IsInjective(<<>>)
  BY ToolListsFit
<1>. QED
  BY <1>8, <1>9, Zenon DEF Tools!ToolsForInvocation

\* What the invariant says of the tools of a turn.
LEMMA FitsBuilds == ToolsInv => Tools!StartedBuilds
<1>. SUFFICES ASSUME ToolsInv, tools.names # <<>> \/ ~tools.ok
              PROVE  /\ (Tools!NeedsProjects => config.projects # {}) => tools.ok
                     /\ \/ Tools!RootDef.workflows = <<>>
                        \/ Tools!Range(Tools!ConfiguredNames)
                               \cap (Tools!Range(Tools!ExportTools) \cup {"create_canvas"}) # {}
                        \/ Tools!IsInjective(tools.names)
  BY Zenon DEF Tools!StartedBuilds
<1>1. tools # [ok |-> TRUE, names |-> <<>>]
  OBVIOUS
<1>2. stage = "serving" /\ tools = Tools!ToolsForInvocation
  BY <1>1, Zenon DEF ToolsInv, StartFits
<1>3. config \in Setups /\ Tools!Accepted
  BY <1>2 DEF ToolsInv, StartFits
<1>. QED
  BY <1>2, <1>3, TurnBuilds, TurnNamesDiffer, Zenon

\* What the invariant says of the definitions.
LEMMA FitsIsRead == ToolsInv => Tools!DefinitionsAreRead
<1>. SUFFICES ASSUME ToolsInv, stage = "configured" PROVE Tools!NothingIgnored(config.defs)
  BY Zenon DEF Tools!DefinitionsAreRead
<1>1. config \in Setups
  BY DEF ToolsInv, StartFits
<1>. QED
  BY <1>1, SetupIsRead

\* Whatever is configured, a workflow that answers has run all that it has to, and
\* what startup accepts is read to its last field and builds in every turn.
THEOREM RunsOfWorkflows ==
    Tools!Spec => [](Tools!AnswerIsEarned /\ Tools!DefinitionsAreRead /\ Tools!StartedBuilds)
<1>1. ToolsInv => Tools!AnswerIsEarned /\ Tools!DefinitionsAreRead /\ Tools!StartedBuilds
  BY AnswerFitsIsEarned, FitsIsRead, FitsBuilds
<1>. QED
  BY <1>1, ToolsInitFits, ToolsNextKeeps, PTL DEF Tools!Spec

------------------------------------------------------------------------------
(* Induction, from the least-number principle that the well-foundedness of   *)
(* inclusion gives                                                           *)

\* A set of natural numbers has a least one.
LEMMA LeastNatural ==
    ASSUME NEW B \in SUBSET Nat, B # {}
    PROVE  \E n \in B : \A m \in B : n <= m
<1>. DEFINE UpTo == {1..n : n \in B}
<1>1. UpTo \subseteq FiniteSubsetsOf(Nat) /\ UpTo # {}
  <2>1. \A n \in B : IsFiniteSet(1..n) /\ 1..n \subseteq Nat
    BY FS_Interval
  <2>. QED
    BY <2>1 DEF FiniteSubsetsOf
<1>2. \E x \in UpTo : \A y \in UpTo : <<y, x>> \notin StrictSubsetOrdering(Nat)
  <2>. HIDE DEF UpTo
  <2>. QED
    BY <1>1, FS_StrictSubsetOrderingWellFounded, WFMin
<1>3. PICK n \in B : \A m \in B : <<1..m, 1..n>> \notin StrictSubsetOrdering(Nat)
  BY <1>2
<1>4. ASSUME NEW m \in B, m < n PROVE FALSE
  <2>1. n \in 1..n /\ n \notin 1..m /\ 1..m \subseteq 1..n /\ 1..n \subseteq Nat
    BY <1>4
  <2>2. <<1..m, 1..n>> \in StrictSubsetOrdering(Nat)
    BY <2>1, Zenon DEF StrictSubsetOrdering
  <2>. QED
    BY <1>3, <2>2
<1>. QED
  BY <1>4, SMT

\* What holds of zero, and of a number when it holds of the one before, holds of all.
LEMMA Induction ==
    ASSUME NEW N \in Nat, NEW H \in SUBSET (0..N), 0 \in H,
           \A n \in 1..N : n - 1 \in H => n \in H
    PROVE  H = 0..N
<1>. SUFFICES ASSUME (0..N) \ H # {} PROVE FALSE
  BY Zenon
<1>1. PICK n \in (0..N) \ H : \A m \in (0..N) \ H : n <= m
  <2>1. (0..N) \ H \in SUBSET Nat
    OBVIOUS
  <2>. QED
    BY <2>1, LeastNatural
<1>2. n # 0 /\ n - 1 \in H
  BY <1>1, SMT
<1>. QED
  BY <1>1, <1>2, SMT

\* A function defined from its value for the number before.
Iterates(f, N, a, G) == f[0] = a /\ \A n \in 1..N : f[n] = G[<<n, f[n - 1]>>]

\* There is such a function, up to any number.
LEMMA FunctionUpTo ==
    ASSUME NEW T, NEW a \in T, NEW G \in [Nat \X T -> T], NEW N \in Nat
    PROVE  \E f \in [0..N -> T] : Iterates(f, N, a, G)
<1>. DEFINE Holds(m, f) == \A n \in 0..m : f[n] = IF n = 0 THEN a ELSE G[<<n, f[n - 1]>>]
            H == {m \in 0..N : \E f \in [0..m -> T] : Holds(m, f)}
<1>1. 0 \in H
  <2>. DEFINE g == [n \in 0..0 |-> a]
  <2>1. g \in [0..0 -> T] /\ 0 \in 0..N
    BY SMT
  <2>2. Holds(0, g)
    BY SMT
  <2>. HIDE DEF g
  <2>. QED
    BY <2>1, <2>2, Zenon
<1>2. ASSUME NEW m \in 1..N, m - 1 \in H PROVE m \in H
  <2>1. PICK f \in [0..(m - 1) -> T] : Holds(m - 1, f)
    BY <1>2, Zenon
  <2>. DEFINE g == [n \in 0..m |-> IF n = m THEN G[<<m, f[m - 1]>>] ELSE f[n]]
  <2>2. g \in [0..m -> T]
    <3>1. <<m, f[m - 1]>> \in Nat \X T /\ \A n \in 0..m : n # m => f[n] \in T
      BY SMT
    <3>. QED
      BY <3>1
  <2>3. Holds(m, g)
    <3>2. \A n \in 0..(m - 1) : g[n] = f[n]
      BY SMT
    <3>3. g[m] = G[<<m, f[m - 1]>>] /\ m # 0
      BY SMT
    <3>. HIDE DEF g
    <3>4. ASSUME NEW n \in 0..(m - 1) PROVE g[n] = IF n = 0 THEN a ELSE G[<<n, g[n - 1]>>]
      <4>1. n # 0 => n - 1 \in 0..(m - 1)
        BY SMT
      <4>. QED
        BY <2>1, <3>2, <4>1, Zenon
    <3>5. g[m] = IF m = 0 THEN a ELSE G[<<m, g[m - 1]>>]
      <4>1. m - 1 \in 0..(m - 1)
        BY SMT
      <4>. QED
        BY <3>2, <3>3, <4>1, Zenon
    <3>6. \A n \in 0..m : n \in 0..(m - 1) \/ n = m
      BY SMT
    <3>. QED
      BY <3>4, <3>5, <3>6, Zenon
  <2>4. m \in 0..N
    BY SMT
  <2>. HIDE DEF g
  <2>. QED
    BY <2>2, <2>3, <2>4, Zenon
<1>3. H = 0..N
  <2>1. H \subseteq 0..N
    BY Zenon
  <2>. HIDE DEF H
  <2>. QED
    BY <1>1, <1>2, <2>1, Induction
<1>4. PICK f \in [0..N -> T] : Holds(N, f)
  <2>1. N \in 0..N
    BY SMT
  <2>. QED
    BY <1>3, <2>1, ZenonT(30)
<1>5. 0 \in 0..N /\ \A n \in 1..N : n \in 0..N /\ n # 0
  BY SMT
<1>. QED
  BY <1>4, <1>5, Zenon DEF Iterates

------------------------------------------------------------------------------
(* What loading computes                                                     *)

\* Sets of documents, what reading a path may give, and what may be known of it.
Sets(dir) == SUBSET DOMAIN dir.document
Results(dir) == [ok : BOOLEAN, documents : Sets(dir)]
Loads(dir) == [Tools!Visits(dir) -> Results(dir)]

At(path, documents, active) == [path |-> path, documents |-> documents, active |-> active]

\* Reading the references of a document, one after the other.
ReadsInOrder(dir, load, refs, documents, active, f) ==
    /\ f \in [0..Len(refs) -> Results(dir)]
    /\ f[0] = [ok |-> TRUE, documents |-> documents]
    /\ \A n \in 1..Len(refs) :
          f[n] = IF f[n - 1].ok THEN load[At(refs[n], f[n - 1].documents, active)]
                 ELSE Tools!Refused

LEMMA InOrderFits ==
    ASSUME NEW dir, NEW load \in Loads(dir), NEW refs \in Seq(DOMAIN dir.target),
           NEW documents \in Sets(dir), NEW active \in Sets(dir)
    PROVE  \E f : /\ ReadsInOrder(dir, load, refs, documents, active, f)
                  /\ Tools!LoadInOrder(load, refs, documents, active) = f[Len(refs)]
<1>. DEFINE Reads(f) ==
                f = [n \in 0..Len(refs) |->
                        IF n = 0 THEN [ok |-> TRUE, documents |-> documents]
                        ELSE IF f[n - 1].ok THEN load[At(refs[n], f[n - 1].documents, active)]
                        ELSE Tools!Refused]
            G == [x \in Nat \X Results(dir) |->
                     IF x[1] \in 1..Len(refs) /\ x[2].ok
                     THEN load[At(refs[x[1]], x[2].documents, active)] ELSE Tools!Refused]
            Begin == [ok |-> TRUE, documents |-> documents]
<1>1. Len(refs) \in Nat /\ \A n \in 1..Len(refs) : refs[n] \in DOMAIN dir.target
  BY LenProperties, ElementOfSeq
<1>2. Begin \in Results(dir) /\ Tools!Refused \in Results(dir)
  BY DEF Results, Sets, Tools!Refused
<1>3. ASSUME NEW n \in 1..Len(refs), NEW r \in Results(dir)
      PROVE  load[At(refs[n], r.documents, active)] \in Results(dir)
  <2>1. r.documents \in Sets(dir)
    BY Zenon DEF Results
  <2>2. At(refs[n], r.documents, active) \in Tools!Visits(dir)
    BY <1>1, <2>1 DEF At, Sets, Tools!Visits
  <2>. QED
    BY <2>2 DEF Loads
<1>4. G \in [Nat \X Results(dir) -> Results(dir)]
  <2>1. ASSUME NEW x \in Nat \X Results(dir)
        PROVE  (IF x[1] \in 1..Len(refs) /\ x[2].ok
                THEN load[At(refs[x[1]], x[2].documents, active)]
                ELSE Tools!Refused) \in Results(dir)
    BY <1>2, <1>3
  <2>. QED
    BY <2>1, Zenon
<1>5. PICK f \in [0..Len(refs) -> Results(dir)] : Iterates(f, Len(refs), Begin, G)
  <2>. DEFINE T == Results(dir)
              N == Len(refs)
  <2>. HIDE DEF G, T, N, Begin
  <2>1. Begin \in T /\ G \in [Nat \X T -> T]
    BY <1>2, <1>4 DEF T
  <2>2. N \in Nat
    BY <1>1 DEF N
  <2>3. \E f \in [0..N -> T] : Iterates(f, N, Begin, G)
    BY <2>1, <2>2, FunctionUpTo
  <2>. QED
    BY <2>3 DEF T, N
<1>6. ASSUME NEW n \in 1..Len(refs)
      PROVE  f[n] = IF f[n - 1].ok THEN load[At(refs[n], f[n - 1].documents, active)]
                    ELSE Tools!Refused
  <2>1. n - 1 \in 0..Len(refs) /\ n \in Nat
    BY <1>1, SMT
  <2>2. <<n, f[n - 1]>> \in Nat \X Results(dir)
    BY <2>1
  <2>3. G[<<n, f[n - 1]>>] = IF f[n - 1].ok THEN load[At(refs[n], f[n - 1].documents, active)]
                             ELSE Tools!Refused
    BY <2>2
  <2>. HIDE DEF G
  <2>. QED
    BY <1>5, <2>3, Zenon DEF Iterates
<1>7. f[0] = Begin
  BY <1>5, Zenon DEF Iterates
<1>. DEFINE Value(g, n) ==
                IF n = 0 THEN Begin
                ELSE IF g[n - 1].ok THEN load[At(refs[n], g[n - 1].documents, active)]
                ELSE Tools!Refused
<1>8. Reads(f)
  <2>1. ASSUME NEW n \in 0..Len(refs) PROVE f[n] = Value(f, n)
    <3>1. n # 0 => n \in 1..Len(refs)
      BY <1>1, SMT
    <3>. QED
      BY <1>6, <1>7, <3>1, Zenon
  <2>2. f = [n \in 0..Len(refs) |-> f[n]]
    BY Zenon
  <2>. QED
    BY <2>1, <2>2, Zenon
<1>. DEFINE g == CHOOSE h : Reads(h)
<1>9. Reads(g)
  <2>. HIDE DEF Reads
  <2>. QED
    BY <1>8, Zenon
<1>10. Tools!LoadInOrder(load, refs, documents, active) = g[Len(refs)]
  BY Zenon DEF Tools!LoadInOrder, At
<1>. HIDE DEF g
<1>11. \A n \in 0..Len(refs) : g[n] = Value(g, n)
  BY <1>9, Zenon
<1>12. g = f
  <2>. DEFINE H == {n \in 0..Len(refs) : g[n] = f[n]}
  <2>1. 0 \in H /\ H \in SUBSET (0..Len(refs))
    <3>1. 0 \in 0..Len(refs)
      BY <1>1
    <3>. QED
      BY <1>7, <1>11, <3>1, Zenon
  <2>2. ASSUME NEW n \in 1..Len(refs), n - 1 \in H PROVE n \in H
    <3>1. n \in 0..Len(refs) /\ n # 0
      BY <1>1, SMT
    <3>. QED
      BY <1>6, <1>11, <2>2, <3>1, Zenon
  <2>3. H = 0..Len(refs)
    <3>. HIDE DEF H
    <3>. QED
      BY <1>1, <2>1, <2>2, Induction
  <2>4. \A n \in 0..Len(refs) : g[n] = f[n]
    BY <2>3, Zenon
  <2>5. g = [n \in 0..Len(refs) |-> g[n]]
    BY <1>9, Zenon
  <2>6. f = [n \in 0..Len(refs) |-> f[n]]
    BY Zenon
  <2>. QED
    BY <2>4, <2>5, <2>6, Zenon
<1>13. ReadsInOrder(dir, load, refs, documents, active, f)
  BY <1>6, <1>7, Zenon DEF ReadsInOrder
<1>. QED
  BY <1>10, <1>12, <1>13, Zenon

\* What finite sets are and how many members they have is the same everywhere.
LEMMA SameFiniteSets ==
    /\ \A S : Tools!IsFiniteSet(S) <=> IsFiniteSet(S)
    /\ \A S : Tools!Cardinality(S) = Cardinality(S)
<1>1. \A S : Tools!IsFiniteSet(S) <=> IsFiniteSet(S)
  BY Zenon DEF IsFiniteSet, Tools!IsFiniteSet
<1>2. \A S : Tools!Cardinality(S) = Cardinality(S)
  BY Zenon DEF Cardinality, Tools!Cardinality
<1>. QED
  BY <1>1, <1>2

\* The documents a document refers to are paths.
LEMMA SubAgentsTyped ==
    ASSUME NEW dir, Tools!IsDirectory(dir), NEW file \in DOMAIN dir.document
    PROVE  Tools!SubAgents(dir.document[file]) \in Seq(DOMAIN dir.target)
<1>1. dir.document[file].subs \in Seq(DOMAIN dir.target) /\ <<>> \in Seq(DOMAIN dir.target)
  BY EmptySeq, Zenon DEF Tools!IsDirectory
<1>. QED
  BY <1>1, Zenon DEF Tools!SubAgents

\* What reading a path gives is accepted when nothing that the loader checks fails,
\* in the document and below it.
VisitIsRight(dir, load, path, documents, active) ==
    LET file == dir.target[path]
        doc == dir.document[file]
        below == Tools!LoadInOrder(load, Tools!SubAgents(doc), documents, active \cup {file})
        given == Tools!loadWorkflowDocument(dir, load)[At(path, documents, active)]
    IN  /\ given \in Results(dir)
        /\ given.ok <=> /\ file \in DOMAIN dir.document
                         /\ file \notin active \cup documents
                         /\ Cardinality(documents) + Cardinality(active) < MaxNodes
                         /\ Tools!decodeWorkflowDocument(doc)
                         /\ below.ok
        /\ given.ok => given.documents = below.documents \cup {file}

LEMMA VisitFits ==
    ASSUME NEW dir, Tools!IsDirectory(dir), NEW load \in Loads(dir),
           NEW path \in DOMAIN dir.target, NEW documents \in Sets(dir), NEW active \in Sets(dir)
    PROVE  VisitIsRight(dir, load, path, documents, active)
<1>. DEFINE file == dir.target[path]
            doc == dir.document[file]
            below == Tools!LoadInOrder(load, Tools!SubAgents(doc), documents, active \cup {file})
            given == Tools!loadWorkflowDocument(dir, load)[At(path, documents, active)]
            sound == /\ file \in DOMAIN dir.document
                     /\ Tools!Unread(file, documents, active)
                     /\ Cardinality(documents) + Cardinality(active) < MaxNodes
                     /\ Tools!decodeWorkflowDocument(doc)
                     /\ below.ok
<1>1. given = IF sound THEN [ok |-> TRUE, documents |-> below.documents \cup {file}]
               ELSE Tools!Refused
  <2>1. At(path, documents, active) \in Tools!Visits(dir)
    BY DEF At, Sets, Tools!Visits
  <2>2. /\ At(path, documents, active).path = path
        /\ At(path, documents, active).documents = documents
        /\ At(path, documents, active).active = active
    BY DEF At
  <2>. DEFINE Value(v) ==
                LET top == dir.target[v.path]
                    lower == Tools!LoadInOrder(load, Tools!SubAgents(dir.document[top]),
                                               v.documents, v.active \cup {top})
                IN  IF /\ top \in DOMAIN dir.document
                       /\ Tools!Unread(top, v.documents, v.active)
                       /\ Tools!Cardinality(v.documents) + Tools!Cardinality(v.active) < MaxNodes
                       /\ Tools!decodeWorkflowDocument(dir.document[top])
                       /\ lower.ok
                    THEN [ok |-> TRUE, documents |-> lower.documents \cup {top}]
                    ELSE Tools!Refused
              visit == At(path, documents, active)
  <2>3. Tools!loadWorkflowDocument(dir, load) = [v \in Tools!Visits(dir) |-> Value(v)]
    BY Zenon DEF Tools!loadWorkflowDocument
  <2>4. given = Value(visit)
    <3>. HIDE DEF Value, visit
    <3>. QED
      BY <2>1, <2>3, Zenon DEF visit
  <2>5. Value(visit) = IF sound THEN [ok |-> TRUE, documents |-> below.documents \cup {file}]
                       ELSE Tools!Refused
    <3>. HIDE DEF visit
    <3>. QED
      BY <2>2, SameFiniteSets, Zenon DEF visit
  <2>. QED
    BY <2>4, <2>5, Zenon
<1>2. Tools!Unread(file, documents, active) <=> file \notin active \cup documents
  BY DEF Tools!Unread
<1>3. sound => below \in Results(dir)
  <2>. SUFFICES ASSUME file \in DOMAIN dir.document PROVE below \in Results(dir)
    BY Zenon
  <2>1. Tools!SubAgents(doc) \in Seq(DOMAIN dir.target) /\ active \cup {file} \in Sets(dir)
    BY SubAgentsTyped DEF Sets
  <2>2. PICK f : /\ ReadsInOrder(dir, load, Tools!SubAgents(doc), documents, active \cup {file}, f)
                 /\ below = f[Len(Tools!SubAgents(doc))]
    <3>. HIDE DEF file, doc
    <3>. QED
      BY <2>1, InOrderFits
  <2>3. Len(Tools!SubAgents(doc)) \in 0..Len(Tools!SubAgents(doc))
    BY <2>1, LenProperties
  <2>. QED
    BY <2>2, <2>3, Zenon DEF ReadsInOrder
<1>. HIDE DEF file, doc, below, given
<1>4. given \in Results(dir)
  <2>1. CASE sound
    <3>1. below.documents \cup {file} \in Sets(dir)
      BY <1>3, <2>1 DEF Results, Sets
    <3>. QED
      BY <1>1, <2>1, <3>1 DEF Results
  <2>2. CASE ~ sound
    <3>1. Tools!Refused \in Results(dir)
      BY DEF Results, Sets, Tools!Refused
    <3>. QED
      BY <1>1, <2>2, <3>1, Zenon
  <2>. QED
    BY <2>1, <2>2
<1>5. given.ok <=> sound
  BY <1>1 DEF Tools!Refused
<1>6. sound => given.documents = below.documents \cup {file}
  BY <1>1
<1>. QED
  BY <1>2, <1>4, <1>5, <1>6, Zenon DEF VisitIsRight, file, doc, below, given

\* Reading with so many levels left.
LEMMA LoadingFits ==
    ASSUME NEW dir, Tools!IsDirectory(dir)
    PROVE  LET load == Tools!Loading(dir)
           IN  /\ load \in [0..MaxDepth -> Loads(dir)]
               /\ \A path \in DOMAIN dir.target, documents, active \in Sets(dir) :
                     load[0][At(path, documents, active)] = Tools!Refused
               /\ \A n \in 1..MaxDepth : load[n] = Tools!loadWorkflowDocument(dir, load[n - 1])
<1>. DEFINE Zero == [visit \in Tools!Visits(dir) |-> Tools!Refused]
            Loader(f) ==
                f = [n \in 0..MaxDepth |->
                        IF n = 0 THEN Zero ELSE Tools!loadWorkflowDocument(dir, f[n - 1])]
            G == [x \in Nat \X Loads(dir) |-> Tools!loadWorkflowDocument(dir, x[2])]
<1>1. Zero \in Loads(dir)
  BY DEF Loads, Results, Sets, Tools!Refused
<1>2. ASSUME NEW load \in Loads(dir) PROVE Tools!loadWorkflowDocument(dir, load) \in Loads(dir)
  <2>1. ASSUME NEW path \in DOMAIN dir.target, NEW documents \in Sets(dir),
               NEW active \in Sets(dir)
        PROVE  Tools!loadWorkflowDocument(dir, load)[At(path, documents, active)] \in Results(dir)
    BY <2>1, VisitFits, Zenon DEF VisitIsRight
  <2>2. ASSUME NEW visit \in Tools!Visits(dir)
        PROVE  Tools!loadWorkflowDocument(dir, load)[visit] \in Results(dir)
    <3>1. visit = At(visit.path, visit.documents, visit.active)
      BY DEF At, Tools!Visits
    <3>2. /\ visit.path \in DOMAIN dir.target
          /\ visit.documents \in Sets(dir) /\ visit.active \in Sets(dir)
      BY Zenon DEF Sets, Tools!Visits
    <3>. QED
      BY <2>1, <3>1, <3>2, Zenon
  <2>3. Tools!loadWorkflowDocument(dir, load)
            = [visit \in Tools!Visits(dir) |-> Tools!loadWorkflowDocument(dir, load)[visit]]
    BY Zenon DEF Tools!loadWorkflowDocument
  <2>. QED
    BY <2>2, <2>3, Zenon DEF Loads
<1>3. G \in [Nat \X Loads(dir) -> Loads(dir)]
  BY <1>2
<1>4. PICK f \in [0..MaxDepth -> Loads(dir)] : Iterates(f, MaxDepth, Zero, G)
  <2>. DEFINE T == Loads(dir)
              First == Zero
  <2>. HIDE DEF G, T, First
  <2>1. First \in T /\ G \in [Nat \X T -> T] /\ MaxDepth \in Nat
    BY <1>1, <1>3, WorkflowBoundsAssumption DEF T, First
  <2>2. \E f \in [0..MaxDepth -> T] : Iterates(f, MaxDepth, First, G)
    BY <2>1, FunctionUpTo
  <2>. QED
    BY <2>2 DEF T, First
<1>5. Loader(f)
  <2>1. ASSUME NEW n \in 0..MaxDepth
        PROVE  f[n] = IF n = 0 THEN Zero ELSE Tools!loadWorkflowDocument(dir, f[n - 1])
    <3>1. n # 0 => n \in 1..MaxDepth /\ n - 1 \in 0..MaxDepth
      BY WorkflowBoundsAssumption, SMT
    <3>2. n # 0 => <<n, f[n - 1]>> \in Nat \X Loads(dir)
      BY <3>1
    <3>3. n # 0 => G[<<n, f[n - 1]>>] = Tools!loadWorkflowDocument(dir, f[n - 1])
      BY <3>2
    <3>. HIDE DEF G, Zero
    <3>. QED
      BY <1>4, <3>1, <3>3, Zenon DEF Iterates
  <2>2. f = [n \in 0..MaxDepth |-> f[n]]
    BY Zenon
  <2>. HIDE DEF Zero
  <2>. QED
    BY <2>1, <2>2, Zenon
<1>. DEFINE load == Tools!Loading(dir)
<1>6. Loader(load)
  <2>1. Loader(CHOOSE g : Loader(g))
    <3>. HIDE DEF Loader
    <3>. QED
      BY <1>5, Zenon
  <2>. QED
    BY <2>1, Zenon DEF Tools!Loading, Sets
<1>. HIDE DEF load
<1>7. /\ load = [n \in 0..MaxDepth |-> load[n]]
      /\ \A n \in 0..MaxDepth :
            load[n] = IF n = 0 THEN Zero ELSE Tools!loadWorkflowDocument(dir, load[n - 1])
  <2>. HIDE DEF Zero
  <2>. QED
    BY <1>6, Zenon
<1>8. /\ load[0] = Zero
      /\ \A n \in 1..MaxDepth : load[n] = Tools!loadWorkflowDocument(dir, load[n - 1])
  <2>1. 0 \in 0..MaxDepth /\ \A n \in 1..MaxDepth : n \in 0..MaxDepth /\ n # 0
    BY WorkflowBoundsAssumption, SMT
  <2>. HIDE DEF Zero
  <2>. QED
    BY <1>7, <2>1, Zenon
<1>. DEFINE H == {n \in 0..MaxDepth : load[n] \in Loads(dir)}
<1>9. H = 0..MaxDepth
  <2>1. 0 \in H /\ H \in SUBSET (0..MaxDepth)
    BY <1>1, <1>8, WorkflowBoundsAssumption
  <2>2. \A n \in 1..MaxDepth : n - 1 \in H => n \in H
    <3>1. \A n \in 1..MaxDepth : n \in 0..MaxDepth
      BY SMT
    <3>. HIDE DEF Zero
    <3>. QED
      BY <1>2, <1>8, <3>1, Zenon
  <2>. HIDE DEF H
  <2>. QED
    BY <2>1, <2>2, WorkflowBoundsAssumption, Induction
<1>10. \A path \in DOMAIN dir.target, documents, active \in Sets(dir) :
           load[0][At(path, documents, active)] = Tools!Refused
  <2>1. \A path \in DOMAIN dir.target, documents, active \in Sets(dir) :
            At(path, documents, active) \in Tools!Visits(dir)
    BY DEF At, Sets, Tools!Visits
  <2>. QED
    BY <1>8, <2>1
<1>. QED
  BY <1>7, <1>8, <1>9, <1>10, Zenon DEF load

------------------------------------------------------------------------------
(* Trees of documents                                                        *)

\* Where a reference of a document leads.
Child(dir, file, i) == dir.target[Tools!SubAgents(dir.document[file])[i]]
References(dir, file) == DOMAIN Tools!SubAgents(dir.document[file])

LEMMA ChildrenAreTargets ==
    ASSUME NEW dir, NEW file
    PROVE  /\ \A i \in References(dir, file) : Child(dir, file, i) \in Tools!Targets(dir, file)
           /\ \A t \in Tools!Targets(dir, file) : \E i \in References(dir, file) :
                 t = Child(dir, file, i)
BY Zenon DEF Child, References, Tools!Targets

\* What it is to be referred to once, in these words.
LEMMA Once ==
    ASSUME NEW dir, NEW file
    PROVE  Tools!ReferredOnce(dir, file)
             <=> \A f, other \in Tools!Below(dir, file) :
                    \A i \in References(dir, f), j \in References(dir, other) :
                       /\ Child(dir, f, i) # file
                       /\ Child(dir, f, i) = Child(dir, other, j) => f = other /\ i = j
BY Zenon DEF Tools!ReferredOnce, Child, References

\* What is below a document, and is not that one, is referred to from there.
LEMMA HasReferrer ==
    ASSUME NEW dir, NEW file, NEW lower \in Tools!Below(dir, file), lower # file
    PROVE  \E f \in Tools!Below(dir, file) : lower \in Tools!Targets(dir, f)
<1>. SUFFICES ASSUME \A f \in Tools!Below(dir, file) : lower \notin Tools!Targets(dir, f)
              PROVE  FALSE
  OBVIOUS
<1>. DEFINE Rest == Tools!Below(dir, file) \ {lower}
<1>1. Tools!Closed(dir, Rest)
  BY BelowIsClosed DEF Tools!Closed
<1>2. Rest \in SUBSET DOMAIN dir.document /\ (file \in DOMAIN dir.document => file \in Rest)
  BY BelowHolds
<1>3. Tools!Below(dir, file) \subseteq Rest
  <2>. HIDE DEF Rest
  <2>. QED
    BY <1>1, <1>2, BelowIsLeast
<1>. QED
  BY <1>3

\* What is below a document whose references lead to documents: itself, and what
\* is below those.
LEMMA BelowUnfolds ==
    ASSUME NEW dir, NEW file \in DOMAIN dir.document,
           Tools!Targets(dir, file) \subseteq DOMAIN dir.document
    PROVE  /\ \A i \in References(dir, file) :
                 /\ Child(dir, file, i) \in Tools!Below(dir, Child(dir, file, i))
                 /\ Tools!Below(dir, Child(dir, file, i)) \subseteq Tools!Below(dir, file)
           /\ \A f \in Tools!Below(dir, file) :
                 \/ f = file
                 \/ \E i \in References(dir, file) : f \in Tools!Below(dir, Child(dir, file, i))
           /\ file \in Tools!Below(dir, file)
<1>1. ASSUME NEW i \in References(dir, file)
      PROVE  /\ Child(dir, file, i) \in Tools!Below(dir, Child(dir, file, i))
             /\ Tools!Below(dir, Child(dir, file, i)) \subseteq Tools!Below(dir, file)
  <2>1. Child(dir, file, i) \in Tools!Targets(dir, file)
    BY ChildrenAreTargets
  <2>2. Child(dir, file, i) \in Tools!Below(dir, file)
    BY <2>1, TargetIsBelow
  <2>. QED
    BY <2>1, <2>2, BelowHolds, BelowIsTransitive
<1>2. ASSUME NEW f \in Tools!Below(dir, file), f # file
      PROVE  \E i \in References(dir, file) : f \in Tools!Below(dir, Child(dir, file, i))
  <2>1. PICK target \in Tools!Targets(dir, file) : f \in Tools!Below(dir, target)
    BY <1>2, BelowSplits
  <2>. QED
    BY <2>1, ChildrenAreTargets
<1>. QED
  BY <1>1, <1>2, BelowHolds

\* In a tree, what is below one child of a document is not below another, and the
\* document is below none.
LEMMA ChildrenAreApart ==
    ASSUME NEW dir, NEW file \in DOMAIN dir.document,
           Tools!Targets(dir, file) \subseteq DOMAIN dir.document, Tools!ReferredOnce(dir, file)
    PROVE  \A i, j \in References(dir, file) :
              /\ file \notin Tools!Below(dir, Child(dir, file, i))
              /\ i # j => Tools!Below(dir, Child(dir, file, i))
                             \cap Tools!Below(dir, Child(dir, file, j)) = {}
<1>1. \A f, other \in Tools!Below(dir, file) :
         \A i \in References(dir, f), j \in References(dir, other) :
            /\ Child(dir, f, i) # file
            /\ Child(dir, f, i) = Child(dir, other, j) => f = other /\ i = j
  BY Once, Zenon
<1>2. ASSUME NEW i \in References(dir, file), file \in Tools!Below(dir, Child(dir, file, i))
      PROVE  FALSE
  <2>1. file # Child(dir, file, i)
    BY <1>1, BelowHolds
  <2>2. PICK f \in Tools!Below(dir, Child(dir, file, i)) : file \in Tools!Targets(dir, f)
    BY <1>2, <2>1, HasReferrer
  <2>3. PICK k \in References(dir, f) : file = Child(dir, f, k)
    BY <2>2, ChildrenAreTargets
  <2>. QED
    BY <1>1, <2>3, BelowUnfolds
<1>3. ASSUME NEW i \in References(dir, file), NEW j \in References(dir, file), i # j
      PROVE  Tools!Below(dir, Child(dir, file, i)) \cap Tools!Below(dir, Child(dir, file, j)) = {}
  <2>. DEFINE Left == Tools!Below(dir, Child(dir, file, i))
              Right == Tools!Below(dir, Child(dir, file, j))
  <2>1. /\ Left \subseteq Tools!Below(dir, file) /\ Right \subseteq Tools!Below(dir, file)
        /\ Child(dir, file, i) \in Left /\ Child(dir, file, j) \in Right
        /\ file \in Tools!Below(dir, file)
    BY BelowUnfolds, Zenon
  <2>2. file \notin Left /\ file \notin Right
    BY <1>2, Zenon
  <2>3. ASSUME NEW f \in Tools!Below(dir, file), f \notin Left,
               NEW k \in References(dir, f), Child(dir, f, k) \in Left
        PROVE  f = file
    <3>1. CASE Child(dir, f, k) = Child(dir, file, i)
      BY <1>1, <2>1, <3>1, Zenon
    <3>2. CASE Child(dir, f, k) # Child(dir, file, i)
      <4>1. PICK y \in Left : Child(dir, f, k) \in Tools!Targets(dir, y)
        BY <2>3, <3>2, HasReferrer
      <4>2. PICK l \in References(dir, y) : Child(dir, f, k) = Child(dir, y, l)
        BY <4>1, ChildrenAreTargets
      <4>. QED
        BY <1>1, <2>1, <2>3, <4>2
    <3>. QED
      BY <3>1, <3>2
  <2>4. Child(dir, file, j) \notin Left
    <3>. SUFFICES ASSUME Child(dir, file, j) \in Left PROVE FALSE
      OBVIOUS
    <3>1. Child(dir, file, j) # Child(dir, file, i)
      BY <1>1, <1>3, <2>1, Zenon
    <3>2. PICK y \in Left : Child(dir, file, j) \in Tools!Targets(dir, y)
      BY <3>1, HasReferrer
    <3>3. PICK l \in References(dir, y) : Child(dir, file, j) = Child(dir, y, l)
      BY <3>2, ChildrenAreTargets
    <3>. QED
      BY <1>1, <2>1, <2>2, <3>3
  <2>5. Tools!Closed(dir, Right \ Left)
    <3>. SUFFICES ASSUME NEW f \in Right, f \notin Left,
                         NEW t \in Tools!Targets(dir, f), t \in DOMAIN dir.document
                  PROVE  t \in Right /\ t \notin Left
      BY Zenon DEF Tools!Closed
    <3>1. t \in Right
      BY BelowIsClosed DEF Tools!Closed
    <3>2. PICK k \in References(dir, f) : t = Child(dir, f, k)
      BY ChildrenAreTargets
    <3>3. t \notin Left
      <4>. HIDE DEF Left, Right
      <4>. QED
        BY <2>1, <2>2, <2>3, <3>2, Zenon
    <3>. QED
      BY <3>1, <3>3
  <2>6. Right \subseteq Right \ Left
    <3>1. Right \ Left \in SUBSET DOMAIN dir.document
      BY BelowHolds
    <3>2. Child(dir, file, j) \in Right \ Left
      BY <2>1, <2>4
    <3>. QED
      BY <2>5, <3>1, <3>2, BelowIsLeast
  <2>. QED
    BY <2>6
<1>. QED
  BY <1>2, <1>3, Zenon

\* A document with such children is a tree when each of them is.
LEMMA TreesMakeATree ==
    ASSUME NEW dir, NEW file \in DOMAIN dir.document,
           Tools!Targets(dir, file) \subseteq DOMAIN dir.document,
           \A i, j \in References(dir, file) :
              /\ file \notin Tools!Below(dir, Child(dir, file, i))
              /\ i # j => Tools!Below(dir, Child(dir, file, i))
                             \cap Tools!Below(dir, Child(dir, file, j)) = {},
           \A i \in References(dir, file) :
              /\ Tools!ReferredOnce(dir, Child(dir, file, i))
              /\ \A f \in Tools!Below(dir, Child(dir, file, i)) :
                    Tools!Targets(dir, f) \subseteq DOMAIN dir.document
    PROVE  Tools!ReferredOnce(dir, file)
<1>. DEFINE Under(i) == Tools!Below(dir, Child(dir, file, i))
<1>1. ASSUME NEW i \in References(dir, file), NEW f \in Under(i), NEW k \in References(dir, f)
      PROVE  Child(dir, f, k) \in Under(i) /\ Child(dir, f, k) # file
                /\ Child(dir, f, k) # Child(dir, file, i)
  <2>1. Child(dir, f, k) \in Tools!Targets(dir, f) /\ Child(dir, f, k) \in DOMAIN dir.document
    BY ChildrenAreTargets
  <2>2. Child(dir, f, k) \in Under(i)
    BY <2>1, BelowIsClosed DEF Tools!Closed
  <2>3. Child(dir, f, k) # Child(dir, file, i)
    BY Once, Zenon
  <2>. QED
    BY <2>2, <2>3
<1>2. ASSUME NEW i \in References(dir, file), NEW f \in Under(i), NEW other \in Under(i),
             NEW k \in References(dir, f), NEW l \in References(dir, other),
             Child(dir, f, k) = Child(dir, other, l)
      PROVE  f = other /\ k = l
  <2>1. Tools!ReferredOnce(dir, Child(dir, file, i))
    BY Zenon
  <2>2. \A x, y \in Under(i) : \A m \in References(dir, x), n \in References(dir, y) :
            /\ Child(dir, x, m) # Child(dir, file, i)
            /\ Child(dir, x, m) = Child(dir, y, n) => x = y /\ m = n
    BY <2>1, Once, Zenon
  <2>. HIDE DEF Under
  <2>. QED
    BY <1>2, <2>2, SMT
<1>3. ASSUME NEW i \in References(dir, file)
      PROVE  Child(dir, file, i) \in Under(i) /\ Child(dir, file, i) # file
  BY BelowUnfolds
<1>4. ASSUME NEW f \in Tools!Below(dir, file), f # file
      PROVE  \E i \in References(dir, file) : f \in Under(i)
  BY <1>4, BelowUnfolds
<1>5. \A i, j \in References(dir, file) : i # j => Under(i) \cap Under(j) = {}
  BY Zenon
<1>. HIDE DEF Under
<1>6. ASSUME NEW f \in Tools!Below(dir, file), NEW other \in Tools!Below(dir, file),
             NEW k \in References(dir, f), NEW l \in References(dir, other)
      PROVE  /\ Child(dir, f, k) # file
             /\ Child(dir, f, k) = Child(dir, other, l) => f = other /\ k = l
  <2>1. CASE f = file /\ other = file
    BY <1>3, <1>5, <2>1
  <2>2. CASE f = file /\ other # file
    <3>1. PICK i \in References(dir, file) : other \in Under(i)
      BY <1>4, <2>2
    <3>. QED
      BY <1>1, <1>3, <1>5, <2>2, <3>1
  <2>3. CASE f # file /\ other = file
    <3>1. PICK i \in References(dir, file) : f \in Under(i)
      BY <1>4, <2>3
    <3>. QED
      BY <1>1, <1>3, <1>5, <2>3, <3>1
  <2>4. CASE f # file /\ other # file
    <3>1. PICK i \in References(dir, file) : f \in Under(i)
      BY <1>4, <2>4
    <3>2. PICK j \in References(dir, file) : other \in Under(j)
      BY <1>4, <2>4
    <3>. QED
      BY <1>1, <1>2, <1>5, <3>1, <3>2
  <2>. QED
    BY <2>1, <2>2, <2>3, <2>4
<1>. QED
  BY <1>6, Once, Zenon

\* The levels of the documents.
LEMMA LevelsFit ==
    ASSUME NEW dir
    PROVE  LET level == Tools!Levels(dir)
           IN  /\ level \in [0..MaxDepth -> SUBSET DOMAIN dir.document]
               /\ level[0] = {}
               /\ \A n \in 1..MaxDepth :
                     level[n] = {f \in DOMAIN dir.document :
                                    Tools!Targets(dir, f) \subseteq level[n - 1]}
<1>. DEFINE T == SUBSET DOMAIN dir.document
            Up(S) == {f \in DOMAIN dir.document : Tools!Targets(dir, f) \subseteq S}
            Leveler(f) == f = [n \in 0..MaxDepth |-> IF n = 0 THEN {} ELSE Up(f[n - 1])]
            G == [x \in Nat \X T |-> Up(x[2])]
<1>1. {} \in T /\ \A S \in T : Up(S) \in T
  BY Zenon
<1>. HIDE DEF T, Up
<1>2. G \in [Nat \X T -> T]
  BY <1>1
<1>3. PICK f \in [0..MaxDepth -> T] : Iterates(f, MaxDepth, {}, G)
  <2>. HIDE DEF G
  <2>. QED
    BY <1>1, <1>2, WorkflowBoundsAssumption, FunctionUpTo
<1>4. ASSUME NEW n \in 0..MaxDepth
      PROVE  f[n] = IF n = 0 THEN {} ELSE Up(f[n - 1])
  <2>1. n # 0 => n \in 1..MaxDepth /\ n - 1 \in 0..MaxDepth
    BY WorkflowBoundsAssumption, SMT
  <2>2. n # 0 => <<n, f[n - 1]>> \in Nat \X T
    BY <2>1
  <2>3. n # 0 => G[<<n, f[n - 1]>>] = Up(f[n - 1])
    BY <2>2
  <2>. HIDE DEF G
  <2>. QED
    BY <1>3, <2>1, <2>3, Zenon DEF Iterates
<1>5. Leveler(f)
  <2>1. f = [n \in 0..MaxDepth |-> f[n]]
    BY Zenon
  <2>. QED
    BY <1>4, <2>1, Zenon
<1>. DEFINE level == Tools!Levels(dir)
<1>6. Leveler(level)
  <2>1. Leveler(CHOOSE g : Leveler(g))
    <3>. HIDE DEF Leveler
    <3>. QED
      BY <1>5, Zenon
  <2>. QED
    BY <2>1, Zenon DEF Tools!Levels, Up
<1>. HIDE DEF level
<1>7. /\ level = [n \in 0..MaxDepth |-> level[n]]
      /\ \A n \in 0..MaxDepth : level[n] = IF n = 0 THEN {} ELSE Up(level[n - 1])
  BY <1>6, Zenon
<1>8. level[0] = {} /\ \A n \in 1..MaxDepth : level[n] = Up(level[n - 1])
  <2>1. 0 \in 0..MaxDepth /\ \A n \in 1..MaxDepth : n \in 0..MaxDepth /\ n # 0
    BY WorkflowBoundsAssumption, SMT
  <2>. QED
    BY <1>7, <2>1, Zenon
<1>9. \A n \in 0..MaxDepth : level[n] \in T
  <2>1. \A n \in 0..MaxDepth : n = 0 \/ n \in 1..MaxDepth
    BY WorkflowBoundsAssumption, SMT
  <2>2. \A S : Up(S) \in T
    BY Zenon DEF Up, T
  <2>. QED
    BY <1>1, <1>8, <2>1, <2>2, Zenon
<1>10. level \in [0..MaxDepth -> T]
  BY <1>7, <1>9, Zenon
<1>. QED
  BY <1>8, <1>10, Zenon DEF level, T, Up

\* All that is below a document of some level refers to documents.
LEMMA LevelsAreClosed ==
    ASSUME NEW dir, NEW n \in 0..MaxDepth, NEW file \in Tools!Levels(dir)[n]
    PROVE  /\ file \in DOMAIN dir.document
           /\ \A f \in Tools!Below(dir, file) : Tools!Targets(dir, f) \subseteq DOMAIN dir.document
<1>. DEFINE level == Tools!Levels(dir)
            Some == {f \in DOMAIN dir.document : \E m \in 0..MaxDepth : f \in level[m]}
<1>1. /\ level \in [0..MaxDepth -> SUBSET DOMAIN dir.document]
      /\ level[0] = {}
      /\ \A m \in 1..MaxDepth :
            level[m] = {f \in DOMAIN dir.document : Tools!Targets(dir, f) \subseteq level[m - 1]}
  BY LevelsFit, Zenon
<1>2. file \in level[n]
  BY Zenon
<1>. HIDE DEF level
<1>3. ASSUME NEW f \in Some PROVE Tools!Targets(dir, f) \subseteq Some
  <2>1. PICK m \in 0..MaxDepth : f \in level[m]
    BY Zenon
  <2>2. m \in 1..MaxDepth /\ m - 1 \in 0..MaxDepth
    BY <1>1, <2>1, WorkflowBoundsAssumption, SMT
  <2>3. Tools!Targets(dir, f) \subseteq level[m - 1]
    BY <1>1, <2>1, <2>2, Zenon
  <2>4. level[m - 1] \subseteq DOMAIN dir.document
    BY <1>1, <2>2
  <2>. QED
    BY <2>2, <2>3, <2>4
<1>4. file \in Some
  BY <1>1, <1>2
<1>5. Tools!Closed(dir, Some)
  BY <1>3 DEF Tools!Closed
<1>6. Tools!Below(dir, file) \subseteq Some
  <2>1. Some \in SUBSET DOMAIN dir.document
    BY Zenon
  <2>. HIDE DEF Some
  <2>. QED
    BY <1>4, <1>5, <2>1, BelowIsLeast
<1>. QED
  BY <1>3, <1>4, <1>6, Zenon

\* What reading a document asks for, with so many levels left, after the documents
\* read before it and below those being read.
Fits(dir, n, file, documents, active) ==
    /\ file \in Tools!Levels(dir)[n]
    /\ Tools!ReferredOnce(dir, file)
    /\ \A f \in Tools!Below(dir, file) : Tools!decodeWorkflowDocument(dir.document[f])
    /\ Tools!Below(dir, file) \cap (documents \cup active) = {}
    /\ Cardinality(documents \cup Tools!Below(dir, file)) + Cardinality(active) <= MaxNodes

\* The documents read once so many of the references are.
ReadUpTo(dir, file, documents, k) ==
    documents \cup UNION {Tools!Below(dir, Child(dir, file, i)) : i \in 1..k}

\* The sets of documents are finite.
LEMMA SetsAreFinite ==
    ASSUME NEW dir, Tools!IsDirectory(dir)
    PROVE  \A S \in Sets(dir) :
              /\ IsFiniteSet(S) /\ Cardinality(S) \in Nat
              /\ \A R \in Sets(dir) : R \subseteq S => Cardinality(R) <= Cardinality(S)
              /\ \A file \in DOMAIN dir.document : file \notin S =>
                    Cardinality(S \cup {file}) = Cardinality(S) + 1
<1>1. IsFiniteSet(DOMAIN dir.document)
  BY SameFiniteSets, Zenon DEF Tools!IsDirectory
<1>2. \A S \in Sets(dir) : IsFiniteSet(S)
  BY <1>1, FS_Subset DEF Sets
<1>. QED
  BY <1>2, FS_Subset, FS_AddElement, FS_CardinalityType DEF Sets

\* A document fits when it does and what it refers to fits, one after the other.
LEMMA FitsByChildren ==
    ASSUME NEW dir, Tools!IsDirectory(dir), NEW n \in 1..MaxDepth,
           NEW documents \in Sets(dir), NEW active \in Sets(dir), NEW file
    PROVE  LET K == Len(Tools!SubAgents(dir.document[file]))
           IN  Fits(dir, n, file, documents, active)
                 <=> /\ file \in DOMAIN dir.document
                     /\ file \notin active \cup documents
                     /\ Cardinality(documents) + Cardinality(active) < MaxNodes
                     /\ Tools!decodeWorkflowDocument(dir.document[file])
                     /\ \A k \in 1..K : Fits(dir, n - 1, Child(dir, file, k),
                                             ReadUpTo(dir, file, documents, k - 1),
                                             active \cup {file})
<1>. DEFINE K == Len(Tools!SubAgents(dir.document[file]))
            Under(k) == Tools!Below(dir, Child(dir, file, k))
            U(k) == ReadUpTo(dir, file, documents, k)
            All == Tools!Below(dir, file)
            FitsChild(k) == Fits(dir, n - 1, Child(dir, file, k), U(k - 1), active \cup {file})
<1>1. MaxNodes \in Nat /\ n \in 0..MaxDepth /\ n - 1 \in 0..MaxDepth
  BY WorkflowBoundsAssumption, SMT
<1>2. file \in DOMAIN dir.document => K \in Nat /\ References(dir, file) = 1..K
  <2>. HAVE file \in DOMAIN dir.document
  <2>. DEFINE P == DOMAIN dir.target
              refs == Tools!SubAgents(dir.document[file])
  <2>1. refs \in Seq(P)
    BY SubAgentsTyped, Zenon
  <2>. HIDE DEF P, refs
  <2>2. Len(refs) \in Nat /\ DOMAIN refs = 1..Len(refs)
    BY <2>1, LenProperties
  <2>. QED
    BY <2>2, Zenon DEF refs, References
<1>3. All \in Sets(dir) /\ \A k : Under(k) \in Sets(dir) /\ U(k) \in Sets(dir)
  <2>1. All \in Sets(dir) /\ \A k : Under(k) \in Sets(dir)
    BY BelowHolds DEF Sets
  <2>2. \A k : U(k) \subseteq DOMAIN dir.document
    <3>. HIDE DEF Under
    <3>1. \A k : Under(k) \subseteq DOMAIN dir.document
      BY <2>1 DEF Sets
    <3>2. \A k : U(k) = documents \cup UNION {Under(i) : i \in 1..k}
      BY Zenon DEF ReadUpTo, Under
    <3>. HIDE DEF U
    <3>. QED
      BY <3>1, <3>2 DEF Sets
  <2>. QED
    BY <2>1, <2>2 DEF Sets
<1>4. \A k, f : f \in U(k) <=> f \in documents \/ \E i \in 1..k : f \in Under(i)
  BY DEF ReadUpTo
<1>5. ASSUME Fits(dir, n, file, documents, active)
      PROVE  /\ file \in DOMAIN dir.document
             /\ file \notin active \cup documents
             /\ Cardinality(documents) + Cardinality(active) < MaxNodes
             /\ Tools!decodeWorkflowDocument(dir.document[file])
             /\ \A k \in 1..K : FitsChild(k)
  <2>. DEFINE level == Tools!Levels(dir)
  <2>1. file \in DOMAIN dir.document /\ Tools!Targets(dir, file) \subseteq level[n - 1]
    <3>1. file \in level[n]
      BY <1>5, Zenon DEF Fits
    <3>2. level[n] = {f \in DOMAIN dir.document : Tools!Targets(dir, f) \subseteq level[n - 1]}
      BY LevelsFit, Zenon
    <3>. HIDE DEF level
    <3>. QED
      BY <3>1, <3>2
  <2>2. /\ Tools!ReferredOnce(dir, file)
        /\ \A f \in All : Tools!decodeWorkflowDocument(dir.document[f])
        /\ All \cap (documents \cup active) = {}
        /\ Cardinality(documents \cup All) + Cardinality(active) <= MaxNodes
    BY <1>5, Zenon DEF Fits
  <2>3. Tools!Targets(dir, file) \subseteq DOMAIN dir.document
    <3>1. level[n - 1] \subseteq DOMAIN dir.document
      BY <1>1, LevelsFit
    <3>. HIDE DEF level
    <3>. QED
      BY <2>1, <3>1
  <2>4. file \in All /\ \A k \in 1..K : Under(k) \subseteq All
    BY <1>2, <2>1, <2>3, BelowUnfolds
  <2>5. \A j, k \in 1..K : file \notin Under(k) /\ (j # k => Under(j) \cap Under(k) = {})
    BY <1>2, <2>1, <2>2, <2>3, ChildrenAreApart, Zenon
  <2>6. \A k \in 1..K : Child(dir, file, k) \in level[n - 1]
    BY <1>2, <2>1, ChildrenAreTargets
  <2>7. \A k \in 1..K : Tools!ReferredOnce(dir, Child(dir, file, k))
    <3>. TAKE k \in 1..K
    <3>1. \A f, other \in All : \A i \in References(dir, f), j \in References(dir, other) :
             /\ Child(dir, f, i) # file
             /\ Child(dir, f, i) = Child(dir, other, j) => f = other /\ i = j
      BY <2>2, Once, Zenon
    <3>2. k \in References(dir, file)
      BY <1>2, <2>1
    <3>3. ASSUME NEW f \in Under(k), NEW other \in Under(k),
                 NEW i \in References(dir, f), NEW j \in References(dir, other)
          PROVE  /\ Child(dir, f, i) # Child(dir, file, k)
                 /\ Child(dir, f, i) = Child(dir, other, j) => f = other /\ i = j
      <4>. HIDE DEF Under, All
      <4>1. f \in All /\ other \in All /\ f # file
        BY <2>4, <2>5
      <4>. QED
        BY <2>4, <3>1, <3>2, <4>1, ZenonT(30)
    <3>. QED
      BY <3>3, Once, Zenon
  <2>8. file \notin active /\ file \notin documents
    <3>. HIDE DEF All
    <3>. QED
      BY <2>2, <2>4
  <2>9. Cardinality(documents) + Cardinality(active) < MaxNodes
    <3>. HIDE DEF All
    <3>1. documents \cup {file} \in Sets(dir) /\ documents \cup All \in Sets(dir)
             /\ documents \cup {file} \subseteq documents \cup All
      BY <1>3, <2>1, <2>4 DEF Sets
    <3>2. /\ Cardinality(documents \cup {file}) <= Cardinality(documents \cup All)
          /\ Cardinality(documents \cup {file}) = Cardinality(documents) + 1
      BY <2>1, <2>8, <3>1, SetsAreFinite
    <3>3. /\ Cardinality(documents) \in Nat /\ Cardinality(active) \in Nat
          /\ Cardinality(documents \cup All) \in Nat
      BY <3>1, SetsAreFinite
    <3>. QED
      BY <1>1, <2>2, <3>2, <3>3, SMT
  <2>10. ASSUME NEW k \in 1..K PROVE FitsChild(k)
    <3>. DEFINE W == U(k - 1) \cup Under(k)
    <3>1. Under(k) \cap (U(k - 1) \cup (active \cup {file})) = {}
      <4>1. \A i \in 1..(k - 1) : i \in 1..K /\ i # k
        BY <1>2, <2>1, SMT
      <4>. HIDE DEF All, Under, U
      <4>2. Under(k) \cap U(k - 1) = {}
        BY <1>4, <2>2, <2>4, <2>5, <4>1
      <4>. QED
        BY <2>2, <2>4, <2>5, <4>2
    <3>2. W \in Sets(dir) /\ documents \cup All \in Sets(dir)
      <4>. HIDE DEF All, Under, U
      <4>. QED
        BY <1>3 DEF Sets
    <3>3. file \notin W /\ W \cup {file} \subseteq documents \cup All
      <4>1. \A i \in 1..(k - 1) : i \in 1..K
        BY <1>2, <2>1, SMT
      <4>. HIDE DEF All, Under, U
      <4>. QED
        BY <1>4, <2>4, <2>5, <2>8, <4>1
    <3>. HIDE DEF W, All
    <3>4. /\ Cardinality(W) + 1 <= Cardinality(documents \cup All)
          /\ Cardinality(active \cup {file}) = Cardinality(active) + 1
      <4>1. W \cup {file} \in Sets(dir)
        BY <2>1, <3>2 DEF Sets
      <4>2. Cardinality(W \cup {file}) = Cardinality(W) + 1
        BY <2>1, <3>2, <3>3, SetsAreFinite
      <4>3. Cardinality(W \cup {file}) <= Cardinality(documents \cup All)
        BY <3>2, <3>3, <4>1, SetsAreFinite
      <4>. QED
        BY <2>1, <2>8, <4>2, <4>3, SetsAreFinite
    <3>5. /\ Cardinality(W) \in Nat /\ Cardinality(active) \in Nat
          /\ Cardinality(documents \cup All) \in Nat
      BY <3>2, SetsAreFinite
    <3>6. Cardinality(W) + Cardinality(active \cup {file}) <= MaxNodes
      BY <1>1, <2>2, <3>4, <3>5, SMT
    <3>7. \A f \in Under(k) : Tools!decodeWorkflowDocument(dir.document[f])
      <4>. HIDE DEF Under
      <4>. QED
        BY <2>2, <2>4
    <3>. QED
      BY <2>6, <2>7, <3>1, <3>6, <3>7, Zenon DEF Fits, W
  <2>. QED
    BY <2>1, <2>2, <2>4, <2>8, <2>9, <2>10
<1>6. ASSUME file \in DOMAIN dir.document,
             file \notin active \cup documents,
             Cardinality(documents) + Cardinality(active) < MaxNodes,
             Tools!decodeWorkflowDocument(dir.document[file]),
             \A k \in 1..K : FitsChild(k)
      PROVE  Fits(dir, n, file, documents, active)
  <2>. DEFINE level == Tools!Levels(dir)
  <2>1. ASSUME NEW k \in 1..K
        PROVE  /\ Child(dir, file, k) \in level[n - 1]
               /\ Tools!ReferredOnce(dir, Child(dir, file, k))
               /\ \A f \in Under(k) : Tools!decodeWorkflowDocument(dir.document[f])
               /\ Under(k) \cap (U(k - 1) \cup (active \cup {file})) = {}
               /\ Cardinality(U(k - 1) \cup Under(k)) + Cardinality(active \cup {file}) <= MaxNodes
    BY <1>6, Zenon DEF Fits
  <2>2. Tools!Targets(dir, file) \subseteq level[n - 1]
    <3>1. \A k \in 1..K : Child(dir, file, k) \in level[n - 1]
      BY <2>1, Zenon
    <3>2. \A t \in Tools!Targets(dir, file) : \E k \in 1..K : t = Child(dir, file, k)
      BY <1>2, <1>6, ChildrenAreTargets, Zenon
    <3>. HIDE DEF level
    <3>. QED
      BY <3>1, <3>2, Zenon
  <2>3. file \in level[n]
    <3>1. level[n] = {f \in DOMAIN dir.document : Tools!Targets(dir, f) \subseteq level[n - 1]}
      BY LevelsFit, Zenon
    <3>. HIDE DEF level
    <3>. QED
      BY <1>6, <2>2, <3>1
  <2>4. Tools!Targets(dir, file) \subseteq DOMAIN dir.document
    <3>1. level[n - 1] \subseteq DOMAIN dir.document
      BY <1>1, LevelsFit
    <3>. HIDE DEF level
    <3>. QED
      BY <2>2, <3>1
  <2>5. \A j, k \in 1..K : file \notin Under(k) /\ (j # k => Under(j) \cap Under(k) = {})
    <3>1. ASSUME NEW j \in 1..K, NEW k \in 1..K, j < k PROVE Under(j) \cap Under(k) = {}
      <4>1. j \in 1..(k - 1)
        BY <1>2, <1>6, <3>1, SMT
      <4>2. Under(j) \subseteq U(k - 1)
        <5>. HIDE DEF Under, U
        <5>. QED
          BY <1>4, <4>1
      <4>. HIDE DEF Under, U
      <4>. QED
        BY <2>1, <4>2
    <3>2. \A j, k \in 1..K : j # k => j < k \/ k < j
      BY <1>2, <1>6, SMT
    <3>. HIDE DEF Under, U
    <3>. QED
      BY <2>1, <3>1, <3>2
  <2>6. Tools!ReferredOnce(dir, file)
    <3>1. \A k \in 1..K : \A f \in Under(k) : Tools!Targets(dir, f) \subseteq DOMAIN dir.document
      BY <1>1, <2>1, LevelsAreClosed
    <3>. QED
      BY <1>2, <1>6, <2>1, <2>4, <2>5, <3>1, TreesMakeATree, Zenon
  <2>7. \A f \in All : f = file \/ \E k \in 1..K : f \in Under(k)
    BY <1>2, <1>6, <2>4, BelowUnfolds
  <2>8. \A f \in All : Tools!decodeWorkflowDocument(dir.document[f])
    <3>. HIDE DEF All, Under
    <3>. QED
      BY <1>6, <2>1, <2>7, Zenon
  <2>9. All \cap (documents \cup active) = {}
    <3>1. \A k \in 1..K : Under(k) \cap (documents \cup active) = {}
      <4>. HIDE DEF Under, U
      <4>. QED
        BY <1>4, <2>1
    <3>. HIDE DEF All, Under
    <3>. QED
      BY <1>6, <2>7, <3>1
  <2>10. Cardinality(documents \cup All) + Cardinality(active) <= MaxNodes
    <3>. DEFINE W == IF K = 0 THEN documents ELSE U(K - 1) \cup Under(K)
    <3>1. /\ W \in Sets(dir) /\ W \cup {file} \in Sets(dir) /\ documents \cup All \in Sets(dir)
          /\ active \in Sets(dir)
      <4>. HIDE DEF All, Under, U
      <4>. QED
        BY <1>3, <1>6 DEF Sets
    <3>2. documents \cup All \subseteq W \cup {file}
      <4>1. CASE K = 0
        <5>1. 1..K = {}
          BY <4>1, SMT
        <5>. HIDE DEF All, Under, U
        <5>. QED
          BY <2>7, <4>1, <5>1
      <4>2. CASE K # 0
        <5>1. \A k \in 1..K : k = K \/ k \in 1..(K - 1)
          BY <1>2, <1>6, SMT
        <5>. HIDE DEF All, Under, U
        <5>. QED
          BY <1>4, <2>7, <4>2, <5>1
      <4>. QED
        BY <4>1, <4>2
    <3>3. /\ Cardinality(documents \cup All) \in Nat
          /\ Cardinality(W) \in Nat /\ Cardinality(active) \in Nat
          /\ Cardinality(documents \cup All) <= Cardinality(W \cup {file})
      <4>. HIDE DEF W, All
      <4>. QED
        BY <3>1, <3>2, SetsAreFinite
    <3>4. file \notin W => Cardinality(W \cup {file}) = Cardinality(W) + 1
      <4>. HIDE DEF W
      <4>. QED
        BY <1>6, <3>1, SetsAreFinite
    <3>5. CASE K = 0
      <4>1. W = documents
        BY <3>5
      <4>2. file \notin W
        BY <1>6, <4>1
      <4>. HIDE DEF W, All
      <4>. QED
        BY <1>1, <1>6, <3>3, <3>4, <4>1, <4>2, SMT
    <3>6. CASE K # 0
      <4>1. K \in 1..K
        BY <1>2, <1>6, <3>6, SMT
      <4>2. W = U(K - 1) \cup Under(K)
        BY <3>6
      <4>3. Cardinality(W) + Cardinality(active \cup {file}) <= MaxNodes
        BY <2>1, <4>1, <4>2, Zenon
      <4>4. file \notin W
        <5>1. \A i \in 1..(K - 1) : i \in 1..K
          BY <1>2, <1>6, SMT
        <5>. HIDE DEF W, Under, U
        <5>. QED
          BY <1>4, <1>6, <2>5, <4>1, <4>2, <5>1
      <4>5. Cardinality(active \cup {file}) = Cardinality(active) + 1
        BY <1>6, SetsAreFinite
      <4>. HIDE DEF W, All
      <4>. QED
        BY <1>1, <3>3, <3>4, <4>3, <4>4, <4>5, SMT
    <3>. QED
      BY <3>5, <3>6
  <2>. QED
    BY <2>3, <2>6, <2>8, <2>9, <2>10, Zenon DEF Fits
<1>. QED
  BY <1>5, <1>6, Zenon

\* What has been read once all that a document refers to has.
LEMMA AllAreRead ==
    ASSUME NEW dir, Tools!IsDirectory(dir), NEW file \in DOMAIN dir.document,
           Tools!Targets(dir, file) \subseteq DOMAIN dir.document, NEW documents
    PROVE  ReadUpTo(dir, file, documents, Len(Tools!SubAgents(dir.document[file]))) \cup {file}
             = documents \cup Tools!Below(dir, file)
<1>. DEFINE P == DOMAIN dir.target
            refs == Tools!SubAgents(dir.document[file])
            K == Len(refs)
            Under(k) == Tools!Below(dir, Child(dir, file, k))
            All == Tools!Below(dir, file)
            Whole == ReadUpTo(dir, file, documents, K)
<1>1. References(dir, file) = 1..K
  <2>1. refs \in Seq(P)
    BY SubAgentsTyped, Zenon
  <2>. HIDE DEF P, refs
  <2>2. DOMAIN refs = 1..Len(refs)
    BY <2>1, LenProperties
  <2>. QED
    BY <2>2, Zenon DEF refs, References
<1>2. /\ \A k \in 1..K : Under(k) \subseteq All
      /\ \A f \in All : f = file \/ \E k \in 1..K : f \in Under(k)
      /\ file \in All
  BY <1>1, BelowUnfolds
<1>3. Whole = documents \cup UNION {Under(k) : k \in 1..K}
  BY Zenon DEF ReadUpTo
<1>. HIDE DEF All, Under, Whole, K
<1>4. Whole \cup {file} = documents \cup All
  BY <1>2, <1>3
<1>. QED
  BY <1>4, Zenon DEF All, Whole, K

\* That reading is right with so many levels left: it accepts what fits, and gives
\* what was read before with all that is below.
RightAt(dir, n) ==
    \A path \in DOMAIN dir.target, documents, active \in Sets(dir) :
        LET given == Tools!Loading(dir)[n][At(path, documents, active)]
        IN  /\ given.ok <=> Fits(dir, n, dir.target[path], documents, active)
            /\ given.ok => given.documents = documents \cup Tools!Below(dir, dir.target[path])

\* When it is right one level down, it reads the references that fit one after the
\* other, and gives all that is below them.
LEMMA ChildrenAreRead ==
    ASSUME NEW dir, Tools!IsDirectory(dir), NEW n \in 0..MaxDepth, RightAt(dir, n),
           NEW file \in DOMAIN dir.document, NEW documents \in Sets(dir), NEW active \in Sets(dir)
    PROVE  LET refs == Tools!SubAgents(dir.document[file])
               below == Tools!LoadInOrder(Tools!Loading(dir)[n], refs, documents, active)
           IN  /\ below.ok <=> \A k \in 1..Len(refs) :
                                  Fits(dir, n, Child(dir, file, k),
                                       ReadUpTo(dir, file, documents, k - 1), active)
               /\ below.ok => below.documents = ReadUpTo(dir, file, documents, Len(refs))
<1>. DEFINE refs == Tools!SubAgents(dir.document[file])
            load == Tools!Loading(dir)[n]
            below == Tools!LoadInOrder(load, refs, documents, active)
            K == Len(refs)
            U(k) == ReadUpTo(dir, file, documents, k)
            FitsChild(k) == Fits(dir, n, Child(dir, file, k), U(k - 1), active)
            P == DOMAIN dir.target
<1>1. refs \in Seq(P)
  BY SubAgentsTyped, Zenon
<1>2. K \in Nat /\ \A k \in 1..K : refs[k] \in DOMAIN dir.target
  <2>. HIDE DEF refs, P
  <2>1. K \in Nat /\ \A k \in 1..K : refs[k] \in P
    BY <1>1, LenProperties, ElementOfSeq
  <2>. QED
    BY <2>1 DEF P
<1>3. load \in Loads(dir)
  BY LoadingFits
<1>4. PICK f : ReadsInOrder(dir, load, refs, documents, active, f) /\ below = f[K]
  <2>. HIDE DEF refs, load
  <2>. QED
    BY <1>1, <1>3, InOrderFits
<1>5. /\ f \in [0..K -> Results(dir)]
      /\ f[0] = [ok |-> TRUE, documents |-> documents]
      /\ \A k \in 1..K : f[k] = IF f[k - 1].ok THEN load[At(refs[k], f[k - 1].documents, active)]
                                ELSE Tools!Refused
  BY <1>4, Zenon DEF ReadsInOrder
<1>6. U(0) = documents /\ \A k \in 1..K : U(k) = U(k - 1) \cup Tools!Below(dir, Child(dir, file, k))
  <2>1. 1..0 = {} /\ \A k \in 1..K : \A i : i \in 1..k <=> i \in 1..(k - 1) \/ i = k
    BY <1>2, SMT
  <2>. QED
    BY <2>1 DEF ReadUpTo
<1>. DEFINE Right(k) == /\ f[k].ok <=> \A i \in 1..k : FitsChild(i)
                        /\ f[k].ok => f[k].documents = U(k)
            H == {k \in 0..K : Right(k)}
<1>. HIDE DEF U, load
<1>7. 0 \in H
  <2>1. 1..0 = {} /\ 0 \in 0..K
    BY <1>2, SMT
  <2>. QED
    BY <1>5, <1>6, <2>1
<1>8. ASSUME NEW k \in 1..K, k - 1 \in H PROVE k \in H
  <2>1. k \in 0..K /\ k - 1 \in 0..K /\ \A i : i \in 1..k <=> i \in 1..(k - 1) \/ i = k
    BY <1>2, SMT
  <2>2. Right(k - 1)
    BY <1>8, Zenon
  <2>3. f[k - 1] \in Results(dir)
    BY <1>5, <2>1, Zenon
  <2>4. CASE f[k - 1].ok
    <3>1. f[k - 1].documents = U(k - 1) /\ \A i \in 1..(k - 1) : FitsChild(i)
      BY <2>2, <2>4, Zenon
    <3>2. U(k - 1) \in Sets(dir)
      BY <2>3, <3>1, Zenon DEF Results
    <3>3. f[k] = load[At(refs[k], U(k - 1), active)]
      BY <1>5, <2>4, <3>1, Zenon
    <3>4. dir.target[refs[k]] = Child(dir, file, k)
      BY Zenon DEF Child
    <3>5. /\ f[k].ok <=> Fits(dir, n, Child(dir, file, k), U(k - 1), active)
          /\ f[k].ok => f[k].documents = U(k - 1) \cup Tools!Below(dir, Child(dir, file, k))
      <4>. DEFINE path == refs[k]
                  read == U(k - 1)
      <4>1. path \in DOMAIN dir.target
        BY <1>2
      <4>2. f[k] = load[At(path, read, active)] /\ dir.target[path] = Child(dir, file, k)
        BY <3>3, <3>4, Zenon
      <4>. HIDE DEF path, read
      <4>3. /\ load[At(path, read, active)].ok <=> Fits(dir, n, dir.target[path], read, active)
            /\ load[At(path, read, active)].ok =>
                  load[At(path, read, active)].documents
                    = read \cup Tools!Below(dir, dir.target[path])
        BY <3>2, <4>1, Zenon DEF RightAt, load, read
      <4>. QED
        BY <4>2, <4>3, Zenon DEF read
    <3>. HIDE DEF FitsChild
    <3>6. f[k].ok <=> FitsChild(k)
      BY <3>5, Zenon DEF FitsChild
    <3>7. f[k].ok => f[k].documents = U(k)
      BY <1>6, <3>5, Zenon
    <3>. QED
      BY <2>1, <3>1, <3>6, <3>7, Zenon
  <2>5. CASE ~ f[k - 1].ok
    <3>1. ~ f[k].ok
      BY <1>5, <2>5 DEF Tools!Refused
    <3>2. \E i \in 1..(k - 1) : ~ FitsChild(i)
      BY <2>2, <2>5, Zenon
    <3>. HIDE DEF FitsChild
    <3>. QED
      BY <2>1, <3>1, <3>2, Zenon
  <2>. QED
    BY <2>4, <2>5
<1>9. H = 0..K
  <2>1. H \in SUBSET (0..K)
    BY Zenon
  <2>. HIDE DEF H, K
  <2>. QED
    BY <1>2, <1>7, <1>8, <2>1, Induction
<1>10. Right(K)
  <2>1. K \in 0..K
    BY <1>2, SMT
  <2>. QED
    BY <1>9, <2>1, Zenon
<1>11. /\ below.ok <=> \A k \in 1..K : FitsChild(k)
       /\ below.ok => below.documents = U(K)
  BY <1>4, <1>10, Zenon
<1>. QED
  BY <1>11, Zenon DEF load, U

\* Reading is right however many levels are left.
LEMMA LoadingIsRight ==
    ASSUME NEW dir, Tools!IsDirectory(dir)
    PROVE  \A n \in 0..MaxDepth : RightAt(dir, n)
<1>. DEFINE load == Tools!Loading(dir)
            H == {n \in 0..MaxDepth : RightAt(dir, n)}
<1>1. /\ load \in [0..MaxDepth -> Loads(dir)]
      /\ \A path \in DOMAIN dir.target, documents, active \in Sets(dir) :
            load[0][At(path, documents, active)] = Tools!Refused
      /\ \A n \in 1..MaxDepth : load[n] = Tools!loadWorkflowDocument(dir, load[n - 1])
  BY LoadingFits, Zenon
<1>2. 0 \in H
  <2>1. ~ Tools!Refused.ok
    BY DEF Tools!Refused
  <2>2. \A file, documents, active : ~ Fits(dir, 0, file, documents, active)
    BY LevelsFit, Zenon DEF Fits
  <2>3. RightAt(dir, 0)
    BY <1>1, <2>1, <2>2, Zenon DEF RightAt
  <2>4. 0 \in 0..MaxDepth
    BY WorkflowBoundsAssumption, SMT
  <2>. QED
    BY <2>3, <2>4
<1>3. ASSUME NEW n \in 1..MaxDepth, n - 1 \in H PROVE n \in H
  <2>1. n \in 0..MaxDepth /\ n - 1 \in 0..MaxDepth
    BY WorkflowBoundsAssumption, SMT
  <2>2. RightAt(dir, n - 1)
    BY <1>3, Zenon
  <2>3. ASSUME NEW path \in DOMAIN dir.target, NEW documents \in Sets(dir), NEW active \in Sets(dir)
        PROVE  LET given == load[n][At(path, documents, active)]
               IN  /\ given.ok <=> Fits(dir, n, dir.target[path], documents, active)
                   /\ given.ok => given.documents
                                     = documents \cup Tools!Below(dir, dir.target[path])
    <3>. DEFINE file == dir.target[path]
                refs == Tools!SubAgents(dir.document[file])
                below == Tools!LoadInOrder(load[n - 1], refs, documents, active \cup {file})
                given == load[n][At(path, documents, active)]
                FitsAll == \A k \in 1..Len(refs) :
                              Fits(dir, n - 1, Child(dir, file, k),
                                   ReadUpTo(dir, file, documents, k - 1), active \cup {file})
    <3>1. /\ load[n - 1] \in Loads(dir)
          /\ given = Tools!loadWorkflowDocument(dir, load[n - 1])[At(path, documents, active)]
      BY <1>1, <2>1, Zenon
    <3>2. /\ given.ok <=> /\ file \in DOMAIN dir.document
                          /\ file \notin active \cup documents
                          /\ Cardinality(documents) + Cardinality(active) < MaxNodes
                          /\ Tools!decodeWorkflowDocument(dir.document[file])
                          /\ below.ok
          /\ given.ok => given.documents = below.documents \cup {file}
      <4>. DEFINE lower == load[n - 1]
      <4>. HIDE DEF lower
      <4>1. lower \in Loads(dir)
        BY <3>1, Zenon DEF lower
      <4>2. VisitIsRight(dir, lower, path, documents, active)
        BY <4>1, VisitFits, Zenon
      <4>. HIDE DEF load, file
      <4>. QED
        BY <3>1, <4>2, Zenon DEF lower, VisitIsRight, file
    <3>3. file \in DOMAIN dir.document =>
             /\ below.ok <=> FitsAll
             /\ below.ok => below.documents = ReadUpTo(dir, file, documents, Len(refs))
      <4>1. file \in DOMAIN dir.document => active \cup {file} \in Sets(dir)
        BY DEF Sets
      <4>. HIDE DEF file
      <4>. QED
        BY <2>1, <2>2, <4>1, ChildrenAreRead, Zenon
    <3>4. Fits(dir, n, file, documents, active)
             <=> /\ file \in DOMAIN dir.document
                 /\ file \notin active \cup documents
                 /\ Cardinality(documents) + Cardinality(active) < MaxNodes
                 /\ Tools!decodeWorkflowDocument(dir.document[file])
                 /\ FitsAll
      <4>. HIDE DEF file
      <4>. QED
        BY FitsByChildren, Zenon
    <3>5. given.ok <=> Fits(dir, n, file, documents, active)
      <4>. HIDE DEF file, below, given, FitsAll
      <4>. QED
        BY <3>2, <3>3, <3>4, Zenon
    <3>6. given.ok => given.documents = documents \cup Tools!Below(dir, file)
      <4>. HAVE given.ok
      <4>1. file \in Tools!Levels(dir)[n]
        BY <3>5, Zenon DEF Fits
      <4>2. file \in DOMAIN dir.document /\ Tools!Targets(dir, file) \subseteq DOMAIN dir.document
        BY <2>1, <4>1, LevelsAreClosed, BelowHolds
      <4>. HIDE DEF file, given, below, load, FitsAll
      <4>3. given.documents = ReadUpTo(dir, file, documents, Len(refs)) \cup {file}
        BY <3>2, <3>3, <4>2, Zenon
      <4>. QED
        BY <4>2, <4>3, AllAreRead, Zenon
    <3>. QED
      BY <3>5, <3>6, Zenon
  <2>4. RightAt(dir, n)
    BY <2>3, Zenon DEF RightAt
  <2>. QED
    BY <2>1, <2>4
<1>4. H = 0..MaxDepth
  <2>1. H \in SUBSET (0..MaxDepth)
    BY Zenon
  <2>. HIDE DEF H
  <2>. QED
    BY <1>2, <1>3, <2>1, WorkflowBoundsAssumption, Induction
<1>. QED
  BY <1>4, Zenon

\* Reading a workflow accepts exactly the trees, and reads all of each.
LEMMA ReadingIsRight ==
    ASSUME NEW dir, Tools!IsDirectory(dir)
    PROVE  /\ Tools!Read(dir).ok <=> Tools!IsTree(dir)
           /\ Tools!Read(dir).ok => Tools!Read(dir).documents = Tools!OrderedDocuments(dir)
<1>. DEFINE root == dir.target[Tools!RootFile]
            given == Tools!Read(dir)
<1>1. /\ given.ok <=> Fits(dir, MaxDepth, root, {}, {})
      /\ given.ok => given.documents = {} \cup Tools!Below(dir, root)
  <2>1. MaxDepth \in 0..MaxDepth
    BY WorkflowBoundsAssumption, SMT
  <2>2. Tools!RootFile \in DOMAIN dir.target /\ {} \in Sets(dir)
    BY DEF Tools!IsDirectory, Sets
  <2>3. RightAt(dir, MaxDepth)
    BY <2>1, LoadingIsRight, Zenon
  <2>4. given = Tools!Loading(dir)[MaxDepth][At(Tools!RootFile, {}, {})]
    BY Zenon DEF Tools!Read, At
  <2>. HIDE DEF given
  <2>. QED
    BY <2>2, <2>3, <2>4, Zenon DEF RightAt
<1>2. Fits(dir, MaxDepth, root, {}, {}) <=> Tools!IsTree(dir)
  <2>. DEFINE All == Tools!Below(dir, root)
  <2>1. All \in Sets(dir)
    BY BelowHolds DEF Sets
  <2>2. {} \cup All = All /\ All \cap ({} \cup {}) = {}
    OBVIOUS
  <2>3. Cardinality(All) + Cardinality({}) = Cardinality(All)
    <3>1. Cardinality({}) = 0 /\ Cardinality(All) \in Nat
      BY <2>1, SetsAreFinite, FS_EmptySet
    <3>. QED
      BY <3>1, SMT
  <2>4. Tools!Cardinality(All) = Cardinality(All)
    BY SameFiniteSets, Zenon
  <2>. QED
    BY <2>2, <2>3, <2>4, Zenon DEF Fits, Tools!IsTree, Tools!OrderedDocuments
<1>. QED
  BY <1>1, <1>2 DEF Tools!OrderedDocuments

\* What a workflow that startup accepts has to leave a loop with is below one.
LEMMA LeavesFromBelow ==
    ASSUME NEW dir, NEW models, Tools!IsDirectory(dir), Tools!LoadWorkflow(dir, models),
           NEW file \in Tools!OrderedDocuments(dir), Tools!MayExit(dir.document[file])
    PROVE  file \in Tools!buildLoopAncestorMap(dir)
<1>. DEFINE doc == dir.document[file]
            looped == file \in Tools!buildLoopAncestorMap(dir)
<1>1. PICK i \in DOMAIN doc.tools : doc.tools[i].name = "exit_loop"
  BY Zenon DEF Tools!MayExit
<1>2. Tools!validateWorkflowNode(doc, models, looped)
  BY Zenon DEF Tools!LoadWorkflow
<1>3. doc.fields \subseteq Tools!ClassFields[doc.class]
  <2>1. Tools!IsTree(dir)
    BY ReadingIsRight, Zenon DEF Tools!LoadWorkflow
  <2>. QED
    BY <2>1, Zenon DEF Tools!IsTree, Tools!decodeWorkflowDocument
<1>4. "tools" \in doc.fields
  <2>1. file \in DOMAIN dir.document
    BY BelowHolds DEF Tools!OrderedDocuments
  <2>2. "tools" \in doc.fields \/ doc.tools = <<>>
    BY <2>1, Zenon DEF Tools!IsDirectory
  <2>3. doc.tools # <<>>
    <3>1. DOMAIN doc.tools # {} /\ DOMAIN <<>> = {}
      BY <1>1
    <3>. HIDE DEF doc
    <3>. QED
      BY <3>1, Zenon
  <2>. QED
    BY <2>2, <2>3
<1>5. doc.class \notin {"AcpAgent", "SequentialAgent", "LoopAgent"}
  <2>1. /\ "tools" \notin Tools!ClassFields["AcpAgent"]
        /\ "tools" \notin Tools!ClassFields["SequentialAgent"]
        /\ "tools" \notin Tools!ClassFields["LoopAgent"]
    BY DEF Tools!ClassFields
  <2>. QED
    BY <1>3, <1>4, <2>1
<1>6. Tools!validateWorkflowTool(doc.tools[i], looped)
  BY <1>2, <1>5, Zenon DEF Tools!validateWorkflowNode
<1>7. "exit_loop" \notin Tools!ReadOnlyTools
  BY DEF Tools!ReadOnlyTools
<1>. QED
  BY <1>1, <1>6, <1>7, Zenon DEF Tools!validateWorkflowTool

\* A directory is read exactly when it is a tree.
LEMMA TreesLoad ==
    ASSUME NEW dir, NEW models, Tools!IsDirectory(dir)
    PROVE  Tools!LoadsTrees(dir, models)
BY ReadingIsRight, LeavesFromBelow, Zenon DEF Tools!LoadsTrees

------------------------------------------------------------------------------
(* The files that tools reach                                                *)

\* The names of entries.
Names == STRING

\* What a file system of the model is.
LEMMA FileSystemFits ==
    ASSUME NEW fs \in FileSystems
    PROVE  /\ fs.dirs \cup fs.files \cup DOMAIN fs.target \subseteq Seq(Names)
           /\ fs.target \in [DOMAIN fs.target -> Seq(Names)]
           /\ fs.dirs \cap DOMAIN fs.target = {} /\ fs.files \cap DOMAIN fs.target = {}
           /\ \A path \in fs.dirs \cup fs.files \cup DOMAIN fs.target :
                 path # <<>> => Sandbox!Last(path) \notin {"", ".", ".."}
BY FileSystemsAssumption DEF Sandbox!IsFileSystem, Names

\* Only the first link on a path is one that is followed.
LEMMA OneLink ==
    ASSUME NEW fs \in FileSystems, NEW path \in Seq(Names),
           NEW n \in Sandbox!Links(fs, path), NEW m \in Sandbox!Links(fs, path)
    PROVE  n = m
<1>1. /\ n \in 1..Len(path) /\ m \in 1..Len(path)
      /\ SubSeq(path, 1, n) \in DOMAIN fs.target /\ SubSeq(path, 1, m) \in DOMAIN fs.target
      /\ \A i \in 1..(n - 1) : SubSeq(path, 1, i) \in fs.dirs
      /\ \A i \in 1..(m - 1) : SubSeq(path, 1, i) \in fs.dirs
  BY LenProperties DEF Sandbox!Links
<1>2. fs.dirs \cap DOMAIN fs.target = {}
  BY FileSystemFits
<1>3. ~ m < n
  <2>1. m < n => m \in 1..(n - 1)
    BY <1>1, SMT
  <2>. QED
    BY <1>1, <1>2, <2>1, Zenon
<1>4. ~ n < m
  <2>1. n < m => n \in 1..(m - 1)
    BY <1>1, SMT
  <2>. QED
    BY <1>1, <1>2, <2>1, Zenon
<1>. QED
  BY <1>1, <1>3, <1>4, SMT

\* A link that is followed leads to a path.
LEMMA FollowLinkTyped ==
    ASSUME NEW fs \in FileSystems, NEW path \in Seq(Names)
    PROVE  Sandbox!FollowLink(fs, path) \in Seq(Names)
<1>. DEFINE n == CHOOSE i \in Sandbox!Links(fs, path) : TRUE
<1>1. CASE Sandbox!Links(fs, path) = {}
  BY <1>1, Zenon DEF Sandbox!FollowLink
<1>2. CASE Sandbox!Links(fs, path) # {}
  <2>1. n \in Sandbox!Links(fs, path)
    BY <1>2, Zenon
  <2>2. n \in 1..Len(path) /\ SubSeq(path, 1, n) \in DOMAIN fs.target
    BY <2>1, LenProperties, Zenon DEF Sandbox!Links
  <2>3. fs.target[SubSeq(path, 1, n)] \in Seq(Names)
    BY <2>2, FileSystemFits, Zenon
  <2>4. Sandbox!FollowLink(fs, path)
            = fs.target[SubSeq(path, 1, n)] \o SubSeq(path, n + 1, Len(path))
    BY <1>2, Zenon DEF Sandbox!FollowLink
  <2>. HIDE DEF n
  <2>5. SubSeq(path, n + 1, Len(path)) \in Seq(Names)
    <3>1. \A i \in (n + 1)..Len(path) : path[i] \in Names
      BY <2>2, ElementOfSeq
    <3>. QED
      BY <2>2, <3>1, SubSeqProperties, LenProperties
  <2>. QED
    BY <2>3, <2>4, <2>5, ConcatProperties
<1>. QED
  BY <1>1, <1>2

\* What is before and after a place of a sequence, when an element is appended.
LEMMA PartsOfAppended ==
    ASSUME NEW S, NEW s \in Seq(S), NEW e \in S, NEW n \in 1..Len(s)
    PROVE  /\ Append(s, e) \in Seq(S) /\ Len(Append(s, e)) = Len(s) + 1
           /\ SubSeq(Append(s, e), 1, n) = SubSeq(s, 1, n)
           /\ SubSeq(s, n + 1, Len(s)) \in Seq(S)
           /\ SubSeq(Append(s, e), n + 1, Len(s) + 1) = Append(SubSeq(s, n + 1, Len(s)), e)
<1>. DEFINE t == Append(s, e)
            end == SubSeq(s, n + 1, Len(s))
            rest == SubSeq(t, n + 1, Len(s) + 1)
<1>1. /\ t \in Seq(S) /\ Len(t) = Len(s) + 1 /\ Len(s) \in Nat
      /\ \A i \in 1..Len(s) : t[i] = s[i] /\ s[i] \in S
      /\ t[Len(s) + 1] = e
  BY AppendProperties, ElementOfSeq, LenProperties
<1>. HIDE DEF t
<1>2. SubSeq(t, 1, n) = SubSeq(s, 1, n)
  <2>1. \A i \in 1..n : t[i] \in S /\ s[i] \in S /\ t[i] = s[i]
    BY <1>1
  <2>2. /\ SubSeq(t, 1, n) \in Seq(S) /\ Len(SubSeq(t, 1, n)) = n
        /\ \A i \in 1..n : SubSeq(t, 1, n)[i] = t[i]
    BY <2>1, SubSeqProperties
  <2>3. /\ SubSeq(s, 1, n) \in Seq(S) /\ Len(SubSeq(s, 1, n)) = n
        /\ \A i \in 1..n : SubSeq(s, 1, n)[i] = s[i]
    BY <2>1, SubSeqProperties
  <2>. QED
    BY <2>1, <2>2, <2>3, SeqEqual
<1>3. /\ end \in Seq(S) /\ Len(end) = Len(s) - n
      /\ \A i \in 1..(Len(s) - n) : end[i] = s[n + i]
  BY <1>1, SubSeqProperties
<1>4. /\ rest \in Seq(S) /\ Len(rest) = Len(s) + 1 - n
      /\ \A i \in 1..(Len(s) + 1 - n) : rest[i] = t[n + i]
  <2>1. \A i \in (n + 1)..(Len(s) + 1) : t[i] \in S
    BY <1>1, SMT
  <2>. QED
    BY <1>1, <2>1, SubSeqProperties
<1>5. /\ Append(end, e) \in Seq(S) /\ Len(Append(end, e)) = Len(s) - n + 1
      /\ \A i \in 1..(Len(s) - n) : Append(end, e)[i] = end[i]
      /\ Append(end, e)[Len(s) - n + 1] = e
  BY <1>3, AppendProperties
<1>. HIDE DEF end, rest
<1>6. ASSUME NEW i \in 1..(Len(s) - n + 1) PROVE rest[i] = Append(end, e)[i]
  <2>1. rest[i] = t[n + i]
    BY <1>1, <1>4, SMT
  <2>2. CASE i = Len(s) - n + 1
    <3>1. n + i = Len(s) + 1
      BY <1>1, <2>2, SMT
    <3>. QED
      BY <1>1, <1>5, <2>1, <2>2, <3>1, Zenon
  <2>3. CASE i \in 1..(Len(s) - n)
    <3>1. n + i \in 1..Len(s)
      BY <1>1, <2>3, SMT
    <3>. QED
      BY <1>1, <1>3, <1>5, <2>1, <2>3, <3>1, Zenon
  <2>4. i = Len(s) - n + 1 \/ i \in 1..(Len(s) - n)
    BY <1>1, SMT
  <2>. QED
    BY <2>2, <2>3, <2>4, Zenon
<1>7. rest = Append(end, e)
  <2>1. Len(rest) = Len(Append(end, e)) /\ 1..Len(rest) = 1..(Len(s) - n + 1)
    BY <1>1, <1>4, <1>5, SMT
  <2>. QED
    BY <1>4, <1>5, <1>6, <2>1, SeqEqual
<1>. QED
  BY <1>1, <1>2, <1>3, <1>7 DEF t, end, rest

\* An element is appended to the second of two sequences.
LEMMA AppendedToBoth ==
    ASSUME NEW S, NEW s \in Seq(S), NEW t \in Seq(S), NEW e \in S
    PROVE  s \o Append(t, e) = Append(s \o t, e)
<1>1. Append(t, e) = t \o <<e>> /\ s \o t \in Seq(S) /\ <<e>> \in Seq(S)
  BY AppendIsConcat, ConcatProperties
<1>2. Append(s \o t, e) = (s \o t) \o <<e>>
  BY <1>1, AppendIsConcat
<1>. QED
  BY <1>1, <1>2, ConcatAssociative

\* The links on the way to a directory are those on the way to what is in it.
LEMMA LinkBelow ==
    ASSUME NEW fs \in FileSystems, NEW path \in Seq(Names), NEW name \in Names,
           Sandbox!Links(fs, path) # {}
    PROVE  Sandbox!FollowLink(fs, Append(path, name))
               = Append(Sandbox!FollowLink(fs, path), name)
<1>. DEFINE n == CHOOSE i \in Sandbox!Links(fs, path) : TRUE
            entry == Append(path, name)
            end == SubSeq(path, n + 1, Len(path))
<1>1. n \in Sandbox!Links(fs, path)
  BY Zenon
<1>2. /\ n \in 1..Len(path) /\ SubSeq(path, 1, n) \in DOMAIN fs.target
      /\ \A m \in 1..(n - 1) : SubSeq(path, 1, m) \in fs.dirs
  BY <1>1, LenProperties, Zenon DEF Sandbox!Links
<1>3. /\ entry \in Seq(Names) /\ Len(entry) = Len(path) + 1
      /\ \A m \in 1..Len(path) : SubSeq(entry, 1, m) = SubSeq(path, 1, m)
      /\ end \in Seq(Names)
      /\ SubSeq(entry, n + 1, Len(path) + 1) = Append(end, name)
  <2>. HIDE DEF n
  <2>1. \A m \in 1..Len(path) :
            /\ entry \in Seq(Names) /\ Len(entry) = Len(path) + 1
            /\ SubSeq(entry, 1, m) = SubSeq(path, 1, m)
            /\ SubSeq(path, m + 1, Len(path)) \in Seq(Names)
            /\ SubSeq(entry, m + 1, Len(path) + 1)
                   = Append(SubSeq(path, m + 1, Len(path)), name)
    BY PartsOfAppended
  <2>. QED
    BY <1>2, <2>1, Zenon
<1>4. n \in Sandbox!Links(fs, entry)
  <2>. HIDE DEF n, entry, end
  <2>1. n \in DOMAIN entry /\ \A m \in 1..(n - 1) : m \in 1..Len(path)
    BY <1>2, <1>3, LenProperties
  <2>. QED
    BY <1>2, <1>3, <2>1, Zenon DEF Sandbox!Links
<1>5. (CHOOSE i \in Sandbox!Links(fs, entry) : TRUE) = n
  <2>. DEFINE m == CHOOSE i \in Sandbox!Links(fs, entry) : TRUE
  <2>. HIDE DEF n, entry, end
  <2>1. m \in Sandbox!Links(fs, entry)
    BY <1>4, Zenon
  <2>. HIDE DEF m
  <2>2. m = n
    BY <1>3, <1>4, <2>1, OneLink
  <2>. QED
    BY <2>2 DEF m
<1>6. Sandbox!FollowLink(fs, path) = fs.target[SubSeq(path, 1, n)] \o end
  BY Zenon DEF Sandbox!FollowLink
<1>7. Sandbox!FollowLink(fs, entry)
          = fs.target[SubSeq(entry, 1, n)] \o SubSeq(entry, n + 1, Len(entry))
  <2>. HIDE DEF n, entry
  <2>. QED
    BY <1>4, <1>5, Zenon DEF Sandbox!FollowLink
<1>8. fs.target[SubSeq(path, 1, n)] \in Seq(Names)
  BY <1>2, FileSystemFits, Zenon
<1>. HIDE DEF n, entry, end
<1>9. ASSUME NEW s \in Seq(Names) PROVE s \o Append(end, name) = Append(s \o end, name)
  BY <1>3, AppendedToBoth
<1>. QED
  BY <1>2, <1>3, <1>6, <1>7, <1>8, <1>9, Zenon DEF entry

\* What exists is not behind a link.
LEMMA ExistingIsResolved ==
    ASSUME NEW fs \in FileSystems, NEW path \in Seq(Names), Sandbox!Exists(fs, path)
    PROVE  Sandbox!Links(fs, path) = {}
<1>1. /\ path \in fs.dirs \cup fs.files
      /\ \A m \in 1..(Len(path) - 1) : SubSeq(path, 1, m) \in fs.dirs
  BY DEF Sandbox!Exists
<1>2. fs.dirs \cap DOMAIN fs.target = {} /\ fs.files \cap DOMAIN fs.target = {}
  BY FileSystemFits
<1>3. \A n \in 1..Len(path) : SubSeq(path, 1, n) \notin DOMAIN fs.target
  <2>1. SubSeq(path, 1, Len(path)) = path
    BY SubSeqFull
  <2>2. \A n \in 1..Len(path) : n \in 1..(Len(path) - 1) \/ n = Len(path)
    BY LenProperties
  <2>. QED
    BY <1>1, <1>2, <2>1, <2>2, Zenon
<1>. QED
  BY <1>3, LenProperties, Zenon DEF Sandbox!Links

\* The paths that links lead to, one after the other.
LEMMA FollowedFits ==
    ASSUME NEW fs \in FileSystems, NEW path \in Seq(Names)
    PROVE  LET after == Sandbox!Followed(fs, path)
           IN  /\ after \in [0..MaxLinks -> Seq(Names)]
               /\ after[0] = path
               /\ \A n \in 1..MaxLinks : after[n] = Sandbox!FollowLink(fs, after[n - 1])
<1>. DEFINE Links(f) ==
                f = [n \in 0..MaxLinks |-> IF n = 0 THEN path
                                           ELSE Sandbox!FollowLink(fs, f[n - 1])]
            G == [x \in Nat \X Seq(Names) |-> Sandbox!FollowLink(fs, x[2])]
<1>1. G \in [Nat \X Seq(Names) -> Seq(Names)]
  BY FollowLinkTyped
<1>2. PICK f \in [0..MaxLinks -> Seq(Names)] : Iterates(f, MaxLinks, path, G)
  <2>. DEFINE T == Seq(Names)
  <2>. HIDE DEF G, T
  <2>1. path \in T /\ G \in [Nat \X T -> T]
    BY <1>1 DEF T
  <2>2. \E f \in [0..MaxLinks -> T] : Iterates(f, MaxLinks, path, G)
    BY <2>1, MaxLinksAssumption, FunctionUpTo
  <2>. QED
    BY <2>2 DEF T
<1>3. Links(f)
  <2>1. ASSUME NEW n \in 0..MaxLinks
        PROVE  f[n] = IF n = 0 THEN path ELSE Sandbox!FollowLink(fs, f[n - 1])
    <3>1. n # 0 => n - 1 \in 0..MaxLinks
      BY MaxLinksAssumption, SMT
    <3>2. n # 0 => <<n, f[n - 1]>> \in Nat \X Seq(Names)
      BY <3>1
    <3>3. n # 0 => G[<<n, f[n - 1]>>] = Sandbox!FollowLink(fs, f[n - 1])
      BY <3>2
    <3>4. n # 0 => n \in 1..MaxLinks
      BY MaxLinksAssumption, SMT
    <3>. HIDE DEF G
    <3>. QED
      BY <1>2, <3>3, <3>4, Zenon DEF Iterates
  <2>2. f = [n \in 0..MaxLinks |-> f[n]]
    BY Zenon
  <2>. QED
    BY <2>1, <2>2, Zenon
<1>4. Links(Sandbox!Followed(fs, path))
  <2>1. Links(CHOOSE g : Links(g))
    <3>. HIDE DEF Links
    <3>. QED
      BY <1>3, Zenon
  <2>. QED
    BY <2>1, Zenon DEF Sandbox!Followed
<1>. DEFINE after == Sandbox!Followed(fs, path)
<1>5. \A n \in 0..MaxLinks : after[n] = IF n = 0 THEN path
                                         ELSE Sandbox!FollowLink(fs, after[n - 1])
  <2>. HIDE DEF after
  <2>. QED
    BY <1>4, Zenon DEF after
<1>6. DOMAIN after = 0..MaxLinks /\ after = [n \in 0..MaxLinks |-> after[n]]
  <2>. HIDE DEF after
  <2>. QED
    BY <1>4, Zenon DEF after
<1>. HIDE DEF after
<1>7. after[0] = path /\ \A n \in 1..MaxLinks : after[n] = Sandbox!FollowLink(fs, after[n - 1])
  <2>1. 0 \in 0..MaxLinks /\ \A n \in 1..MaxLinks : n \in 0..MaxLinks /\ n # 0
    BY MaxLinksAssumption, SMT
  <2>. QED
    BY <1>5, <2>1, Zenon
<1>. DEFINE H == {n \in 0..MaxLinks : after[n] \in Seq(Names)}
<1>8. H = 0..MaxLinks
  <2>1. 0 \in H /\ H \in SUBSET (0..MaxLinks)
    BY <1>7, MaxLinksAssumption
  <2>2. \A n \in 1..MaxLinks : n - 1 \in H => n \in H
    <3>1. \A n \in 1..MaxLinks : n \in 0..MaxLinks
      BY SMT
    <3>. QED
      BY <1>7, <3>1, FollowLinkTyped, Zenon
  <2>. HIDE DEF H
  <2>. QED
    BY <2>1, <2>2, MaxLinksAssumption, Induction
<1>. QED
  BY <1>6, <1>7, <1>8, Zenon DEF after

\* The parts of a path, cleaned one after the other.
LEMMA CleanFits ==
    ASSUME NEW path \in Seq(Names)
    PROVE  \E f \in [0..Len(path) -> Seq(Names)] :
              /\ f[0] = Root
              /\ \A n \in 1..Len(path) :
                    f[n] = IF path[n] = "." THEN f[n - 1] ELSE Append(f[n - 1], path[n])
              /\ Sandbox!Clean(path) = f[Len(path)]
<1>. DEFINE Cleans(f) ==
                f = [n \in 0..Len(path) |->
                        IF n = 0 THEN Root
                        ELSE IF path[n] = "." THEN f[n - 1] ELSE Append(f[n - 1], path[n])]
            G == [x \in Nat \X Seq(Names) |->
                     IF x[1] \in 1..Len(path) /\ path[x[1]] # "."
                     THEN Append(x[2], path[x[1]]) ELSE x[2]]
<1>1. Len(path) \in Nat /\ \A n \in 1..Len(path) : path[n] \in Names
  BY LenProperties, ElementOfSeq
<1>2. G \in [Nat \X Seq(Names) -> Seq(Names)]
  <2>1. \A s \in Seq(Names), n \in 1..Len(path) : Append(s, path[n]) \in Seq(Names)
    BY <1>1, AppendProperties
  <2>. QED
    BY <2>1
<1>3. PICK f \in [0..Len(path) -> Seq(Names)] : Iterates(f, Len(path), Root, G)
  <2>. DEFINE T == Seq(Names)
              N == Len(path)
  <2>. HIDE DEF G, T, N
  <2>1. Root \in T /\ G \in [Nat \X T -> T]
    BY <1>2, RootAssumption DEF T, Names
  <2>2. N \in Nat
    BY <1>1 DEF N
  <2>3. \E f \in [0..N -> T] : Iterates(f, N, Root, G)
    BY <2>1, <2>2, FunctionUpTo
  <2>. QED
    BY <2>3 DEF T, N
<1>4. ASSUME NEW n \in 1..Len(path)
      PROVE  f[n] = IF path[n] = "." THEN f[n - 1] ELSE Append(f[n - 1], path[n])
  <2>1. n - 1 \in 0..Len(path) /\ n \in Nat
    BY <1>1, SMT
  <2>2. <<n, f[n - 1]>> \in Nat \X Seq(Names)
    BY <2>1
  <2>3. G[<<n, f[n - 1]>>] = IF path[n] = "." THEN f[n - 1] ELSE Append(f[n - 1], path[n])
    BY <2>2
  <2>. HIDE DEF G
  <2>. QED
    BY <1>3, <2>3, Zenon DEF Iterates
<1>5. f[0] = Root
  BY <1>3, Zenon DEF Iterates
<1>6. Cleans(f)
  <2>1. ASSUME NEW n \in 0..Len(path)
        PROVE  f[n] = IF n = 0 THEN Root
                      ELSE IF path[n] = "." THEN f[n - 1] ELSE Append(f[n - 1], path[n])
    <3>1. n # 0 => n \in 1..Len(path)
      BY <1>1, SMT
    <3>. QED
      BY <1>4, <1>5, <3>1, Zenon
  <2>2. f = [n \in 0..Len(path) |-> f[n]]
    BY Zenon
  <2>. QED
    BY <2>1, <2>2, Zenon
<1>. DEFINE g == CHOOSE h : Cleans(h)
<1>7. Cleans(g)
  <2>. HIDE DEF Cleans
  <2>. QED
    BY <1>6, Zenon
<1>8. Sandbox!Clean(path) = g[Len(path)]
  BY Zenon DEF Sandbox!Clean
<1>. HIDE DEF g
<1>9. \A n \in 0..Len(path) :
          g[n] = IF n = 0 THEN Root
                 ELSE IF path[n] = "." THEN g[n - 1] ELSE Append(g[n - 1], path[n])
  BY <1>7, Zenon
<1>10. g = f
  <2>. DEFINE H == {n \in 0..Len(path) : g[n] = f[n]}
  <2>1. 0 \in H /\ H \in SUBSET (0..Len(path))
    BY <1>1, <1>5, <1>9
  <2>2. ASSUME NEW n \in 1..Len(path), n - 1 \in H PROVE n \in H
    <3>1. n \in 0..Len(path) /\ n # 0
      BY <1>1, SMT
    <3>. QED
      BY <1>4, <1>9, <2>2, <3>1, Zenon
  <2>3. H = 0..Len(path)
    <3>. HIDE DEF H
    <3>. QED
      BY <1>1, <2>1, <2>2, Induction
  <2>4. \A n \in 0..Len(path) : g[n] = f[n]
    BY <2>3, Zenon
  <2>5. g = [n \in 0..Len(path) |-> g[n]]
    BY <1>7, Zenon
  <2>6. f = [n \in 0..Len(path) |-> f[n]]
    BY Zenon
  <2>. QED
    BY <2>4, <2>5, <2>6, Zenon
<1>. QED
  BY <1>4, <1>5, <1>8, <1>10, Zenon

\* Cleaning a path leaves the entry at its end.
LEMMA CleanBelow ==
    ASSUME NEW path \in Seq(Names), NEW name \in Names, name # "."
    PROVE  /\ Sandbox!Clean(path) \in Seq(Names)
           /\ Sandbox!Clean(Append(path, name)) = Append(Sandbox!Clean(path), name)
<1>. DEFINE entry == Append(path, name)
            N == Len(path)
<1>1. /\ entry \in Seq(Names) /\ Len(entry) = N + 1 /\ N \in Nat
      /\ \A i \in 1..N : entry[i] = path[i]
      /\ entry[N + 1] = name
  BY AppendProperties, LenProperties
<1>2. PICK f \in [0..N -> Seq(Names)] :
          /\ f[0] = Root
          /\ \A n \in 1..N : f[n] = IF path[n] = "." THEN f[n - 1] ELSE Append(f[n - 1], path[n])
          /\ Sandbox!Clean(path) = f[N]
  BY CleanFits
<1>. HIDE DEF entry, N
<1>3. PICK g \in [0..(N + 1) -> Seq(Names)] :
          /\ g[0] = Root
          /\ \A n \in 1..(N + 1) :
                g[n] = IF entry[n] = "." THEN g[n - 1] ELSE Append(g[n - 1], entry[n])
          /\ Sandbox!Clean(entry) = g[N + 1]
  <2>1. \E g \in [0..Len(entry) -> Seq(Names)] :
          /\ g[0] = Root
          /\ \A n \in 1..Len(entry) :
                g[n] = IF entry[n] = "." THEN g[n - 1] ELSE Append(g[n - 1], entry[n])
          /\ Sandbox!Clean(entry) = g[Len(entry)]
    BY <1>1, CleanFits, Zenon
  <2>. QED
    BY <1>1, <2>1, Zenon
<1>. DEFINE H == {n \in 0..N : f[n] = g[n]}
<1>4. 0 \in H /\ H \in SUBSET (0..N)
  BY <1>1, <1>2, <1>3
<1>5. ASSUME NEW n \in 1..N, n - 1 \in H PROVE n \in H
  <2>1. n \in 0..N /\ n \in 1..(N + 1)
    BY <1>1, SMT
  <2>. QED
    BY <1>1, <1>2, <1>3, <1>5, <2>1, Zenon
<1>6. H = 0..N
  <2>. HIDE DEF H
  <2>. QED
    BY <1>1, <1>4, <1>5, Induction
<1>7. N \in 0..N /\ N + 1 \in 1..(N + 1) /\ (N + 1) - 1 = N
  BY <1>1, SMT
<1>8. f[N] = g[N] /\ f[N] \in Seq(Names)
  BY <1>6, <1>7, Zenon
<1>9. g[N + 1] = Append(g[N], name)
  <2>1. g[N + 1] = Append(g[(N + 1) - 1], name)
    BY <1>1, <1>3, <1>7, Zenon
  <2>. QED
    BY <1>7, <2>1
<1>. QED
  BY <1>2, <1>3, <1>8, <1>9, Zenon DEF entry

\* A path without a link leads no further.
LEMMA ResolvedStays ==
    ASSUME NEW fs \in FileSystems, NEW path \in Seq(Names), NEW k \in 0..MaxLinks,
           Sandbox!Links(fs, Sandbox!Followed(fs, path)[k]) = {}
    PROVE  Sandbox!Followed(fs, path)[MaxLinks] = Sandbox!Followed(fs, path)[k]
<1>. DEFINE after == Sandbox!Followed(fs, path)
            H == {j \in 0..(MaxLinks - k) : after[k + j] = after[k]}
<1>1. \A n \in 1..MaxLinks : after[n] = Sandbox!FollowLink(fs, after[n - 1])
  BY FollowedFits
<1>. HIDE DEF after
<1>2. 0 \in H /\ H \in SUBSET (0..(MaxLinks - k)) /\ MaxLinks - k \in Nat
  BY MaxLinksAssumption
<1>3. ASSUME NEW j \in 1..(MaxLinks - k), j - 1 \in H PROVE j \in H
  <2>1. k + j \in 1..MaxLinks /\ (k + j) - 1 = k + (j - 1) /\ j \in 0..(MaxLinks - k)
    BY MaxLinksAssumption, SMT
  <2>2. after[k + j] = Sandbox!FollowLink(fs, after[k + (j - 1)])
    BY <1>1, <2>1
  <2>3. after[k + j] = Sandbox!FollowLink(fs, after[k])
    BY <1>3, <2>2, Zenon
  <2>4. Sandbox!FollowLink(fs, after[k]) = after[k]
    BY Zenon DEF Sandbox!FollowLink, after
  <2>. QED
    BY <2>1, <2>3, <2>4, Zenon
<1>4. H = 0..(MaxLinks - k)
  <2>. HIDE DEF H
  <2>. QED
    BY <1>2, <1>3, Induction
<1>5. MaxLinks - k \in 0..(MaxLinks - k) /\ k + (MaxLinks - k) = MaxLinks
  BY MaxLinksAssumption, SMT
<1>6. after[k + (MaxLinks - k)] = after[k]
  BY <1>4, <1>5, Zenon
<1>. QED
  BY <1>5, <1>6 DEF after

\* An entry of a directory is reached over the links that lead to the directory.
LEMMA SharedWay ==
    ASSUME NEW fs \in FileSystems, NEW path \in Seq(Names), NEW name \in Names,
           NEW k \in 0..MaxLinks,
           \A n \in 0..(k - 1) : Sandbox!Links(fs, Sandbox!Followed(fs, path)[n]) # {}
    PROVE  Sandbox!Followed(fs, Append(path, name))[k]
               = Append(Sandbox!Followed(fs, path)[k], name)
<1>. DEFINE after == Sandbox!Followed(fs, path)
            beside == Sandbox!Followed(fs, Append(path, name))
            H == {n \in 0..k : beside[n] = Append(after[n], name)}
<1>1. /\ after[0] = path
      /\ \A n \in 1..MaxLinks : after[n] = Sandbox!FollowLink(fs, after[n - 1])
      /\ \A n \in 0..MaxLinks : after[n] \in Seq(Names)
  BY FollowedFits
<1>2. /\ beside[0] = Append(path, name)
      /\ \A n \in 1..MaxLinks : beside[n] = Sandbox!FollowLink(fs, beside[n - 1])
  <2>1. Append(path, name) \in Seq(Names)
    BY AppendProperties
  <2>. HIDE DEF after
  <2>. QED
    BY <2>1, FollowedFits
<1>3. \A n \in 0..(k - 1) : Sandbox!Links(fs, after[n]) # {}
  OBVIOUS
<1>. HIDE DEF after, beside
<1>4. 0 \in H /\ H \in SUBSET (0..k) /\ k \in Nat
  BY <1>1, <1>2, MaxLinksAssumption
<1>5. ASSUME NEW n \in 1..k, n - 1 \in H PROVE n \in H
  <2>1. n \in 0..k /\ n \in 1..MaxLinks /\ n - 1 \in 0..(k - 1) /\ n - 1 \in 0..MaxLinks
    BY MaxLinksAssumption, SMT
  <2>2. beside[n - 1] = Append(after[n - 1], name)
    BY <1>5, Zenon
  <2>3. Sandbox!FollowLink(fs, Append(after[n - 1], name))
            = Append(Sandbox!FollowLink(fs, after[n - 1]), name)
    BY <1>1, <1>3, <2>1, LinkBelow
  <2>. QED
    BY <1>1, <1>2, <2>1, <2>2, <2>3, Zenon
<1>6. H = 0..k
  <2>. HIDE DEF H
  <2>. QED
    BY <1>4, <1>5, Induction
<1>. QED
  BY <1>4, <1>6 DEF after, beside

\* The way to a path goes on as the way from a path on it.
LEMMA WayGoesOn ==
    ASSUME NEW fs \in FileSystems, NEW path \in Seq(Names), NEW from \in Seq(Names),
           NEW k \in 0..MaxLinks, Sandbox!Followed(fs, path)[k] = from
    PROVE  Sandbox!Followed(fs, path)[MaxLinks] = Sandbox!Followed(fs, from)[MaxLinks - k]
<1>. DEFINE after == Sandbox!Followed(fs, path)
            on == Sandbox!Followed(fs, from)
            H == {j \in 0..(MaxLinks - k) : after[k + j] = on[j]}
<1>1. \A n \in 1..MaxLinks : after[n] = Sandbox!FollowLink(fs, after[n - 1])
  BY FollowedFits
<1>2. on[0] = from /\ \A n \in 1..MaxLinks : on[n] = Sandbox!FollowLink(fs, on[n - 1])
  BY FollowedFits
<1>3. after[k] = from
  OBVIOUS
<1>. HIDE DEF after, on
<1>4. 0 \in H /\ H \in SUBSET (0..(MaxLinks - k)) /\ MaxLinks - k \in Nat
  BY <1>2, <1>3, MaxLinksAssumption
<1>5. ASSUME NEW j \in 1..(MaxLinks - k), j - 1 \in H PROVE j \in H
  <2>1. /\ k + j \in 1..MaxLinks /\ (k + j) - 1 = k + (j - 1) /\ j \in 0..(MaxLinks - k)
        /\ j \in 1..MaxLinks
    BY MaxLinksAssumption, SMT
  <2>2. after[k + j] = Sandbox!FollowLink(fs, after[k + (j - 1)])
    BY <1>1, <2>1
  <2>. QED
    BY <1>2, <1>5, <2>1, <2>2, Zenon
<1>6. H = 0..(MaxLinks - k)
  <2>. HIDE DEF H
  <2>. QED
    BY <1>4, <1>5, Induction
<1>7. MaxLinks - k \in 0..(MaxLinks - k) /\ k + (MaxLinks - k) = MaxLinks
  BY MaxLinksAssumption, SMT
<1>8. after[k + (MaxLinks - k)] = on[MaxLinks - k]
  BY <1>6, <1>7, Zenon
<1>. QED
  BY <1>7, <1>8 DEF after, on

\* Where an entry of a directory leads: over the links to the directory, then
\* from the entry on, within what is left of the links.
LEMMA EntryLeads ==
    ASSUME NEW fs \in FileSystems, NEW path \in Seq(Names), NEW name \in Names,
           Sandbox!Exists(fs, Sandbox!Followed(fs, path)[MaxLinks])
    PROVE  \E k \in 0..MaxLinks :
              Sandbox!Followed(fs, Append(path, name))[MaxLinks]
                  = Sandbox!Followed(fs,
                        Append(Sandbox!Followed(fs, path)[MaxLinks], name))[k]
<1>. DEFINE after == Sandbox!Followed(fs, path)
            dir == after[MaxLinks]
            Ends == {n \in 0..MaxLinks : Sandbox!Links(fs, after[n]) = {}}
<1>1. \A n \in 0..MaxLinks : after[n] \in Seq(Names)
  BY FollowedFits
<1>2. MaxLinks \in Ends
  <2>1. MaxLinks \in 0..MaxLinks
    BY MaxLinksAssumption
  <2>2. dir \in Seq(Names)
    BY <1>1, <2>1
  <2>. HIDE DEF after
  <2>3. Sandbox!Links(fs, dir) = {}
    BY <2>2, ExistingIsResolved DEF after
  <2>. QED
    BY <2>1, <2>3
<1>3. PICK k \in Ends : \A m \in Ends : k <= m
  <2>1. Ends \in SUBSET Nat /\ Ends # {}
    BY <1>2, MaxLinksAssumption
  <2>. HIDE DEF Ends
  <2>. QED
    BY <2>1, LeastNatural
<1>4. k \in 0..MaxLinks /\ Sandbox!Links(fs, after[k]) = {}
  OBVIOUS
<1>5. \A n \in 0..(k - 1) : Sandbox!Links(fs, after[n]) # {}
  <2>1. \A n \in 0..(k - 1) : n \in 0..MaxLinks /\ ~ k <= n
    BY <1>4, MaxLinksAssumption, SMT
  <2>. QED
    BY <1>3, <2>1, Zenon
<1>6. after[MaxLinks] = after[k]
  <2>. HIDE DEF Ends
  <2>. QED
    BY <1>4, ResolvedStays
<1>. DEFINE beside == Sandbox!Followed(fs, Append(path, name))
<1>7. beside[k] = Append(dir, name)
  <2>. HIDE DEF Ends
  <2>1. beside[k] = Append(after[k], name)
    BY <1>4, <1>5, SharedWay
  <2>. QED
    BY <1>6, <2>1, Zenon
<1>8. Append(path, name) \in Seq(Names) /\ Append(dir, name) \in Seq(Names)
  <2>1. dir \in Seq(Names)
    BY <1>1, <1>4, <1>6
  <2>. HIDE DEF dir
  <2>. QED
    BY <2>1, AppendProperties
<1>. DEFINE entry == Append(path, name)
            from == Append(dir, name)
<1>9. Sandbox!Followed(fs, entry)[MaxLinks] = Sandbox!Followed(fs, from)[MaxLinks - k]
  <2>1. entry \in Seq(Names) /\ from \in Seq(Names) /\ Sandbox!Followed(fs, entry)[k] = from
    BY <1>7, <1>8, Zenon
  <2>. HIDE DEF entry, from, Ends
  <2>. QED
    BY <1>4, <2>1, WayGoesOn
<1>10. MaxLinks - k \in 0..MaxLinks
  BY <1>4, MaxLinksAssumption, SMT
<1>. QED
  BY <1>9, <1>10, Zenon

\* What exists has a name that is no empty one.
LEMMA ExistingIsAvailable ==
    ASSUME NEW fs \in FileSystems, NEW path, path \in fs.dirs \cup fs.files
    PROVE  path # Sandbox!Unavailable /\ path \in Seq(Names)
<1>1. path \in Seq(Names) /\ (path # <<>> => Sandbox!Last(path) # "")
  <2>1. \A p \in fs.dirs \cup fs.files \cup DOMAIN fs.target :
            p \in Seq(Names) /\ (p # <<>> => Sandbox!Last(p) \notin {"", ".", ".."})
    BY FileSystemFits, Zenon
  <2>. QED
    BY <2>1
<1>2. path # <<"">>
  <2>1. <<"">> # <<>> /\ Sandbox!Last(<<"">>) = ""
    BY DEF Sandbox!Last
  <2>. QED
    BY <1>1, <2>1, Zenon
<1>. QED
  BY <1>1, <1>2 DEF Sandbox!Unavailable

\* Where a path leads that is reached.
LEMMA ReachedFits ==
    ASSUME NEW fs \in FileSystems, NEW path \in Seq(Names),
           Sandbox!Reached(fs, path) \in fs.dirs \cup fs.files
    PROVE  LET end == Sandbox!Followed(fs, Sandbox!Clean(path))[MaxLinks]
           IN  /\ Sandbox!Reached(fs, path) = end
               /\ Sandbox!Exists(fs, end)
               /\ Sandbox!withinRoot(Sandbox!Clean(path)) /\ Sandbox!withinRoot(end)
               /\ ~ Sandbox!anyRestrictedSegment(Sandbox!Relative(end))
<1>1. Sandbox!Reached(fs, path) # Sandbox!Unavailable
  BY ExistingIsAvailable
<1>. DEFINE target == Sandbox!EvalSymlinks(fs, Sandbox!Clean(path))
<1>2. /\ Sandbox!Reached(fs, path) = target
      /\ Sandbox!withinRoot(Sandbox!Clean(path)) /\ Sandbox!withinRoot(target)
      /\ ~ Sandbox!anyRestrictedSegment(Sandbox!Relative(target))
  BY <1>1, Zenon DEF Sandbox!Reached
<1>3. target # Sandbox!Unavailable
  BY <1>1, <1>2, Zenon
<1>4. /\ target = Sandbox!Followed(fs, Sandbox!Clean(path))[MaxLinks]
      /\ Sandbox!Exists(fs, Sandbox!Followed(fs, Sandbox!Clean(path))[MaxLinks])
  BY <1>3, Zenon DEF Sandbox!EvalSymlinks
<1>. QED
  BY <1>2, <1>4, Zenon

\* A root that a path lies in, the entries of that path lie in.
LEMMA EntryIsWithin ==
    ASSUME NEW path \in Seq(Names), NEW name \in Names, Sandbox!withinRoot(path)
    PROVE  Sandbox!withinRoot(Append(path, name))
<1>1. Root \in Seq(Names)
  BY RootAssumption DEF Names
<1>. QED
  BY <1>1, AppendProperties, LenProperties
  DEF Sandbox!withinRoot, Sandbox!IsPrefix

\* What a directory lists is what can be read of it.
LEMMA EntryIsReadable ==
    ASSUME NEW fs \in FileSystems, NEW path \in Seq(Names),
           Sandbox!Opens(fs, path),
           NEW name \in Sandbox!Entries(fs, Sandbox!Reached(fs, path)), name \notin Backup
    PROVE  LET entry == Append(path, name)
           IN  /\ Sandbox!Reads(fs, entry) \/ Sandbox!Opens(fs, entry)
                     => name \in Sandbox!listDirectory(fs, path)
               /\ name \in Sandbox!listDirectory(fs, path)
                     => \/ Sandbox!Reads(fs, entry)
                        \/ Sandbox!Opens(fs, entry)
                        \/ Sandbox!TooManyLinks(fs, entry)
<1>. DEFINE entry == Append(path, name)
            dir == Sandbox!Reached(fs, path)
            below == Append(dir, name)
            end == Sandbox!Followed(fs, Sandbox!Clean(entry))[MaxLinks]
            listed == Sandbox!Followed(fs, below)[MaxLinks]
<1>1. Sandbox!ValidPath(path) /\ dir \in fs.dirs
  BY Zenon DEF Sandbox!Opens
<1>2. /\ dir = Sandbox!Followed(fs, Sandbox!Clean(path))[MaxLinks]
      /\ Sandbox!Exists(fs, dir) /\ Sandbox!withinRoot(Sandbox!Clean(path))
      /\ dir \in Seq(Names)
  BY <1>1, ReachedFits, ExistingIsAvailable
<1>3. name \in Names /\ name \notin {"", ".", ".."}
  <2>1. PICK q \in fs.dirs \cup fs.files \cup DOMAIN fs.target :
            q # <<>> /\ name = Sandbox!Last(q)
    BY Zenon DEF Sandbox!Entries
  <2>2. q \in Seq(Names) /\ Sandbox!Last(q) \notin {"", ".", ".."}
    <3>1. \A p \in fs.dirs \cup fs.files \cup DOMAIN fs.target :
              p \in Seq(Names) /\ (p # <<>> => Sandbox!Last(p) \notin {"", ".", ".."})
      BY FileSystemFits, Zenon
    <3>. QED
      BY <2>1, <3>1, Zenon
  <2>3. q[Len(q)] \in Names
    <3>1. Len(q) \in 1..Len(q)
      <4>1. q \in Seq(Names) /\ q # <<>>
        BY <2>1, <2>2, Zenon
      <4>. QED
        BY <4>1, EmptySeq
    <3>2. q \in Seq(Names)
      BY <2>2, Zenon
    <3>. QED
      BY <3>1, <3>2, ElementOfSeq
  <2>. QED
    BY <2>1, <2>2, <2>3 DEF Sandbox!Last
<1>4. /\ Sandbox!Clean(entry) = Append(Sandbox!Clean(path), name)
      /\ Sandbox!Clean(path) \in Seq(Names)
  BY <1>3, CleanBelow
<1>5. /\ entry \in Seq(Names) /\ below \in Seq(Names) /\ Sandbox!Clean(entry) \in Seq(Names)
  <2>. HIDE DEF dir
  <2>1. Append(path, name) \in Seq(Names) /\ Append(dir, name) \in Seq(Names)
    BY <1>2, <1>3, AppendProperties
  <2>2. Append(Sandbox!Clean(path), name) \in Seq(Names)
    BY <1>3, <1>4, AppendProperties
  <2>. QED
    BY <1>4, <2>1, <2>2, Zenon
<1>6. Sandbox!withinRoot(Sandbox!Clean(entry))
  BY <1>2, <1>3, <1>4, EntryIsWithin
<1>7. PICK k \in 0..MaxLinks : end = Sandbox!Followed(fs, below)[k]
  <2>1. Sandbox!Exists(fs, Sandbox!Followed(fs, Sandbox!Clean(path))[MaxLinks])
    BY <1>2, Zenon
  <2>2. \E k \in 0..MaxLinks :
            Sandbox!Followed(fs, Append(Sandbox!Clean(path), name))[MaxLinks]
                = Sandbox!Followed(fs,
                      Append(Sandbox!Followed(fs, Sandbox!Clean(path))[MaxLinks], name))[k]
    BY <1>3, <1>4, <2>1, EntryLeads
  <2>. QED
    BY <1>2, <1>4, <2>2, Zenon
<1>8. Sandbox!Links(fs, end) = {} => listed = end
  <2>. HIDE DEF end, below
  <2>. QED
    BY <1>5, <1>7, ResolvedStays
<1>9. Sandbox!ValidPath(entry) <=> name \notin Sandbox!RestrictedNames
  <2>. DEFINE N == Len(path)
  <2>3. /\ Append(path, name) \in Seq(Names) /\ Len(Append(path, name)) = N + 1
        /\ \A i \in 1..N : Append(path, name)[i] = path[i]
        /\ Append(path, name)[N + 1] = name
    <3>1. name \in Names
      BY <1>3, Zenon
    <3>. QED
      BY <3>1, AppendProperties
  <2>4. /\ N \in Nat /\ DOMAIN path = 1..N
        /\ DOMAIN Append(path, name) = 1..Len(Append(path, name))
    BY <2>3, LenProperties
  <2>5. N + 1 \in 1..(N + 1) /\ \A n \in 1..(N + 1) : n = N + 1 \/ n \in 1..N
    BY <2>4, SMT
  <2>1. \A n \in DOMAIN entry : entry[n] = name \/ (n \in DOMAIN path /\ entry[n] = path[n])
    BY <2>3, <2>4, <2>5, Zenon
  <2>2. (N + 1) \in DOMAIN entry /\ entry[N + 1] = name
    BY <2>3, <2>4, <2>5, Zenon
  <2>. HIDE DEF entry
  <2>. QED
    BY <1>1, <1>3, <2>1, <2>2, Zenon DEF Sandbox!ValidPath
<1>. HIDE DEF entry, dir, below, end, listed
<1>10. ASSUME Sandbox!Reads(fs, entry) \/ Sandbox!Opens(fs, entry)
       PROVE  name \in Sandbox!listDirectory(fs, path)
  <2>1. Sandbox!ValidPath(entry) /\ Sandbox!Reached(fs, entry) \in fs.dirs \cup fs.files
    <3>1. Sandbox!readFile(fs, entry) # Sandbox!Unavailable
              => Sandbox!Reached(fs, entry) \in fs.files
      BY Zenon DEF Sandbox!readFile
    <3>. QED
      BY <1>10, <3>1, Zenon DEF Sandbox!Reads, Sandbox!Opens
  <2>2. /\ Sandbox!Reached(fs, entry) = end /\ Sandbox!Exists(fs, end)
        /\ Sandbox!withinRoot(end) /\ ~ Sandbox!anyRestrictedSegment(Sandbox!Relative(end))
    BY <1>5, <2>1, ReachedFits DEF end
  <2>3. end # Sandbox!Unavailable /\ Sandbox!Links(fs, end) = {}
    BY <2>1, <2>2, ExistingIsAvailable, ExistingIsResolved
  <2>4. Sandbox!EvalSymlinks(fs, below) = end
    BY <1>8, <2>2, <2>3, Zenon DEF Sandbox!EvalSymlinks, listed
  <2>5. Sandbox!Listed(fs, dir, name)
    BY <1>9, <2>1, <2>2, <2>3, <2>4, Zenon DEF Sandbox!Listed, below
  <2>. QED
    BY <1>1, <2>5, Zenon DEF Sandbox!listDirectory, dir
<1>11. ASSUME name \in Sandbox!listDirectory(fs, path), ~ Sandbox!TooManyLinks(fs, entry)
       PROVE  Sandbox!Reads(fs, entry) \/ Sandbox!Opens(fs, entry)
  <2>1. Sandbox!Listed(fs, dir, name)
    BY <1>1, <1>11, Zenon DEF Sandbox!listDirectory, dir
  <2>2. Sandbox!Links(fs, end) = {}
    BY <1>11, Zenon DEF Sandbox!TooManyLinks, end
  <2>3. listed = end /\ name \notin Sandbox!RestrictedNames
    BY <1>8, <2>1, <2>2, Zenon DEF Sandbox!Listed
  <2>4. /\ Sandbox!EvalSymlinks(fs, below) = end /\ Sandbox!Exists(fs, end)
        /\ Sandbox!withinRoot(end) /\ ~ Sandbox!anyRestrictedSegment(Sandbox!Relative(end))
    BY <2>1, <2>3, Zenon DEF Sandbox!Listed, Sandbox!EvalSymlinks, below, listed
  <2>5. Sandbox!EvalSymlinks(fs, Sandbox!Clean(entry)) = end
    BY <2>4, Zenon DEF Sandbox!EvalSymlinks, end
  <2>6. Sandbox!Reached(fs, entry) = end
    BY <1>6, <2>4, <2>5, Zenon DEF Sandbox!Reached
  <2>7. end \in fs.dirs \cup fs.files
    BY <2>4, Zenon DEF Sandbox!Exists
  <2>8. end # Sandbox!Unavailable
    BY <2>7, ExistingIsAvailable
  <2>9. Sandbox!ValidPath(entry)
    BY <1>9, <2>3
  <2>. QED
    BY <2>6, <2>7, <2>8, <2>9, Zenon DEF Sandbox!Reads, Sandbox!Opens, Sandbox!readFile
<1>. QED
  BY <1>10, <1>11, Zenon DEF entry

\* What is read lies in the project, and in no restricted directory of it.
LEMMA ReadIsInside ==
    ASSUME NEW fs \in FileSystems, NEW path \in Seq(Names), Sandbox!Reads(fs, path)
    PROVE  LET target == Sandbox!readFile(fs, path)
           IN  /\ Sandbox!IsPrefix(Root, target)
               /\ \A n \in Len(Root) + 1..Len(target) :
                     target[n] \notin Sandbox!RestrictedNames
<1>. DEFINE target == Sandbox!readFile(fs, path)
<1>1. target = Sandbox!Reached(fs, path) /\ target \in fs.files
  BY Zenon DEF Sandbox!Reads, Sandbox!readFile
<1>. HIDE DEF target
<1>2. /\ Sandbox!withinRoot(target) /\ ~ Sandbox!anyRestrictedSegment(Sandbox!Relative(target))
      /\ target \in Seq(Names) /\ Root \in Seq(Names)
  BY <1>1, ReachedFits, ExistingIsAvailable, RootAssumption DEF Names
<1>3. ASSUME NEW n \in (Len(Root) + 1)..Len(target)
      PROVE  /\ n - Len(Root) \in DOMAIN Sandbox!Relative(target)
             /\ Sandbox!Relative(target)[n - Len(Root)] = target[n]
  BY <1>2, LenProperties, SMT DEF Sandbox!Relative
<1>4. ASSUME NEW n \in (Len(Root) + 1)..Len(target)
      PROVE  target[n] \notin Sandbox!RestrictedNames
  BY <1>2, <1>3, Zenon DEF Sandbox!anyRestrictedSegment
<1>. QED
  BY <1>2, <1>4, Zenon DEF Sandbox!withinRoot, target

\* The invariant of the sandbox: what is looked at is a file system and a path.
SandboxInv == \A look \in probe : look.fs \in FileSystems /\ look.path \in Paths

\* Whatever a project holds, its directories list what the tools read of them, and
\* what they read is inside of it.
LEMMA FitsIsReadable == SandboxInv => Sandbox!ListedIsReadable
<1>. SUFFICES ASSUME SandboxInv, NEW look \in probe
              PROVE  /\ Sandbox!Opens(look.fs, look.path) =>
                            \A name \in Sandbox!Entries(look.fs,
                                            Sandbox!Reached(look.fs, look.path)) \ Backup :
                                LET entry == Append(look.path, name) IN
                                /\ \/ Sandbox!Reads(look.fs, entry)
                                   \/ Sandbox!Opens(look.fs, entry)
                                   => name \in Sandbox!listDirectory(look.fs, look.path)
                                /\ name \in Sandbox!listDirectory(look.fs, look.path)
                                   => \/ Sandbox!Reads(look.fs, entry)
                                      \/ Sandbox!Opens(look.fs, entry)
                                      \/ Sandbox!TooManyLinks(look.fs, entry)
                     /\ Sandbox!Reads(look.fs, look.path) =>
                            LET target == Sandbox!readFile(look.fs, look.path)
                            IN  /\ Sandbox!IsPrefix(Root, target)
                                /\ \A n \in Len(Root) + 1..Len(target) :
                                      target[n] \notin Sandbox!RestrictedNames
  BY Zenon DEF Sandbox!ListedIsReadable
<1>1. look.fs \in FileSystems /\ look.path \in Seq(Names)
  BY PathsAssumption DEF SandboxInv, Names
<1>. QED
  BY <1>1, EntryIsReadable, ReadIsInside, Zenon

LEMMA SandboxStepKeeps == SandboxInv /\ Sandbox!Next => SandboxInv'
<1>. SUFFICES ASSUME Sandbox!Next PROVE SandboxInv'
  OBVIOUS
<1>1. PICK fs \in FileSystems, path \in Paths : probe' = {[fs |-> fs, path |-> path]}
  BY DEF Sandbox!Next, Sandbox!Look
<1>. QED
  BY <1>1 DEF SandboxInv

------------------------------------------------------------------------------
(* The components together                                                   *)

\* A step of Agents is a step of one component and a stutter of the others.
LEMMA AgentsAreComponents == AgentsSpec => []AcpInv /\ []ShimInv /\ []ToolsInv /\ []SandboxInv
<1>1. AgentsInit => AcpInv /\ ShimInv /\ ToolsInv /\ SandboxInv
  BY InitFits, ShimInitFits, ToolsInitFits DEF AgentsInit, SandboxInv, Sandbox!Init
<1>2. AcpInv /\ [AgentsNext]_agentsVars => AcpInv'
  BY NextKeeps DEF AgentsNext, ClientStep, ShimStep, ToolStep, SandboxStep, agentsVars
<1>3. ShimInv /\ [AgentsNext]_agentsVars => ShimInv'
  <2>1. UNCHANGED shimVars => UNCHANGED Shim!vars
    BY DEF shimVars, Shim!vars, Shim!cliVars, Shim!exchangeVars, Shim!pipeVars, Shim!shimVars,
           Shim!codexVars
  <2>. QED
    BY <2>1, ShimNextKeeps
    DEF AgentsNext, ClientStep, ShimStep, ToolStep, SandboxStep, agentsVars
<1>4. ToolsInv /\ [AgentsNext]_agentsVars => ToolsInv'
  <2>1. UNCHANGED toolVars => UNCHANGED Tools!vars
    BY DEF toolVars, Tools!vars, Tools!runVars
  <2>. QED
    BY <2>1, ToolsNextKeeps
    DEF AgentsNext, ClientStep, ShimStep, ToolStep, SandboxStep, agentsVars
<1>5. SandboxInv /\ [AgentsNext]_agentsVars => SandboxInv'
  <2>1. UNCHANGED probe => (SandboxInv => SandboxInv')
    BY DEF SandboxInv
  <2>. QED
    BY <2>1, SandboxStepKeeps
    DEF AgentsNext, ClientStep, ShimStep, ToolStep, SandboxStep, agentsVars
<1>. QED
  BY <1>1, <1>2, <1>3, <1>4, <1>5, PTL DEF AgentsSpec

\* An answer is all that the agent said from its last answer before the prompt to
\* its answer to the prompt, one of a shim has been earned, and so has that of a
\* workflow (see AcpClient, AgentCLI, CodexShim and RootTools).
THEOREM AgentAnswersAreEarned == AgentsSpec => []AnswersAreEarned
<1>1. AcpInv /\ ShimInv /\ ToolsInv => AnswersAreEarned
  BY FitsIsWhole, FitsIsDeserved, FitsIsCompleted, AnswerFitsIsEarned
  DEF AnswersAreEarned, ShimInv
<1>. QED
  BY <1>1, AgentsAreComponents, PTL

\* What startup accepts is read to its last field, and a turn can build it (see
\* AgentDefinitions and RootTools).
THEOREM StartsAreSound == AgentsSpec => []StartIsSound
<1>1. ToolsInv => StartIsSound
  BY FitsIsRead, FitsBuilds DEF StartIsSound
<1>. QED
  BY <1>1, AgentsAreComponents, PTL

\* Whatever documents the directory of a workflow holds and however they refer to
\* each other, reading it accepts exactly the trees within the limits, gives all
\* their documents, and what leaves a loop is below one (see WorkflowDefinition).
THEOREM TreesAreRead == AgentsSpec => []OnlyTreesLoad
<1>1. ToolsInv => OnlyTreesLoad
  <2>1. ASSUME ToolsInv, stage = "configured", NEW id \in DOMAIN config.dirs
        PROVE  Tools!LoadsTrees(Tools!Dir(id), Tools!Models)
    <3>1. config \in Setups
      BY <2>1 DEF ToolsInv, StartFits
    <3>2. Tools!IsDirectory(Tools!Dir(id))
      BY <2>1, <3>1, SetupsAssumption, Zenon DEF Tools!IsConfiguration, Tools!Dir
    <3>. QED
      BY <3>2, TreesLoad
  <2>. QED
    BY <2>1, Zenon DEF OnlyTreesLoad, Tools!OnlyTreesLoad
<1>. QED
  BY <1>1, AgentsAreComponents, PTL

\* Whatever files and links a project holds, a directory lists exactly what the
\* tools then read or list of it, but for names and ways they refuse; and what is
\* read is in the project, and in no restricted directory of it (see FileSandbox).
THEOREM FilesAreInside == AgentsSpec => []ListedIsReadable
<1>1. SandboxInv => ListedIsReadable
  BY FitsIsReadable DEF ListedIsReadable
<1>. QED
  BY <1>1, AgentsAreComponents, PTL
=============================================================================
