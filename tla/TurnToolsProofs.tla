--------------------------- MODULE TurnToolsProofs ---------------------------
(***************************************************************************)
(* Proofs about TurnTools for every set of calls, users, documents and     *)
(* questions, and every limit. First the progress message, whose           *)
(* definitions have no prefix, then the canvases and the sandbox; those    *)
(* about exports are in GeneratedFileProofs. A step of TurnTools is a step *)
(* of one component and a stutter of the others, so what holds of each     *)
(* component holds of all of them.                                         *)
(***************************************************************************)
EXTENDS TurnTools, Sequences, FiniteSetTheorems, TLAPS

-----------------------------------------------------------------------------
(* The progress message                                                      *)

ProgressStates == {"none"} \cup Unfinished \cup Terminal
HandlerPlaces == {"idle", "post", "mark", "model", "finalize", "confirm", "prompted", "find",
                  "resume", "publish", "listed", "slack", "store"}
Handlers == [pc : HandlerPlaces, op : SUBSET Questions, mine : ProgressStates, ts : BOOLEAN,
             next : HandlerPlaces]

ProgressTyped ==
    /\ row \in [Questions -> ProgressStates]
    /\ shown \in [Questions -> ProgressStates]
    /\ rowTs \subseteq asked /\ asked \subseteq Questions
    /\ shared \subseteq Questions /\ trouble \subseteq Questions /\ undecided \subseteq Questions
    /\ act \in [Actors -> Handlers]

\* The states a handler has at a place, when it holds a row.
StatesAt(place) ==
    CASE place \in {"post", "mark", "model", "resume"} -> {"working"}
      [] place \in {"finalize", "publish"} -> {"finalizing"}
      [] place \in {"confirm", "prompted"} -> {"waiting_confirmation"}
      [] place = "listed" -> Unfinished
      [] place = "idle" -> Terminal \cup {"waiting_confirmation"}
      [] OTHER -> {}

Updating == {"slack", "store"}

\* Where an update may lead.
Nexts == {"idle", "finalize", "confirm", "resume", "publish"}

\* What a handler holds, and with which state, where it stands.
HandlerFits(a) ==
    /\ act[a].pc \in {"idle", "find"} => act[a].op = {}
    /\ act[a].op = {} => act[a].pc \notin {"post", "mark", "listed", "slack", "store"}
    /\ act[a].op # {} =>
           /\ \E q \in asked : act[a].op = {q}
           /\ a[1] \in {"ask", "start"} => act[a].op = {a[2]}
           /\ act[a].mine \in StatesAt(IF act[a].pc \in Updating THEN act[a].next ELSE act[a].pc)
           /\ a[1] = "ask" => act[a].ts = (act[a].pc # "post")
           /\ act[a].pc = "slack" => act[a].ts
           /\ act[a].pc \in Updating => act[a].next \in Nexts
    /\ act[a].pc \in {"post", "mark"} => a[1] = "ask"
    /\ act[a].pc = "listed" => a[1] = "start"

Moving == {"working", "finalizing"}

\* What a handler may rely on for a row that no other has held with it.
HolderFits(a, q) ==
    /\ row[q] \in Unfinished
    /\ act[a].pc \in {"post", "mark"} => row[q] = "working"
    /\ a[1] = "ask" /\ Waits(q) => act[a].mine \notin Moving
    /\ ~act[a].ts => /\ q \notin rowTs
                     /\ act[a].pc \notin {"listed", "post"} => shown[q] \notin Moving
    /\ a[1] # "ask" /\ act[a].ts => q \in rowTs
    /\ act[a].pc = "store" /\ act[a].ts => shown[q] = act[a].mine
    /\ act[a].pc \in {"confirm", "prompted"} /\ q \notin trouble => ~(shown[q] \in Moving)

\* The store is not ahead of Slack.
RowFits(q) ==
    /\ shown[q] \in Moving => row[q] \in Unfinished
    /\ q \in rowTs /\ shown[q] \in Unfinished => row[q] \in Unfinished
    /\ q \notin rowTs /\ Waits(q) => shown[q] \notin Moving

Settled(q) == phase # "down" /\ q \notin trouble => shown[q] \notin Moving

QuestionFits(q) ==
    /\ \A a, b \in HeldBy(q) : a = b
    /\ \A a \in HeldBy(q) : HolderFits(a, q)
    /\ RowFits(q)
    /\ HeldBy(q) = {} => Settled(q)

ProgressInv ==
    /\ ProgressTyped
    /\ \A a \in Actors : HandlerFits(a)
    /\ \A q \in Questions \ asked : row[q] = "none"
    /\ \A q \in Questions \ shared : QuestionFits(q)

-----------------------------------------------------------------------------
(* Handlers                                                                  *)

LEMMA RoleFacts ==
    ASSUME NEW q \in Questions
    PROVE  /\ Ask(q) \in Actors /\ Ask(q)[1] = "ask" /\ Ask(q)[2] = q
           /\ Resume(q) \in Actors /\ Resume(q)[1] = "resume" /\ Resume(q)[2] = q
           /\ Start(q) \in Actors /\ Start(q)[1] = "start" /\ Start(q)[2] = q
BY DEF Ask, Resume, Start, Actors

LEMMA GotoFacts ==
    ASSUME NEW h \in Handlers, NEW label \in HandlerPlaces
    PROVE  /\ Goto(h, label) \in Handlers
           /\ Goto(h, label).pc = label
           /\ label = "idle" => Goto(h, label).op = {}
           /\ label # "idle" => /\ Goto(h, label).op = h.op /\ Goto(h, label).mine = h.mine
                                /\ Goto(h, label).ts = h.ts /\ Goto(h, label).next = h.next
<1>1. CASE label = "idle"
  BY <1>1 DEF Goto, Idle, Handlers, HandlerPlaces, ProgressStates
<1>2. CASE label # "idle"
  BY <1>2 DEF Goto, Handlers
<1> QED BY <1>1, <1>2

LEMMA UpdateFacts ==
    ASSUME NEW h \in Handlers, NEW state \in ProgressStates, NEW next \in HandlerPlaces
    PROVE  /\ UpdateProgress(h, state, next) \in Handlers
           /\ h.op = {} \/ h.mine \in Terminal => UpdateProgress(h, state, next) = Goto(h, next)
           /\ h.op # {} /\ h.mine \notin Terminal =>
                  /\ UpdateProgress(h, state, next).pc = IF h.ts THEN "slack" ELSE "store"
                  /\ UpdateProgress(h, state, next).op = h.op
                  /\ UpdateProgress(h, state, next).mine = state
                  /\ UpdateProgress(h, state, next).ts = h.ts
                  /\ UpdateProgress(h, state, next).next = next
<1>1. CASE h.op = {} \/ h.mine \in Terminal
  BY <1>1, GotoFacts DEF UpdateProgress
<1>2. CASE h.op # {} /\ h.mine \notin Terminal
  BY <1>2 DEF UpdateProgress, Handlers, HandlerPlaces
<1> QED BY <1>1, <1>2

LEMMA IdleFacts ==
    /\ Idle \in Handlers /\ Idle.pc = "idle" /\ Idle.op = {}
    /\ Idle.mine = "none" /\ Idle.ts = FALSE /\ Idle.next = "idle"
BY DEF Idle, Handlers, HandlerPlaces, ProgressStates

LEMMA SetFacts ==
    ASSUME ProgressInv, NEW a \in Actors, NEW h \in Handlers, Set(a, h)
    PROVE  /\ act' \in [Actors -> Handlers] /\ act'[a] = h
           /\ \A b \in Actors \ {a} : act'[b] = act[b]
BY DEF Set, ProgressInv, ProgressTyped

-----------------------------------------------------------------------------
(* Steps of one handler                                                      *)

\* What is left of a row and its holder, when the holder is the only one.
SoleFits(a, q) ==
    /\ RowFits(q)
    /\ act[a].op = {q} => HolderFits(a, q)
    /\ act[a].op = {} => Settled(q)

\* A handler that holds a row, and perhaps lets it go, changes that row alone.
LEMMA HolderStep ==
    ASSUME ProgressInv, NEW a \in Actors, NEW q \in Questions, act[a].op = {q},
           NEW h \in Handlers, Set(a, h), h.op = {q} \/ h.op = {}, HandlerFits(a)',
           UNCHANGED <<asked, phase, shared>>, undecided' \subseteq Questions,
           trouble \subseteq trouble', trouble' \subseteq Questions,
           row' \in [Questions -> ProgressStates], shown' \in [Questions -> ProgressStates],
           rowTs' \subseteq asked,
           \A o \in Questions \ {q} :
               row'[o] = row[o] /\ shown'[o] = shown[o] /\ (o \in rowTs' <=> o \in rowTs),
           q \notin shared => SoleFits(a, q)'
    PROVE  ProgressInv'
<1>1. /\ act' \in [Actors -> Handlers] /\ act'[a] = h
      /\ \A b \in Actors \ {a} : act'[b] = act[b]
  BY SetFacts
<1>2. ProgressTyped'
  BY <1>1 DEF ProgressInv, ProgressTyped
<1>3. ASSUME NEW b \in Actors PROVE HandlerFits(b)'
  <2>1. CASE b # a
    <3>1. HandlerFits(b) /\ act'[b] = act[b] /\ asked' = asked
      BY <1>1, <2>1 DEF ProgressInv
    <3> QED BY <3>1 DEF HandlerFits
  <2> QED BY <2>1
<1>4. q \in asked /\ \A o \in Questions \ asked' : row'[o] = "none"
  <2>1. q \in asked
    BY DEF ProgressInv, HandlerFits
  <2> QED BY <2>1 DEF ProgressInv
<1>5. ASSUME NEW o \in Questions \ shared', o # q PROVE QuestionFits(o)'
  <2>1. HeldBy(o)' = HeldBy(o) /\ a \notin HeldBy(o)
    <3>1. a \notin HeldBy(o) /\ a \notin HeldBy(o)'
      BY <1>1, <1>5 DEF HeldBy
    <3> QED BY <1>1, <3>1 DEF HeldBy
  <2>2. QuestionFits(o) /\ row'[o] = row[o] /\ shown'[o] = shown[o] /\ (o \in rowTs' <=> o \in rowTs)
    BY <1>5 DEF ProgressInv
  <2>3. ASSUME NEW b \in HeldBy(o) PROVE HolderFits(b, o)'
    <3>1. HolderFits(b, o) /\ act'[b] = act[b]
      BY <1>1, <2>1, <2>2 DEF QuestionFits, HeldBy
    <3> QED BY <2>2, <3>1 DEF HolderFits, Waits
  <2>4. RowFits(o)' /\ (Settled(o) => Settled(o)')
    BY <2>2 DEF QuestionFits, RowFits, Settled, Waits
  <2> QED BY <2>1, <2>2, <2>3, <2>4 DEF QuestionFits
<1>6. ASSUME q \notin shared' PROVE QuestionFits(q)'
  <2>1. HeldBy(q) \subseteq {a} /\ SoleFits(a, q)'
    BY <1>6 DEF ProgressInv, QuestionFits, HeldBy
  <2>2. HeldBy(q)' \subseteq {a} /\ (a \in HeldBy(q)' <=> h.op = {q})
    BY <1>1, <2>1 DEF HeldBy
  <2>3. HeldBy(q)' = {} => h.op = {}
    BY <2>2
  <2> QED BY <1>1, <2>1, <2>2, <2>3 DEF QuestionFits, SoleFits
<1> QED BY <1>2, <1>3, <1>4, <1>5, <1>6 DEF ProgressInv

\* A handler that holds no row goes on without one.
LEMMA FreeStep ==
    ASSUME ProgressInv, NEW a \in Actors, act[a].op = {}, NEW h \in Handlers, Set(a, h),
           h.op = {}, h.pc \notin {"post", "mark", "listed", "slack", "store"},
           asked \subseteq asked', asked' \subseteq Questions,
           undecided' \subseteq Questions, trouble \subseteq trouble', trouble' \subseteq Questions,
           UNCHANGED <<row, shown, rowTs, phase, shared>>
    PROVE  ProgressInv'
<1>1. /\ act' \in [Actors -> Handlers] /\ act'[a] = h
      /\ \A b \in Actors \ {a} : act'[b] = act[b]
  BY SetFacts
<1>2. ProgressTyped'
  BY <1>1 DEF ProgressInv, ProgressTyped
<1>3. ASSUME NEW b \in Actors PROVE HandlerFits(b)'
  BY <1>1 DEF ProgressInv, HandlerFits
<1>4. ASSUME NEW o \in Questions \ shared' PROVE QuestionFits(o)'
  <2>1. HeldBy(o)' = HeldBy(o) /\ a \notin HeldBy(o)
    BY <1>1 DEF HeldBy
  <2>2. QuestionFits(o)
    BY DEF ProgressInv
  <2>3. ASSUME NEW b \in HeldBy(o) PROVE HolderFits(b, o)'
    <3>1. HolderFits(b, o) /\ act'[b] = act[b]
      BY <1>1, <2>1, <2>2 DEF QuestionFits, HeldBy
    <3> QED BY <3>1 DEF HolderFits, Waits
  <2>4. RowFits(o)' /\ (Settled(o) => Settled(o)')
    BY <2>2 DEF QuestionFits, RowFits, Settled, Waits
  <2> QED BY <2>1, <2>2, <2>3, <2>4 DEF QuestionFits
<1> QED BY <1>2, <1>3, <1>4 DEF ProgressInv

\* A handler takes a row that nobody has held, or that counts as shared then.
LEMMA TakeStep ==
    ASSUME ProgressInv, NEW a \in Actors, act[a].op = {}, NEW q \in Questions,
           NEW h \in Handlers, Set(a, h), h.op = {q}, HandlerFits(a)',
           asked \subseteq asked', asked' \subseteq Questions, q \in asked',
           UNCHANGED <<rowTs, shown, undecided, phase, trouble>>,
           row' \in [Questions -> ProgressStates],
           \A o \in Questions \ {q} : row'[o] = row[o],
           shared \subseteq shared', shared' \subseteq Questions, HeldBy(q) # {} => q \in shared',
           q \notin shared' => HolderFits(a, q)' /\ RowFits(q)'
    PROVE  ProgressInv'
<1>1. /\ act' \in [Actors -> Handlers] /\ act'[a] = h
      /\ \A b \in Actors \ {a} : act'[b] = act[b]
  BY SetFacts
<1>2. ProgressTyped'
  BY <1>1 DEF ProgressInv, ProgressTyped
<1>3. ASSUME NEW b \in Actors PROVE HandlerFits(b)'
  <2>1. CASE b # a
    <3>1. HandlerFits(b) /\ act'[b] = act[b]
      BY <1>1, <2>1 DEF ProgressInv
    <3> QED BY <3>1 DEF HandlerFits
  <2> QED BY <2>1
<1>4. \A o \in Questions \ asked' : row'[o] = "none"
  BY DEF ProgressInv
<1>5. ASSUME NEW o \in Questions \ shared', o # q PROVE QuestionFits(o)'
  <2>1. HeldBy(o)' = HeldBy(o) /\ a \notin HeldBy(o)
    <3>1. a \notin HeldBy(o) /\ a \notin HeldBy(o)'
      BY <1>1, <1>5 DEF HeldBy
    <3> QED BY <1>1, <3>1 DEF HeldBy
  <2>2. QuestionFits(o) /\ row'[o] = row[o]
    BY <1>5 DEF ProgressInv
  <2>3. ASSUME NEW b \in HeldBy(o) PROVE HolderFits(b, o)'
    <3>1. HolderFits(b, o) /\ act'[b] = act[b]
      BY <1>1, <2>1, <2>2 DEF QuestionFits, HeldBy
    <3> QED BY <2>2, <3>1 DEF HolderFits, Waits
  <2>4. RowFits(o)' /\ (Settled(o) => Settled(o)')
    BY <2>2 DEF QuestionFits, RowFits, Settled, Waits
  <2> QED BY <2>1, <2>2, <2>3, <2>4 DEF QuestionFits
<1>6. ASSUME q \notin shared' PROVE QuestionFits(q)'
  <2>1. HeldBy(q)' = {a}
    BY <1>1, <1>6 DEF HeldBy
  <2> QED BY <1>6, <2>1 DEF QuestionFits
<1> QED BY <1>2, <1>3, <1>4, <1>5, <1>6 DEF ProgressInv

\* A handler turns to the state it shows next.
LEMMA UpdateStep ==
    ASSUME ProgressInv, NEW a \in Actors, NEW state \in ProgressStates, NEW next \in Nexts,
           Set(a, UpdateProgress(act[a], state, next)),
           act[a].pc \notin {"idle", "post", "mark", "slack", "store"},
           state \in StatesAt(next),
           \A q \in act[a].op \ shared :
               /\ a[1] = "ask" /\ Waits(q) => state \notin Moving
               /\ act[a].pc = "listed" /\ ~act[a].ts => shown[q] \notin Moving,
           UNCHANGED <<row, shown, rowTs, asked, phase, shared, trouble>>, undecided' \subseteq Questions
    PROVE  ProgressInv'
<1> DEFINE h == UpdateProgress(act[a], state, next)
<1>1. /\ act[a] \in Handlers /\ ProgressTyped /\ HandlerFits(a)
      /\ next \in HandlerPlaces /\ next \notin {"post", "mark", "listed", "slack", "store"}
  BY DEF ProgressInv, ProgressTyped, Nexts, HandlerPlaces
<1>2. h \in Handlers
  BY <1>1, UpdateFacts
<1>3. CASE act[a].op = {}
  <2>1. h = Goto(act[a], next)
    BY <1>1, <1>3, UpdateFacts
  <2>2. h.op = {} /\ h.pc = next
    BY <1>1, <1>3, <2>1, GotoFacts
  <2> HIDE DEF h
  <2> QED BY <1>1, <1>2, <1>3, <2>2, FreeStep DEF h, ProgressTyped
<1>4. CASE act[a].op # {}
  <2>1. PICK q \in asked : act[a].op = {q}
    BY <1>1, <1>4 DEF HandlerFits
  <2>2. q \in Questions
    BY <1>1 DEF ProgressTyped
  <2>3. act[a].mine \notin Terminal
    BY <1>1, <1>4 DEF HandlerFits, StatesAt, Updating, Terminal, Unfinished
  <2>4. /\ h.pc = IF act[a].ts THEN "slack" ELSE "store"
        /\ h.op = {q} /\ h.mine = state /\ h.ts = act[a].ts /\ h.next = next
    <3>1. next \in HandlerPlaces /\ act[a] \in Handlers
      BY <1>1
    <3>2. /\ h.pc = IF act[a].ts THEN "slack" ELSE "store"
          /\ h.op = act[a].op /\ h.mine = state /\ h.ts = act[a].ts /\ h.next = next
      BY <1>4, <2>3, <3>1, UpdateFacts
    <3> QED BY <2>1, <3>2
  <2> HIDE DEF h
  <2>5. act'[a] = h /\ Set(a, h)
    BY <1>2, SetFacts DEF h
  <2>6. h.pc \in Updating /\ act[a].ts \in BOOLEAN
    BY <1>1, <2>4 DEF Updating, Handlers
  <2>7. HandlerFits(a)'
    <3>1. a[1] \in {"ask", "start"} => h.op = {a[2]}
      BY <1>1, <2>1, <2>4 DEF HandlerFits
    <3>2. a[1] = "ask" => h.ts
      BY <1>1, <1>4, <2>4 DEF HandlerFits
    <3>3. h.pc = "slack" => h.ts
      BY <2>4
    <3> QED BY <2>1, <2>4, <2>5, <2>6, <3>1, <3>2, <3>3 DEF HandlerFits, Updating
  <2>8. ASSUME q \notin shared PROVE SoleFits(a, q)'
    <3>1. QuestionFits(q) /\ HolderFits(a, q)
      BY <2>1, <2>2, <2>8 DEF ProgressInv, QuestionFits, HeldBy
    <3>2. /\ a[1] = "ask" /\ Waits(q) => state \notin Moving
          /\ act[a].pc = "listed" /\ ~act[a].ts => shown[q] \notin Moving
      BY <2>1, <2>8
    <3>3. HolderFits(a, q)'
      BY <2>1, <2>4, <2>5, <2>6, <3>1, <3>2 DEF HolderFits, Waits, Updating
    <3>4. RowFits(q)'
      BY <3>1 DEF QuestionFits, RowFits, Waits
    <3> QED BY <2>4, <2>5, <3>3, <3>4 DEF SoleFits
  <2> QED BY <1>1, <1>2, <2>1, <2>2, <2>4, <2>5, <2>7, <2>8, HolderStep DEF ProgressTyped
<1> QED BY <1>3, <1>4

\* What holds of a handler that holds a row which no other has held with it.
LEMMA SoleHolder ==
    ASSUME ProgressInv, NEW a \in Actors, act[a].op # {}
    PROVE  \E q \in Questions : /\ q \in asked /\ act[a].op = {q}
                                /\ q \notin shared => QuestionFits(q) /\ HolderFits(a, q)
<1>1. PICK q \in asked : act[a].op = {q}
  BY DEF ProgressInv, HandlerFits
<1>2. q \in Questions
  BY DEF ProgressInv, ProgressTyped
<1>3. q \notin shared => QuestionFits(q) /\ HolderFits(a, q)
  BY <1>1, <1>2 DEF ProgressInv, QuestionFits, HeldBy
<1> QED BY <1>1, <1>2, <1>3

\* Slack is told the state a handler is at, or may have been.
LEMMA SlackStep ==
    ASSUME ProgressInv, NEW a \in Actors, SlackUpdate(a)
    PROVE  ProgressInv'
<1>1. /\ act[a] \in Handlers /\ ProgressTyped /\ HandlerFits(a) /\ act[a].op # {}
      /\ act[a].pc = "slack"
  BY DEF ProgressInv, ProgressTyped, HandlerFits, SlackUpdate
<1>2. PICK q \in Questions : /\ q \in asked /\ act[a].op = {q}
                             /\ q \notin shared => QuestionFits(q) /\ HolderFits(a, q)
  BY <1>1, SoleHolder
<1> DEFINE told == [shown EXCEPT ![q] = act[a].mine]
           stored == [act[a] EXCEPT !.pc = "store"]
           left == Goto(act[a], act[a].next)
<1>3. \/ shown' = told /\ Set(a, stored) /\ UNCHANGED trouble
      \/ (shown' = told \/ shown' = shown) /\ Set(a, left) /\ Trouble(q)
  <2>1. PICK o \in act[a].op : \E applied \in BOOLEAN, fails \in BOOLEAN :
            /\ (applied \/ fails)
            /\ shown' = IF applied THEN [shown EXCEPT ![o] = act[a].mine] ELSE shown
            /\ Set(a, IF fails THEN left ELSE stored)
            /\ IF fails THEN Trouble(o) ELSE UNCHANGED trouble
    BY Zenon DEF SlackUpdate
  <2>2. o = q
    BY <1>2
  <2> HIDE DEF stored, left
  <2> QED BY <2>1, <2>2, Zenon
<1>4. /\ UNCHANGED <<row, rowTs, asked, phase, shared, undecided>>
      /\ act[a].next \in Nexts \cap HandlerPlaces /\ act[a].mine \in ProgressStates /\ act[a].ts
      /\ act[a].mine \in StatesAt(act[a].next)
  BY <1>1 DEF SlackUpdate, storeVars, turnVars, processVars, Handlers, HandlerFits, Updating
<1>5. /\ (shown' = told \/ shown' = shown) => shown' \in [Questions -> ProgressStates]
      /\ \A o \in Questions \ {q} : told[o] = shown[o]
      /\ told[q] = act[a].mine
  BY <1>1, <1>4 DEF ProgressTyped
<1>6. /\ Trouble(q) => trouble \subseteq trouble' /\ q \in trouble'
      /\ Trouble(q) \/ UNCHANGED trouble => trouble' \subseteq Questions
  BY <1>1 DEF Trouble, ProgressTyped
<1>7. ASSUME q \notin shared PROVE shown' = told \/ shown' = shown => RowFits(q)'
  <2>1. QuestionFits(q) /\ HolderFits(a, q) /\ (a[1] = "ask" \/ q \in rowTs)
    BY <1>2, <1>4, <1>7 DEF HolderFits
  <2>2. shown' = told => RowFits(q)'
    BY <1>4, <1>5, <2>1 DEF RowFits, HolderFits, Waits
  <2>3. shown' = shown => RowFits(q)'
    BY <1>4, <2>1 DEF QuestionFits, RowFits, Waits
  <2> QED BY <2>2, <2>3
<1> HIDE DEF told
<1>8. CASE shown' = told /\ Set(a, stored) /\ UNCHANGED trouble
  <2>1. PICK h \in Handlers : /\ Set(a, h) /\ h.pc = "store" /\ h.op = {q} /\ h.mine = act[a].mine
                              /\ h.ts = act[a].ts /\ h.next = act[a].next
    BY <1>1, <1>2, <1>8 DEF Handlers, HandlerPlaces
  <2>2. act'[a] = h
    BY <2>1, SetFacts
  <2>3. HandlerFits(a)'
    BY <1>1, <1>2, <1>4, <2>1, <2>2 DEF HandlerFits, Updating
  <2>4. ASSUME q \notin shared PROVE SoleFits(a, q)'
    <3>1. HolderFits(a, q) /\ RowFits(q)'
      BY <1>2, <1>7, <1>8, <2>4
    <3>2. HolderFits(a, q)'
      BY <1>4, <1>5, <1>8, <2>1, <2>2, <3>1 DEF HolderFits, Waits
    <3> QED BY <2>1, <2>2, <3>1, <3>2 DEF SoleFits
  <2> QED BY <1>1, <1>2, <1>4, <1>5, <1>8, <2>1, <2>3, <2>4, HolderStep DEF ProgressTyped
<1>9. CASE (shown' = told \/ shown' = shown) /\ Set(a, left) /\ Trouble(q)
  <2>1. PICK h \in Handlers : /\ Set(a, h) /\ h.pc = act[a].next
                              /\ h.pc = "idle" => h.op = {}
                              /\ h.pc # "idle" => h.op = {q} /\ h.mine = act[a].mine /\ h.ts = act[a].ts
    <3>1. /\ left \in Handlers /\ left.pc = act[a].next
          /\ left.pc = "idle" => left.op = {}
          /\ left.pc # "idle" => left.op = {q} /\ left.mine = act[a].mine /\ left.ts = act[a].ts
      <4>1. act[a].next \in HandlerPlaces /\ act[a].op = {q}
        BY <1>2, <1>4
      <4>2. left \in Handlers /\ left.pc = act[a].next
        BY <1>1, <4>1, GotoFacts
      <4>3. act[a].next = "idle" => left.op = {}
        BY <1>1, <4>1, GotoFacts
      <4>4. act[a].next # "idle" => left.op = act[a].op /\ left.mine = act[a].mine /\ left.ts = act[a].ts
        BY <1>1, <4>1, GotoFacts
      <4> QED BY <4>1, <4>2, <4>3, <4>4
    <3> HIDE DEF left
    <3> QED BY <1>9, <3>1
  <2>2. act'[a] = h /\ (h.op = {q} \/ h.op = {}) /\ (h.op = {} => h.pc = "idle")
        /\ h.pc \in Nexts
    BY <1>4, <2>1, SetFacts
  <2>3. HandlerFits(a)'
    <3>1. h.op = {q} => /\ a[1] \in {"ask", "start"} => h.op = {a[2]}
                        /\ a[1] = "ask" => h.ts
                        /\ h.mine \in StatesAt(h.pc)
                        /\ h.pc # "idle"
      BY <1>1, <1>2, <1>4, <2>1 DEF HandlerFits
    <3> QED BY <1>2, <1>4, <2>2, <3>1 DEF HandlerFits, Updating, Nexts
  <2>4. ASSUME q \notin shared PROVE SoleFits(a, q)'
    <3>1. HolderFits(a, q) /\ RowFits(q)' /\ q \in trouble'
      BY <1>2, <1>6, <1>7, <1>9, <2>4
    <3>2. h.op = {q} => HolderFits(a, q)'
      BY <1>4, <2>1, <2>2, <3>1 DEF HolderFits, Waits, Nexts
    <3> QED BY <2>2, <3>1, <3>2 DEF SoleFits, Settled
  <2>5. \A o \in Questions \ {q} : shown'[o] = shown[o]
    BY <1>5, <1>9
  <2> QED BY <1>1, <1>2, <1>4, <1>5, <1>6, <1>9, <2>1, <2>2, <2>3, <2>4, <2>5, HolderStep DEF ProgressTyped
<1> QED BY <1>3, <1>8, <1>9

\* A state is stored, or is not.
LEMMA StoreStep ==
    ASSUME ProgressInv, NEW a \in Actors, SetProgressState(a)
    PROVE  ProgressInv'
<1>1. /\ act[a] \in Handlers /\ ProgressTyped /\ HandlerFits(a) /\ act[a].op # {}
      /\ act[a].pc = "store"
  BY DEF ProgressInv, ProgressTyped, HandlerFits, SetProgressState
<1>2. PICK q \in Questions : /\ q \in asked /\ act[a].op = {q}
                             /\ q \notin shared => QuestionFits(q) /\ HolderFits(a, q)
  BY <1>1, SoleHolder
<1> DEFINE stored == [row EXCEPT ![q] = act[a].mine]
           left == Goto(act[a], act[a].next)
<1>3. /\ Set(a, left)
      /\ \/ row' = stored /\ UNCHANGED trouble
         \/ row' = row /\ Trouble(q)
  <2>1. PICK o \in act[a].op :
            \/ row' = [row EXCEPT ![o] = act[a].mine] /\ UNCHANGED trouble
            \/ row' = row /\ Trouble(o)
    BY Zenon DEF SetProgressState, Write
  <2>2. o = q
    BY <1>2
  <2>3. Set(a, left)
    BY DEF SetProgressState
  <2> QED BY <2>1, <2>2, <2>3, Zenon
<1>4. /\ UNCHANGED <<rowTs, shown, asked, phase, shared, undecided>>
      /\ act[a].next \in Nexts /\ act[a].next \in HandlerPlaces /\ act[a].mine \in ProgressStates
      /\ act[a].mine \in StatesAt(act[a].next)
  BY <1>1 DEF SetProgressState, turnVars, processVars, Handlers, HandlerFits, Updating
<1>5. /\ row' \in [Questions -> ProgressStates]
      /\ \A o \in Questions \ {q} : row'[o] = row[o]
      /\ row'[q] = act[a].mine \/ (row'[q] = row[q] /\ q \in trouble')
      /\ trouble \subseteq trouble' /\ trouble' \subseteq Questions
  BY <1>1, <1>3, <1>4 DEF Trouble, ProgressTyped
<1>6. PICK h \in Handlers : /\ Set(a, h) /\ h.pc = act[a].next
                            /\ h.pc = "idle" => h.op = {}
                            /\ h.pc # "idle" => h.op = {q} /\ h.mine = act[a].mine /\ h.ts = act[a].ts
  <2>1. left \in Handlers /\ left.pc = act[a].next
    BY <1>1, <1>4, GotoFacts
  <2>2. act[a].next = "idle" => left.op = {}
    BY <1>1, <1>4, GotoFacts
  <2>3. act[a].next # "idle" => left.op = act[a].op /\ left.mine = act[a].mine /\ left.ts = act[a].ts
    BY <1>1, <1>4, GotoFacts
  <2> HIDE DEF left
  <2> QED BY <1>2, <1>3, <2>1, <2>2, <2>3
<1>7. act'[a] = h /\ (h.op = {q} \/ h.op = {}) /\ (h.op = {} => h.pc = "idle")
      /\ h.pc \in Nexts
  BY <1>4, <1>6, SetFacts
<1>8. HandlerFits(a)'
  <2>1. h.op = {q} => /\ a[1] \in {"ask", "start"} => h.op = {a[2]}
                      /\ a[1] = "ask" => h.ts
                      /\ h.mine \in StatesAt(h.pc)
                      /\ h.pc # "idle"
    BY <1>1, <1>2, <1>4, <1>6 DEF HandlerFits
  <2> QED BY <1>2, <1>4, <1>7, <2>1 DEF HandlerFits, Updating, Nexts
<1>9. ASSUME q \notin shared PROVE SoleFits(a, q)'
  <2>1. HolderFits(a, q) /\ QuestionFits(q) /\ act[a].ts \in BOOLEAN
    BY <1>1, <1>2, <1>9 DEF Handlers
  <2>2. h.op = {q} => act[a].mine \in Unfinished
    BY <1>4, <1>6, <1>7 DEF StatesAt, Nexts, Unfinished
  <2>3. act[a].mine \in Terminal \cup Unfinished
    BY <1>4 DEF StatesAt, Nexts, Terminal, Unfinished
  <2>4. RowFits(q)'
    <3>1. row'[q] = row[q] => RowFits(q)'
      BY <1>4, <2>1 DEF QuestionFits, RowFits, Waits
    <3>2. act[a].ts => shown[q] = act[a].mine
      BY <1>1, <2>1 DEF HolderFits
    <3>3. ~act[a].ts => q \notin rowTs /\ shown[q] \notin Moving
      BY <1>1, <2>1 DEF HolderFits
    <3>4. row'[q] = act[a].mine => RowFits(q)'
      BY <1>4, <2>1, <2>3, <3>2, <3>3 DEF RowFits, Waits, Moving, Terminal, Unfinished
    <3> QED BY <1>5, <3>1, <3>4
  <2>5. h.op = {q} => HolderFits(a, q)'
    <3> SUFFICES ASSUME h.op = {q} PROVE HolderFits(a, q)'
      OBVIOUS
    <3>1. row'[q] \in Unfinished
      BY <1>5, <2>1, <2>2 DEF HolderFits
    <3>2. a[1] = "ask" /\ Waits(q)' => h.mine \notin Moving
      <4>1. row'[q] = row[q] => (a[1] = "ask" /\ Waits(q)' => h.mine \notin Moving)
        BY <1>6, <1>7, <2>1 DEF HolderFits, Waits, Nexts
      <4>2. row'[q] = act[a].mine => (a[1] = "ask" /\ Waits(q)' => h.mine \notin Moving)
        BY <1>6, <1>7 DEF Waits, Moving
      <4> QED BY <1>5, <4>1, <4>2
    <3>3. h.pc \in {"confirm", "prompted"} /\ q \notin trouble' => shown[q] \notin Moving
      <4>1. h.pc \in {"confirm", "prompted"} => act[a].mine = "waiting_confirmation"
        BY <1>4, <1>6 DEF StatesAt
      <4> QED BY <1>1, <2>1, <4>1 DEF HolderFits, Moving
    <3>4. h.pc \in {"finalize", "confirm", "resume", "publish"}
      BY <1>6, <1>7 DEF Nexts
    <3>5. h.ts = act[a].ts
      BY <1>6, <3>4
    <3> QED BY <1>1, <1>4, <1>7, <2>1, <3>1, <3>2, <3>3, <3>4, <3>5 DEF HolderFits
  <2>6. h.op = {} => Settled(q)'
    <3>1. h.op = {} => act[a].mine \notin Moving
      BY <1>4, <1>6, <1>7 DEF StatesAt, Terminal, Moving
    <3> QED BY <1>1, <1>4, <2>1, <3>1 DEF HolderFits, Settled
  <2> QED BY <1>6, <1>7, <2>4, <2>5, <2>6 DEF SoleFits
<1> QED BY <1>1, <1>2, <1>4, <1>5, <1>6, <1>7, <1>8, <1>9, HolderStep DEF ProgressTyped

-----------------------------------------------------------------------------
(* The handler of a question                                                 *)

\* A question is asked: nobody holds a row of it yet.
LEMMA CreateStep ==
    ASSUME ProgressInv, NEW q \in Questions, CreateProgress(q)
    PROVE  ProgressInv'
<1>1. /\ Ask(q) \in Actors /\ Ask(q)[1] = "ask" /\ Ask(q)[2] = q /\ ProgressTyped /\ q \notin asked
      /\ asked' = asked \cup {q} /\ asked' \subseteq Questions
      /\ UNCHANGED <<rowTs, shown, undecided, phase, shared, trouble>>
  BY RoleFacts DEF ProgressInv, ProgressTyped, CreateProgress, processVars
<1>2. HeldBy(q) = {} /\ row[q] = "none" /\ act[Ask(q)].op = {}
  BY <1>1 DEF ProgressInv, HandlerFits, HeldBy
<1>3. CASE /\ UNCHANGED row /\ Set(Ask(q), [Idle EXCEPT !.pc = "model"])
  <2>1. PICK h \in Handlers : Set(Ask(q), h) /\ h.op = {} /\ h.pc = "model"
    BY <1>3, IdleFacts DEF Handlers, HandlerPlaces
  <2> QED BY <1>1, <1>2, <1>3, <2>1, FreeStep DEF ProgressTyped
<1>4. CASE /\ row' = [row EXCEPT ![q] = "working"]
           /\ Set(Ask(q), [Idle EXCEPT !.pc = "post", !.op = {q}, !.mine = "working"])
  <2>1. PICK h \in Handlers : /\ Set(Ask(q), h) /\ h.pc = "post" /\ h.op = {q}
                              /\ h.mine = "working" /\ ~h.ts
    <3> DEFINE begun == [Idle EXCEPT !.pc = "post", !.op = {q}, !.mine = "working"]
    <3>1. begun.pc = "post" /\ begun.op = {q} /\ begun.mine = "working" /\ begun.ts = FALSE
      BY DEF Idle
    <3>2. begun \in Handlers
      BY DEF Idle, Handlers, HandlerPlaces, ProgressStates, Unfinished
    <3> HIDE DEF begun
    <3> QED BY <1>4, <3>1, <3>2 DEF begun
  <2>2. act'[Ask(q)] = h
    BY <1>1, <2>1, SetFacts
  <2>3. /\ row' \in [Questions -> ProgressStates] /\ row'[q] = "working"
        /\ \A o \in Questions \ {q} : row'[o] = row[o]
    BY <1>1, <1>4 DEF ProgressTyped, ProgressStates, Unfinished
  <2>4. h.op = {Ask(q)[2]} /\ q \in asked' /\ h.ts = FALSE
    BY <1>1, <2>1 DEF Handlers
  <2>5. HandlerFits(Ask(q))'
    BY <1>1, <2>1, <2>2, <2>4 DEF HandlerFits, StatesAt, Updating
  <2>6. q \notin rowTs
    BY <1>1 DEF ProgressTyped
  <2>7. HolderFits(Ask(q), q)' /\ RowFits(q)'
    BY <1>1, <2>1, <2>2, <2>3, <2>6 DEF HolderFits, RowFits, Waits, Unfinished
  <2> QED BY <1>1, <1>2, <2>1, <2>3, <2>5, <2>7, TakeStep DEF ProgressTyped
<1> QED BY <1>3, <1>4 DEF CreateProgress, Write

\* What holds of the handler of a question that holds its row.
LEMMA AskFacts ==
    ASSUME ProgressInv, NEW q \in Questions, act[Ask(q)].op # {}
    PROVE  /\ act[Ask(q)].op = {q} /\ q \in asked
           /\ q \notin shared => QuestionFits(q) /\ HolderFits(Ask(q), q)
<1>1. Ask(q) \in Actors /\ Ask(q)[1] = "ask" /\ Ask(q)[2] = q
  BY RoleFacts
<1>2. PICK o \in Questions : /\ o \in asked /\ act[Ask(q)].op = {o}
                             /\ o \notin shared => QuestionFits(o) /\ HolderFits(Ask(q), o)
  BY <1>1, SoleHolder
<1>3. act[Ask(q)].op = {q}
  BY <1>1 DEF ProgressInv, HandlerFits
<1> QED BY <1>2, <1>3

\* The message is posted, perhaps; when that is not certain the row is let go.
LEMMA PublishStep ==
    ASSUME ProgressInv, NEW q \in Questions, PublishProgress(q)
    PROVE  ProgressInv'
<1> DEFINE a == Ask(q)
<1>1. /\ a \in Actors /\ a[1] = "ask" /\ a[2] = q /\ act[a].pc = "post"
      /\ ProgressTyped /\ HandlerFits(a) /\ act[a] \in Handlers
  BY RoleFacts DEF PublishProgress, ProgressInv, ProgressTyped
<1>2. act[a].op = {q} /\ q \in asked /\ (q \notin shared => QuestionFits(q) /\ HolderFits(a, q))
  BY <1>1, AskFacts DEF HandlerFits
<1> DEFINE published == [shown EXCEPT ![q] = "working"]
           marking == [act[a] EXCEPT !.pc = "mark", !.ts = TRUE]
           alone == [Idle EXCEPT !.pc = "model"]
<1> HIDE DEF a
<1>3. /\ marking \in Handlers /\ marking.pc = "mark" /\ marking.op = {q} /\ marking.ts = TRUE
      /\ marking.mine = act[a].mine
  BY <1>1, <1>2 DEF Handlers, HandlerPlaces
<1>4. alone \in Handlers /\ alone.pc = "model" /\ alone.op = {}
  BY IdleFacts DEF Handlers, HandlerPlaces
<1>5. /\ UNCHANGED <<row, rowTs, asked, phase, shared, undecided>>
      /\ \/ shown' = published /\ Set(a, marking) /\ UNCHANGED trouble
         \/ (shown' = published \/ shown' = shown) /\ Set(a, alone) /\ Trouble(q)
  <2>1. UNCHANGED <<row, rowTs, asked, phase, shared, undecided>>
    BY DEF PublishProgress, storeVars, turnVars, processVars
  <2>2. \E posted \in BOOLEAN, fails \in BOOLEAN :
          /\ posted \/ fails
          /\ shown' = IF posted THEN published ELSE shown
          /\ IF fails THEN Trouble(q) ELSE UNCHANGED trouble
          /\ Set(a, IF fails THEN alone ELSE marking)
    BY Zenon DEF PublishProgress, a
  <2> HIDE DEF published, marking, alone
  <2> QED BY <2>1, <2>2, Zenon
<1> HIDE DEF marking, alone
<1>6. /\ (shown' = published \/ shown' = shown) => shown' \in [Questions -> ProgressStates]
      /\ \A o \in Questions \ {q} : published[o] = shown[o]
      /\ published[q] = "working"
  BY <1>1 DEF ProgressTyped, ProgressStates, Unfinished
<1> HIDE DEF published
<1>7. /\ Trouble(q) => trouble \subseteq trouble' /\ q \in trouble'
      /\ Trouble(q) \/ UNCHANGED trouble => trouble' \subseteq Questions
  BY <1>1 DEF Trouble, ProgressTyped
<1>8. ASSUME q \notin shared PROVE shown' = published \/ shown' = shown => RowFits(q)'
  <2>1. row[q] = "working"
    BY <1>1, <1>2, <1>8 DEF HolderFits
  <2> QED BY <1>5, <2>1 DEF RowFits, Waits, Unfinished
<1>9. CASE shown' = published /\ Set(a, marking) /\ UNCHANGED trouble
  <2>1. act'[a] = marking
    BY <1>1, <1>3, <1>9, SetFacts
  <2>2. HandlerFits(a)'
    BY <1>1, <1>2, <1>3, <1>5, <2>1 DEF HandlerFits, StatesAt, Updating
  <2>3. ASSUME q \notin shared PROVE SoleFits(a, q)'
    <3>1. row[q] = "working"
      BY <1>1, <1>2, <2>3 DEF HolderFits
    <3>2. HolderFits(a, q)'
      BY <1>1, <1>3, <1>5, <2>1, <3>1 DEF HolderFits, Waits, Unfinished
    <3> QED BY <1>3, <1>8, <1>9, <2>1, <2>3, <3>2 DEF SoleFits
  <2> QED BY <1>1, <1>2, <1>3, <1>5, <1>6, <1>9, <2>2, <2>3, HolderStep DEF ProgressTyped
<1>10. CASE (shown' = published \/ shown' = shown) /\ Set(a, alone) /\ Trouble(q)
  <2>1. act'[a] = alone
    BY <1>1, <1>4, <1>10, SetFacts
  <2>2. HandlerFits(a)'
    BY <1>4, <2>1 DEF HandlerFits
  <2>3. q \notin shared => SoleFits(a, q)'
    BY <1>4, <1>7, <1>8, <1>10, <2>1 DEF SoleFits, Settled
  <2>4. \A o \in Questions \ {q} : shown'[o] = shown[o]
    BY <1>6, <1>10
  <2> QED BY <1>1, <1>2, <1>4, <1>5, <1>6, <1>7, <1>10, <2>2, <2>3, <2>4, HolderStep DEF ProgressTyped
<1> QED BY <1>5, <1>9, <1>10

\* The timestamp of the message is stored, or is not.
LEMMA MarkStep ==
    ASSUME ProgressInv, NEW q \in Questions, MarkProgressPublished(q)
    PROVE  ProgressInv'
<1> DEFINE a == Ask(q)
<1>1. /\ a \in Actors /\ a[1] = "ask" /\ a[2] = q /\ act[a].pc = "mark"
      /\ ProgressTyped /\ HandlerFits(a) /\ act[a] \in Handlers
  BY RoleFacts DEF MarkProgressPublished, ProgressInv, ProgressTyped
<1>2. act[a].op = {q} /\ q \in asked /\ (q \notin shared => QuestionFits(q) /\ HolderFits(a, q))
  BY <1>1, AskFacts DEF HandlerFits
<1>3. Set(a, Goto(act[a], "model"))
  BY DEF MarkProgressPublished
<1> HIDE DEF a
<1>4. PICK h \in Handlers : /\ Set(a, h) /\ h.pc = "model" /\ h.op = {q}
                            /\ h.mine = act[a].mine /\ h.ts = act[a].ts
  <2>1. "model" \in HandlerPlaces
    BY DEF HandlerPlaces
  <2> QED BY <1>1, <1>2, <1>3, <2>1, GotoFacts
<1>5. act'[a] = h
  BY <1>1, <1>4, SetFacts
<1>6. /\ UNCHANGED <<row, shown, asked, phase, shared, undecided>>
      /\ rowTs' = rowTs \/ rowTs' = rowTs \cup {q}
      /\ trouble \subseteq trouble' /\ trouble' \subseteq Questions
  <2>1. [row EXCEPT ![q] = row[q]] = row
    BY <1>1 DEF ProgressTyped
  <2> QED BY <1>1, <2>1 DEF MarkProgressPublished, Write, Trouble, storeVars, turnVars, processVars,
                            ProgressTyped
<1>7. HandlerFits(a)'
  BY <1>1, <1>2, <1>4, <1>5, <1>6 DEF HandlerFits, StatesAt, Updating
<1>8. ASSUME q \notin shared PROVE SoleFits(a, q)'
  <2>1. row[q] = "working" /\ HolderFits(a, q) /\ QuestionFits(q) /\ h.ts
    BY <1>1, <1>2, <1>4, <1>8 DEF HolderFits, HandlerFits
  <2>2. HolderFits(a, q)' /\ RowFits(q)'
    BY <1>1, <1>4, <1>5, <1>6, <2>1 DEF HolderFits, QuestionFits, RowFits, Waits, Unfinished
  <2> QED BY <1>4, <1>5, <2>2 DEF SoleFits
<1>9. rowTs' \subseteq asked /\ \A o \in Questions \ {q} : o \in rowTs' <=> o \in rowTs
  BY <1>1, <1>2, <1>6 DEF ProgressTyped
<1> QED BY <1>1, <1>2, <1>4, <1>6, <1>7, <1>8, <1>9, HolderStep DEF ProgressTyped

\* The handler of a question lets its row go: after an error, or when a prompt
\* is out.
LEMMA LetGoStep ==
    ASSUME ProgressInv, NEW q \in Questions, Set(Ask(q), Idle),
           UNCHANGED <<row, shown, rowTs, asked, phase, shared, undecided>>,
           \/ Trouble(q)
           \/ UNCHANGED trouble /\ act[Ask(q)].pc = "prompted"
    PROVE  ProgressInv'
<1> DEFINE a == Ask(q)
<1>1. a \in Actors /\ ProgressTyped /\ Idle \in Handlers /\ Idle.op = {} /\ Idle.pc = "idle"
  BY RoleFacts, IdleFacts DEF ProgressInv
<1>2. /\ trouble \subseteq trouble' /\ trouble' \subseteq Questions
  BY <1>1 DEF Trouble, ProgressTyped
<1>3. CASE act[a].op = {}
  BY <1>1, <1>2, <1>3, FreeStep DEF ProgressTyped
<1>4. CASE act[a].op # {}
  <2>1. act[a].op = {q} /\ q \in asked /\ (q \notin shared => QuestionFits(q) /\ HolderFits(a, q))
    BY <1>4, AskFacts
  <2>2. act'[a] = Idle
    BY <1>1, SetFacts
  <2>3. HandlerFits(a)'
    BY <1>1, <2>2 DEF HandlerFits
  <2>4. ASSUME q \notin shared PROVE SoleFits(a, q)'
    <3>1. RowFits(q)'
      BY <2>1, <2>4 DEF QuestionFits, RowFits, Waits
    <3>2. Settled(q)'
      BY <2>1, <2>4 DEF Trouble, HolderFits, Settled
    <3> QED BY <1>1, <2>2, <3>1, <3>2 DEF SoleFits
  <2> QED BY <1>1, <1>2, <2>1, <2>3, <2>4, HolderStep DEF ProgressTyped
<1> QED BY <1>3, <1>4

LEMMA RunStep ==
    ASSUME ProgressInv, NEW q \in Questions, RunTurn(q)
    PROVE  ProgressInv'
<1>1. /\ act[Ask(q)].pc = "model" /\ Ask(q) \in Actors /\ undecided \subseteq Questions
      /\ UNCHANGED <<row, shown, rowTs, asked, phase, shared, undecided>>
  BY RoleFacts DEF RunTurn, storeVars, turnVars, processVars, ProgressInv, ProgressTyped

<1>2. \A o \in act[Ask(q)].op \ shared : ~Waits(o)
  <2> SUFFICES ASSUME NEW o \in act[Ask(q)].op, o \notin shared PROVE ~Waits(o)
    OBVIOUS
  <2>1. o = q /\ HolderFits(Ask(q), q)
    BY AskFacts
  <2>2. act[Ask(q)].mine = "working"
    BY <1>1 DEF ProgressInv, HandlerFits, StatesAt, Updating
  <2> QED BY <2>1, <2>2, RoleFacts DEF HolderFits, Moving
<1>3. CASE Set(Ask(q), Idle) /\ Trouble(q)
  BY <1>1, <1>3, LetGoStep
<1>4. ASSUME NEW state \in ProgressStates, NEW next \in Nexts, state \in StatesAt(next),
             Set(Ask(q), UpdateProgress(act[Ask(q)], state, next)), UNCHANGED trouble
      PROVE  ProgressInv'
  BY <1>1, <1>2, <1>4, UpdateStep
<1>5. \A u \in {<<"failed", "idle">>, <<"finalizing", "finalize">>, <<"waiting_confirmation", "confirm">>} :
          u[1] \in ProgressStates /\ u[2] \in Nexts /\ u[1] \in StatesAt(u[2])
  BY DEF ProgressStates, Terminal, Unfinished, Nexts, StatesAt
<1> QED BY <1>3, <1>4, <1>5 DEF RunTurn

LEMMA FinalizeStep ==
    ASSUME ProgressInv, NEW q \in Questions, FinalizeTurn(q)
    PROVE  ProgressInv'
<1>1. /\ act[Ask(q)].pc = "finalize" /\ Ask(q) \in Actors /\ undecided \subseteq Questions
      /\ UNCHANGED <<row, shown, rowTs, asked, phase, shared, undecided, trouble>>
  BY RoleFacts DEF FinalizeTurn, storeVars, turnVars, processVars, ProgressInv, ProgressTyped
<1>2. \A state \in {"cleared", "failed"} :
          state \in ProgressStates /\ state \in StatesAt("idle") /\ state \notin Moving
  BY DEF ProgressStates, Terminal, StatesAt, Moving
<1>3. PICK state \in {"cleared", "failed"} :
          Set(Ask(q), UpdateProgress(act[Ask(q)], state, "idle"))
  BY DEF FinalizeTurn
<1> QED BY <1>1, <1>2, <1>3, UpdateStep DEF Nexts

\* A handler goes on with what it holds.
LEMMA GoOnStep ==
    ASSUME ProgressInv, NEW q \in Questions, act[Ask(q)].pc = "confirm",
           Set(Ask(q), Goto(act[Ask(q)], "prompted")), undecided' \subseteq Questions,
           UNCHANGED <<row, shown, rowTs, asked, phase, shared, trouble>>
    PROVE  ProgressInv'
<1> DEFINE a == Ask(q)
<1>1. /\ a \in Actors /\ a[1] = "ask" /\ ProgressTyped /\ HandlerFits(a) /\ act[a] \in Handlers
      /\ "prompted" \in HandlerPlaces
  BY RoleFacts DEF ProgressInv, ProgressTyped, HandlerPlaces
<1>2. PICK h \in Handlers : /\ Set(a, h) /\ h.pc = "prompted" /\ h.op = act[a].op
                            /\ h.mine = act[a].mine /\ h.ts = act[a].ts
  BY <1>1, GotoFacts
<1>3. CASE act[a].op = {}
  BY <1>1, <1>2, <1>3, FreeStep DEF ProgressTyped
<1>4. CASE act[a].op # {}
  <2>1. act[a].op = {q} /\ q \in asked /\ (q \notin shared => QuestionFits(q) /\ HolderFits(a, q))
    BY <1>4, AskFacts
  <2>2. act'[a] = h
    BY <1>1, <1>2, SetFacts
  <2>3. act[a].pc = "confirm"
    OBVIOUS
  <2> HIDE DEF a
  <2>4. HandlerFits(a)'
    BY <1>1, <1>2, <1>4, <2>1, <2>2, <2>3 DEF HandlerFits, StatesAt, Updating
  <2>5. ASSUME q \notin shared PROVE SoleFits(a, q)'
    <3>1. RowFits(q)' /\ HolderFits(a, q)'
      BY <1>1, <1>2, <2>1, <2>2, <2>3, <2>5 DEF QuestionFits, RowFits, HolderFits, Waits
    <3> QED BY <1>2, <2>1, <2>2, <3>1 DEF SoleFits
  <2> QED BY <1>1, <1>2, <2>1, <2>4, <2>5, HolderStep DEF ProgressTyped
<1> QED BY <1>3, <1>4

\* The handler of a question gives up.
LEMMA FailedStep ==
    ASSUME ProgressInv, NEW q \in Questions, act[Ask(q)].pc \in {"confirm", "prompted"},
           Set(Ask(q), UpdateProgress(act[Ask(q)], "failed", "idle")),
           UNCHANGED <<row, shown, rowTs, asked, undecided, phase, shared, trouble>>
    PROVE  ProgressInv'
<1>1. Ask(q) \in Actors /\ undecided \subseteq Questions
  BY RoleFacts DEF ProgressInv, ProgressTyped
<1>2. "failed" \in ProgressStates /\ "failed" \in StatesAt("idle") /\ "failed" \notin Moving
      /\ "idle" \in Nexts
  BY DEF ProgressStates, Terminal, StatesAt, Moving, Nexts
<1> QED BY <1>1, <1>2, UpdateStep

LEMMA ConfirmStep ==
    ASSUME ProgressInv, NEW q \in Questions, PublishConfirmation(q) \/ MarkPublished(q)
    PROVE  ProgressInv'
<1>1. /\ UNCHANGED <<row, shown, rowTs, asked, phase, shared, trouble>> /\ undecided \subseteq Questions
      /\ act[Ask(q)].pc \in {"confirm", "prompted"}
  BY DEF PublishConfirmation, MarkPublished, storeVars, turnVars, processVars, ProgressInv, ProgressTyped
<1>2. CASE PublishConfirmation(q)
  BY <1>1, <1>2, GoOnStep, FailedStep DEF PublishConfirmation
<1>3. CASE MarkPublished(q)
  BY <1>1, <1>3, LetGoStep, FailedStep DEF MarkPublished, turnVars
<1> QED BY <1>2, <1>3

-----------------------------------------------------------------------------
(* The handler of a decision                                                 *)

LEMMA DecideStep ==
    ASSUME ProgressInv, NEW q \in Questions, DecideConfirmation(q)
    PROVE  ProgressInv'
<1>1. /\ Resume(q) \in Actors /\ ProgressTyped /\ act[Resume(q)].op = {}
      /\ UNCHANGED <<row, shown, rowTs, asked, phase, shared, trouble>> /\ undecided' \subseteq undecided
  BY RoleFacts, IdleFacts DEF DecideConfirmation, storeVars, processVars, ProgressInv
<1>2. PICK h \in Handlers : Set(Resume(q), h) /\ h.op = {} /\ h.pc = "find"
  BY IdleFacts DEF DecideConfirmation, Handlers, HandlerPlaces
<1> QED BY <1>1, <1>2, FreeStep DEF ProgressTyped

LEMMA ResumeStep ==
    ASSUME ProgressInv, NEW q \in Questions, ResumeTurn(q) \/ PublishResult(q)
    PROVE  ProgressInv'
<1>1. /\ Resume(q) \in Actors /\ Resume(q)[1] = "resume" /\ undecided \subseteq Questions
      /\ act[Resume(q)].pc \in {"resume", "publish"}
      /\ UNCHANGED <<row, shown, rowTs, asked, undecided, phase, shared, trouble>>
  BY RoleFacts DEF ResumeTurn, PublishResult, storeVars, turnVars, processVars, ProgressInv, ProgressTyped
<1>2. PICK state, next : /\ state \in ProgressStates /\ next \in Nexts /\ state \in StatesAt(next)
                         /\ Set(Resume(q), UpdateProgress(act[Resume(q)], state, next))
  <2>1. \A u \in {<<"failed", "idle">>, <<"finalizing", "publish">>, <<"cleared", "idle">>} :
            u[1] \in ProgressStates /\ u[2] \in Nexts /\ u[1] \in StatesAt(u[2])
    BY DEF ProgressStates, Terminal, Unfinished, Nexts, StatesAt
  <2> QED BY <2>1 DEF ResumeTurn, PublishResult
<1> QED BY <1>1, <1>2, UpdateStep

\* The decision looks for the row that waits, and takes it.
LEMMA FindStep ==
    ASSUME ProgressInv, NEW q \in Questions, FindWaitingProgress(q)
    PROVE  ProgressInv'
<1> DEFINE a == Resume(q)
<1>1. /\ a \in Actors /\ a[1] = "resume" /\ ProgressTyped /\ act[a] \in Handlers
      /\ act[a].op = {} /\ act[a].pc = "find"
      /\ UNCHANGED <<row, rowTs, shown, asked, undecided, phase, trouble>>
  BY RoleFacts DEF FindWaitingProgress, ProgressInv, ProgressTyped, HandlerFits, storeVars, turnVars,
                   processVars
<1>2. CASE Set(a, Goto(act[a], "resume")) /\ UNCHANGED shared
  <2>1. PICK h \in Handlers : Set(a, h) /\ h.op = {} /\ h.pc = "resume"
    <3>1. "resume" \in HandlerPlaces
      BY DEF HandlerPlaces
    <3> QED BY <1>1, <1>2, <3>1, GotoFacts
  <2> QED BY <1>1, <1>2, <2>1, FreeStep DEF ProgressTyped
<1>3. ASSUME NEW o \in Questions, Waits(o),
             Set(a, UpdateProgress([act[a] EXCEPT !.op = {o}, !.mine = row[o], !.ts = o \in rowTs],
                                   "working", "resume")),
             shared' = IF HeldBy(o) # {} THEN shared \cup {o} ELSE shared
      PROVE  ProgressInv'
  <2> DEFINE taken == [act[a] EXCEPT !.op = {o}, !.mine = row[o], !.ts = o \in rowTs]
  <2>1. row[o] \in ProgressStates /\ {o} \in SUBSET Questions /\ o \in Questions
    BY <1>1 DEF ProgressTyped
  <2>2. /\ taken \in Handlers /\ taken.op = {o} /\ taken.mine = row[o]
        /\ taken.ts <=> o \in rowTs
    <3>1. CASE o \in rowTs
      <4>1. taken = [act[a] EXCEPT !.op = {o}, !.mine = row[o], !.ts = TRUE]
        BY <3>1
      <4> QED BY <1>1, <2>1, <3>1, <4>1 DEF Handlers
    <3>2. CASE o \notin rowTs
      <4>1. (o \in rowTs) = FALSE
        BY <3>2
      <4>2. taken = [act[a] EXCEPT !.op = {o}, !.mine = row[o], !.ts = FALSE]
        BY <4>1, Zenon
      <4> QED BY <1>1, <2>1, <3>2, <4>2 DEF Handlers
    <3> QED BY <3>1, <3>2
  <2> HIDE DEF taken
  <2>3. taken.mine \notin Terminal /\ taken.op # {}
        /\ "working" \in ProgressStates /\ "resume" \in HandlerPlaces
    BY <1>3, <2>2 DEF Waits, Terminal, ProgressStates, Unfinished, HandlerPlaces
  <2>4. PICK h \in Handlers : /\ Set(a, h) /\ h.op = {o} /\ h.mine = "working" /\ h.next = "resume"
                              /\ (h.ts <=> o \in rowTs)
                              /\ h.pc = IF h.ts THEN "slack" ELSE "store"
    <3>1. /\ UpdateProgress(taken, "working", "resume") \in Handlers
          /\ UpdateProgress(taken, "working", "resume").pc = IF taken.ts THEN "slack" ELSE "store"
          /\ UpdateProgress(taken, "working", "resume").op = taken.op
          /\ UpdateProgress(taken, "working", "resume").mine = "working"
          /\ UpdateProgress(taken, "working", "resume").ts = taken.ts
          /\ UpdateProgress(taken, "working", "resume").next = "resume"
      BY <2>2, <2>3, UpdateFacts
    <3> QED BY <1>3, <2>2, <3>1 DEF taken
  <2>5. act'[a] = h /\ (h.ts <=> o \in rowTs) /\ (h.pc = "slack" => h.ts) /\ (h.pc = "store" => ~h.ts)
        /\ h.pc \in Updating
    BY <1>1, <2>4, SetFacts DEF Updating
  <2>6. o \in asked
    BY <1>3 DEF ProgressInv, Waits
  <2> HIDE DEF a
  <2>7. HandlerFits(a)'
    BY <1>1, <2>4, <2>5, <2>6 DEF HandlerFits, StatesAt, Updating, Nexts
  <2>8. ASSUME o \notin shared' PROVE HolderFits(a, o)' /\ RowFits(o)'
    <3>1. QuestionFits(o)
      BY <1>3, <2>8 DEF ProgressInv
    <3>2. RowFits(o) /\ row[o] \in Unfinished
      BY <1>3, <3>1 DEF QuestionFits, Waits, Unfinished
    <3>3. o \notin rowTs => shown[o] \notin Moving
      BY <1>3, <3>2 DEF RowFits
    <3>4. HolderFits(a, o)'
      BY <1>1, <2>4, <2>5, <3>2, <3>3 DEF HolderFits, Updating
    <3> QED BY <1>1, <3>2, <3>4 DEF RowFits, Waits
  <2>9. shared \subseteq shared' /\ shared' \subseteq Questions /\ (HeldBy(o) # {} => o \in shared')
    BY <1>1, <1>3 DEF ProgressTyped
  <2> QED BY <1>1, <2>4, <2>6, <2>7, <2>8, <2>9, TakeStep DEF ProgressTyped
<1> QED BY <1>2, <1>3 DEF FindWaitingProgress

-----------------------------------------------------------------------------
(* A crash, and the next start                                               *)

LEMMA RecoverStep ==
    ASSUME ProgressInv, NEW q \in Questions, RecoverProgress(q) \/ ReconcileOperation(q)
    PROVE  ProgressInv'
<1> DEFINE a == Start(q)
           state == SettledState(act[a])
<1>1. /\ a \in Actors /\ a[1] = "start" /\ a[2] = q /\ ProgressTyped /\ act[a] \in Handlers
      /\ HandlerFits(a) /\ act[a].pc = "listed" /\ act[a].op = {q} /\ q \in asked
      /\ UNCHANGED <<shown, asked, undecided, phase, shared, trouble>>
  BY RoleFacts DEF RecoverProgress, ReconcileOperation, ProgressInv, ProgressTyped, HandlerFits,
                   turnVars, processVars
<1>2. state \in ProgressStates /\ state \in StatesAt("idle") /\ "idle" \in Nexts
  BY DEF SettledState, ProgressStates, Terminal, Unfinished, StatesAt, Nexts
<1>3. CASE /\ Set(a, UpdateProgress(act[a], state, "idle")) /\ UNCHANGED <<row, rowTs>>
           /\ act[a].ts \/ shown[q] = "none"
  <2>1. \A o \in act[a].op \ shared : ~act[a].ts => shown[o] \notin Moving
    BY <1>1, <1>3 DEF Moving
  <2> HIDE DEF state, a
  <2> QED BY <1>1, <1>2, <1>3, <2>1, UpdateStep DEF ProgressTyped
<1>4. CASE Set(a, [act[a] EXCEPT !.ts = TRUE]) /\ rowTs' = rowTs \cup {q} /\ Write(q, row[q])
  <2>1. PICK h \in Handlers : /\ Set(a, h) /\ h.pc = "listed" /\ h.op = {q}
                              /\ h.mine = act[a].mine /\ h.ts
    <3> DEFINE held == [act[a] EXCEPT !.ts = TRUE]
    <3>1. /\ held \in Handlers /\ held.pc = "listed" /\ held.op = {q}
          /\ held.mine = act[a].mine /\ held.ts
      BY <1>1 DEF Handlers
    <3>2. Set(a, held)
      BY <1>4
    <3> HIDE DEF held
    <3> QED BY <3>1, <3>2
  <2>2. act'[a] = h /\ row' = row
    BY <1>1, <1>4, <2>1, SetFacts DEF Write, ProgressTyped
  <2> HIDE DEF a
  <2>3. HandlerFits(a)'
    BY <1>1, <2>1, <2>2 DEF HandlerFits, Updating
  <2>4. ASSUME q \notin shared PROVE SoleFits(a, q)'
    <3>1. HolderFits(a, q) /\ QuestionFits(q)
      <4>1. a \in HeldBy(q)
        BY <1>1 DEF HeldBy
      <4> QED BY <2>4, <4>1 DEF ProgressInv, QuestionFits
    <3>2. HolderFits(a, q)' /\ RowFits(q)'
      BY <1>1, <1>4, <2>1, <2>2, <3>1 DEF HolderFits, QuestionFits, RowFits, Waits
    <3> QED BY <2>1, <2>2, <3>2 DEF SoleFits
  <2>5. rowTs' \subseteq asked /\ \A o \in Questions \ {q} : o \in rowTs' <=> o \in rowTs
    BY <1>1, <1>4 DEF ProgressTyped
  <2> QED BY <1>1, <2>1, <2>2, <2>3, <2>4, <2>5, HolderStep DEF ProgressTyped
<1> QED BY <1>3, <1>4 DEF RecoverProgress, ReconcileOperation, storeVars

\* The process dies, or its start ends: the handlers are gone, and the rest stays.
LEMMA DownStep ==
    ASSUME ProgressInv, act' = [a \in Actors |-> Idle], phase' = "down",
           UNCHANGED <<row, rowTs, shown, asked, undecided, shared, trouble>>
    PROVE  ProgressInv'
<1>1. \A a \in Actors : act'[a] = Idle
  OBVIOUS
<1>2. ProgressTyped'
  BY IdleFacts DEF ProgressInv, ProgressTyped
<1>3. \A a \in Actors : HandlerFits(a)'
  BY <1>1, IdleFacts DEF HandlerFits
<1>4. ASSUME NEW q \in Questions \ shared' PROVE QuestionFits(q)'
  <2>1. HeldBy(q)' = {}
    BY <1>1, IdleFacts DEF HeldBy
  <2>2. RowFits(q)' /\ Settled(q)'
    BY DEF ProgressInv, QuestionFits, RowFits, Waits, Settled
  <2> QED BY <2>1, <2>2 DEF QuestionFits
<1> QED BY <1>2, <1>3, <1>4 DEF ProgressInv

\* What is stale is listed at the next start.
LEMMA StartStep ==
    ASSUME ProgressInv, StartReconcile
    PROVE  ProgressInv'
<1>1. /\ ProgressTyped /\ UNCHANGED <<row, rowTs, shown, asked, undecided, shared>>
      /\ trouble' = {} /\ phase' = "reconciling"
  BY DEF ProgressInv, StartReconcile, storeVars, turnVars
<1> DEFINE listed(q) == [Idle EXCEPT !.pc = "listed", !.op = {q}, !.mine = row[q], !.ts = q \in rowTs]
           listing(a) == a[1] = "start" /\ row[a[2]] \in Unfinished
<1>2. ASSUME NEW q \in Questions
      PROVE  /\ listed(q) \in Handlers /\ listed(q).pc = "listed" /\ listed(q).op = {q}
             /\ listed(q).mine = row[q] /\ (listed(q).ts <=> q \in rowTs)
  <2>1. row[q] \in ProgressStates /\ "listed" \in HandlerPlaces
    BY <1>1 DEF ProgressTyped, HandlerPlaces
  <2>2. Idle \in Handlers
    BY IdleFacts
  <2>3. CASE q \in rowTs
    <3>1. listed(q) = [Idle EXCEPT !.pc = "listed", !.op = {q}, !.mine = row[q], !.ts = TRUE]
      BY <2>3
    <3> QED BY <2>1, <2>2, <2>3, <3>1 DEF Handlers
  <2>4. CASE q \notin rowTs
    <3>1. (q \in rowTs) = FALSE
      BY <2>4
    <3>2. listed(q) = [Idle EXCEPT !.pc = "listed", !.op = {q}, !.mine = row[q], !.ts = FALSE]
      BY <3>1, Zenon
    <3> QED BY <2>1, <2>2, <2>4, <3>2 DEF Handlers
  <2> QED BY <2>3, <2>4
<1>3. \A a \in Actors : a[2] \in Questions
  BY DEF Actors
<1>4. act' = [a \in Actors |-> IF listing(a) THEN listed(a[2]) ELSE Idle]
  BY <1>3 DEF StartReconcile
<1> HIDE DEF listed
<1>5. \A a \in Actors : act'[a] = IF listing(a) THEN listed(a[2]) ELSE Idle
  BY <1>4
<1>6. ProgressTyped'
  BY <1>1, <1>2, <1>3, <1>4, IdleFacts DEF ProgressTyped
<1>7. ASSUME NEW a \in Actors PROVE HandlerFits(a)'
  <2>1. CASE listing(a)
    <3>1. a[2] \in asked
      BY <1>3, <2>1 DEF ProgressInv, Unfinished
    <3> QED BY <1>1, <1>2, <1>3, <1>5, <2>1, <3>1 DEF HandlerFits, StatesAt, Updating
  <2>2. CASE ~listing(a)
    BY <1>5, <2>2, IdleFacts DEF HandlerFits
  <2> QED BY <2>1, <2>2
<1>8. ASSUME NEW q \in Questions \ shared' PROVE QuestionFits(q)'
  <2>1. QuestionFits(q) /\ RowFits(q)'
    BY <1>1 DEF ProgressInv, QuestionFits, RowFits, Waits
  <2>2. \A a \in HeldBy(q)' : listing(a) /\ a[2] = q /\ act'[a] = listed(q)
    BY <1>2, <1>3, <1>5, IdleFacts DEF HeldBy
  <2>3. \A a, b \in HeldBy(q)' : a = b
    BY <2>2 DEF HeldBy, Actors
  <2>4. \A a \in HeldBy(q)' : HolderFits(a, q)'
    BY <1>1, <1>2, <2>2 DEF HolderFits
  <2>5. HeldBy(q)' = {} => Settled(q)'
    <3>1. row[q] \in Unfinished => Start(q) \in HeldBy(q)'
      BY <1>2, <1>5, RoleFacts DEF HeldBy
    <3> QED BY <1>1, <2>1, <3>1 DEF QuestionFits, RowFits, Settled
  <2> QED BY <2>1, <2>3, <2>4, <2>5 DEF QuestionFits
<1> QED BY <1>1, <1>6, <1>7, <1>8 DEF ProgressInv

LEMMA ServeStep ==
    ASSUME ProgressInv, Serve \/ UNCHANGED vars
    PROVE  ProgressInv'
<1>1. /\ UNCHANGED <<row, rowTs, shown, asked, undecided, shared, act, trouble>>
      /\ phase # "down" \/ phase' = phase
  BY DEF Serve, vars, storeVars, turnVars, processVars
<1>2. ProgressTyped' /\ \A a \in Actors : HandlerFits(a)'
  BY <1>1 DEF ProgressInv, ProgressTyped, HandlerFits
<1>3. ASSUME NEW q \in Questions \ shared' PROVE QuestionFits(q)'
  <2>1. QuestionFits(q) /\ HeldBy(q)' = HeldBy(q)
    BY <1>1 DEF ProgressInv, HeldBy
  <2>2. \A a : HolderFits(a, q) => HolderFits(a, q)'
    BY <1>1 DEF HolderFits, Waits
  <2>3. RowFits(q)' /\ (Settled(q) => Settled(q)')
    BY <1>1, <2>1 DEF QuestionFits, RowFits, Waits, Settled
  <2> QED BY <2>1, <2>2, <2>3 DEF QuestionFits
<1> QED BY <1>1, <1>2, <1>3 DEF ProgressInv

LEMMA ProgressInit == Init => ProgressInv
<1> SUFFICES ASSUME Init PROVE ProgressInv
  OBVIOUS
<1>1. \A a \in Actors : act[a] = Idle
  BY DEF Init
<1>2. ProgressTyped
  BY IdleFacts DEF Init, ProgressTyped, ProgressStates
<1>3. \A a \in Actors : HandlerFits(a)
  BY <1>1, IdleFacts DEF HandlerFits
<1>4. \A q \in Questions : QuestionFits(q)
  BY <1>1, IdleFacts DEF Init, QuestionFits, HeldBy, RowFits, Waits, Settled, Moving, Unfinished
<1> QED BY <1>2, <1>3, <1>4 DEF Init, ProgressInv

LEMMA ProgressNext == ProgressInv /\ [Next]_vars => ProgressInv'
<1> SUFFICES ASSUME ProgressInv, [Next]_vars PROVE ProgressInv'
  OBVIOUS
<1>1. CASE \E a \in Actors : SlackUpdate(a) \/ SetProgressState(a)
  BY <1>1, SlackStep, StoreStep
<1>2. ASSUME NEW q \in Questions,
             \/ CreateProgress(q) \/ PublishProgress(q) \/ MarkProgressPublished(q)
             \/ RunTurn(q) \/ FinalizeTurn(q) \/ PublishConfirmation(q) \/ MarkPublished(q)
             \/ DecideConfirmation(q) \/ FindWaitingProgress(q) \/ ResumeTurn(q) \/ PublishResult(q)
             \/ RecoverProgress(q) \/ ReconcileOperation(q)
      PROVE  ProgressInv'
  BY <1>2, CreateStep, PublishStep, MarkStep, RunStep, FinalizeStep, ConfirmStep, DecideStep, FindStep,
     ResumeStep, RecoverStep
<1>3. CASE Crash \/ AbortStart
  BY <1>3, DownStep DEF Crash, AbortStart, storeVars, turnVars
<1> QED BY <1>1, <1>2, <1>3, StartStep, ServeStep DEF Next

\* The variables keep their types: a row, a message and a handler have states of
\* theirs, and what is remembered is of questions.
THEOREM ProgressKeepsTypes == Spec => []TypeOK
<1>1. ProgressInv => TypeOK
  BY DEF ProgressInv, ProgressTyped, ProgressStates, Handlers, TypeOK
<1> QED BY <1>1, ProgressInit, ProgressNext, PTL DEF Spec

\* As long as a message says that work goes on its row is one that the next
\* start lists, and once the program serves a handler is at it.
THEOREM ProgressIsNeverStale == Spec => [](StaleIsListed /\ NoStaleWork)
<1>1. ProgressInv => StaleIsListed /\ NoStaleWork
  <2> SUFFICES ASSUME ProgressInv PROVE StaleIsListed /\ NoStaleWork
    OBVIOUS
  <2>1. \A q \in Questions \ shared : QuestionFits(q)
    BY DEF ProgressInv
  <2>2. StaleIsListed
    BY <2>1 DEF ProgressInv, ProgressTyped, StaleIsListed, QuestionFits, RowFits
  <2>3. NoStaleWork
    BY <2>1 DEF NoStaleWork, QuestionFits, Settled, Moving
  <2> QED BY <2>2, <2>3
<1> QED BY <1>1, ProgressInit, ProgressNext, PTL DEF Spec

-----------------------------------------------------------------------------
(* The canvases                                                              *)

\* The calls that hold the operation they have inserted: one for each.
Owning == {"mark", "create", "settle", "complete"}
CanvasPlaces == {"insert", "exists"} \cup Owning \cup Canvas!Ended

CanvasTyped ==
    /\ status \in [CanvasOps -> Canvas!Statuses]
    /\ owner \in [CanvasOps -> {{}} \cup [actor : Users, doc : Documents]]
    /\ canvasID \in [CanvasOps -> Nat]
    /\ canvases \in Seq(Canvas!Asks)
    /\ consents \subseteq Canvas!Asks
    /\ pc \in [Calls -> CanvasPlaces]
    /\ DOMAIN ask = Calls
    /\ found \in [Calls -> Nat]
    /\ verdict \in [Calls -> {"none", "failed", "unknown"}]

\* What a call asks for is known from when it is held, and approved from when
\* it runs.
Running(c) == pc[c] \in {"insert", "exists", "answered"} \cup Owning

Asked ==
    \A c \in Calls :
        /\ pc[c] = "held" \/ Running(c) => ask[c] \in Canvas!Asks
        /\ Running(c) => ask[c] \in consents

\* The row of a call that has inserted it is its own.
RowOf(a) == [actor |-> a.actor, doc |-> a.doc]

Owned ==
    /\ \A c \in Calls : pc[c] \in Owning =>
           owner[ask[c].op] = RowOf(ask[c]) /\ canvasID[ask[c].op] = 0
    /\ \A c, d \in Calls :
           pc[c] \in Owning /\ pc[d] \in Owning /\ ask[c].op = ask[d].op => c = d

\* How far a row may have gone while a call owns it.
StatusFits ==
    \A c \in Calls :
        /\ pc[c] = "mark" => status[ask[c].op] = "ready"
        /\ pc[c] \in {"create", "settle", "complete"} => status[ask[c].op] = "creating"
        /\ pc[c] = "exists" => status[ask[c].op] # "none"

\* The canvases of an operation: at most one, of what its row asks for.
MadeOnce ==
    /\ \A m, n \in 1..Len(canvases) : canvases[m].op = canvases[n].op => m = n
    /\ \A n \in 1..Len(canvases) :
           /\ canvases[n] \in consents
           /\ owner[canvases[n].op] = RowOf(canvases[n])

\* There is none yet where a call is about to make it, and there is one where
\* a call is about to report it.
MadeFits ==
    \A c \in Calls :
        /\ pc[c] \in {"mark", "create"} => Canvas!Made(ask[c].op) = {}
        /\ pc[c] = "settle" => verdict[c] # "none"
        /\ pc[c] = "settle" /\ verdict[c] = "failed" => Canvas!Made(ask[c].op) = {}
        /\ pc[c] \in {"complete", "answered"} =>
               found[c] \in 1..Len(canvases) /\ canvases[found[c]] = ask[c]

\* What a row says is so.
CanvasRowsAreTrue ==
    \A o \in CanvasOps :
        /\ status[o] \in {"none", "ready", "failed"} => Canvas!Made(o) = {}
        /\ status[o] = "completed" => canvasID[o] # 0
        /\ canvasID[o] # 0 => canvasID[o] \in Canvas!Made(o)

CanvasInv == CanvasTyped /\ Asked /\ Owned /\ StatusFits /\ MadeOnce /\ MadeFits /\ CanvasRowsAreTrue

-----------------------------------------------------------------------------
(* Steps that a call takes alone                                             *)

\* A call that stops, is held, or looks at a row it has not made leaves the
\* rows and the canvases, and with them every other call, as they were.
LEMMA CanvasQuietStep ==
    ASSUME CanvasInv, NEW c \in Calls, UNCHANGED <<Canvas!rows, canvases>>,
           consents \subseteq consents', consents' \subseteq Canvas!Asks,
           \A d \in Calls \ {c} : /\ pc'[d] = pc[d] /\ ask'[d] = ask[d]
                                  /\ found'[d] = found[d] /\ verdict'[d] = verdict[d],
           pc' \in [Calls -> CanvasPlaces], DOMAIN ask' = Calls, found' \in [Calls -> Nat],
           verdict' = verdict,
           pc'[c] \notin Owning,
           pc'[c] = "held" \/ Running(c)' => ask'[c] \in Canvas!Asks,
           Running(c)' => ask'[c] \in consents',
           pc'[c] = "exists" => status[ask'[c].op] # "none",
           pc'[c] = "answered" =>
               found'[c] \in 1..Len(canvases) /\ canvases[found'[c]] = ask'[c]
    PROVE  CanvasInv'
<1>1. /\ status' = status /\ owner' = owner /\ canvasID' = canvasID
      /\ canvases' = canvases
  BY DEF Canvas!rows
<1>2. CanvasTyped'
  BY <1>1 DEF CanvasInv, CanvasTyped
<1>3. Asked'
  BY DEF CanvasInv, Asked, Running
<1>4. Owned'
  BY <1>1 DEF CanvasInv, Owned, RowOf
<1>5. StatusFits'
  BY <1>1 DEF CanvasInv, StatusFits, Owning
<1>6. MadeOnce'
  BY <1>1 DEF CanvasInv, MadeOnce, RowOf
<1>7. MadeFits'
  BY <1>1 DEF CanvasInv, MadeFits, Owning, Canvas!Made
<1>8. CanvasRowsAreTrue'
  BY <1>1 DEF CanvasInv, CanvasRowsAreTrue, Canvas!Made
<1> QED BY <1>2, <1>3, <1>4, <1>5, <1>6, <1>7, <1>8 DEF CanvasInv

\* A step to an error, or out of the process.
LEMMA CanvasFailingStep ==
    ASSUME CanvasInv, NEW c \in Calls, Canvas!Fails(c)
    PROVE  CanvasInv'
<1>1. pc' = [pc EXCEPT ![c] = "error"]
  BY DEF Canvas!Fails, Canvas!Goto
<1>2. pc'[c] = "error" /\ pc' \in [Calls -> CanvasPlaces]
  BY <1>1 DEF CanvasInv, CanvasTyped, CanvasPlaces, Canvas!Ended
<1>3. \A d \in Calls \ {c} : pc'[d] = pc[d]
  BY <1>1 DEF CanvasInv, CanvasTyped
<1> QED BY <1>2, <1>3, CanvasQuietStep DEF Canvas!Fails, Canvas!Goto, CanvasInv, CanvasTyped,
                                           Running, Owning

\* The places of a call are its own, so two calls that own a row own two rows.
LEMMA OthersOwnOthers ==
    ASSUME CanvasInv, NEW c \in Calls, pc[c] \in Owning, NEW d \in Calls \ {c}, pc[d] \in Owning
    PROVE  ask[d].op # ask[c].op
BY DEF CanvasInv, Owned

\* A call writes the row it owns.
LEMMA CanvasRowStep ==
    ASSUME CanvasInv, NEW c \in Calls, pc[c] \in Owning,
           NEW s \in Canvas!Statuses \ {"none", "ready"}, NEW id \in Nat,
           NEW place \in CanvasPlaces,
           Canvas!UpdateOperationStatus(ask[c].op, s, id), Canvas!Goto(c, place),
           UNCHANGED <<canvases, consents>>,
           place \in {"create", "error", "answered"},
           place = "create" => s = "creating" /\ id = 0 /\ pc[c] = "mark",
           place = "answered" => pc[c] = "complete",
           s = "failed" => Canvas!Made(ask[c].op) = {},
           s = "completed" => id # 0,
           id # 0 => id \in Canvas!Made(ask[c].op)
    PROVE  CanvasInv'
<1> DEFINE o == ask[c].op
<1>0. CanvasTyped /\ ask[c] \in Canvas!Asks /\ o \in CanvasOps
  BY DEF CanvasInv, Asked, Running, Canvas!Asks
<1>1. /\ status' = [status EXCEPT ![o] = s] /\ canvasID' = [canvasID EXCEPT ![o] = id]
      /\ pc' = [pc EXCEPT ![c] = place]
      /\ UNCHANGED <<owner, canvases, consents, ask, found, verdict>>
  BY DEF Canvas!UpdateOperationStatus, Canvas!Goto
<1>2. CanvasTyped'
  BY <1>0, <1>1 DEF CanvasTyped
<1>3. /\ pc'[c] = place /\ status'[o] = s /\ canvasID'[o] = id
      /\ \A d \in Calls \ {c} : pc'[d] = pc[d]
      /\ \A q \in CanvasOps \ {o} : status'[q] = status[q] /\ canvasID'[q] = canvasID[q]
  BY <1>0, <1>1 DEF CanvasTyped
<1>4. \A q : Canvas!Made(q)' = Canvas!Made(q)
  BY <1>1 DEF Canvas!Made
<1>5. ASSUME NEW d \in Calls, pc[d] = "held" \/ Running(d)
      PROVE  ask[d] \in Canvas!Asks /\ ask[d].op \in CanvasOps
  BY <1>5 DEF CanvasInv, Asked, Canvas!Asks
<1>6. ASSUME NEW d \in Calls \ {c}, pc[d] \in Owning
      PROVE  ask[d].op \in CanvasOps \ {o}
  BY <1>5, <1>6, OthersOwnOthers DEF Running
<1>7. Asked'
  BY <1>1, <1>3 DEF CanvasInv, Asked, Running, Owning
<1>8. Owned'
  BY <1>1, <1>3, <1>6 DEF CanvasInv, Owned, Owning, RowOf
<1>9. StatusFits'
  <2>1. ASSUME NEW d \in Calls \ {c}, pc[d] \in {"mark", "create", "settle", "complete"}
        PROVE  status'[ask'[d].op] = status[ask[d].op]
    BY <1>1, <1>3, <1>6, <2>1 DEF Owning
  <2>2. ASSUME NEW d \in Calls \ {c}, pc[d] = "exists" PROVE status'[ask'[d].op] # "none"
    <3>1. ask[d].op \in CanvasOps /\ status[ask[d].op] # "none"
      BY <1>5, <2>2 DEF Running, CanvasInv, StatusFits
    <3>2. CASE ask[d].op = o
      BY <1>1, <1>3, <3>2
    <3>3. CASE ask[d].op # o
      BY <1>1, <1>3, <3>1, <3>3
    <3> QED BY <3>2, <3>3
  <2>3. place = "create" => status'[ask'[c].op] = "creating"
    BY <1>1, <1>3
  <2> QED BY <1>3, <2>1, <2>2, <2>3 DEF CanvasInv, StatusFits
<1>10. MadeOnce'
  BY <1>1 DEF CanvasInv, MadeOnce, RowOf
<1>11. MadeFits'
  BY <1>1, <1>3, <1>4 DEF CanvasInv, MadeFits
<1>12. CanvasRowsAreTrue'
  BY <1>1, <1>3, <1>4 DEF CanvasInv, CanvasRowsAreTrue
<1> QED BY <1>2, <1>7, <1>8, <1>9, <1>10, <1>11, <1>12 DEF CanvasInv

\* A call inserts a row where there is none, and owns it.
LEMMA CanvasInsertStep ==
    ASSUME CanvasInv, NEW c \in Calls, pc[c] = "insert", status[ask[c].op] = "none",
           status' = [status EXCEPT ![ask[c].op] = "ready"],
           owner' = [owner EXCEPT ![ask[c].op] = RowOf(ask[c])],
           Canvas!Goto(c, "mark"), UNCHANGED <<canvasID, canvases, consents>>
    PROVE  CanvasInv'
<1> DEFINE o == ask[c].op
<1>0. CanvasTyped /\ ask[c] \in Canvas!Asks /\ o \in CanvasOps /\ RowOf(ask[c]) \in [actor : Users, doc : Documents]
  BY DEF CanvasInv, Asked, Running, Canvas!Asks, RowOf
<1>1. /\ pc' = [pc EXCEPT ![c] = "mark"] /\ UNCHANGED <<ask, found, verdict>>
  BY DEF Canvas!Goto
<1>2. CanvasTyped'
  BY <1>0, <1>1 DEF CanvasTyped, Canvas!Statuses, CanvasPlaces, Owning
<1>3. /\ pc'[c] = "mark" /\ status'[o] = "ready" /\ owner'[o] = RowOf(ask[c])
      /\ \A d \in Calls \ {c} : pc'[d] = pc[d]
      /\ \A q \in CanvasOps \ {o} : status'[q] = status[q] /\ owner'[q] = owner[q]
  BY <1>0, <1>1 DEF CanvasTyped
<1>4. Canvas!Made(o) = {} /\ canvasID[o] = 0 /\ \A q : Canvas!Made(q)' = Canvas!Made(q)
  BY <1>0 DEF CanvasInv, CanvasRowsAreTrue, Canvas!Made
<1>5. ASSUME NEW d \in Calls, pc[d] \in Owning PROVE ask[d].op \in CanvasOps \ {o} /\ d # c
  <2>1. ask[d].op \in CanvasOps
    BY <1>5 DEF CanvasInv, Asked, Running, Canvas!Asks
  <2>2. status[ask[d].op] \in {"ready", "creating"}
    BY <1>5 DEF CanvasInv, StatusFits, Owning
  <2> QED BY <1>5, <2>1, <2>2 DEF Owning
<1>6. Asked'
  BY <1>0, <1>1, <1>3 DEF CanvasInv, Asked, Running, Owning
<1>7. Owned'
  <2>1. \A d \in Calls \ {c} : pc'[d] \in Owning =>
            owner'[ask'[d].op] = RowOf(ask'[d]) /\ canvasID'[ask'[d].op] = 0
    BY <1>1, <1>3, <1>5 DEF CanvasInv, Owned
  <2>2. owner'[ask'[c].op] = RowOf(ask'[c]) /\ canvasID'[ask'[c].op] = 0
    BY <1>1, <1>3, <1>4
  <2>3. ASSUME NEW d \in Calls, NEW e \in Calls, pc'[d] \in Owning, pc'[e] \in Owning,
               ask'[d].op = ask'[e].op
        PROVE  d = e
    BY <1>1, <1>3, <1>5, <2>3 DEF CanvasInv, Owned
  <2> QED BY <2>1, <2>2, <2>3 DEF Owned, RowOf
<1>8. StatusFits'
  <2>1. ASSUME NEW d \in Calls \ {c}, pc[d] \in Owning
        PROVE  status'[ask'[d].op] = status[ask[d].op]
    BY <1>1, <1>3, <1>5, <2>1
  <2>2. ASSUME NEW d \in Calls \ {c}, pc[d] = "exists" PROVE status'[ask'[d].op] # "none"
    <3>1. ask[d].op \in CanvasOps /\ status[ask[d].op] # "none"
      BY <2>2 DEF Running, CanvasInv, Asked, Canvas!Asks, StatusFits
    <3> QED BY <1>1, <1>3, <3>1
  <2> QED BY <1>1, <1>3, <2>1, <2>2 DEF CanvasInv, StatusFits, Owning
<1>9. MadeOnce'
  <2>1. ASSUME NEW n \in 1..Len(canvases) PROVE canvases[n].op \in CanvasOps \ {o}
    <3>1. canvases[n] \in Canvas!Asks
      BY <1>0 DEF CanvasTyped
    <3>2. canvases[n].op \in CanvasOps /\ n \notin Canvas!Made(o)
      BY <1>4, <3>1 DEF Canvas!Asks
    <3> QED BY <3>2 DEF Canvas!Made
  <2> QED BY <1>3, <2>1 DEF CanvasInv, MadeOnce, RowOf
<1>10. MadeFits'
  BY <1>1, <1>3, <1>4 DEF CanvasInv, MadeFits
<1>11. CanvasRowsAreTrue'
  BY <1>3, <1>4 DEF CanvasInv, CanvasRowsAreTrue
<1> QED BY <1>2, <1>6, <1>7, <1>8, <1>9, <1>10, <1>11 DEF CanvasInv

\* A call makes its canvas, or does not, and knows it, or does not.
LEMMA CanvasCreateStep ==
    ASSUME CanvasInv, NEW c \in Calls, pc[c] = "create",
           canvases' \in {canvases, Append(canvases, ask[c])},
           UNCHANGED <<Canvas!rows, consents>>,
           \/ /\ canvases' = Append(canvases, ask[c])
              /\ Canvas!Holds(c, Len(canvases) + 1, "complete")
           \/ Canvas!Decide(c, "unknown")
           \/ Canvas!Decide(c, "failed") /\ canvases' = canvases
    PROVE  CanvasInv'
<1> DEFINE o == ask[c].op
<1>0. CanvasTyped /\ ask[c] \in Canvas!Asks /\ ask[c] \in consents /\ o \in CanvasOps /\ Canvas!Made(o) = {}
      /\ status[o] = "creating" /\ owner[o] = RowOf(ask[c]) /\ canvasID[o] = 0
  BY DEF CanvasInv, Asked, Running, Canvas!Asks, Owning, MadeFits, StatusFits, Owned
<1>1. UNCHANGED <<status, owner, canvasID, consents, ask>>
  BY DEF Canvas!rows, Canvas!Holds, Canvas!Decide
<1>2. /\ pc'[c] \in {"complete", "settle"} /\ \A d \in Calls \ {c} : pc'[d] = pc[d]
      /\ \A d \in Calls \ {c} : found'[d] = found[d] /\ verdict'[d] = verdict[d]
  BY <1>0 DEF Canvas!Holds, Canvas!Decide, CanvasTyped
<1>4. /\ canvases' \in Seq(Canvas!Asks)
      /\ \A n \in 1..Len(canvases) : n \in 1..Len(canvases') /\ canvases'[n] = canvases[n]
      /\ \A n \in 1..Len(canvases') : n \notin 1..Len(canvases) =>
             n = Len(canvases) + 1 /\ canvases'[n] = ask[c]
  <2>1. canvases \in Seq(Canvas!Asks) /\ ask[c] \in Canvas!Asks
    BY <1>0 DEF CanvasTyped
  <2>2. CASE canvases' = canvases
    BY <2>1, <2>2
  <2>3. CASE canvases' = Append(canvases, ask[c])
    <3>1. Len(canvases') = Len(canvases) + 1 /\ canvases' \in Seq(Canvas!Asks) /\ Len(canvases) \in Nat
      BY <2>1, <2>3
    <3>2. \A n \in 1..Len(canvases) : canvases'[n] = canvases[n]
      BY <2>1, <2>3
    <3>3. canvases'[Len(canvases) + 1] = ask[c]
      BY <2>1, <2>3
    <3> QED BY <3>1, <3>2, <3>3
  <2> QED BY <2>2, <2>3
<1>3. CanvasTyped'
  <2>1. pc' \in [Calls -> CanvasPlaces]
    BY <1>0 DEF CanvasTyped, Canvas!Holds, Canvas!Decide, CanvasPlaces, Owning
  <2>2. found' \in [Calls -> Nat]
    BY <1>0, <1>4 DEF CanvasTyped, Canvas!Holds, Canvas!Decide
  <2>3. verdict' \in [Calls -> {"none", "failed", "unknown"}]
    BY <1>0 DEF CanvasTyped, Canvas!Holds, Canvas!Decide
  <2> QED BY <1>0, <1>1, <1>4, <2>1, <2>2, <2>3 DEF CanvasTyped
<1>5. \A q : q # o => Canvas!Made(q)' = Canvas!Made(q)
  BY <1>4 DEF Canvas!Made
<1>6. ASSUME NEW d \in Calls \ {c}, pc[d] \in Owning PROVE ask[d].op # o
  BY <1>6, OthersOwnOthers DEF Owning
<1>7. pc'[c] = "complete" => found'[c] \in 1..Len(canvases') /\ canvases'[found'[c]] = ask[c]
  <2>1. ASSUME pc'[c] = "complete"
        PROVE  found'[c] = Len(canvases) + 1 /\ canvases' = Append(canvases, ask[c])
    BY <1>0, <2>1 DEF Canvas!Holds, Canvas!Decide, CanvasTyped
  <2> QED BY <1>0, <2>1 DEF CanvasTyped
<1>8. pc'[c] = "settle" =>
          verdict'[c] # "none" /\ (verdict'[c] = "failed" => canvases' = canvases)
  BY <1>0 DEF Canvas!Holds, Canvas!Decide, CanvasTyped
<1>9. Asked'
  BY <1>0, <1>1, <1>2 DEF CanvasInv, Asked, Running, Owning
<1>10. Owned'
  BY <1>0, <1>1, <1>2 DEF CanvasInv, Owned, Owning, RowOf
<1>11. StatusFits'
  BY <1>0, <1>1, <1>2 DEF CanvasInv, StatusFits
<1>12. MadeOnce'
  <2>1. ASSUME NEW n \in 1..Len(canvases) PROVE canvases[n].op # o
    BY <1>0, <2>1 DEF Canvas!Made
  <2>2. ASSUME NEW m \in 1..Len(canvases'), NEW n \in 1..Len(canvases'),
               canvases'[m].op = canvases'[n].op
        PROVE  m = n
    <3>1. CASE m \in 1..Len(canvases) /\ n \in 1..Len(canvases)
      BY <1>4, <2>2, <3>1 DEF CanvasInv, MadeOnce
    <3>2. CASE m \notin 1..Len(canvases) /\ n \notin 1..Len(canvases)
      BY <1>4, <3>2
    <3>3. CASE m \in 1..Len(canvases) /\ n \notin 1..Len(canvases)
      BY <1>4, <2>1, <2>2, <3>3
    <3>4. CASE m \notin 1..Len(canvases) /\ n \in 1..Len(canvases)
      BY <1>4, <2>1, <2>2, <3>4
    <3> QED BY <3>1, <3>2, <3>3, <3>4
  <2>3. ASSUME NEW n \in 1..Len(canvases')
        PROVE  canvases'[n] \in consents' /\ owner'[canvases'[n].op] = RowOf(canvases'[n])
    <3>1. CASE n \in 1..Len(canvases)
      BY <1>1, <1>4, <3>1 DEF CanvasInv, MadeOnce
    <3>2. CASE n \notin 1..Len(canvases)
      BY <1>0, <1>1, <1>4, <3>2
    <3> QED BY <3>1, <3>2
  <2> QED BY <2>2, <2>3 DEF MadeOnce, RowOf
<1>13. MadeFits'
  <2>1. ASSUME NEW d \in Calls \ {c}, pc[d] \in {"mark", "create", "settle"}
        PROVE  Canvas!Made(ask[d].op)' = Canvas!Made(ask[d].op)
    BY <1>1, <1>5, <1>6, <2>1 DEF Owning, Canvas!Made
  <2>2. ASSUME NEW d \in Calls \ {c}, pc[d] \in {"complete", "answered"}
        PROVE  found'[d] \in 1..Len(canvases') /\ canvases'[found'[d]] = ask'[d]
    BY <1>1, <1>2, <1>4, <2>2 DEF CanvasInv, MadeFits
  <2>3. canvases' = canvases => Canvas!Made(o)' = {}
    BY <1>0, <1>1 DEF Canvas!Made
  <2>4. ASSUME NEW d \in Calls \ {c}
        PROVE  /\ pc'[d] \in {"mark", "create"} => Canvas!Made(ask[d].op)' = {}
               /\ pc'[d] = "settle" => verdict'[d] # "none"
               /\ pc'[d] = "settle" /\ verdict'[d] = "failed" => Canvas!Made(ask[d].op)' = {}
    BY <1>2, <2>1 DEF CanvasInv, MadeFits
  <2>5. /\ pc'[c] \notin {"mark", "create", "answered"}
        /\ pc'[c] = "settle" => verdict'[c] # "none"
        /\ pc'[c] = "settle" /\ verdict'[c] = "failed" => Canvas!Made(ask[c].op)' = {}
    BY <1>2, <1>8, <2>3
  <2> QED BY <1>1, <1>2, <1>7, <2>2, <2>4, <2>5 DEF MadeFits
<1>14. CanvasRowsAreTrue'
  BY <1>0, <1>1, <1>5 DEF CanvasInv, CanvasRowsAreTrue
<1> QED BY <1>3, <1>9, <1>10, <1>11, <1>12, <1>13, <1>14 DEF CanvasInv

-----------------------------------------------------------------------------
(* Every step                                                                *)

LEMMA CanvasInit == Canvas!Init => CanvasInv
<1> SUFFICES ASSUME Canvas!Init PROVE CanvasInv
  OBVIOUS
<1>1. CanvasTyped /\ Asked /\ Owned /\ StatusFits
  BY DEF Canvas!Init, CanvasTyped, Canvas!Statuses, CanvasPlaces, Canvas!Ended, Owning, Asked,
         Running, Owned, StatusFits
<1>2. \A o : Canvas!Made(o) = {}
  BY DEF Canvas!Init, Canvas!Made
<1>3. MadeOnce /\ MadeFits /\ CanvasRowsAreTrue
  BY <1>2 DEF Canvas!Init, MadeOnce, MadeFits, CanvasRowsAreTrue
<1> QED BY <1>1, <1>3 DEF CanvasInv

LEMMA CanvasNext == CanvasInv /\ [Canvas!Next]_(Canvas!vars) => CanvasInv'
<1> SUFFICES ASSUME CanvasInv, [Canvas!Next]_(Canvas!vars) PROVE CanvasInv'
  OBVIOUS
<1>0. CanvasTyped
  BY DEF CanvasInv
<1>1. ASSUME NEW c \in Calls, NEW a \in Canvas!Asks, Canvas!Request(c, a) PROVE CanvasInv'
  <2>1. pc'[c] \in {"held", "error"} /\ (pc'[c] = "held" => ask'[c] = a)
    <3>1. CASE Canvas!PrepareCanvas(a.doc)
      <4>1. ask' = [ask EXCEPT ![c] = a] /\ pc' = [pc EXCEPT ![c] = "held"]
        <5>1. Canvas!NeedsConfirmation(a.doc)
          BY <3>1 DEF Canvas!NeedsConfirmation
        <5>2. pc' = [pc EXCEPT ![c] = "held"]
          BY <1>1, <5>1 DEF Canvas!Request
        <5>3. ask' = [ask EXCEPT ![c] = a]
          BY <1>1, <5>1 DEF Canvas!Request
        <5> QED BY <5>2, <5>3
      <4> QED BY <1>0, <4>1 DEF CanvasTyped
    <3>2. CASE ~Canvas!PrepareCanvas(a.doc)
      <4>1. pc' = [pc EXCEPT ![c] = "error"]
        BY <1>1, <3>2 DEF Canvas!Request, Canvas!NeedsConfirmation, Canvas!Accepts
      <4> QED BY <1>0, <4>1 DEF CanvasTyped
    <3> QED BY <3>1, <3>2
  <2>2. pc' \in [Calls -> CanvasPlaces] /\ DOMAIN ask' = Calls
    BY <1>0, <1>1, <2>1 DEF Canvas!Request, CanvasTyped, CanvasPlaces, Canvas!Ended
  <2>3. \A d \in Calls \ {c} : pc'[d] = pc[d] /\ ask'[d] = ask[d]
    BY <1>0, <1>1 DEF Canvas!Request, CanvasTyped
  <2>4. UNCHANGED <<Canvas!rows, canvases, consents, found, verdict>>
    BY <1>1 DEF Canvas!Request
  <2> QED BY <1>0, <2>1, <2>2, <2>3, <2>4, CanvasQuietStep DEF CanvasTyped, Running, Owning
<1>2. ASSUME NEW c \in Calls, Canvas!Approve(c) PROVE CanvasInv'
  <2>1. ask[c] \in Canvas!Asks /\ consents' = consents \cup {ask[c]}
    BY <1>2 DEF Canvas!Approve, CanvasInv, Asked
  <2>2. PICK place \in {"insert", "error"} : pc' = [pc EXCEPT ![c] = place]
    BY <1>2 DEF Canvas!Approve, Canvas!Goto
  <2>3. pc'[c] = place /\ pc' \in [Calls -> CanvasPlaces] /\ \A d \in Calls \ {c} : pc'[d] = pc[d]
    BY <1>0, <2>2 DEF CanvasTyped, CanvasPlaces, Canvas!Ended
  <2>4. UNCHANGED <<Canvas!rows, canvases, ask, found, verdict>>
    BY <1>2 DEF Canvas!Approve, Canvas!Goto
  <2> QED BY <1>0, <2>1, <2>2, <2>3, <2>4, CanvasQuietStep DEF CanvasTyped, Running, Owning
<1>3. ASSUME NEW c \in Calls, Canvas!CreateOperation(c) PROVE CanvasInv'
  <2>1. CASE status[ask[c].op] # "none" /\ Canvas!Goto(c, "exists")
             /\ UNCHANGED <<Canvas!rows, canvases, consents>>
    <3>1. pc'[c] = "exists" /\ pc' \in [Calls -> CanvasPlaces]
          /\ \A d \in Calls \ {c} : pc'[d] = pc[d]
      BY <1>0, <2>1 DEF Canvas!Goto, CanvasTyped, CanvasPlaces
    <3>2. ask[c] \in Canvas!Asks /\ ask[c] \in consents
      BY <1>3 DEF Canvas!CreateOperation, CanvasInv, Asked, Running
    <3> QED BY <1>0, <2>1, <3>1, <3>2, CanvasQuietStep DEF Canvas!Goto, CanvasTyped, Running, Owning
  <2> QED BY <1>3, <2>1, CanvasFailingStep, CanvasInsertStep DEF Canvas!CreateOperation, RowOf
<1>4. ASSUME NEW c \in Calls, Canvas!ExistingOperation(c) PROVE CanvasInv'
  <2>1. CASE Canvas!Matches(c) /\ status[ask[c].op] = "completed" /\ canvasID[ask[c].op] # 0
             /\ Canvas!Holds(c, canvasID[ask[c].op], "answered")
             /\ UNCHANGED <<Canvas!rows, canvases, consents>>
    <3>1. ask[c] \in Canvas!Asks /\ ask[c] \in consents /\ ask[c].op \in CanvasOps
      BY <1>4 DEF Canvas!ExistingOperation, CanvasInv, Asked, Running, Canvas!Asks
    <3> DEFINE n == canvasID[ask[c].op]
    <3>2. n \in 1..Len(canvases) /\ canvases[n].op = ask[c].op
      BY <2>1, <3>1 DEF CanvasInv, CanvasRowsAreTrue, Canvas!Made
    <3>3. RowOf(canvases[n]) = RowOf(ask[c])
      BY <2>1, <3>2 DEF Canvas!Matches, CanvasInv, MadeOnce, RowOf
    <3>4. canvases[n] \in Canvas!Asks
      BY <1>0, <3>2 DEF CanvasTyped
    <3>5. canvases[n] = ask[c]
      BY <3>1, <3>2, <3>3, <3>4 DEF Canvas!Asks, RowOf
    <3>6. pc'[c] = "answered" /\ pc' \in [Calls -> CanvasPlaces]
          /\ \A d \in Calls \ {c} : pc'[d] = pc[d]
      BY <1>0, <2>1 DEF Canvas!Holds, CanvasTyped, CanvasPlaces, Canvas!Ended
    <3>7. found'[c] = n /\ found' \in [Calls -> Nat] /\ \A d \in Calls \ {c} : found'[d] = found[d]
      BY <1>0, <2>1, <3>2 DEF Canvas!Holds, CanvasTyped
    <3> QED BY <1>0, <2>1, <3>1, <3>2, <3>5, <3>6, <3>7, CanvasQuietStep
            DEF Canvas!Holds, CanvasTyped, Running, Owning
  <2> QED BY <1>4, <2>1, CanvasFailingStep DEF Canvas!ExistingOperation, Canvas!Fails
<1>5. ASSUME NEW c \in Calls, Canvas!MarkCreating(c) PROVE CanvasInv'
  <2>1. CASE Canvas!UpdateOperationStatus(ask[c].op, "creating", 0) /\ Canvas!Goto(c, "create")
             /\ UNCHANGED <<canvases, consents>>
    BY <1>5, <2>1, CanvasRowStep DEF Canvas!MarkCreating, Owning, Canvas!Statuses, CanvasPlaces
  <2> QED BY <1>5, <2>1, CanvasFailingStep DEF Canvas!MarkCreating
<1>6. ASSUME NEW c \in Calls, Canvas!CreateCanvas(c) PROVE CanvasInv'
  <2>1. Len(Append(canvases, ask[c])) = Len(canvases) + 1
    BY <1>0 DEF CanvasTyped
  <2> QED BY <1>6, <2>1, CanvasCreateStep DEF Canvas!CreateCanvas, Canvas!FailedStatus
<1>7. ASSUME NEW c \in Calls, Canvas!RecordFailure(c) PROVE CanvasInv'
  <2>1. CASE Canvas!UpdateOperationStatus(ask[c].op, verdict[c], 0) /\ Canvas!Goto(c, "error")
             /\ UNCHANGED <<canvases, consents>>
    <3>1. pc[c] = "settle" /\ verdict[c] \in {"failed", "unknown"}
          /\ (verdict[c] = "failed" => Canvas!Made(ask[c].op) = {})
      BY <1>0, <1>7 DEF Canvas!RecordFailure, CanvasInv, MadeFits, CanvasTyped
    <3> QED BY <2>1, <3>1, CanvasRowStep DEF Owning, Canvas!Statuses, CanvasPlaces, Canvas!Ended
  <2> QED BY <1>7, <2>1, CanvasFailingStep DEF Canvas!RecordFailure
<1>8. ASSUME NEW c \in Calls, Canvas!RecordCompletion(c) PROVE CanvasInv'
  <2>1. CASE Canvas!UpdateOperationStatus(ask[c].op, "completed", found[c]) /\ Canvas!Goto(c, "answered")
             /\ UNCHANGED <<canvases, consents>>
    <3>1. pc[c] = "complete" /\ found[c] \in 1..Len(canvases) /\ canvases[found[c]] = ask[c]
      BY <1>8 DEF Canvas!RecordCompletion, CanvasInv, MadeFits
    <3>2. found[c] \in Canvas!Made(ask[c].op) /\ found[c] # 0 /\ found[c] \in Nat
      BY <1>0, <3>1 DEF Canvas!Made, CanvasTyped
    <3> QED BY <2>1, <3>1, <3>2, CanvasRowStep DEF Owning, Canvas!Statuses, CanvasPlaces,
                                                   Canvas!Ended
  <2> QED BY <1>8, <2>1, CanvasFailingStep DEF Canvas!RecordCompletion
<1>9. ASSUME NEW c \in Calls, Canvas!Cancel(c) PROVE CanvasInv'
  BY <1>9 DEF Canvas!Cancel, Canvas!rows, CanvasInv, CanvasTyped, Asked, Running, Owned, RowOf,
              StatusFits, MadeOnce,
              MadeFits, Canvas!Made, CanvasRowsAreTrue
<1>10. CASE Canvas!Crash
  <2>1. UNCHANGED <<Canvas!rows, canvases, consents, ask, found, verdict>>
    BY <1>10 DEF Canvas!Crash
  <2>2. \A c \in Calls : pc'[c] = pc[c] \/ pc'[c] = "gone"
    BY <1>10 DEF Canvas!Crash
  <2>3. pc' \in [Calls -> CanvasPlaces]
    BY <1>0, <1>10 DEF Canvas!Crash, CanvasTyped, CanvasPlaces, Canvas!Ended
  <2>4. /\ status' = status /\ owner' = owner /\ canvasID' = canvasID
        /\ \A o : Canvas!Made(o)' = Canvas!Made(o)
    BY <2>1 DEF Canvas!rows, Canvas!Made
  <2>5. CanvasTyped' /\ Asked'
    BY <2>1, <2>2, <2>3, <2>4 DEF CanvasInv, CanvasTyped, Asked, Running, Owning
  <2>6. Owned' /\ StatusFits'
    BY <2>1, <2>2, <2>4 DEF CanvasInv, Owned, Owning, RowOf, StatusFits
  <2>7. MadeOnce' /\ CanvasRowsAreTrue'
    BY <2>1, <2>4 DEF CanvasInv, MadeOnce, RowOf, CanvasRowsAreTrue
  <2>8. MadeFits'
    BY <2>1, <2>2, <2>4 DEF CanvasInv, MadeFits
  <2> QED BY <2>5, <2>6, <2>7, <2>8 DEF CanvasInv
<1>11. CASE UNCHANGED Canvas!vars
  BY <1>11 DEF Canvas!vars, Canvas!rows, Canvas!process, CanvasInv, CanvasTyped, Asked, Running,
               Owned, RowOf, StatusFits,
               MadeOnce, MadeFits, Canvas!Made, CanvasRowsAreTrue
<1> QED
  BY <1>1, <1>2, <1>3, <1>4, <1>5, <1>6, <1>7, <1>8, <1>9, <1>10, <1>11 DEF Canvas!Next, Canvas!Call

-----------------------------------------------------------------------------
(* What follows                                                              *)

\* However often a model repeats a call, with whatever arguments, whatever
\* fails and whenever the process dies: an operation has one canvas at most,
\* its user confirmed it, and the row says completed only of one that is there
\* and failed only where none is (service.go:106, 130).
OneCanvas ==
    /\ MadeOnce
    /\ \A o \in CanvasOps :
           /\ status[o] = "completed" => canvasID[o] \in Canvas!Made(o)
           /\ status[o] = "failed" => Canvas!Made(o) = {}

THEOREM CanvasesAreMadeOnce == Canvas!Spec => []OneCanvas
<1>1. CanvasInv => OneCanvas
  BY DEF CanvasInv, OneCanvas, CanvasRowsAreTrue
<1> QED BY <1>1, CanvasInit, CanvasNext, PTL DEF Canvas!Spec

\* A call is answered with the canvas of its own operation, actor and
\* document, which this actor confirmed.
THEOREM CanvasAnswersAreOwn == Canvas!Spec => []Canvas!AnswerIsOwn
<1>1. CanvasInv => Canvas!AnswerIsOwn
  BY DEF CanvasInv, Canvas!AnswerIsOwn, MadeFits, Asked, Running, CanvasTyped
<1> QED BY <1>1, CanvasInit, CanvasNext, PTL DEF Canvas!Spec
-----------------------------------------------------------------------------
(* A canvas implements ConfirmedEffect                                       *)

Consented == {a.op : a \in consents}
MadeCount == [o \in CanvasOps |-> Canvas!Cardinality(Canvas!Made(o))]
CanvasVerdicts == [o \in CanvasOps |-> Canvas!Says(o)]

LEMMA CanvasCount == Canvas!Cardinality({}) = 0 /\ \A x : Canvas!Cardinality({x}) = 1
<1>1. \A S : Canvas!Cardinality(S) = Cardinality(S)
  BY Zenon DEF Canvas!Cardinality, Cardinality
<1> QED BY <1>1, FS_EmptySet, FS_Singleton

\* An operation has one canvas at most.
LEMMA MadeAtMostOnce ==
    ASSUME CanvasInv, NEW o \in CanvasOps
    PROVE  /\ Canvas!Made(o) = {} => MadeCount[o] = 0
           /\ Canvas!Made(o) # {} => MadeCount[o] = 1
<1>1. CASE Canvas!Made(o) = {}
  BY <1>1, CanvasCount DEF MadeCount
<1>2. CASE Canvas!Made(o) # {}
  <2>1. PICK n : n \in Canvas!Made(o)
    BY <1>2
  <2>2. DOMAIN canvases = 1..Len(canvases)
    BY DEF CanvasInv, CanvasTyped
  <2>3. Canvas!Made(o) = {n}
    BY <2>1, <2>2 DEF Canvas!Made, CanvasInv, MadeOnce
  <2> QED BY <1>2, <2>3, CanvasCount DEF MadeCount
<1> QED BY <1>1, <1>2

\* What a step does to one operation is all it does.
LEMMA OneCanvasMoves ==
    ASSUME NEW o \in CanvasOps,
           \A q \in CanvasOps \ {o} : status'[q] = status[q] /\ Canvas!Made(q)' = Canvas!Made(q)
    PROVE  /\ MadeCount' = [MadeCount EXCEPT ![o] = MadeCount'[o]]
           /\ CanvasVerdicts' = [CanvasVerdicts EXCEPT ![o] = CanvasVerdicts'[o]]
<1>1. \A q \in CanvasOps \ {o} : MadeCount'[q] = MadeCount[q]
  BY DEF MadeCount
<1>2. \A q \in CanvasOps \ {o} : CanvasVerdicts'[q] = CanvasVerdicts[q]
  BY DEF CanvasVerdicts, Canvas!Says
<1>3. MadeCount' = [MadeCount EXCEPT ![o] = MadeCount'[o]]
  BY <1>1 DEF MadeCount
<1>4. CanvasVerdicts' = [CanvasVerdicts EXCEPT ![o] = CanvasVerdicts'[o]]
  BY <1>2 DEF CanvasVerdicts
<1> QED BY <1>3, <1>4

CanvasMaps == Canvas!Effect!Next \/ UNCHANGED <<Consented, MadeCount, CanvasVerdicts>>

\* A step that writes no verdict, makes nothing and brings no consent.
LEMMA CanvasStutters ==
    ASSUME Consented' = Consented, \A q \in CanvasOps : Canvas!Says(q)' = Canvas!Says(q) /\ Canvas!Made(q)' = Canvas!Made(q)
    PROVE  CanvasMaps
BY DEF CanvasMaps, MadeCount, CanvasVerdicts

\* A verdict is written, once.
LEMMA CanvasSettles ==
    ASSUME NEW o \in CanvasOps, Consented' = Consented,
           \A q \in CanvasOps : Canvas!Made(q)' = Canvas!Made(q), \A q \in CanvasOps \ {o} : status'[q] = status[q],
           CanvasVerdicts[o] = "open", CanvasVerdicts'[o] \in {"done", "undone", "unclear"},
           CanvasVerdicts'[o] = "done" => MadeCount[o] = 1,
           CanvasVerdicts'[o] = "undone" => MadeCount[o] = 0
    PROVE  CanvasMaps
<1>1. MadeCount' = MadeCount /\ CanvasVerdicts' = [CanvasVerdicts EXCEPT ![o] = CanvasVerdicts'[o]]
  BY OneCanvasMoves DEF MadeCount
<1>2. \E v \in {"done", "undone", "unclear"} :
        /\ v = "done" => MadeCount[o] = 1
        /\ v = "undone" => MadeCount[o] = 0
        /\ CanvasVerdicts' = [CanvasVerdicts EXCEPT ![o] = v]
  BY <1>1
<1>3. Canvas!Effect!Settle(o)
  BY <1>1, <1>2 DEF Canvas!Effect!Settle, CanvasVerdicts, MadeCount, Consented
<1> QED BY <1>3 DEF Canvas!Effect!Next, CanvasMaps

\* A call writes the row it owns: the verdict stays open, or is settled.
LEMMA CanvasRowStepMaps ==
    ASSUME CanvasInv, NEW c \in Calls, pc[c] \in Owning, NEW s, NEW id,
           Canvas!UpdateOperationStatus(ask[c].op, s, id), UNCHANGED <<canvases, consents>>,
           \/ pc[c] = "mark" /\ s = "creating"
           \/ pc[c] = "settle" /\ s = verdict[c]
           \/ pc[c] = "complete" /\ s = "completed"
    PROVE  CanvasMaps
<1>1. PICK o \in CanvasOps : o = ask[c].op
  BY DEF CanvasInv, Asked, Running, Canvas!Asks
<1>2. /\ Consented' = Consented /\ \A q : Canvas!Made(q)' = Canvas!Made(q)
      /\ status'[o] = s /\ \A q \in CanvasOps \ {o} : status'[q] = status[q]
  BY <1>1 DEF Canvas!UpdateOperationStatus, Consented, Canvas!Made, CanvasInv, CanvasTyped
<1>3. status[o] \in {"ready", "creating"} /\ CanvasVerdicts[o] = "open" /\ Canvas!Says(o) = "open"
  BY <1>1 DEF CanvasInv, StatusFits, CanvasVerdicts, Canvas!Says
<1>4. CASE pc[c] = "mark" /\ s = "creating"
  <2>1. Canvas!Says(o)' = "open" /\ \A q \in CanvasOps \ {o} : Canvas!Says(q)' = Canvas!Says(q)
    BY <1>2, <1>4 DEF Canvas!Says
  <2> QED BY <1>2, <1>3, <2>1, CanvasStutters
<1>5. CASE pc[c] = "settle" /\ s = verdict[c]
  <2>1. s = "unknown" \/ (s = "failed" /\ Canvas!Made(o) = {})
    BY <1>1, <1>5 DEF CanvasInv, MadeFits, CanvasTyped
  <2>2. CanvasVerdicts'[o] = "unclear" \/ (CanvasVerdicts'[o] = "undone" /\ Canvas!Made(o) = {})
    BY <1>2, <2>1 DEF CanvasVerdicts, Canvas!Says
  <2> QED BY <1>2, <1>3, <2>2, MadeAtMostOnce, CanvasSettles
<1>6. CASE pc[c] = "complete" /\ s = "completed"
  <2>1. found[c] \in 1..Len(canvases) /\ canvases[found[c]].op = o /\ DOMAIN canvases = 1..Len(canvases)
    BY <1>1, <1>6 DEF CanvasInv, MadeFits, CanvasTyped
  <2>2. Canvas!Made(o) # {}
    BY <2>1 DEF Canvas!Made
  <2>3. CanvasVerdicts'[o] = "done"
    BY <1>2, <1>6 DEF CanvasVerdicts, Canvas!Says
  <2> QED BY <1>2, <1>3, <2>2, <2>3, MadeAtMostOnce, CanvasSettles
<1> QED BY <1>4, <1>5, <1>6

\* Every step of a canvas is a step of ConfirmedEffect, or none.
LEMMA CanvasStepMaps ==
    ASSUME CanvasInv, CanvasInv', [Canvas!Next]_(Canvas!vars)
    PROVE  CanvasMaps
<1>0. CanvasTyped
  BY DEF CanvasInv
<1>1. ASSUME UNCHANGED <<status, canvases, consents>> PROVE CanvasMaps
  BY <1>1, CanvasStutters DEF Consented, Canvas!Says, Canvas!Made
<1>2. ASSUME NEW c \in Calls, Canvas!Approve(c) PROVE CanvasMaps
  <2>1. PICK o \in CanvasOps : o = ask[c].op
    BY <1>2 DEF Canvas!Approve, CanvasInv, Asked, Canvas!Asks
  <2>2. consents' = consents \cup {ask[c]} /\ UNCHANGED <<status, canvases>>
    BY <1>2 DEF Canvas!Approve, Canvas!rows
  <2>3. Consented' = Consented \cup {o} /\ MadeCount' = MadeCount /\ CanvasVerdicts' = CanvasVerdicts
    BY <2>1, <2>2 DEF Consented, MadeCount, Canvas!Made, CanvasVerdicts, Canvas!Says
  <2>4. Canvas!Effect!Consent(o)
    BY <2>3 DEF Canvas!Effect!Consent, Consented, MadeCount, CanvasVerdicts
  <2> QED BY <2>4 DEF Canvas!Effect!Next, CanvasMaps
<1>3. ASSUME NEW c \in Calls, Canvas!CreateOperation(c), ~UNCHANGED status PROVE CanvasMaps
  <2>1. PICK o \in CanvasOps : /\ o \in Consented /\ status[o] = "none"
                        /\ status' = [status EXCEPT ![o] = "ready"]
                        /\ UNCHANGED <<canvases, consents>>
    <3>1. ask[c].op \in CanvasOps /\ ask[c].op \in Consented
      BY <1>3 DEF Canvas!CreateOperation, CanvasInv, Asked, Running, Canvas!Asks, Consented
    <3> QED BY <1>3, <3>1 DEF Canvas!CreateOperation, Canvas!Fails, Canvas!rows
  <2>2. /\ Consented' = Consented /\ \A q : Canvas!Made(q)' = Canvas!Made(q)
        /\ status'[o] = "ready" /\ \A q \in CanvasOps \ {o} : status'[q] = status[q]
    BY <1>0, <2>1 DEF Consented, Canvas!Made, CanvasTyped
  <2>3. CanvasVerdicts[o] = "none" /\ CanvasVerdicts'[o] = "open"
    BY <2>1, <2>2 DEF CanvasVerdicts, Canvas!Says
  <2>4. MadeCount' = MadeCount /\ CanvasVerdicts' = [CanvasVerdicts EXCEPT ![o] = "open"]
    BY <2>2, <2>3, OneCanvasMoves DEF MadeCount
  <2>5. Canvas!Effect!Claim(o)
    BY <2>1, <2>2, <2>3, <2>4 DEF Canvas!Effect!Claim, Consented, MadeCount, CanvasVerdicts
  <2> QED BY <2>5 DEF Canvas!Effect!Next, CanvasMaps
<1>4. ASSUME NEW c \in Calls, Canvas!CreateCanvas(c) PROVE CanvasMaps
  <2>1. /\ UNCHANGED <<status, consents>> /\ pc[c] = "create" /\ pc[c] \in Owning
        /\ canvases' = canvases \/ canvases' = Append(canvases, ask[c])
    BY <1>4 DEF Canvas!CreateCanvas, Canvas!rows, Owning
  <2>2. CASE canvases' = Append(canvases, ask[c])
    <3>1. PICK o \in CanvasOps : /\ o = ask[c].op /\ ask[c] \in Canvas!Asks /\ Canvas!Made(o) = {}
                          /\ status[o] = "creating"
      BY <2>1 DEF CanvasInv, Asked, Running, Canvas!Asks, MadeFits, StatusFits
    <3>2. canvases \in Seq(Canvas!Asks)
      BY <1>0 DEF CanvasTyped
    <3>3. /\ Len(canvases) \in Nat /\ DOMAIN canvases = 1..Len(canvases)
          /\ DOMAIN canvases' = 1..(Len(canvases) + 1)
      BY <2>2, <3>1, <3>2
    <3>4. canvases'[Len(canvases) + 1] = ask[c]
          /\ \A n \in 1..Len(canvases) : canvases'[n] = canvases[n]
      BY <2>2, <3>1, <3>2
    <3>5. \A n \in DOMAIN canvases' : n \in DOMAIN canvases \/ n = Len(canvases) + 1
      BY <3>3
    <3>6. \A q \in CanvasOps \ {o} : Canvas!Made(q)' = Canvas!Made(q)
      BY <3>1, <3>3, <3>4, <3>5 DEF Canvas!Made
    <3>7. Canvas!Made(o)' = {Len(canvases) + 1}
      <4>1. \A n \in DOMAIN canvases : canvases'[n].op # o
        BY <3>1, <3>3, <3>4 DEF Canvas!Made
      <4> QED BY <3>1, <3>3, <3>4, <3>5, <4>1 DEF Canvas!Made
    <3>8. MadeCount[o] = 0 /\ MadeCount'[o] = 1
      BY <3>1, <3>7, CanvasCount, MadeAtMostOnce DEF MadeCount
    <3>9. CanvasVerdicts[o] = "open" /\ CanvasVerdicts'[o] = "open"
      BY <2>1, <3>1 DEF CanvasVerdicts, Canvas!Says
    <3>10. /\ Consented' = Consented /\ MadeCount' = [MadeCount EXCEPT ![o] = 1]
           /\ CanvasVerdicts' = [CanvasVerdicts EXCEPT ![o] = "open"]
      BY <2>1, <3>6, <3>8, <3>9, OneCanvasMoves DEF Consented
    <3>11. CanvasVerdicts' = CanvasVerdicts
      BY <3>9, <3>10 DEF CanvasVerdicts
    <3>12. Canvas!Effect!Act(o)
      BY <3>8, <3>9, <3>10, <3>11 DEF Canvas!Effect!Act, Consented, MadeCount, CanvasVerdicts
    <3> QED BY <3>12 DEF Canvas!Effect!Next, CanvasMaps
  <2> QED BY <1>1, <2>1, <2>2
<1>5. ASSUME NEW c \in Calls, Canvas!Call(c) PROVE CanvasMaps
  <2>1. CASE Canvas!CreateOperation(c)
    BY <1>1, <1>3, <2>1 DEF Canvas!CreateOperation, Canvas!Fails, Canvas!rows
  <2>2. CASE Canvas!ExistingOperation(c) \/ Canvas!Cancel(c)
    BY <1>1, <2>2 DEF Canvas!ExistingOperation, Canvas!Fails, Canvas!Cancel, Canvas!rows
  <2>3. CASE Canvas!MarkCreating(c) \/ Canvas!RecordFailure(c) \/ Canvas!RecordCompletion(c)
    <3>1. CASE Canvas!Fails(c)
      BY <1>1, <3>1 DEF Canvas!Fails, Canvas!rows
    <3>2. CASE ~Canvas!Fails(c)
      BY <2>3, <3>2, CanvasRowStepMaps DEF Canvas!MarkCreating, Canvas!RecordFailure,
                                           Canvas!RecordCompletion, Owning
    <3> QED BY <3>1, <3>2
  <2> QED BY <1>4, <1>5, <2>1, <2>2, <2>3 DEF Canvas!Call
<1>6. CASE (\E c \in Calls, a \in Canvas!Asks : Canvas!Request(c, a)) \/ Canvas!Crash \/ UNCHANGED Canvas!vars
  BY <1>1, <1>6 DEF Canvas!Request, Canvas!Crash, Canvas!vars, Canvas!rows
<1> QED BY <1>2, <1>5, <1>6 DEF Canvas!Next

\* However a confirmed canvas is repeated, interrupted or cut off, it is what
\* ConfirmedEffect promises: made once at most, with consent, and what its row
\* says in the end is so (service.go:106, 130).
THEOREM CanvasesAreConfirmedEffects == Canvas!Spec => Canvas!ImplementsEffect
<1>1. Canvas!Init => Canvas!Effect!Init
  <2> SUFFICES ASSUME Canvas!Init PROVE Canvas!Effect!Init
    OBVIOUS
  <2>1. Consented = {} /\ \A o \in CanvasOps : Canvas!Made(o) = {} /\ Canvas!Says(o) = "none"
    BY DEF Canvas!Init, Consented, Canvas!Made, Canvas!Says
  <2>2. MadeCount = [o \in CanvasOps |-> 0] /\ CanvasVerdicts = [o \in CanvasOps |-> "none"]
    BY <2>1, CanvasCount DEF MadeCount, CanvasVerdicts
  <2> QED BY <2>1, <2>2 DEF Canvas!Effect!Init, Consented, MadeCount, CanvasVerdicts
<1>2. CanvasInv /\ CanvasInv' /\ [Canvas!Next]_(Canvas!vars)
        => [Canvas!Effect!Next]_<<Consented, MadeCount, CanvasVerdicts>>
  BY CanvasStepMaps DEF CanvasMaps
<1> QED
  BY <1>1, <1>2, CanvasInit, CanvasNext, PTL
     DEF Canvas!Spec, Canvas!ImplementsEffect, Canvas!Effect!Spec, Consented, MadeCount,
         CanvasVerdicts

-----------------------------------------------------------------------------
(* The types                                                                 *)

\* What a call holds exists, and a row has an owner.
Existing ==
    /\ \A c \in Calls : found[c] \in 0..Len(canvases)
    /\ \A o \in CanvasOps : status[o] # "none" => owner[o] \in [actor : Users, doc : Documents]

\* Slack gets canvases and gives none back.
LEMMA CanvasesStay ==
    ASSUME CanvasInv, [Canvas!Next]_(Canvas!vars)
    PROVE  Len(canvases') \in Nat /\ Len(canvases) \in Nat /\ Len(canvases) =< Len(canvases')
<1>1. canvases \in Seq(Canvas!Asks) /\ canvases' \in Seq(Canvas!Asks)
  BY CanvasNext DEF CanvasInv, CanvasTyped
<1>2. Len(canvases) \in Nat /\ Len(canvases') \in Nat
  BY <1>1
<1>3. ASSUME NEW x, canvases' = Append(canvases, x) PROVE Len(canvases') = Len(canvases) + 1
  BY <1>1, <1>3
<1>4. canvases' = canvases \/ \E x : canvases' = Append(canvases, x)
  <2>1. ASSUME NEW c \in Calls, Canvas!Call(c)
        PROVE  canvases' = canvases \/ canvases' = Append(canvases, ask[c])
    BY <2>1 DEF Canvas!Call, Canvas!CreateOperation, Canvas!ExistingOperation, Canvas!MarkCreating,
                Canvas!CreateCanvas, Canvas!RecordFailure,
                Canvas!RecordCompletion, Canvas!Cancel, Canvas!Fails
  <2>2. ASSUME ~ \E c \in Calls : Canvas!Call(c) PROVE canvases' = canvases
    BY <2>2 DEF Canvas!Next, Canvas!Request, Canvas!Approve, Canvas!Crash, Canvas!vars
  <2> QED BY <2>1, <2>2
<1> QED BY <1>2, <1>3, <1>4

LEMMA ExistingStays == CanvasInv /\ Existing /\ [Canvas!Next]_(Canvas!vars) => Existing'
<1> SUFFICES ASSUME CanvasInv, Existing, [Canvas!Next]_(Canvas!vars) PROVE Existing'
  OBVIOUS
<1>1. Len(canvases') \in Nat /\ Len(canvases) \in Nat /\ Len(canvases) =< Len(canvases')
  BY CanvasesStay
<1>2. CanvasTyped
  BY DEF CanvasInv
<1>3. \A c \in Calls : found'[c] \in 0..Len(canvases')
  <2>1. ASSUME NEW c \in Calls, NEW n \in 0..Len(canvases'), found' = [found EXCEPT ![c] = n]
        PROVE  \A d \in Calls : found'[d] \in 0..Len(canvases')
    BY <1>1, <1>2, <2>1 DEF CanvasTyped, Existing
  <2>2. ASSUME found' = found PROVE \A d \in Calls : found'[d] \in 0..Len(canvases')
    BY <1>1, <2>2 DEF Existing
  <2>3. ASSUME NEW c \in Calls, Canvas!CreateCanvas(c)
        PROVE  found' = found \/ \E n \in 0..Len(canvases') : found' = [found EXCEPT ![c] = n]
    <3> DEFINE made == Append(canvases, ask[c])
    <3>1. canvases' = made => Len(made) \in 0..Len(canvases')
      BY <1>1
    <3> HIDE DEF made
    <3> QED BY <2>3, <3>1 DEF Canvas!CreateCanvas, Canvas!Holds, Canvas!Decide, made
  <2>4. ASSUME NEW c \in Calls, Canvas!ExistingOperation(c)
        PROVE  found' = found \/ \E n \in 0..Len(canvases') : found' = [found EXCEPT ![c] = n]
    <3>1. PICK o \in CanvasOps : o = ask[c].op
      BY <2>4 DEF Canvas!ExistingOperation, CanvasInv, Asked, Running, Canvas!Asks
    <3>2. \/ found' = found
          \/ canvasID[o] # 0 /\ found' = [found EXCEPT ![c] = canvasID[o]]
      BY <2>4, <3>1 DEF Canvas!ExistingOperation, Canvas!Fails, Canvas!Goto, Canvas!Holds
    <3>3. canvasID[o] # 0 => canvasID[o] \in DOMAIN canvases
      BY DEF CanvasInv, CanvasRowsAreTrue, Canvas!Made
    <3>4. DOMAIN canvases = 1..Len(canvases)
      BY <1>2 DEF CanvasTyped
    <3>5. canvasID[o] # 0 => canvasID[o] \in 0..Len(canvases')
      BY <1>1, <3>3, <3>4
    <3> QED BY <3>2, <3>5
  <2>5. ASSUME NEW c \in Calls,
               \/ Canvas!CreateOperation(c) \/ Canvas!MarkCreating(c) \/ Canvas!RecordFailure(c)
               \/ Canvas!RecordCompletion(c)
               \/ Canvas!Cancel(c)
        PROVE  found' = found
    BY <2>5 DEF Canvas!CreateOperation, Canvas!MarkCreating, Canvas!RecordFailure,
                Canvas!RecordCompletion, Canvas!Cancel, Canvas!Fails, Canvas!Goto
  <2>6. ASSUME ~ \E c \in Calls : Canvas!Call(c) PROVE found' = found
    BY <2>6 DEF Canvas!Next, Canvas!Request, Canvas!Approve, Canvas!Goto, Canvas!Crash,
                Canvas!vars, Canvas!process
  <2> QED BY <2>1, <2>2, <2>3, <2>4, <2>5, <2>6 DEF Canvas!Call
<1>4. ASSUME NEW o \in CanvasOps, status'[o] # "none"
      PROVE  owner'[o] \in [actor : Users, doc : Documents]
  <2>1. ASSUME NEW c \in Calls, Canvas!CreateOperation(c)
        PROVE  owner'[o] \in [actor : Users, doc : Documents]
    <3>1. ask[c] \in Canvas!Asks
      BY <2>1 DEF Canvas!CreateOperation, CanvasInv, Asked, Running
    <3>2. CASE UNCHANGED Canvas!rows
      BY <1>4, <3>2 DEF Canvas!rows, Existing
    <3>3. CASE /\ status' = [status EXCEPT ![ask[c].op] = "ready"]
               /\ owner' = [owner EXCEPT ![ask[c].op] = [actor |-> ask[c].actor, doc |-> ask[c].doc]]
      BY <1>2, <1>4, <3>1, <3>3 DEF CanvasTyped, Canvas!Asks, Existing
    <3> QED BY <2>1, <3>2, <3>3 DEF Canvas!CreateOperation, Canvas!Fails
  <2>2. ASSUME NEW c \in Calls, Canvas!Call(c), ~Canvas!CreateOperation(c)
        PROVE  owner' = owner /\ (status[o] = "none" => status'[o] = "none")
    <3>1. CASE UNCHANGED Canvas!rows
      BY <3>1 DEF Canvas!rows
    <3>2. ASSUME NEW s, NEW id, Canvas!UpdateOperationStatus(ask[c].op, s, id),
                 pc[c] \in {"mark", "settle", "complete"}
          PROVE  owner' = owner /\ (status[o] = "none" => status'[o] = "none")
      <4>1. status[ask[c].op] # "none"
        BY <3>2 DEF CanvasInv, StatusFits
      <4> QED BY <1>2, <3>2, <4>1 DEF Canvas!UpdateOperationStatus, CanvasTyped
    <3> QED
      BY <2>2, <3>1, <3>2 DEF Canvas!Call, Canvas!ExistingOperation, Canvas!MarkCreating,
                              Canvas!CreateCanvas, Canvas!RecordFailure,
                              Canvas!RecordCompletion, Canvas!Cancel, Canvas!Fails
  <2>3. ASSUME ~ \E c \in Calls : Canvas!Call(c) PROVE owner' = owner /\ status' = status
    BY <2>3 DEF Canvas!Next, Canvas!Request, Canvas!Approve, Canvas!Crash, Canvas!vars, Canvas!rows
  <2> QED BY <1>4, <2>1, <2>2, <2>3 DEF Existing
<1> QED BY <1>3, <1>4 DEF Existing

\* Rows and calls name canvases that exist, and a row has its owner.
THEOREM CanvasesTyped == Canvas!Spec => []Canvas!TypeOK
<1>1. Canvas!Init => Existing
  BY DEF Canvas!Init, Existing
<1>2. CanvasInv /\ Existing => Canvas!TypeOK
  <2> SUFFICES ASSUME CanvasInv, Existing PROVE Canvas!TypeOK
    OBVIOUS
  <2>1. /\ CanvasTyped /\ DOMAIN canvases = 1..Len(canvases) /\ Len(canvases) \in Nat
        /\ \A n \in DOMAIN canvases : canvases[n] \in Canvas!Asks
    BY DEF CanvasInv, CanvasTyped
  <2>2. ASSUME NEW o \in CanvasOps PROVE canvasID[o] \in 0..Len(canvases)
    <3>1. canvasID[o] # 0 => canvasID[o] \in DOMAIN canvases
      BY DEF CanvasInv, CanvasRowsAreTrue, Canvas!Made
    <3> QED BY <2>1, <3>1
  <2> QED BY <2>1, <2>2 DEF CanvasTyped, Existing, Canvas!TypeOK
<1> QED BY <1>1, <1>2, CanvasInit, CanvasNext, ExistingStays, PTL DEF Canvas!Spec

-----------------------------------------------------------------------------
(* The sandbox                                                               *)

\* The executions that hold the record they have inserted: one for each.
Executing == {"mark", "execute", "complete", "fail"}
AuditPlaces == {"lookup", "authorize"} \cup Executing \cup Audit!Ended

AuditTyped ==
    /\ record \in [CallIDs -> Audit!ToolLifecycleStates]
    /\ ran \in [CallIDs -> {0, 1}]
    /\ auditPc \in [Calls -> AuditPlaces]
    /\ DOMAIN auditAsk = Calls
    /\ \A c \in Calls : auditPc[c] # "idle" => auditAsk[c] \in Audit!Asks

\* How far the record of an execution has gone, and whether it has run.
RecordFits(c) ==
    /\ auditPc[c] = "mark" => record[auditAsk[c].id] = "authorized"
    /\ auditPc[c] \in {"execute", "complete", "fail"} => record[auditAsk[c].id] = "running"
    /\ auditPc[c] = "execute" => ran[auditAsk[c].id] = 0
    /\ auditPc[c] = "complete" => ran[auditAsk[c].id] = 1

\* One execution at most holds an identifier.
OneExecutes ==
    \A c, d \in Calls :
        auditPc[c] \in Executing /\ auditPc[d] \in Executing /\ auditAsk[c].id = auditAsk[d].id => c = d

\* What the record of an identifier says is so.
RecordIsTrue(i) ==
    /\ record[i] \in {"none", "authorized", "rejected"} => ran[i] = 0
    /\ record[i] = "completed" => ran[i] = 1

AuditInv ==
    /\ AuditTyped
    /\ \A c \in Calls : RecordFits(c)
    /\ OneExecutes
    /\ \A i \in CallIDs : RecordIsTrue(i)

-----------------------------------------------------------------------------

\* Only execution c moves.
OnlyRuns(c) == \A d \in Calls \ {c} : auditPc'[d] = auditPc[d] /\ auditAsk'[d] = auditAsk[d]

\* An execution that holds no identifier leaves the records as they are.
LEMMA AuditQuietStep ==
    ASSUME AuditInv, NEW c \in Calls, UNCHANGED <<record, ran>>, OnlyRuns(c), AuditTyped',
           auditPc'[c] \notin Executing
    PROVE  AuditInv'
<1>1. ASSUME NEW d \in Calls PROVE RecordFits(d)'
  BY DEF AuditInv, OnlyRuns, RecordFits, Executing
<1>2. OneExecutes'
  BY DEF AuditInv, OnlyRuns, OneExecutes
<1> QED BY <1>1, <1>2 DEF AuditInv, RecordIsTrue

\* An execution that holds its identifier, or takes it, changes that record alone.
LEMMA AuditOwnStep ==
    ASSUME AuditInv, NEW c \in Calls, NEW i \in CallIDs, auditAsk[c].id = i, auditAsk' = auditAsk,
           OnlyRuns(c), AuditTyped', RecordFits(c)', RecordIsTrue(i)',
           \A d \in Calls \ {c} : auditPc[d] \in Executing => auditAsk[d].id # i,
           \A j \in CallIDs \ {i} : record'[j] = record[j] /\ ran'[j] = ran[j]
    PROVE  AuditInv'
<1>1. ASSUME NEW d \in Calls \ {c} PROVE RecordFits(d)'
  <2>1. RecordFits(d) /\ auditPc'[d] = auditPc[d] /\ auditAsk'[d] = auditAsk[d]
    BY DEF AuditInv, OnlyRuns
  <2>2. auditPc[d] \in Executing => auditAsk[d].id \in CallIDs \ {i}
    BY DEF AuditInv, AuditTyped, Audit!Asks, Executing
  <2> QED BY <2>1, <2>2 DEF RecordFits, Executing
<1>2. OneExecutes'
  BY DEF AuditInv, OnlyRuns, OneExecutes
<1>3. \A j \in CallIDs \ {i} : RecordIsTrue(j)'
  BY DEF AuditInv, RecordIsTrue
<1> QED BY <1>1, <1>2, <1>3 DEF AuditInv

\* What holds of an execution that has started.
LEMMA ExecutionFacts ==
    ASSUME AuditInv, NEW c \in Calls, auditPc[c] # "idle"
    PROVE  /\ auditAsk[c] \in Audit!Asks /\ auditAsk[c].id \in CallIDs
           /\ auditPc[c] \in Executing =>
                  \A d \in Calls \ {c} : auditPc[d] \in Executing => auditAsk[d].id # auditAsk[c].id
           /\ record[auditAsk[c].id] = "none" =>
                  \A d \in Calls : auditPc[d] \in Executing => auditAsk[d].id # auditAsk[c].id
<1>1. auditAsk[c] \in Audit!Asks /\ auditAsk[c].id \in CallIDs
  BY DEF AuditInv, AuditTyped, Audit!Asks
<1>2. \A d \in Calls : auditPc[d] \in Executing => record[auditAsk[d].id] # "none"
  BY DEF AuditInv, RecordFits, Executing
<1> QED BY <1>1, <1>2 DEF AuditInv, OneExecutes

LEMMA AuditGoto ==
    ASSUME AuditInv, NEW c \in Calls, auditPc[c] # "idle", NEW place \in AuditPlaces \ {"idle"},
           Audit!Goto(c, place)
    PROVE  /\ auditPc' \in [Calls -> AuditPlaces] /\ auditPc'[c] = place /\ OnlyRuns(c)
           /\ auditAsk' = auditAsk
           /\ \A d \in Calls : auditPc'[d] # "idle" => auditAsk'[d] \in Audit!Asks
BY DEF AuditInv, AuditTyped, Audit!Goto, OnlyRuns

\* A statement about the record of an execution, when it succeeds.
LEMMA StatementStep ==
    ASSUME AuditInv, NEW c \in Calls, NEW s, NEW next,
           record' = [record EXCEPT ![auditAsk[c].id] = s], Audit!Goto(c, next), UNCHANGED ran,
           \/ auditPc[c] = "authorize" /\ record[auditAsk[c].id] = "none" /\ s = "authorized" /\ next = "mark"
           \/ auditPc[c] = "authorize" /\ record[auditAsk[c].id] = "none" /\ s = "rejected" /\ next = "error"
           \/ auditPc[c] = "mark" /\ s = "running" /\ next = "execute"
           \/ auditPc[c] = "complete" /\ s = "completed" /\ next = "done"
           \/ auditPc[c] = "fail" /\ s = "failed" /\ next = "error"
    PROVE  AuditInv'
<1>1. PICK i \in CallIDs : i = auditAsk[c].id
  BY ExecutionFacts
<1>2. \A d \in Calls \ {c} : auditPc[d] \in Executing => auditAsk[d].id # i
  BY <1>1, ExecutionFacts DEF Executing
<1>3. /\ auditPc' \in [Calls -> AuditPlaces] /\ auditPc'[c] = next /\ OnlyRuns(c)
      /\ auditAsk' = auditAsk
      /\ \A d \in Calls : auditPc'[d] # "idle" => auditAsk'[d] \in Audit!Asks
  BY AuditGoto DEF AuditPlaces, Executing, Audit!Ended
<1>4. /\ s \in Audit!ToolLifecycleStates /\ record'[i] = s /\ ran' = ran
      /\ \A j \in CallIDs \ {i} : record'[j] = record[j]
  BY <1>1 DEF AuditInv, AuditTyped, Audit!ToolLifecycleStates
<1>5. AuditTyped'
  BY <1>1, <1>3, <1>4 DEF AuditInv, AuditTyped
<1>6. RecordFits(c) /\ RecordIsTrue(i)
  BY DEF AuditInv
<1>7. RecordFits(c)' /\ RecordIsTrue(i)'
  BY <1>1, <1>3, <1>4, <1>6 DEF RecordFits, RecordIsTrue
<1> QED BY <1>1, <1>2, <1>3, <1>4, <1>5, <1>7, AuditOwnStep

LEMMA AuditFails ==
    ASSUME AuditInv, NEW c \in Calls, auditPc[c] # "idle", Audit!Fails(c)
    PROVE  AuditInv'
<1>1. /\ auditPc' \in [Calls -> AuditPlaces] /\ auditPc'[c] = "error" /\ OnlyRuns(c)
      /\ auditAsk' = auditAsk
      /\ \A d \in Calls : auditPc'[d] # "idle" => auditAsk'[d] \in Audit!Asks
  BY AuditGoto DEF Audit!Fails, AuditPlaces, Audit!Ended
<1>2. AuditTyped'
  BY <1>1 DEF Audit!Fails, AuditInv, AuditTyped
<1> QED BY <1>1, <1>2, AuditQuietStep DEF Audit!Fails, Executing

LEMMA AuditInit == Audit!Init => AuditInv
BY DEF Audit!Init, AuditInv, AuditTyped, RecordFits, OneExecutes, RecordIsTrue, AuditPlaces,
       Executing,
       Audit!Ended, Audit!ToolLifecycleStates

LEMMA AuditNext == AuditInv /\ [Audit!Next]_(Audit!vars) => AuditInv'
<1> SUFFICES ASSUME AuditInv, [Audit!Next]_(Audit!vars) PROVE AuditInv'
  OBVIOUS
<1>0. AuditTyped
  BY DEF AuditInv
<1>1. ASSUME NEW c \in Calls, NEW a \in Audit!Asks, Audit!Run(c, a) PROVE AuditInv'
  <2>1. OnlyRuns(c) /\ auditPc'[c] = "lookup" /\ AuditTyped'
    BY <1>0, <1>1 DEF Audit!Run, OnlyRuns, AuditTyped, AuditPlaces, Executing, Audit!Ended
  <2> QED BY <1>1, <2>1, AuditQuietStep DEF Audit!Run, Executing
<1>2. ASSUME NEW c \in Calls, Audit!GetAuditByCallID(c) PROVE AuditInv'
  <2>1. ASSUME NEW place \in {"authorize", "error"}, Audit!Goto(c, place), UNCHANGED <<record, ran>>
        PROVE  AuditInv'
    <3>1. /\ auditPc' \in [Calls -> AuditPlaces] /\ auditPc'[c] = place /\ OnlyRuns(c)
          /\ auditAsk' = auditAsk
          /\ \A d \in Calls : auditPc'[d] # "idle" => auditAsk'[d] \in Audit!Asks
      BY <1>2, <2>1, AuditGoto DEF Audit!GetAuditByCallID, AuditPlaces, Audit!Ended
    <3>2. AuditTyped'
      BY <1>0, <2>1, <3>1 DEF AuditTyped
    <3> QED BY <2>1, <3>1, <3>2, AuditQuietStep DEF Executing
  <2> QED BY <1>2, <2>1, AuditFails DEF Audit!GetAuditByCallID
<1>3. ASSUME NEW c \in Calls, Audit!Authorize(c) PROVE AuditInv'
  BY <1>3, AuditFails, StatementStep DEF Audit!Authorize, Audit!InsertAudit
<1>4. ASSUME NEW c \in Calls, Audit!MarkRunning(c) \/ Audit!Complete(c) \/ Audit!Fail(c)
      PROVE  AuditInv'
  BY <1>4, AuditFails, StatementStep DEF Audit!MarkRunning, Audit!Complete, Audit!Fail,
                                         Audit!UpdateAuditState
<1>5. ASSUME NEW c \in Calls, Audit!Execute(c) PROVE AuditInv'
  <2>1. PICK i \in CallIDs : i = auditAsk[c].id
    BY <1>5, ExecutionFacts DEF Audit!Execute
  <2>2. /\ record[i] = "running" /\ ran[i] = 0 /\ record' = record
        /\ \A d \in Calls \ {c} : auditPc[d] \in Executing => auditAsk[d].id # i
    BY <1>5, <2>1, ExecutionFacts DEF Audit!Execute, Executing, AuditInv, RecordFits
  <2>3. PICK place \in {"complete", "fail"} :
            Audit!Goto(c, place) /\ (ran' = [ran EXCEPT ![i] = @ + 1] \/ (place = "fail" /\ ran' = ran))
    BY <1>5, <2>1 DEF Audit!Execute
  <2>4. /\ auditPc' \in [Calls -> AuditPlaces] /\ auditPc'[c] = place /\ OnlyRuns(c)
        /\ auditAsk' = auditAsk
        /\ \A d \in Calls : auditPc'[d] # "idle" => auditAsk'[d] \in Audit!Asks
    BY <1>5, <2>3, AuditGoto DEF Audit!Execute, AuditPlaces, Executing
  <2>5. /\ ran' \in [CallIDs -> {0, 1}] /\ \A j \in CallIDs \ {i} : ran'[j] = ran[j]
        /\ place = "complete" => ran'[i] = 1
    BY <1>0, <2>2, <2>3 DEF AuditTyped
  <2>6. AuditTyped' /\ RecordFits(c)' /\ RecordIsTrue(i)'
    BY <1>0, <2>1, <2>2, <2>4, <2>5 DEF AuditTyped, RecordFits, RecordIsTrue
  <2> QED BY <2>1, <2>2, <2>4, <2>5, <2>6, AuditOwnStep
<1>6. ASSUME NEW c \in Calls, Audit!Cancel(c) PROVE AuditInv'
  BY <1>0, <1>6 DEF Audit!Cancel, AuditInv, AuditTyped, RecordFits, OneExecutes, RecordIsTrue
<1>7. CASE Audit!Crash
  <2>1. /\ UNCHANGED <<record, ran, auditAsk>> /\ auditPc' \in [Calls -> AuditPlaces]
        /\ \A d \in Calls : auditPc'[d] = auditPc[d] \/ (auditPc[d] # "idle" /\ auditPc'[d] = "gone")
    BY <1>0, <1>7 DEF Audit!Crash, AuditTyped, AuditPlaces, Audit!Ended
  <2>2. AuditTyped'
    BY <1>0, <2>1 DEF AuditTyped
  <2>3. \A d \in Calls : RecordFits(d)'
    BY <2>1 DEF AuditInv, RecordFits
  <2>4. OneExecutes'
    BY <2>1 DEF AuditInv, OneExecutes, Executing
  <2> QED BY <2>1, <2>2, <2>3, <2>4 DEF AuditInv, RecordIsTrue
<1>8. CASE UNCHANGED Audit!vars
  BY <1>8 DEF Audit!vars, AuditInv, AuditTyped, RecordFits, OneExecutes, RecordIsTrue
<1> QED BY <1>1, <1>2, <1>3, <1>4, <1>5, <1>6, <1>7, <1>8 DEF Audit!Next

\* Records keep their states, and an identifier has run or has not.
THEOREM RecordsKeepTypes == Audit!Spec => []Audit!TypeOK
<1>1. AuditInv => Audit!TypeOK
  BY DEF AuditInv, AuditTyped, Audit!TypeOK
<1> QED BY <1>1, AuditInit, AuditNext, PTL DEF Audit!Spec

-----------------------------------------------------------------------------

AuditVerdicts ==
    [i \in CallIDs |->
        CASE record[i] \in {"authorized", "running"} -> "open"
          [] record[i] = "completed" -> "done"
          [] record[i] = "failed" -> "unclear"
          [] record[i] = "rejected" -> "undone"
          [] OTHER -> "none"]

AuditMaps == Audit!Effect!Next \/ UNCHANGED <<ran, AuditVerdicts>>

\* What a statement says of one identifier is all it says.
LEMMA OneRecordMoves ==
    ASSUME AuditTyped, NEW i \in CallIDs, NEW s \in Audit!ToolLifecycleStates,
           record' = [record EXCEPT ![i] = s]
    PROVE  /\ record'[i] = s
           /\ AuditVerdicts' = [AuditVerdicts EXCEPT ![i] = AuditVerdicts'[i]]
<1>1. record'[i] = s /\ \A j \in CallIDs \ {i} : record'[j] = record[j]
  BY DEF AuditTyped
<1>2. \A j \in CallIDs \ {i} : AuditVerdicts'[j] = AuditVerdicts[j]
  BY <1>1 DEF AuditVerdicts
<1>3. DOMAIN AuditVerdicts = CallIDs /\ DOMAIN AuditVerdicts' = CallIDs
  BY DEF AuditVerdicts
<1>4. AuditVerdicts' = [AuditVerdicts EXCEPT ![i] = AuditVerdicts'[i]]
  BY <1>2, <1>3 DEF AuditVerdicts
<1> QED BY <1>1, <1>4

\* Every step of an execution is a step of ConfirmedEffect, or none.
LEMMA AuditStepMaps ==
    ASSUME AuditInv, [Audit!Next]_(Audit!vars)
    PROVE  AuditMaps
<1>0. AuditTyped
  BY DEF AuditInv
<1>1. ASSUME UNCHANGED <<record, ran>> PROVE AuditMaps
  BY <1>1 DEF AuditMaps, AuditVerdicts
<1>2. ASSUME NEW c \in Calls, NEW s, auditPc[c] # "idle",
             record' = [record EXCEPT ![auditAsk[c].id] = s], UNCHANGED ran,
             \/ auditPc[c] = "authorize" /\ record[auditAsk[c].id] = "none" /\ s \in {"authorized", "rejected"}
             \/ auditPc[c] = "mark" /\ s = "running"
             \/ auditPc[c] = "complete" /\ s = "completed"
             \/ auditPc[c] = "fail" /\ s = "failed"
      PROVE  AuditMaps
  <2>1. PICK i \in CallIDs : i = auditAsk[c].id
    BY <1>2, ExecutionFacts
  <2>2. /\ record'[i] = s
        /\ AuditVerdicts' = [AuditVerdicts EXCEPT ![i] = AuditVerdicts'[i]]
    BY <1>0, <1>2, <2>1, OneRecordMoves DEF Audit!ToolLifecycleStates
  <2>3. RecordFits(c)
    BY DEF AuditInv
  <2>4. CASE auditPc[c] = "authorize" /\ record[i] = "none" /\ s = "authorized"
    <3>1. AuditVerdicts[i] = "none" /\ AuditVerdicts'[i] = "open"
      BY <2>2, <2>4 DEF AuditVerdicts
    <3>2. Audit!Effect!Claim(i)
      BY <1>2, <2>2, <3>1 DEF Audit!Effect!Claim, AuditVerdicts
    <3> QED BY <3>2 DEF Audit!Effect!Next, AuditMaps
  <2>5. CASE auditPc[c] = "authorize" /\ record[i] = "none" /\ s = "rejected"
    <3>1. AuditVerdicts[i] = "none" /\ AuditVerdicts'[i] = "undone"
      BY <2>2, <2>5 DEF AuditVerdicts
    <3>2. Audit!Effect!Refuse(i)
      BY <1>2, <2>2, <3>1 DEF Audit!Effect!Refuse, AuditVerdicts
    <3> QED BY <3>2 DEF Audit!Effect!Next, AuditMaps
  <2>6. CASE auditPc[c] = "mark" /\ s = "running"
    <3>1. AuditVerdicts[i] = "open" /\ AuditVerdicts'[i] = "open"
      BY <2>1, <2>2, <2>3, <2>6 DEF AuditVerdicts, RecordFits
    <3>2. AuditVerdicts' = AuditVerdicts
      BY <2>2, <3>1 DEF AuditVerdicts
    <3> QED BY <1>2, <3>2 DEF AuditMaps
  <2>7. CASE (auditPc[c] = "complete" /\ s = "completed") \/ (auditPc[c] = "fail" /\ s = "failed")
    <3>1. /\ AuditVerdicts[i] = "open" /\ AuditVerdicts'[i] \in {"done", "unclear"}
          /\ AuditVerdicts'[i] = "done" => ran[i] = 1
      BY <2>1, <2>2, <2>3, <2>7 DEF AuditVerdicts, RecordFits
    <3>2. \E v \in {"done", "undone", "unclear"} :
            /\ v = "done" => ran[i] = 1
            /\ v = "undone" => ran[i] = 0
            /\ AuditVerdicts' = [AuditVerdicts EXCEPT ![i] = v]
      BY <2>2, <3>1 DEF AuditVerdicts
    <3>3. Audit!Effect!Settle(i)
      BY <1>2, <2>2, <3>1, <3>2 DEF Audit!Effect!Settle, AuditVerdicts
    <3> QED BY <3>3 DEF Audit!Effect!Next, AuditMaps
  <2> QED BY <1>2, <2>1, <2>4, <2>5, <2>6, <2>7
<1>3. ASSUME NEW c \in Calls, Audit!Execute(c) PROVE AuditMaps
  <2>1. PICK i \in CallIDs : i = auditAsk[c].id
    BY <1>3, ExecutionFacts DEF Audit!Execute
  <2>2. record[i] = "running" /\ ran[i] = 0 /\ record' = record
    BY <1>3, <2>1 DEF Audit!Execute, AuditInv, RecordFits
  <2>3. CASE ran' = [ran EXCEPT ![i] = @ + 1]
    <3>1. ran' = [ran EXCEPT ![i] = 1]
      BY <1>0, <2>2, <2>3 DEF AuditTyped
    <3>2. AuditVerdicts[i] = "open" /\ AuditVerdicts' = AuditVerdicts
      BY <2>2 DEF AuditVerdicts
    <3>3. Audit!Effect!Act(i)
      BY <2>2, <3>1, <3>2 DEF Audit!Effect!Act, AuditVerdicts
    <3> QED BY <3>3 DEF Audit!Effect!Next, AuditMaps
  <2> QED BY <1>1, <1>3, <2>1, <2>3 DEF Audit!Execute
<1>4. ASSUME NEW c \in Calls, Audit!Authorize(c) \/ Audit!MarkRunning(c) \/ Audit!Complete(c) \/ Audit!Fail(c)
      PROVE  AuditMaps
  BY <1>1, <1>2, <1>4 DEF Audit!Authorize, Audit!InsertAudit, Audit!MarkRunning, Audit!Complete,
                          Audit!Fail, Audit!UpdateAuditState, Audit!Fails
<1>5. ASSUME NEW c \in Calls, Audit!GetAuditByCallID(c) \/ Audit!Cancel(c) PROVE AuditMaps
  BY <1>1, <1>5 DEF Audit!GetAuditByCallID, Audit!Fails, Audit!Cancel
<1>6. CASE (\E c \in Calls, a \in Audit!Asks : Audit!Run(c, a)) \/ Audit!Crash \/ UNCHANGED Audit!vars
  BY <1>1, <1>6 DEF Audit!Run, Audit!Crash, Audit!vars
<1> QED BY <1>3, <1>4, <1>5, <1>6 DEF Audit!Next

\* An identifier runs a capability at most once, whatever calls repeat it.
THEOREM ExecutionsAreConfirmedEffects == Audit!Spec => Audit!ImplementsEffect
<1>1. Audit!Init => Audit!Effect!Init
  <2> SUFFICES ASSUME Audit!Init PROVE Audit!Effect!Init
    OBVIOUS
  <2>1. AuditVerdicts = [i \in CallIDs |-> "none"]
    BY DEF Audit!Init, AuditVerdicts
  <2> QED BY <2>1 DEF Audit!Init, Audit!Effect!Init, AuditVerdicts
<1>2. AuditInv /\ [Audit!Next]_(Audit!vars) => [Audit!Effect!Next]_<<CallIDs, ran, AuditVerdicts>>
  BY AuditStepMaps DEF AuditMaps
<1> QED
  BY <1>1, <1>2, AuditInit, AuditNext, PTL DEF Audit!Spec, Audit!ImplementsEffect,
                                               Audit!Effect!Spec, AuditVerdicts

-----------------------------------------------------------------------------
(* The exports: what GeneratedFileProofs shows, with the names of TurnTools  *)

Upload == INSTANCE GeneratedFileProofs WITH
    Actors <- Users, Documents <- Exports,
    status <- fileStatus, owner <- fileOwner, consents <- fileConsents,
    pc <- filePc, ask <- fileAsk, verdict <- fileVerdict, cancelled <- fileCancelled

\* The names of TurnTools and those of the proofs stand for the same formulas.
LEMMA SameExports ==
    /\ File!Init => Upload!Init
    /\ Upload!TypeOK => File!TypeOK
    /\ Upload!AnswerIsOwn => File!AnswerIsOwn
BY Zenon DEF File!Init, Upload!Init, File!TypeOK, Upload!TypeOK, File!AnswerIsOwn,
             Upload!AnswerIsOwn, File!Ops, Upload!Ops, File!Asks, Upload!Asks,
             File!Statuses, Upload!Statuses

LEMMA SameExportSteps == File!Next => Upload!Next
BY Zenon
DEF File!rows, Upload!rows, File!process, Upload!process, File!vars, Upload!vars,
    File!Ops, Upload!Ops, File!Asks, Upload!Asks, File!FormatDetails,
    Upload!FormatDetails, File!SerializeCSV, Upload!SerializeCSV, File!Prepare,
    Upload!Prepare, File!HasDestination, Upload!HasDestination, File!Destination,
    Upload!Destination, File!Goto, Upload!Goto, File!Holds, Upload!Holds, File!Decide,
    Upload!Decide, File!CanRun, Upload!CanRun, File!Fails, Upload!Fails,
    File!NeedsConfirmation, Upload!NeedsConfirmation, File!Accepts, Upload!Accepts,
    File!Request, Upload!Request, File!Approve, Upload!Approve,
    File!CreateGeneratedFileOperation, Upload!CreateGeneratedFileOperation, File!Matches,
    Upload!Matches, File!ExistingOperation, Upload!ExistingOperation, File!Errors,
    Upload!Errors, File!FailedStatus, Upload!FailedStatus, File!RequestUploadURL,
    Upload!RequestUploadURL, File!PersistStatus, Upload!PersistStatus,
    File!MarkURLRequested, Upload!MarkURLRequested, File!UploadBytes, Upload!UploadBytes,
    File!MarkBytesUploaded, Upload!MarkBytesUploaded, File!CompleteUpload,
    Upload!CompleteUpload, File!MarkCompleted, Upload!MarkCompleted, File!RecordFailure,
    Upload!RecordFailure, File!Ended, Upload!Ended, File!Cancel, Upload!Cancel,
    File!Crash, Upload!Crash, File!Call, Upload!Call, File!Next, Upload!Next

LEMMA SameExportVariables == fileVars' = fileVars => Upload!vars' = Upload!vars
BY Zenon DEF fileVars, Upload!vars, Upload!rows, Upload!process

LEMMA SameExportEffects ==
    /\ Upload!Effect!Init => File!Effect!Init
    /\ Upload!Effect!Next => File!Effect!Next
BY Zenon
DEF Upload!Effect!Init, File!Effect!Init, Upload!Effect!Next, File!Effect!Next,
    Upload!Effect!Consent, File!Effect!Consent, Upload!Effect!Claim, File!Effect!Claim,
    Upload!Effect!Refuse, File!Effect!Refuse, Upload!Effect!Act, File!Effect!Act,
    Upload!Effect!Settle, File!Effect!Settle, Upload!Says, File!Says, Upload!Shared, File!Shared,
    Upload!Cardinality, File!Cardinality, Upload!Ops, File!Ops

\* See GeneratedFileProofs: exports keep their types, are answered with their own,
\* and happen as ConfirmedEffect promises.
LEMMA ExportsOfTools ==
    File!Spec => /\ []File!TypeOK
                 /\ []File!AnswerIsOwn
                 /\ File!ImplementsEffect
<1>1. File!Spec => Upload!Spec
  <2>1. File!vars' = File!vars => Upload!vars' = Upload!vars
    BY Zenon DEF File!vars, File!rows, File!process, Upload!vars, Upload!rows, Upload!process
  <2>2. [File!Next]_(File!vars) => [Upload!Next]_(Upload!vars)
    BY <2>1, SameExportSteps
  <2> QED BY <2>2, SameExports, PTL DEF File!Spec, Upload!Spec
<1>2. Upload!ImplementsEffect => File!ImplementsEffect
  <2> DEFINE theirs == <<{a.op : a \in fileConsents},
                         [o \in Upload!Ops |-> Upload!Cardinality(Upload!Shared(o))],
                         [o \in Upload!Ops |-> Upload!Says(o)]>>
             ours == <<{a.op : a \in fileConsents},
                       [o \in File!Ops |-> File!Cardinality(File!Shared(o))],
                       [o \in File!Ops |-> File!Says(o)]>>
  <2>1. theirs' = theirs => ours' = ours
    BY Zenon
    DEF Upload!Says, File!Says, Upload!Shared, File!Shared, Upload!Cardinality, File!Cardinality,
        Upload!Ops, File!Ops
  <2>2. [Upload!Effect!Next]_theirs => [File!Effect!Next]_ours
    BY <2>1, SameExportEffects
  <2> QED BY <2>2, SameExportEffects, PTL
          DEF Upload!ImplementsEffect, File!ImplementsEffect, Upload!Effect!Spec, File!Effect!Spec
<1> QED
  BY <1>1, <1>2, SameExports, Upload!ExportsTyped, Upload!ExportAnswersAreOwn,
     Upload!ExportsAreConfirmedEffects, PTL

-----------------------------------------------------------------------------
(* The components together                                                   *)

\* A step of TurnTools is a step of one component and a stutter of the others.
LEMMA ToolsAreComponents ==
    ToolsSpec => Canvas!Spec /\ File!Spec /\ Audit!Spec /\ Spec
<1>1. ToolsInit => Canvas!Init /\ File!Init /\ Audit!Init /\ Init
  BY DEF ToolsInit
<1>2. [ToolsNext]_toolsVars => /\ [Canvas!Next]_(Canvas!vars)
                               /\ [File!Next]_(File!vars)
                               /\ [Audit!Next]_(Audit!vars)
                               /\ [Next]_vars
  <2>1. /\ UNCHANGED canvasVars => UNCHANGED Canvas!vars
        /\ UNCHANGED fileVars => UNCHANGED File!vars
        /\ UNCHANGED auditVars => UNCHANGED Audit!vars
    BY DEF canvasVars, Canvas!vars, Canvas!rows, Canvas!process, fileVars, File!vars, File!rows,
           File!process, auditVars, Audit!vars
  <2> QED
    BY <2>1 DEF ToolsNext, CanvasStep, FileStep, AuditStep, ProgressStep, toolsVars
<1> QED BY <1>1, <1>2, PTL DEF ToolsSpec, Canvas!Spec, File!Spec, Audit!Spec, Spec

\* The variables of every component keep their types.
THEOREM ToolsKeepTypes == ToolsSpec => []ToolsTypeOK
<1>1. Canvas!TypeOK /\ File!TypeOK /\ Audit!TypeOK /\ TypeOK => ToolsTypeOK
  BY DEF ToolsTypeOK
<1> QED
  BY <1>1, ToolsAreComponents, CanvasesTyped, ExportsOfTools, RecordsKeepTypes,
     ProgressKeepsTypes, PTL

\* A call is answered with its own canvas or file, whatever calls repeat it.
THEOREM ToolAnswersAreOwn == ToolsSpec => []AnswersAreOwn
<1>1. Canvas!AnswerIsOwn /\ File!AnswerIsOwn => AnswersAreOwn
  BY DEF AnswersAreOwn
<1> QED BY <1>1, ToolsAreComponents, CanvasAnswersAreOwn, ExportsOfTools, PTL

\* What is stale of the progress is listed at the next start, and settled then.
THEOREM ProgressIsSettled == ToolsSpec => []NoStaleProgress
<1>1. StaleIsListed /\ NoStaleWork => NoStaleProgress
  BY DEF NoStaleProgress
<1> QED BY <1>1, ToolsAreComponents, ProgressIsNeverStale, PTL

\* A confirmed call has its effect once at most, and its row says what is so.
THEOREM ToolEffectsHappenOnce == ToolsSpec => EffectsOnce
BY ToolsAreComponents, CanvasesAreConfirmedEffects, ExportsOfTools,
   ExecutionsAreConfirmedEffects, PTL DEF EffectsOnce
=============================================================================
