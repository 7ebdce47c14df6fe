--------------------------- MODULE BotTurnProofs ---------------------------
(***************************************************************************)
(* Proofs about BotTurn for any deliveries, messages, conversations and    *)
(* access rules, any number of calls, any lifetime of a claim, any clock.  *)
(***************************************************************************)
EXTENDS BotTurn, FiniteSetTheorems, TLAPS

USE DEF process, handler, claims, limiter, pool, effects

-----------------------------------------------------------------------------
(* Where the handlers stand.                                                *)

\* The types of everything but the counts, which are natural numbers only
\* because they count.
Types ==
    /\ phase \in {"down", "up", "cancelled", "draining"}
    /\ now \in Nat
    /\ pc \in [Deliveries -> Live \cup {"new", "done"}]
    /\ arrived \in [Deliveries -> Nat]
    /\ outcome \in [Deliveries -> {"none", "duplicate", "denied", "ignored", "busy",
                                   "modelFailed", "publishFailed", "responded", "error"}]
    /\ dedupe \in [Keys -> Nat]
    /\ claimed \subseteq Deliveries
    /\ byKey \subseteq Conversations
    /\ curating \in BOOLEAN
    /\ stored \subseteq Messages
    /\ runs \in [Deliveries -> Nat]
    /\ posts \in [Deliveries -> Nat]

\* A handler stands somewhere, its outcome is one of those listed.
LEMMA PlaceType == \A d \in Deliveries : Place(d) \in Conversations /\ Message[d] \in Messages
BY DeliveriesAssumption DEF Place

\* A step moves one handler and keeps the types.
LEMMA StepKeepsTypes ==
    ASSUME Types, NEW d \in Deliveries, Step(d)
    PROVE  /\ Types'
           /\ \A e \in Deliveries \ {d} : pc'[e] = pc[e]
<1> USE DEF Types, Goto, Conclude, Published, PublishFails, Live, Serial, Permitted
<1>1. CASE Claim(d)
  BY <1>1, LimitsAssumption DEF Claim
<1>2. CASE Admit(d)
  BY <1>2 DEF Admit
<1>3. CASE Refuse(d)
  BY <1>3 DEF Refuse
<1>4. CASE Report(d)
  BY <1>4 DEF Report
<1>5. CASE Acquire(d)
  BY <1>5, PlaceType DEF Acquire
<1>6. CASE Load(d)
  BY <1>6 DEF Load
<1>7. CASE Attach(d)
  BY <1>7 DEF Attach, TakePermit
<1>8. CASE Image(d)
  BY <1>8 DEF Image
<1>9. CASE Ask(d)
  BY <1>9, PlaceType DEF Ask
<1>10. CASE Permit(d)
  BY <1>10 DEF Permit, TakePermit
<1>11. CASE Model(d)
  BY <1>11 DEF Model
<1>12. CASE Reply(d)
  BY <1>12 DEF Reply
<1>13. CASE Record(d)
  BY <1>13 DEF Record
<1>14. CASE Return(d)
  BY <1>14 DEF Return
<1>15. CASE Decide(d)
  BY <1>15 DEF Decide, TakePermit
<1>16. CASE Resume(d)
  BY <1>16 DEF Resume
<1>17. CASE Tell(d)
  BY <1>17 DEF Tell
<1> QED BY <1>1, <1>2, <1>3, <1>4, <1>5, <1>6, <1>7, <1>8, <1>9, <1>10, <1>11, <1>12,
           <1>13, <1>14, <1>15, <1>16, <1>17 DEF Step

\* Every step keeps these types.
LEMMA NextKeepsTypes == Types /\ [Next]_vars => Types'
<1> SUFFICES ASSUME Types, [Next]_vars PROVE Types'
  OBVIOUS
<1>1. ASSUME NEW d \in Deliveries, Deliver(d) PROVE Types'
  BY <1>1 DEF Types, Deliver, Live
<1>2. ASSUME NEW d \in Deliveries, Step(d) PROVE Types'
  BY <1>2, StepKeepsTypes
<1>3. ASSUME Curate PROVE Types'
  BY <1>3 DEF Types, Curate
<1>4. ASSUME Start PROVE Types'
  BY <1>4 DEF Types, Start
<1>5. ASSUME Cancel \/ Drain \/ Exit PROVE Types'
  BY <1>5 DEF Types, Cancel, Drain, Exit
<1>6. ASSUME Crash PROVE Types'
  BY <1>6 DEF Types, Crash
<1>7. ASSUME Tick PROVE Types'
  BY <1>7 DEF Types, Tick
<1>8. ASSUME UNCHANGED vars PROVE Types'
  BY <1>8 DEF Types, vars
<1> QED BY <1>1, <1>2, <1>3, <1>4, <1>5, <1>6, <1>7, <1>8 DEF Next

-----------------------------------------------------------------------------
(* The limiters.  The key of a conversation is deleted when its holder      *)
(* returns; that the count and the keys stay right depends on no two        *)
(* holders sharing a conversation, which in turn follows from the keys.     *)

LInv == Types /\ LimiterExact /\ PoolExact /\ TurnsApart

\* What the handlers hold can be counted.
LEMMA Counting ==
    /\ IsFiniteSet(Holders) /\ Cardinality(Holders) \in Nat
    /\ IsFiniteSet(Callers) /\ Cardinality(Callers) \in Nat
BY DeliveriesAssumption, FS_Subset, FS_CardinalityType DEF Holders, Callers

\* A handler that neither takes nor returns its conversation.
LEMMA LimiterStays ==
    ASSUME LInv, NEW d \in Deliveries,
           \A e \in Deliveries \ {d} : pc'[e] = pc[e],
           pc'[d] \in Serial <=> pc[d] \in Serial,
           UNCHANGED limiter
    PROVE  LimiterExact' /\ TurnsApart'
<1>1. Holders' = Holders
  BY DEF Holders
<1> QED BY <1>1 DEF LInv, LimiterExact, TurnsApart, Place

\* A handler that is granted its conversation.
LEMMA LimiterTakes ==
    ASSUME LInv, NEW d \in Deliveries,
           \A e \in Deliveries \ {d} : pc'[e] = pc[e],
           pc[d] \notin Serial, pc'[d] \in Serial,
           active < MaxCalls, Place(d) \notin byKey,
           active' = active + 1, byKey' = byKey \cup {Place(d)}
    PROVE  LimiterExact' /\ TurnsApart'
<1>1. Holders' = Holders \cup {d} /\ d \notin Holders
  BY DEF Holders
<1>2. Cardinality(Holders') = Cardinality(Holders) + 1
  BY <1>1, Counting, FS_AddElement
<1>3. \A e \in Holders : Place(e) # Place(d)
  BY DEF LInv, LimiterExact
<1>4. active' = Cardinality(Holders)' /\ active' <= MaxCalls
  BY <1>2, Counting, LimitsAssumption DEF LInv, LimiterExact
<1>5. byKey' = {Place(e) : e \in Holders'}
  BY <1>1 DEF LInv, LimiterExact
<1>6. TurnsApart'
  BY <1>1, <1>3 DEF LInv, TurnsApart, Place
<1> QED BY <1>4, <1>5, <1>6 DEF LimiterExact, Place

\* A handler that returns its conversation.
LEMMA LimiterReturns ==
    ASSUME LInv, NEW d \in Deliveries,
           \A e \in Deliveries \ {d} : pc'[e] = pc[e],
           pc[d] \in Serial, pc'[d] \notin Serial,
           active' = active - 1, byKey' = byKey \ {Place(d)}
    PROVE  LimiterExact' /\ TurnsApart'
<1>1. Holders' = Holders \ {d} /\ d \in Holders
  BY DEF Holders
<1>2. Cardinality(Holders') = Cardinality(Holders) - 1
  BY <1>1, Counting, FS_RemoveElement
<1>3. \A e \in Holders' : Place(e) # Place(d)
  BY <1>1 DEF LInv, TurnsApart
<1>4. active' = Cardinality(Holders)' /\ active' <= MaxCalls
  BY <1>2, Counting, LimitsAssumption DEF LInv, LimiterExact
<1>5. byKey' = {Place(e) : e \in Holders'}
  BY <1>1, <1>3 DEF LInv, LimiterExact
<1>6. TurnsApart'
  BY <1>1 DEF LInv, TurnsApart, Place
<1> QED BY <1>4, <1>5, <1>6 DEF LimiterExact, Place

\* A handler that neither takes nor returns a permit.
LEMMA PoolStays ==
    ASSUME LInv, NEW d \in Deliveries,
           \A e \in Deliveries \ {d} : pc'[e] = pc[e],
           pc'[d] \in Permitted <=> pc[d] \in Permitted,
           UNCHANGED pool
    PROVE  PoolExact'
<1>1. Callers' = Callers
  BY DEF Callers
<1> QED BY <1>1 DEF LInv, PoolExact

\* A handler that takes a permit.
LEMMA PoolTakes ==
    ASSUME LInv, NEW d \in Deliveries,
           \A e \in Deliveries \ {d} : pc'[e] = pc[e],
           pc[d] \notin Permitted, pc'[d] \in Permitted,
           permits < MaxCalls, permits' = permits + 1, UNCHANGED curating
    PROVE  PoolExact'
<1>1. Callers' = Callers \cup {d} /\ d \notin Callers
  BY DEF Callers
<1>2. Cardinality(Callers') = Cardinality(Callers) + 1
  BY <1>1, Counting, FS_AddElement
<1> QED BY <1>2, Counting, LimitsAssumption DEF LInv, PoolExact

\* A handler that returns its permit.
LEMMA PoolReturns ==
    ASSUME LInv, NEW d \in Deliveries,
           \A e \in Deliveries \ {d} : pc'[e] = pc[e],
           pc[d] \in Permitted, pc'[d] \notin Permitted,
           permits' = permits - 1, UNCHANGED curating
    PROVE  PoolExact'
<1>1. Callers' = Callers \ {d} /\ d \in Callers
  BY DEF Callers
<1>2. Cardinality(Callers') = Cardinality(Callers) - 1
  BY <1>1, Counting, FS_RemoveElement
<1> QED BY <1>2, Counting, LimitsAssumption DEF LInv, PoolExact

\* Every step of a handler is one of these.
LEMMA StepKeepsLimits ==
    ASSUME LInv, NEW d \in Deliveries, Step(d)
    PROVE  LimiterExact' /\ TurnsApart' /\ PoolExact'
<1>0. Types /\ \A e \in Deliveries \ {d} : pc'[e] = pc[e]
  BY StepKeepsTypes DEF LInv
<1> USE DEF Types, Goto, Conclude, Published, PublishFails, Live, Serial, Permitted
<1>1. CASE Acquire(d)
  <2>1. PoolExact'
    BY <1>0, <1>1, PoolStays DEF Acquire
  <2>2. CASE active < MaxCalls /\ Place(d) \notin byKey
    BY <1>0, <1>1, <2>1, <2>2, LimiterTakes DEF Acquire
  <2>3. CASE ~(active < MaxCalls /\ Place(d) \notin byKey)
    BY <1>0, <1>1, <2>1, <2>3, LimiterStays DEF Acquire
  <2> QED BY <2>2, <2>3
<1>2. CASE Return(d)
  BY <1>0, <1>2, LimiterReturns, PoolStays DEF Return
<1>3. CASE Attach(d)
  <2>1. LimiterExact' /\ TurnsApart'
    BY <1>0, <1>3, LimiterStays DEF Attach, TakePermit
  <2>2. CASE permits < MaxCalls /\ permits' = permits + 1 /\ pc' = [pc EXCEPT ![d] = "image"]
    BY <1>0, <1>3, <2>1, <2>2, PoolTakes DEF Attach
  <2>3. CASE UNCHANGED permits /\ pc' = [pc EXCEPT ![d] = "report"]
    BY <1>0, <1>3, <2>1, <2>3, PoolStays DEF Attach
  <2> QED BY <1>3, <2>2, <2>3 DEF Attach, TakePermit
<1>4. CASE Permit(d)
  <2>1. LimiterExact' /\ TurnsApart'
    BY <1>0, <1>4, LimiterStays DEF Permit, TakePermit
  <2>2. CASE permits < MaxCalls /\ permits' = permits + 1 /\ pc' = [pc EXCEPT ![d] = "model"]
    BY <1>0, <1>4, <2>1, <2>2, PoolTakes DEF Permit
  <2>3. CASE UNCHANGED permits /\ pc' = [pc EXCEPT ![d] = "report"]
    BY <1>0, <1>4, <2>1, <2>3, PoolStays DEF Permit
  <2> QED BY <1>4, <2>2, <2>3 DEF Permit, TakePermit
<1>5. CASE Decide(d)
  <2>1. LimiterExact' /\ TurnsApart'
    BY <1>0, <1>5, LimiterStays DEF Decide, TakePermit
  <2>2. CASE permits < MaxCalls /\ permits' = permits + 1 /\ pc' = [pc EXCEPT ![d] = "resume"]
    BY <1>0, <1>5, <2>1, <2>2, PoolTakes DEF Decide
  <2>3. CASE UNCHANGED permits /\ pc'[d] \in {"tell", "done"}
    BY <1>0, <1>5, <2>1, <2>3, PoolStays DEF Decide
  <2> QED BY <1>0, <1>5, <2>2, <2>3 DEF Decide, TakePermit
<1>6. CASE Image(d)
  <2>1. pc[d] = "image" /\ pc'[d] \in {"ask", "report"}
    BY <1>0, <1>6 DEF Image
  <2> QED BY <1>0, <1>6, <2>1, LimiterStays, PoolReturns DEF Image, ReturnPermit
<1>7. CASE Model(d)
  <2>1. pc[d] = "model" /\ pc'[d] \in {"reply", "report"}
    BY <1>0, <1>7 DEF Model
  <2> QED BY <1>0, <1>7, <2>1, LimiterStays, PoolReturns DEF Model, ReturnPermit
<1>8. CASE Resume(d)
  <2>1. pc[d] = "resume" /\ pc'[d] = "tell"
    BY <1>0, <1>8 DEF Resume
  <2> QED BY <1>0, <1>8, <2>1, LimiterStays, PoolReturns DEF Resume, ReturnPermit
<1>9. CASE Claim(d) \/ Admit(d) \/ Refuse(d) \/ Tell(d)
  <2>1. pc[d] \notin Serial \cup Permitted /\ pc'[d] \notin Serial \cup Permitted
    BY <1>0, <1>9 DEF Claim, Admit, Refuse, Tell
  <2>2. UNCHANGED limiter /\ UNCHANGED pool
    BY <1>9 DEF Claim, Admit, Refuse, Tell
  <2> QED BY <1>0, <2>1, <2>2, LimiterStays, PoolStays
<1>10. CASE Report(d) \/ Load(d) \/ Ask(d) \/ Reply(d) \/ Record(d)
  <2>1. pc[d] \in Serial \ Permitted /\ pc'[d] \in Serial \ Permitted
    BY <1>0, <1>10 DEF Report, Load, Ask, Reply, Record
  <2>2. UNCHANGED limiter /\ UNCHANGED pool
    BY <1>10 DEF Report, Load, Ask, Reply, Record
  <2> QED BY <1>0, <2>1, <2>2, LimiterStays, PoolStays
<1> QED BY <1>1, <1>2, <1>3, <1>4, <1>5, <1>6, <1>7, <1>8, <1>9, <1>10 DEF Step

\* A process that ends with all its handlers holds nothing.
LEMMA NothingHeld ==
    ASSUME \A d \in Deliveries : pc'[d] \notin Live,
           active' = 0, byKey' = {}, permits' = 0, curating' = FALSE
    PROVE  LimiterExact' /\ PoolExact' /\ TurnsApart'
<1>1. Holders' = {} /\ Callers' = {}
  BY DEF Holders, Callers, Live
<1> QED BY <1>1, FS_EmptySet, LimitsAssumption DEF LimiterExact, PoolExact, TurnsApart

\* A step keeps the limits.
LEMMA NextKeepsLimits == LInv /\ [Next]_vars => LInv'
<1> SUFFICES ASSUME LInv, [Next]_vars PROVE LimiterExact' /\ PoolExact' /\ TurnsApart'
  BY NextKeepsTypes DEF LInv
<1>0. Types
  BY DEF LInv
<1>1. ASSUME NEW d \in Deliveries, Deliver(d)
      PROVE  LimiterExact' /\ PoolExact' /\ TurnsApart'
  <2>1. /\ \A e \in Deliveries \ {d} : pc'[e] = pc[e]
        /\ pc[d] = "new" /\ pc'[d] = "claim"
    BY <1>0, <1>1 DEF Types, Deliver
  <2> QED BY <1>1, <2>1, LimiterStays, PoolStays DEF Deliver, Serial, Permitted
<1>2. ASSUME NEW d \in Deliveries, Step(d)
      PROVE  LimiterExact' /\ PoolExact' /\ TurnsApart'
  BY <1>2, StepKeepsLimits
<1>3. ASSUME Curate PROVE LimiterExact' /\ PoolExact' /\ TurnsApart'
  <2>1. Holders' = Holders /\ Callers' = Callers /\ UNCHANGED limiter
    BY <1>3 DEF Curate, Holders, Callers
  <2>2. PoolExact'
    BY <1>3, <2>1, Counting, LimitsAssumption DEF Curate, ReturnPermit, LInv, PoolExact
  <2> QED BY <2>1, <2>2 DEF LInv, LimiterExact, TurnsApart, Place
<1>4. ASSUME Start \/ Cancel \/ Drain \/ Tick \/ UNCHANGED vars
      PROVE  LimiterExact' /\ PoolExact' /\ TurnsApart'
  <2>1. Holders' = Holders /\ Callers' = Callers /\ UNCHANGED limiter /\ UNCHANGED pool
    BY <1>4 DEF Start, Cancel, Drain, Tick, vars, Holders, Callers
  <2> QED BY <2>1 DEF LInv, LimiterExact, PoolExact, TurnsApart, Place
<1>5. ASSUME Exit \/ Crash PROVE LimiterExact' /\ PoolExact' /\ TurnsApart'
  <2>1. \A d \in Deliveries : pc'[d] \notin Live
    BY <1>0, <1>5 DEF Exit, Crash, Types, Live, Serial, Permitted
  <2> QED BY <1>5, <2>1, NothingHeld DEF Exit, Crash
<1> QED BY <1>1, <1>2, <1>3, <1>4, <1>5 DEF Next

\* Initially nothing is held.
LEMMA InitLimits == Init => LInv
<1> SUFFICES ASSUME Init PROVE LInv
  OBVIOUS
<1>1. Types
  BY DEF Init, Types, Live
<1>2. Holders = {} /\ Callers = {}
  BY DEF Init, Holders, Callers, Serial, Permitted
<1> QED BY <1>1, <1>2, FS_EmptySet, LimitsAssumption
        DEF Init, LInv, LimiterExact, PoolExact, TurnsApart

\* The invariant holds in every state.
LEMMA LimitsHold == Spec => []LInv
BY InitLimits, NextKeepsLimits, PTL DEF Spec

\* Every variable keeps its type; the counts never drop below zero.
THEOREM TypeCorrect == Spec => []TypeOK
<1>1. LInv => TypeOK
  BY Counting DEF LInv, Types, TypeOK, LimiterExact, PoolExact
<1> QED BY <1>1, LimitsHold, PTL

\* On every way out of a turn the limiter and the pool get back what was taken.
THEOREM LimitersNeverLeak == Spec => []LimitsExact
<1>1. LInv => LimitsExact
  BY DEF LInv, LimitsExact
<1> QED BY <1>1, LimitsHold, PTL

\* No two turns of one conversation overlap.
THEOREM TurnsNeverOverlap == Spec => []TurnsApart
<1>1. LInv => TurnsApart
  BY DEF LInv
<1> QED BY <1>1, LimitsHold, PTL

-----------------------------------------------------------------------------
(* Claims.  A row of dedupe_records may be gone although it was written, but *)
(* only when whoever still may look for it looks after its expiry.          *)

\* What is remembered of the claim of e under the key k.
Remembered(e, k) ==
    \/ dedupe[k] >= arrived[e] + TTL
    \/ /\ arrived[e] + TTL <= now
       /\ \A d \in Deliveries : pc[d] = "claim" => arrived[e] + TTL <= arrived[d]

CInv ==
    /\ Types
    /\ NobodyLeftBehind
    /\ \A e \in claimed : pc[e] \notin {"new", "claim"}
    /\ \A e \in claimed : \A k \in KeysOf(e) : Remembered(e, k)
    /\ OncePerLifetime

\* The keys of a delivery are keys.
LEMMA KeyType == \A d \in Deliveries : KeysOf(d) \subseteq Keys
BY DeliveriesAssumption DEF KeysOf, Keys

\* A handler beyond its claim, or one that does not get it, changes no claim.
LEMMA OtherStep ==
    ASSUME Types, NEW d \in Deliveries, Step(d)
    PROVE  /\ UNCHANGED process /\ UNCHANGED arrived
           /\ pc[d] \in Live /\ pc'[d] \notin {"new", "claim"}
           /\ \/ UNCHANGED claims
              \/ Claim(d) /\ Free(d) /\ claimed' = claimed \cup {d}
<1> USE DEF Types, Goto, Conclude, Published, PublishFails, TakePermit, Live, Serial, Permitted
<1>1. UNCHANGED process /\ UNCHANGED arrived
  BY DEF Step, Claim, Admit, Refuse, Report, Acquire, Load, Attach, Image, Ask, Permit,
         Model, Reply, Record, Return, Decide, Resume, Tell
<1>2. pc[d] \in Live
  BY DEF Step, Claim, Admit, Refuse, Report, Acquire, Load, Attach, Image, Ask, Permit,
         Model, Reply, Record, Return, Decide, Resume, Tell
<1>3. CASE Claim(d)
  BY <1>1, <1>2, <1>3 DEF Claim
<1>4. CASE Admit(d) \/ Refuse(d) \/ Report(d) \/ Acquire(d) \/ Load(d) \/ Attach(d)
  BY <1>1, <1>2, <1>4 DEF Admit, Refuse, Report, Acquire, Load, Attach
<1>5. CASE Image(d) \/ Ask(d) \/ Permit(d) \/ Model(d) \/ Reply(d) \/ Record(d)
  BY <1>1, <1>2, <1>5 DEF Image, Ask, Permit, Model, Reply, Record
<1>6. CASE Return(d) \/ Decide(d) \/ Resume(d) \/ Tell(d)
  BY <1>1, <1>2, <1>6 DEF Return, Decide, Resume, Tell
<1> QED BY <1>3, <1>4, <1>5, <1>6 DEF Step

\* Claims stay what they were when no handler comes to claim that did not
\* already, the clock does not run backwards and no live row changes.
LEMMA ClaimsStay ==
    ASSUME CInv, Types', UNCHANGED claimed, UNCHANGED arrived, now' >= now,
           \A k \in Keys : dedupe'[k] >= dedupe[k],
           \A e \in Deliveries : pc'[e] \in {"new", "claim"} => pc'[e] = pc[e]
    PROVE  /\ \A e \in claimed' : pc'[e] \notin {"new", "claim"}
           /\ \A e \in claimed' : \A k \in KeysOf(e) : Remembered(e, k)'
           /\ OncePerLifetime'
<1>1. \A e \in claimed' : pc'[e] \notin {"new", "claim"}
  BY DEF CInv, Types
<1>2. OncePerLifetime'
  BY DEF CInv, OncePerLifetime, KeysOf
<1>3. ASSUME NEW e \in claimed', NEW k \in KeysOf(e) PROVE Remembered(e, k)'
  <2>1. e \in Deliveries /\ k \in Keys /\ Remembered(e, k)
    BY <1>3, KeyType DEF CInv, Types
  <2>2. arrived[e] \in Nat /\ dedupe[k] \in Nat /\ dedupe'[k] \in Nat /\ now \in Nat
        /\ now' \in Nat
    BY <2>1 DEF CInv, Types
  <2>3. CASE dedupe[k] >= arrived[e] + TTL
    BY <2>1, <2>2, <2>3, LimitsAssumption DEF Remembered
  <2>4. CASE dedupe[k] < arrived[e] + TTL
    BY <2>1, <2>2, <2>4, LimitsAssumption DEF Remembered
  <2> QED BY <2>2, <2>3, <2>4, LimitsAssumption
<1> QED BY <1>1, <1>2, <1>3

\* A claim that is granted is apart from all before it.
LEMMA ClaimGranted ==
    ASSUME CInv, NEW d \in Deliveries, Claim(d), Free(d), claimed' = claimed \cup {d}
    PROVE  CInv'
<1>0. Types /\ Types'
  BY NextKeepsTypes DEF CInv, Next, Step
<1>1. /\ phase' = phase /\ now' = now /\ arrived' = arrived
      /\ phase # "down"
      /\ pc[d] = "claim" /\ pc'[d] \notin {"new", "claim"}
      /\ \A e \in Deliveries \ {d} : pc'[e] = pc[e]
      /\ d \notin claimed
  BY <1>0, StepKeepsTypes DEF CInv, NobodyLeftBehind, Live, Claim, Goto, Conclude, Types, Step
<1>2. dedupe' = [k \in Keys |-> IF k \in KeysOf(d) THEN arrived[d] + TTL ELSE dedupe[k]]
  BY <1>1 DEF Claim
<1>3. \A k \in Keys : dedupe'[k] >= dedupe[k]
  BY <1>0, <1>2, LimitsAssumption DEF Free, Types
<1>4. NobodyLeftBehind'
  BY <1>1 DEF NobodyLeftBehind
<1>5. \A e \in claimed' : pc'[e] \notin {"new", "claim"}
  BY <1>0, <1>1 DEF CInv, Types
<1>6. ASSUME NEW e \in claimed, NEW k \in KeysOf(e), k \in KeysOf(d)
      PROVE  arrived[e] + TTL <= arrived[d]
  <2>1. Remembered(e, k) /\ dedupe[k] <= arrived[d]
    BY <1>6 DEF CInv, Free
  <2>2. arrived[e] \in Nat /\ arrived[d] \in Nat /\ dedupe[k] \in Nat
    BY <1>0, <1>6, KeyType DEF Types
  <2> QED BY <1>1, <2>1, <2>2, LimitsAssumption DEF Remembered
<1>7. ASSUME NEW e \in claimed', NEW k \in KeysOf(e) PROVE Remembered(e, k)'
  <2>1. e \in Deliveries /\ k \in Keys
    BY <1>0, <1>7, KeyType DEF Types
  <2>2. /\ arrived[e] \in Nat /\ arrived[d] \in Nat /\ dedupe[k] \in Nat
        /\ dedupe'[k] \in Nat /\ dedupe'[k] >= dedupe[k]
    BY <1>0, <1>3, <2>1 DEF Types
  <2>3. CASE e = d
    BY <1>1, <1>2, <1>7, <2>1, <2>2, <2>3, LimitsAssumption DEF Remembered
  <2>4. CASE e # d
    <3>1. Remembered(e, k)
      BY <1>7, <2>4 DEF CInv
    <3>2. CASE dedupe[k] >= arrived[e] + TTL
      BY <1>1, <2>2, <3>2, LimitsAssumption DEF Remembered
    <3>3. CASE ~(dedupe[k] >= arrived[e] + TTL)
      BY <1>1, <3>1, <3>3 DEF Remembered
    <3> QED BY <3>2, <3>3
  <2> QED BY <2>3, <2>4
<1>8. OncePerLifetime'
  <2> SUFFICES ASSUME NEW e \in claimed', NEW f \in claimed', e # f,
                      NEW k \in KeysOf(e), k \in KeysOf(f)
               PROVE  arrived[e] + TTL <= arrived[f] \/ arrived[f] + TTL <= arrived[e]
    BY <1>1 DEF OncePerLifetime, KeysOf
  <2>1. CASE e # d /\ f # d
    BY <2>1 DEF CInv, OncePerLifetime
  <2>2. CASE e = d \/ f = d
    BY <1>6, <2>2
  <2> QED BY <2>1, <2>2
<1> QED BY <1>0, <1>4, <1>5, <1>7, <1>8 DEF CInv

\* A new handler looks at the clock after every expiry that has passed.
LEMMA ClaimsOnDeliver ==
    ASSUME CInv, NEW d \in Deliveries, Deliver(d)
    PROVE  CInv'
<1>0. Types /\ Types'
  BY NextKeepsTypes DEF CInv, Next
<1>1. /\ phase' = phase /\ phase # "down" /\ now' = now /\ UNCHANGED claims
      /\ pc[d] = "new" /\ pc'[d] = "claim" /\ arrived'[d] = now
      /\ \A e \in Deliveries \ {d} : pc'[e] = pc[e] /\ arrived'[e] = arrived[e]
      /\ d \notin claimed
  BY <1>0 DEF Deliver, Types, CInv
<1>2. NobodyLeftBehind' /\ \A e \in claimed' : pc'[e] \notin {"new", "claim"}
  BY <1>0, <1>1 DEF CInv, NobodyLeftBehind, Types
<1>3. \A e \in claimed' : \A k \in KeysOf(e) : Remembered(e, k)'
  BY <1>0, <1>1 DEF CInv, Remembered, Types
<1>4. OncePerLifetime'
  BY <1>0, <1>1 DEF CInv, OncePerLifetime, KeysOf, Types
<1> QED BY <1>0, <1>2, <1>3, <1>4 DEF CInv

\* Rows are removed at the start when no handler is left that could have read
\* the clock before they expired.
LEMMA ClaimsOnStart == CInv /\ Start => CInv'
<1> SUFFICES ASSUME CInv, Start PROVE CInv'
  OBVIOUS
<1>0. Types /\ Types'
  BY NextKeepsTypes DEF CInv, Next
<1>1. /\ phase' = "up" /\ now' = now /\ pc' = pc /\ arrived' = arrived /\ claimed' = claimed
      /\ dedupe' = [k \in Keys |-> IF dedupe[k] <= now THEN 0 ELSE dedupe[k]]
      /\ \A d \in Deliveries : pc[d] \notin Live
  BY DEF Start, CInv, NobodyLeftBehind
<1>2. NobodyLeftBehind' /\ \A e \in claimed' : pc'[e] \notin {"new", "claim"}
  BY <1>1 DEF CInv, NobodyLeftBehind
<1>3. OncePerLifetime'
  BY <1>1 DEF CInv, OncePerLifetime, KeysOf
<1>4. ASSUME NEW e \in claimed', NEW k \in KeysOf(e) PROVE Remembered(e, k)'
  <2>1. e \in Deliveries /\ k \in Keys /\ Remembered(e, k)
    BY <1>0, <1>1, <1>4, KeyType DEF CInv, Types
  <2>2. arrived[e] \in Nat /\ dedupe[k] \in Nat /\ now \in Nat
    BY <1>0, <2>1 DEF Types
  <2>3. \A d \in Deliveries : pc'[d] # "claim"
    BY <1>1 DEF Live
  <2>4. CASE arrived[e] + TTL <= now
    BY <1>1, <2>3, <2>4 DEF Remembered
  <2>5. CASE ~(arrived[e] + TTL <= now)
    <3>1. dedupe[k] >= arrived[e] + TTL /\ ~(dedupe[k] <= now)
      BY <2>1, <2>2, <2>5, LimitsAssumption DEF Remembered
    <3> QED BY <1>1, <2>1, <3>1 DEF Remembered
  <2> QED BY <2>4, <2>5
<1> QED BY <1>0, <1>2, <1>3, <1>4 DEF CInv

\* Every step keeps the claims apart.
LEMMA NextKeepsClaims == CInv /\ [Next]_vars => CInv'
<1> SUFFICES ASSUME CInv, [Next]_vars PROVE CInv'
  OBVIOUS
<1>0. Types /\ Types'
  BY NextKeepsTypes DEF CInv
<1>1. ASSUME NEW d \in Deliveries, Deliver(d) PROVE CInv'
  BY <1>1, ClaimsOnDeliver
<1>2. ASSUME NEW d \in Deliveries, Step(d) PROVE CInv'
  <2>1. CASE Claim(d) /\ Free(d) /\ claimed' = claimed \cup {d}
    BY <2>1, ClaimGranted
  <2>2. CASE UNCHANGED claims
    <3>1. /\ phase' = phase /\ now' = now /\ UNCHANGED arrived
          /\ phase # "down" /\ pc'[d] \notin {"new", "claim"}
          /\ \A e \in Deliveries \ {d} : pc'[e] = pc[e]
      BY <1>0, <1>2, OtherStep, StepKeepsTypes DEF CInv, NobodyLeftBehind
    <3>2. NobodyLeftBehind'
      BY <3>1 DEF NobodyLeftBehind
    <3> QED BY <1>0, <2>2, <3>1, <3>2, ClaimsStay DEF CInv, Types
  <2> QED BY <1>0, <1>2, <2>1, <2>2, OtherStep
<1>3. CASE Start
  BY <1>3, ClaimsOnStart
<1>4. CASE Curate \/ Cancel \/ Drain \/ Exit \/ Tick \/ UNCHANGED vars
  <2>1. UNCHANGED claims /\ UNCHANGED handler /\ now' >= now
    BY <1>0, <1>4 DEF Curate, Cancel, Drain, Exit, Tick, vars, Types
  <2>2. NobodyLeftBehind'
    BY <1>4 DEF Curate, Cancel, Drain, Exit, Tick, vars, NobodyLeftBehind, CInv
  <2> QED BY <1>0, <2>1, <2>2, ClaimsStay DEF CInv, Types
<1>5. CASE Crash
  <2>1. /\ UNCHANGED claims /\ UNCHANGED arrived /\ now' = now
        /\ \A d \in Deliveries : pc'[d] \notin Live
        /\ \A d \in Deliveries : pc'[d] = "new" => pc[d] = "new"
    BY <1>0, <1>5 DEF Crash, Types, Live, Serial, Permitted
  <2>2. NobodyLeftBehind'
    BY <2>1 DEF NobodyLeftBehind
  <2>3. \A d \in Deliveries : pc'[d] \in {"new", "claim"} => pc'[d] = pc[d]
    BY <2>1 DEF Live
  <2> QED BY <1>0, <2>1, <2>2, <2>3, ClaimsStay DEF CInv, Types
<1> QED BY <1>1, <1>2, <1>3, <1>4, <1>5 DEF Next

\* Nothing is claimed at first.
LEMMA ClaimsHold == Spec => []CInv
<1>1. Init => CInv
  <2> SUFFICES ASSUME Init PROVE CInv
    OBVIOUS
  <2>1. Types
    BY InitLimits DEF LInv
  <2>2. claimed = {} /\ \A d \in Deliveries : pc[d] = "new"
    BY DEF Init
  <2> QED BY <2>1, <2>2 DEF CInv, NobodyLeftBehind, OncePerLifetime, Live, Serial, Permitted
<1> QED BY <1>1, NextKeepsClaims, PTL DEF Spec

\* However often a message arrives, before or after a restart, it is claimed
\* once in the lifetime of its keys.
THEOREM ClaimedOncePerLifetime == Spec => []OncePerLifetime
<1>1. CInv => OncePerLifetime
  BY DEF CInv
<1> QED BY <1>1, ClaimsHold, PTL

\* The process does not end before its handlers have.
THEOREM NoHandlerOutlives == Spec => []NobodyLeftBehind
<1>1. CInv => NobodyLeftBehind
  BY DEF CInv
<1> QED BY <1>1, ClaimsHold, PTL

\* Whatever a turn took it gives back, and its process outlives it.
THEOREM TurnsLeaveNothing == Spec => []NothingLeaks
<1>1. LimitsExact /\ NobodyLeftBehind => NothingLeaks
  BY DEF NothingLeaks
<1> QED BY <1>1, LimitersNeverLeak, NoHandlerOutlives, PTL

-----------------------------------------------------------------------------
(* One visible result.  What a handler has posted and run follows from      *)
(* where it stands; only commands go where a failure may stay unsaid.       *)

Unposted == {"new", "claim", "admit", "decide", "resume", "tell", "limit", "refuse", "load",
             "attach", "image", "ask", "permit", "model", "reply", "report"}
Unrun    == {"new", "claim", "admit", "decide", "limit", "refuse", "load",
             "attach", "image", "ask", "permit", "model", "resume"}

Accounted(d) ==
    /\ posts[d] <= 1 /\ runs[d] <= 1
    /\ pc[d] \in Unposted => posts[d] = 0
    /\ pc[d] \in Unrun => runs[d] = 0
    /\ pc[d] = "record" => posts[d] = 1
    /\ pc[d] \in Live \ {"claim"} => d \in claimed
    /\ d \notin claimed => posts[d] = 0 /\ runs[d] = 0
    /\ pc[d] \in {"decide", "resume", "tell"} => Message[d] \in Commands
    /\ pc[d] = "tell" => outcome[d] \in {"ignored", "busy", "responded", "modelFailed"}
    /\ pc[d] \in {"return", "done"} /\ outcome[d] \in Spoken(d) => posts[d] = 1

VInv == Types /\ \A d \in Deliveries : Accounted(d)

\* A step of one handler leaves the account of the others.
LEMMA OthersAccounted ==
    ASSUME Types, NEW d \in Deliveries, Step(d), NEW e \in Deliveries \ {d}, Accounted(e)
    PROVE  Accounted(e)'
<1> USE DEF Types, Goto, Conclude, Published, PublishFails, TakePermit
<1>1. /\ pc'[e] = pc[e] /\ outcome'[e] = outcome[e]
      /\ posts'[e] = posts[e] /\ runs'[e] = runs[e]
      /\ e \in claimed' <=> e \in claimed
  <2>1. CASE Claim(d) \/ Admit(d) \/ Refuse(d) \/ Report(d) \/ Acquire(d) \/ Load(d)
    BY <2>1 DEF Claim, Admit, Refuse, Report, Acquire, Load
  <2>2. CASE Attach(d) \/ Image(d) \/ Ask(d) \/ Permit(d) \/ Model(d) \/ Reply(d)
    BY <2>2 DEF Attach, Image, Ask, Permit, Model, Reply
  <2>3. CASE Record(d) \/ Return(d) \/ Decide(d) \/ Resume(d) \/ Tell(d)
    BY <2>3 DEF Record, Return, Decide, Resume, Tell
  <2> QED BY <2>1, <2>2, <2>3 DEF Step
<1> QED BY <1>1 DEF Accounted, Spoken

\* A step keeps the account of its own handler.
LEMMA StepAccounted ==
    ASSUME Types, NEW d \in Deliveries, Step(d), Accounted(d)
    PROVE  Accounted(d)'
<1>0. Types'
  BY StepKeepsTypes
<1> USE DEF Types, Goto, Conclude, Published, PublishFails, TakePermit, Live, Serial, Permitted,
            Accounted, Unposted, Unrun, Spoken
<1>1. CASE Claim(d)
  BY <1>1 DEF Claim
<1>2. CASE Admit(d)
  BY <1>2 DEF Admit
<1>3. CASE Refuse(d)
  BY <1>3 DEF Refuse
<1>4. CASE Report(d)
  BY <1>4 DEF Report
<1>5. CASE Acquire(d)
  BY <1>5 DEF Acquire
<1>6. CASE Load(d)
  BY <1>6 DEF Load
<1>7. CASE Attach(d)
  BY <1>7 DEF Attach
<1>8. CASE Image(d)
  BY <1>8 DEF Image
<1>9. CASE Ask(d)
  BY <1>9 DEF Ask
<1>10. CASE Permit(d)
  BY <1>10 DEF Permit
<1>11. CASE Model(d)
  BY <1>11 DEF Model
<1>12. CASE Reply(d)
  BY <1>12 DEF Reply
<1>13. CASE Record(d)
  BY <1>13 DEF Record
<1>14. CASE Return(d)
  BY <1>14 DEF Return
<1>15. CASE Decide(d)
  BY <1>15 DEF Decide
<1>16. CASE Resume(d)
  <2>1. /\ pc[d] = "resume" /\ pc'[d] = "tell"
        /\ outcome'[d] \in {"ignored", "responded", "modelFailed"}
        /\ posts' = posts /\ claimed' = claimed
    BY <1>16 DEF Resume
  <2>2. runs'[d] = runs[d] \/ runs'[d] = runs[d] + 1
    BY <1>16 DEF Resume
  <2> QED BY <1>0, <2>1, <2>2
<1>17. CASE Tell(d)
  BY <1>17 DEF Tell
<1> QED BY <1>1, <1>2, <1>3, <1>4, <1>5, <1>6, <1>7, <1>8, <1>9, <1>10, <1>11, <1>12,
           <1>13, <1>14, <1>15, <1>16, <1>17 DEF Step

\* Every step keeps all accounts.
LEMMA NextAccounted == VInv /\ [Next]_vars => VInv'
<1> SUFFICES ASSUME VInv, [Next]_vars PROVE \A d \in Deliveries : Accounted(d)'
  BY NextKeepsTypes DEF VInv
<1>0. Types
  BY DEF VInv
<1>1. ASSUME NEW d \in Deliveries, Deliver(d) PROVE \A e \in Deliveries : Accounted(e)'
  BY <1>0, <1>1 DEF Deliver, VInv, Accounted, Types, Live, Serial, Permitted, Unposted, Unrun,
                    Spoken
<1>2. ASSUME NEW d \in Deliveries, Step(d) PROVE \A e \in Deliveries : Accounted(e)'
  BY <1>0, <1>2, OthersAccounted, StepAccounted DEF VInv
<1>3. CASE Curate \/ Start \/ Cancel \/ Drain \/ Exit \/ Tick \/ UNCHANGED vars
  <2>1. UNCHANGED handler /\ UNCHANGED effects /\ claimed' = claimed
    BY <1>3 DEF Curate, Start, Cancel, Drain, Exit, Tick, vars
  <2> QED BY <2>1 DEF VInv, Accounted, Spoken
<1>4. CASE Crash
  <2> SUFFICES ASSUME NEW d \in Deliveries PROVE Accounted(d)'
    OBVIOUS
  <2>1. UNCHANGED effects /\ claimed' = claimed
    BY <1>4 DEF Crash
  <2>2. CASE pc[d] \in Live
    <3>1. pc'[d] = "done" /\ outcome'[d] = "error"
      BY <1>0, <1>4, <2>2 DEF Crash, Types
    <3> QED BY <2>1, <3>1 DEF VInv, Accounted, Spoken, Unposted, Unrun, Live, Serial, Permitted
  <2>3. CASE pc[d] \notin Live
    <3>1. pc'[d] = pc[d] /\ outcome'[d] = outcome[d]
      BY <1>0, <1>4, <2>3 DEF Crash, Types
    <3> QED BY <2>1, <3>1 DEF VInv, Accounted, Spoken
  <2> QED BY <2>2, <2>3
<1> QED BY <1>1, <1>2, <1>3, <1>4 DEF Next

\* A delivery causes at most one post and one run of the model, and a question
\* that is answered or turned away exactly one post.
THEOREM OneResult == Spec => []OneVisibleResult
<1>1. Init => VInv
  <2> SUFFICES ASSUME Init PROVE VInv
    OBVIOUS
  <2>1. Types
    BY InitLimits DEF LInv
  <2>2. \A d \in Deliveries : pc[d] = "new" /\ posts[d] = 0 /\ runs[d] = 0
    BY DEF Init
  <2> QED BY <2>1, <2>2 DEF VInv, Accounted, Live, Serial, Permitted
<1>2. VInv => OneVisibleResult
  BY DEF VInv, Accounted, OneVisibleResult
<1> QED BY <1>1, <1>2, NextAccounted, PTL DEF Spec

-----------------------------------------------------------------------------
(* Serial turns.                                                            *)

Stage == [d \in Deliveries |-> IF pc[d] \in Serial THEN "running"
                               ELSE IF pc[d] = "done" THEN "over" ELSE "waiting"]

\* A step of a handler begins a turn, ends one, or is not seen.
LEMMA StepMaps ==
    ASSUME LInv, NEW d \in Deliveries, Step(d)
    PROVE  Turns!Turn(d) \/ Stage' = Stage
<1>0. Types /\ \A e \in Deliveries \ {d} : pc'[e] = pc[e]
  BY StepKeepsTypes DEF LInv
<1>1. \A e \in Deliveries \ {d} : Stage'[e] = Stage[e]
  BY <1>0 DEF Stage
<1>2. pc[d] \in Live
  BY <1>0, OtherStep
<1>3. CASE pc'[d] \in Serial /\ pc[d] \notin Serial
  <2>1. active < MaxCalls /\ Place(d) \notin byKey
    BY <1>0, <1>3 DEF Step, Claim, Admit, Refuse, Report, Acquire, Load, Attach, Image, Ask, Permit,
         Model, Reply, Record, Return, Decide, Resume, Tell, Types, Goto, Conclude, Published,
         PublishFails, TakePermit, Serial
  <2>2. Stage[d] = "waiting"
    BY <1>2, <1>3 DEF Stage, Live, Permitted, Serial
  <2>3. Stage' = [Stage EXCEPT ![d] = "running"]
    BY <1>1, <1>3 DEF Stage
  <2>4. Turns!Running = Holders
    BY DEF Turns!Running, Stage, Holders
  <2>5. Cardinality(Turns!Running) < MaxCalls
        /\ \A e \in Turns!Running : Place(e) # Place(d)
    BY <2>1, <2>4 DEF LInv, LimiterExact
  <2>6. Turns!Cardinality(Turns!Running) = Cardinality(Turns!Running)
    BY DEF Turns!Cardinality, Cardinality
  <2>7. \A e \in Turns!Running : e \in Deliveries
    BY <2>4 DEF Holders
  <2>8. Turns!Begin(d)
    BY <2>2, <2>3, <2>5, <2>6, <2>7 DEF Turns!Begin, Stage
  <2> QED BY <2>8 DEF Turns!Turn
<1>4. CASE pc'[d] = "done"
  <2>1. Stage[d] # "over" /\ Stage' = [Stage EXCEPT ![d] = "over"]
    BY <1>1, <1>2, <1>4 DEF Stage, Live, Serial, Permitted
  <2> QED BY <2>1 DEF Turns!Turn, Stage
<1>5. CASE pc[d] \in Serial /\ pc'[d] \in Serial
  BY <1>1, <1>5 DEF Stage
<1>6. CASE pc[d] \notin Serial /\ pc'[d] \notin Serial \cup {"done"}
  BY <1>1, <1>2, <1>6 DEF Stage, Live, Permitted
<1>7. pc[d] \in Serial => pc'[d] \in Serial \cup {"done"}
  BY <1>0 DEF Step, Claim, Admit, Refuse, Report, Acquire, Load, Attach, Image, Ask, Permit,
         Model, Reply, Record, Return, Decide, Resume, Tell, Types, Goto, Conclude, Published,
         PublishFails, TakePermit, Serial
<1> QED BY <1>3, <1>4, <1>5, <1>6, <1>7

\* Every step is a step of the turns.
LEMMA NextMaps == LInv /\ [Next]_vars => [Turns!Next]_Stage
<1> SUFFICES ASSUME LInv, [Next]_vars PROVE Turns!Next \/ Stage' = Stage
  BY DEF Stage
<1>0. Types
  BY DEF LInv
<1>1. ASSUME NEW d \in Deliveries, Deliver(d) PROVE Stage' = Stage
  <2>1. pc' = [pc EXCEPT ![d] = "claim"] /\ pc[d] = "new"
    BY <1>1 DEF Deliver
  <2> QED BY <1>0, <2>1 DEF Stage, Types, Serial
<1>2. ASSUME NEW d \in Deliveries, Step(d) PROVE Turns!Next \/ Stage' = Stage
  BY <1>2, StepMaps DEF Turns!Next
<1>3. CASE Curate \/ Start \/ Cancel \/ Drain \/ Exit \/ Tick \/ UNCHANGED vars
  BY <1>3 DEF Curate, Start, Cancel, Drain, Exit, Tick, vars, Stage
<1>4. CASE Crash
  <2> DEFINE Ended == {d \in Deliveries : pc[d] \in Live}
  <2>1. pc' = [d \in Deliveries |-> IF pc[d] \in Live THEN "done" ELSE pc[d]]
    BY <1>4 DEF Crash
  <2>2. Stage' = [d \in Deliveries |-> IF d \in Ended THEN "over" ELSE Stage[d]]
    BY <2>1 DEF Stage, Live, Serial
  <2>3. Ended \in SUBSET Deliveries
    OBVIOUS
  <2>4. Turns!Stop
    BY <2>2, <2>3 DEF Turns!Stop, Stage
  <2> QED BY <2>4 DEF Turns!Next
<1> QED BY <1>1, <1>2, <1>3, <1>4 DEF Next

\* The bot's turns are those of SerialTurns: apart within a conversation and
\* bounded altogether, through crashes and restarts.
THEOREM BotImplementsSerialTurns == Spec => ImplementsSerialTurns
<1>1. Init => Turns!Init
  BY DEF Init, Turns!Init, Serial
<1> QED BY <1>1, NextMaps, LimitsHold, PTL
        DEF Spec, ImplementsSerialTurns, Turns!Spec, Stage
=============================================================================
