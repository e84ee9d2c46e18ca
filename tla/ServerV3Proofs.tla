--------------------------- MODULE ServerV3Proofs ---------------------------
(***************************************************************************)
(* Proofs about the components of the version 3 server (module MCServerV3) *)
(* for any requests, callers, sources, sessions, bounds and rules.         *)
(***************************************************************************)
EXTENDS MCServerV3, SlidingWindowProofs

(***************************************************************************)
(* The trust engine                                                        *)
(***************************************************************************)

\* What is known of an evaluation from where it is: nothing came of its call yet; or
\* it sends a verdict, and the rules have not overruled the model's; or it raised, as
\* one of an enrolment does only without the callback.
Settled(r) ==
    /\ pc[r] \in {"idle", "calling"} => outcome[r] = "none"
    /\ pc[r] = "sending" =>
          \/ by[r] = "model" /\ outcome[r] = "answered"
          \/ by[r] = "rules" /\ outcome[r] # "answered"

Begun == {r \in Requests : pc[r] # "idle"}
Asked == {r \in Requests : outcome[r] = "answered"}
Failed == {r \in Requests : outcome[r] \in {"refused", "failed"}}
OverruledOnes == {r \in Requests : Overruled(r)}

\* The counters, of finitely many evaluations.
Counted ==
    /\ IsFiniteSet(Begun)
    /\ \A r \in Requests : pc[r] = "idle" => outcome[r] = "none"
    /\ calls.ollama = Cardinality(Asked)
    /\ calls.fallback = Cardinality(Failed) + Cardinality(OverruledOnes)
    /\ calls.total = Cardinality(Begun)

EngineInv ==
    /\ TypeOK
    /\ \A r \in Requests : Settled(r)
    /\ EnrolmentsAreJudged
    /\ Counted

\* The breaker's operations give a breaker.
LEMMA BreakerOps ==
    ASSUME NEW b \in Breaker
    PROVE  Success(b) \in Breaker /\ Failure(b) \in Breaker
           /\ AfterAllow(b) \in Breaker /\ Elapse(b) \in Breaker
<1> USE BreakerAssumption DEF Breaker, CBState
<1>1. Success(b) \in Breaker /\ AfterAllow(b) \in Breaker
  BY DEF Success, AfterAllow
<1>2. Saturate(b.failures + 1, Threshold) \in 0..Threshold
  BY DEF Saturate
<1>3. Saturate(b.age + 1, Recovery + 1) \in 0..(Recovery + 1)
  BY DEF Saturate
<1> QED
  BY <1>1, <1>2, <1>3 DEF Failure, Elapse

\* One more evaluation in a set.
LEMMA OneMore ==
    ASSUME NEW S, IsFiniteSet(S), NEW r, r \notin S
    PROVE  /\ IsFiniteSet(S \cup {r}) /\ Cardinality(S \cup {r}) = Cardinality(S) + 1
           /\ Cardinality(S) \in Nat
BY FS_AddElement, FS_CardinalityType

\* No evaluation has begun, and nothing was counted.
LEMMA EngineInit == Init => EngineInv
<1> SUFFICES ASSUME Init
             PROVE  EngineInv
  OBVIOUS
<1>1. TypeOK
  <2>1. NewBreaker \in Breaker
    BY BreakerAssumption DEF NewBreaker, Breaker, CBState
  <2>2. Cardinality(Clients) \in Nat
    BY EngineAssumption, FS_CardinalityType
  <2> QED
    BY <2>1, <2>2 DEF Init, TypeOK, Under
<1>2. Begun = {} /\ Asked = {} /\ Failed = {} /\ OverruledOnes = {}
  BY DEF Init, Begun, Asked, Failed, OverruledOnes, Overruled
<1>3. Counted
  BY <1>2, FS_EmptySet DEF Counted, Init
<1> QED
  BY <1>1, <1>3 DEF EngineInv, Init, Settled, EnrolmentsAreJudged

\* The sizes are those of finite sets.
LEMMA CountsAreFinite ==
    ASSUME EngineInv
    PROVE  /\ IsFiniteSet(Begun) /\ IsFiniteSet(Asked) /\ IsFiniteSet(Failed)
           /\ IsFiniteSet(OverruledOnes)
           /\ Cardinality(Begun) \in Nat /\ Cardinality(Asked) \in Nat /\ Cardinality(Failed) \in Nat
           /\ Cardinality(OverruledOnes) \in Nat
<1>1. IsFiniteSet(Begun)
  BY DEF EngineInv, Counted
<1>2. Asked \subseteq Begun /\ Failed \subseteq Begun /\ OverruledOnes \subseteq Begun
  BY DEF EngineInv, Counted, Begun, Asked, Failed, OverruledOnes, Overruled
<1> QED
  BY <1>1, <1>2, FS_Subset, FS_CardinalityType

\* An evaluation begins: it is called, or the rules decide at once.
LEMMA BeginStep ==
    ASSUME EngineInv, NEW r \in Requests, Evaluate(r) \/ Refused(r)
    PROVE  EngineInv'
<1>1. /\ pc[r] = "idle" /\ outcome[r] = "none" /\ UNCHANGED <<listening, agents>>
      /\ pc \in [Requests -> Under \cup {"idle", "returned", "raised", "cancelled"}]
      /\ by \in [Requests -> {"nobody", "model", "rules"}]
      /\ size \in [Requests -> 0..Cardinality(Clients)]
      /\ outcome \in [Requests -> {"none", "refused", "failed", "answered"}]
      /\ calls \in [total : Nat, ollama : Nat, fallback : Nat]
  BY DEF Evaluate, Refused, MayBegin, EngineInv, TypeOK, Counted
<1>2. /\ Cardinality(agents) \in 0..Cardinality(Clients)
  BY EngineAssumption, FS_Subset, FS_CardinalityType DEF EngineInv, TypeOK
<1>3. cb' \in Breaker
  BY BreakerOps DEF Evaluate, Refused, EngineInv, TypeOK
<1>4. /\ pc' \in [Requests -> Under \cup {"idle", "returned", "raised", "cancelled"}]
      /\ by' \in [Requests -> {"nobody", "model", "rules"}]
      /\ size' \in [Requests -> 0..Cardinality(Clients)]
      /\ outcome' \in [Requests -> {"none", "refused", "failed", "answered"}]
      /\ pc'[r] # "idle"
      /\ \A q \in Requests \ {r} : pc'[q] = pc[q] /\ by'[q] = by[q] /\ outcome'[q] = outcome[q]
      /\ \/ pc'[r] = "calling" /\ outcome'[r] = "none"
            /\ calls' = [calls EXCEPT !.total = @ + 1]
         \/ /\ pc'[r] \in {"sending", "returned", "raised"} /\ outcome'[r] = "refused"
            /\ pc'[r] = "raised" => r \in Simulated
            /\ pc'[r] = "sending" => by'[r] = "rules"
            /\ calls' = [calls EXCEPT !.total = @ + 1, !.fallback = @ + 1]
  <2>1. CASE Evaluate(r)
    BY <1>1, <2>1 DEF Evaluate, Under
  <2>2. CASE Refused(r)
    BY <1>1, <1>2, <2>2 DEF Refused, FallBack, Broadcast, Under
  <2> QED
    BY <2>1, <2>2
<1>5. /\ calls' \in [total : Nat, ollama : Nat, fallback : Nat]
      /\ calls'.total = calls.total + 1 /\ calls'.ollama = calls.ollama
      /\ \/ outcome'[r] = "none" /\ calls'.fallback = calls.fallback
         \/ outcome'[r] = "refused" /\ calls'.fallback = calls.fallback + 1
  <2>1. calls.total + 1 \in Nat /\ calls.fallback + 1 \in Nat
    BY <1>1
  <2>2. CASE outcome'[r] = "none" /\ calls' = [calls EXCEPT !.total = @ + 1]
    BY <1>1, <2>1, <2>2
  <2>3. CASE outcome'[r] = "refused" /\ calls' = [calls EXCEPT !.total = @ + 1, !.fallback = @ + 1]
    BY <1>1, <2>1, <2>3
  <2> QED
    BY <1>4, <2>2, <2>3
<1>6. TypeOK'
  BY <1>1, <1>3, <1>4, <1>5 DEF EngineInv, TypeOK
<1>7. \A q \in Requests : Settled(q)'
  BY <1>1, <1>4 DEF EngineInv, Settled
<1>8. EnrolmentsAreJudged'
  BY <1>1, <1>4 DEF EngineInv, EnrolmentsAreJudged
<1>9. Counted'
  <2>1. Begun' = Begun \cup {r} /\ r \notin Begun
    BY <1>1, <1>4 DEF Begun
  <2>2. Asked' = Asked
    BY <1>1, <1>4 DEF Asked
  <2>3. OverruledOnes' = OverruledOnes
    BY <1>1, <1>4 DEF OverruledOnes, Overruled
  <2>4. \/ Failed' = Failed /\ calls'.fallback = calls.fallback
        \/ Failed' = Failed \cup {r} /\ r \notin Failed /\ calls'.fallback = calls.fallback + 1
    BY <1>1, <1>4, <1>5 DEF Failed
  <2>5. calls'.total = calls.total + 1 /\ calls'.ollama = calls.ollama
    BY <1>5
  <2>6. IsFiniteSet(Begun') /\ Cardinality(Begun') = Cardinality(Begun) + 1
    BY <2>1, CountsAreFinite, OneMore
  <2>7. calls'.fallback = Cardinality(Failed') + Cardinality(OverruledOnes')
    <3>1. calls.fallback = Cardinality(Failed) + Cardinality(OverruledOnes)
      BY DEF EngineInv, Counted
    <3>2. Cardinality(Failed \cup {r}) = Cardinality(Failed) + 1 \/ Failed' = Failed
      BY <2>4, CountsAreFinite, OneMore
    <3> QED
      BY <2>3, <2>4, <3>1, <3>2, CountsAreFinite
  <2>8. \A q \in Requests : pc'[q] = "idle" => outcome'[q] = "none"
    BY <1>4 DEF EngineInv, Counted
  <2> QED
    BY <2>2, <2>5, <2>6, <2>7, <2>8 DEF EngineInv, Counted
<1> QED
  BY <1>6, <1>7, <1>8, <1>9 DEF EngineInv

\* A call of Ollama ends, with a verdict or without.
LEMMA CallStep ==
    ASSUME EngineInv, NEW r \in Requests, CallEnds(r)
    PROVE  EngineInv'
<1>1. /\ pc[r] = "calling" /\ outcome[r] = "none" /\ UNCHANGED <<listening, agents>>
      /\ pc \in [Requests -> Under \cup {"idle", "returned", "raised", "cancelled"}]
      /\ by \in [Requests -> {"nobody", "model", "rules"}]
      /\ size \in [Requests -> 0..Cardinality(Clients)]
      /\ outcome \in [Requests -> {"none", "refused", "failed", "answered"}]
      /\ calls \in [total : Nat, ollama : Nat, fallback : Nat]
  BY DEF CallEnds, Answered, CallFails, EngineInv, TypeOK, Settled
<1>2. Cardinality(agents) \in 0..Cardinality(Clients)
  BY EngineAssumption, FS_Subset, FS_CardinalityType DEF EngineInv, TypeOK
<1>3. cb' \in Breaker
  BY BreakerOps DEF CallEnds, Answered, CallFails, EngineInv, TypeOK
<1>4. /\ pc' \in [Requests -> Under \cup {"idle", "returned", "raised", "cancelled"}]
      /\ by' \in [Requests -> {"nobody", "model", "rules"}]
      /\ size' \in [Requests -> 0..Cardinality(Clients)]
      /\ outcome' \in [Requests -> {"none", "refused", "failed", "answered"}]
      /\ \A q \in Requests \ {r} : pc'[q] = pc[q] /\ by'[q] = by[q] /\ outcome'[q] = outcome[q]
      /\ pc'[r] \in {"sending", "returned", "raised"}
      /\ \/ /\ outcome'[r] = "answered" /\ by'[r] = "model" /\ pc'[r] # "raised"
            /\ calls' = [calls EXCEPT !.ollama = @ + 1]
         \/ /\ outcome'[r] = "failed"
            /\ pc'[r] = "raised" => r \in Simulated
            /\ pc'[r] = "sending" => by'[r] = "rules"
            /\ calls' = [calls EXCEPT !.fallback = @ + 1]
  <2>1. CASE Answered(r)
    BY <1>1, <1>2, <2>1 DEF Answered, Broadcast, Under
  <2>2. CASE CallFails(r)
    BY <1>1, <1>2, <2>2 DEF CallFails, FallBack, Broadcast, Under
  <2> QED
    BY <2>1, <2>2 DEF CallEnds
<1>5. /\ calls' \in [total : Nat, ollama : Nat, fallback : Nat]
      /\ calls'.total = calls.total
      /\ \/ outcome'[r] = "answered" /\ calls'.ollama = calls.ollama + 1 /\ calls'.fallback = calls.fallback
         \/ outcome'[r] = "failed" /\ calls'.ollama = calls.ollama /\ calls'.fallback = calls.fallback + 1
  <2>1. calls.ollama + 1 \in Nat /\ calls.fallback + 1 \in Nat
    BY <1>1
  <2>2. CASE outcome'[r] = "answered" /\ calls' = [calls EXCEPT !.ollama = @ + 1]
    BY <1>1, <2>1, <2>2
  <2>3. CASE outcome'[r] = "failed" /\ calls' = [calls EXCEPT !.fallback = @ + 1]
    BY <1>1, <2>1, <2>3
  <2> QED
    BY <1>4, <2>2, <2>3
<1>6. TypeOK'
  BY <1>1, <1>3, <1>4, <1>5 DEF EngineInv, TypeOK
<1>7. \A q \in Requests : Settled(q)'
  BY <1>1, <1>4 DEF EngineInv, Settled
<1>8. EnrolmentsAreJudged'
  BY <1>1, <1>4 DEF EngineInv, EnrolmentsAreJudged
<1>9. Counted'
  <2>1. Begun' = Begun
    BY <1>1, <1>4 DEF Begun
  <2>2. OverruledOnes' = OverruledOnes
    BY <1>1, <1>4 DEF OverruledOnes, Overruled
  <2>3. \/ /\ Asked' = Asked \cup {r} /\ r \notin Asked /\ calls'.ollama = calls.ollama + 1
           /\ Failed' = Failed /\ calls'.fallback = calls.fallback
        \/ /\ Asked' = Asked /\ calls'.ollama = calls.ollama
           /\ Failed' = Failed \cup {r} /\ r \notin Failed /\ calls'.fallback = calls.fallback + 1
    BY <1>1, <1>4, <1>5 DEF Asked, Failed
  <2>4. /\ calls.fallback = Cardinality(Failed) + Cardinality(OverruledOnes)
        /\ calls.ollama = Cardinality(Asked)
    BY DEF EngineInv, Counted
  <2>5. /\ Failed' # Failed => Cardinality(Failed \cup {r}) = Cardinality(Failed) + 1
        /\ Asked' # Asked => Cardinality(Asked \cup {r}) = Cardinality(Asked) + 1
    BY <2>3, CountsAreFinite, OneMore
  <2>6. /\ calls'.fallback = Cardinality(Failed') + Cardinality(OverruledOnes')
        /\ calls'.ollama = Cardinality(Asked')
    <3>1. CASE Asked' = Asked \cup {r} /\ r \notin Asked
      BY <2>2, <2>3, <2>4, <2>5, <3>1, CountsAreFinite
    <3>2. CASE Failed' = Failed \cup {r} /\ r \notin Failed
      BY <2>2, <2>3, <2>4, <2>5, <3>2, CountsAreFinite
    <3> QED
      BY <2>3, <3>1, <3>2
  <2>7. \A q \in Requests : pc'[q] = "idle" => outcome'[q] = "none"
    BY <1>4 DEF EngineInv, Counted
  <2> QED
    BY <1>5, <2>1, <2>6, <2>7 DEF EngineInv, Counted
<1> QED
  BY <1>6, <1>7, <1>8, <1>9 DEF EngineInv

\* Whoever ends without a call of Ollama, or its verdict, being anything else than it
\* was: nothing is counted, and only one that raises needs a reason.
LEMMA QuietStep ==
    ASSUME EngineInv, NEW r \in Requests, pc[r] # "idle",
           UNCHANGED <<calls, outcome, size>>, cb' = cb, agents' \in SUBSET Clients,
           listening' \in BOOLEAN, listening' => listening,
           NEW end \in {"returned", "raised", "cancelled"}, pc' = [pc EXCEPT ![r] = end],
           NEW author \in {by[r], "nobody"}, by' = [by EXCEPT ![r] = author],
           author # by[r] => outcome[r] # "answered",
           end = "raised" => ~listening /\ outcome[r] # "answered"
    PROVE  EngineInv'
<1>1. /\ pc \in [Requests -> Under \cup {"idle", "returned", "raised", "cancelled"}]
      /\ by \in [Requests -> {"nobody", "model", "rules"}]
  BY DEF EngineInv, TypeOK
<1>2. TypeOK'
  BY <1>1 DEF EngineInv, TypeOK
<1>3. \A q \in Requests : Settled(q)'
  BY <1>1 DEF EngineInv, Settled
<1>4. EnrolmentsAreJudged'
  <2> SUFFICES ASSUME NEW q \in Requests \ Simulated, pc'[q] = "raised"
               PROVE  ~listening' /\ outcome'[q] # "answered"
    BY DEF EnrolmentsAreJudged
  <2>1. ~listening /\ outcome[q] # "answered"
    BY <1>1 DEF EngineInv, EnrolmentsAreJudged
  <2>2. ~listening'
    BY <2>1, Zenon
  <2> QED
    BY <2>1, <2>2
<1>5. Begun' = Begun /\ Asked' = Asked /\ Failed' = Failed
  BY <1>1 DEF Begun, Asked, Failed
<1>6. OverruledOnes' = OverruledOnes
  BY <1>1 DEF OverruledOnes, Overruled
<1>7. \A q \in Requests : pc'[q] = "idle" => outcome'[q] = "none"
  BY <1>1 DEF EngineInv, Counted
<1> QED
  BY <1>2, <1>3, <1>4, <1>5, <1>6, <1>7 DEF EngineInv, Counted

\* The second of two interrupted broadcasts of the model's verdict: the rules overrule it.
LEMMA OverruledStep ==
    ASSUME EngineInv, NEW r \in Requests, pc[r] = "sending", by[r] = "model", ~listening,
           cb' = Failure(cb), calls' = [calls EXCEPT !.fallback = @ + 1], FallBack(r),
           UNCHANGED <<listening, agents, outcome>>
    PROVE  EngineInv'
<1>1. /\ outcome[r] = "answered"
      /\ pc \in [Requests -> Under \cup {"idle", "returned", "raised", "cancelled"}]
      /\ by \in [Requests -> {"nobody", "model", "rules"}]
      /\ size \in [Requests -> 0..Cardinality(Clients)]
      /\ outcome \in [Requests -> {"none", "refused", "failed", "answered"}]
      /\ calls \in [total : Nat, ollama : Nat, fallback : Nat]
  BY DEF EngineInv, TypeOK, Settled
<1>2. Cardinality(agents) \in 0..Cardinality(Clients)
  BY EngineAssumption, FS_Subset, FS_CardinalityType DEF EngineInv, TypeOK
<1>3. cb' \in Breaker
  BY BreakerOps DEF EngineInv, TypeOK
<1>4. /\ pc' \in [Requests -> Under \cup {"idle", "returned", "raised", "cancelled"}]
      /\ by' \in [Requests -> {"nobody", "model", "rules"}]
      /\ size' \in [Requests -> 0..Cardinality(Clients)]
      /\ \A q \in Requests \ {r} : pc'[q] = pc[q] /\ by'[q] = by[q]
      /\ pc'[r] \in {"returned", "raised"} /\ by'[r] # "model"
      /\ pc'[r] = "raised" => r \in Simulated
  BY <1>1, <1>2 DEF FallBack, Broadcast, Under
<1>5. /\ calls' \in [total : Nat, ollama : Nat, fallback : Nat]
      /\ calls'.total = calls.total /\ calls'.ollama = calls.ollama
      /\ calls'.fallback = calls.fallback + 1
  <2>1. calls.fallback + 1 \in Nat
    BY <1>1
  <2> QED
    BY <1>1, <2>1
<1>6. TypeOK'
  BY <1>1, <1>3, <1>4, <1>5 DEF EngineInv, TypeOK
<1>7. \A q \in Requests : Settled(q)'
  BY <1>1, <1>4 DEF EngineInv, Settled
<1>8. EnrolmentsAreJudged'
  BY <1>1, <1>4 DEF EngineInv, EnrolmentsAreJudged
<1>9. Counted'
  <2>1. Begun' = Begun /\ Asked' = Asked /\ Failed' = Failed
    BY <1>1, <1>4 DEF Begun, Asked, Failed
  <2>2. OverruledOnes' = OverruledOnes \cup {r} /\ r \notin OverruledOnes
    BY <1>1, <1>4 DEF OverruledOnes, Overruled
  <2>3. Cardinality(OverruledOnes') = Cardinality(OverruledOnes) + 1
    BY <2>2, CountsAreFinite, OneMore
  <2>4. calls'.fallback = Cardinality(Failed') + Cardinality(OverruledOnes')
    <3>1. calls.fallback = Cardinality(Failed) + Cardinality(OverruledOnes)
      BY DEF EngineInv, Counted
    <3> QED
      BY <1>5, <2>1, <2>3, <3>1, CountsAreFinite
  <2>5. \A q \in Requests : pc'[q] = "idle" => outcome'[q] = "none"
    BY <1>1, <1>4 DEF EngineInv, Counted
  <2> QED
    BY <1>5, <2>1, <2>4, <2>5 DEF EngineInv, Counted
<1> QED
  BY <1>6, <1>7, <1>8, <1>9 DEF EngineInv

\* Every step of an evaluation keeps the invariant of the counters.
LEMMA EngineStep == EngineInv /\ [Next]_vars => EngineInv'
<1> SUFFICES ASSUME EngineInv, Next \/ UNCHANGED vars
             PROVE  EngineInv'
  OBVIOUS
<1>1. /\ listening \in BOOLEAN /\ agents \in SUBSET Clients
      /\ by \in [Requests -> {"nobody", "model", "rules"}]
  BY DEF EngineInv, TypeOK
<1>2. ASSUME NEW r \in Requests, Delivered(r)
      PROVE  EngineInv'
  <2>1. /\ pc[r] # "idle" /\ UNCHANGED <<calls, outcome, size>> /\ cb' = cb
        /\ pc' = [pc EXCEPT ![r] = "returned"] /\ by' = [by EXCEPT ![r] = by[r]]
        /\ agents' \in SUBSET Clients /\ listening' = listening
    BY <1>1, <1>2 DEF Delivered
  <2>2. listening' \in BOOLEAN /\ (listening' => listening)
    BY <1>1, <2>1, Zenon
  <2> QED
    BY <2>1, <2>2, QuietStep
<1>3. ASSUME NEW r \in Requests, Interrupted(r)
      PROVE  EngineInv'
  <2>1. /\ pc[r] # "idle" /\ UNCHANGED <<calls, outcome, size>> /\ cb' = cb
        /\ pc' = [pc EXCEPT ![r] = "returned"] /\ by' = [by EXCEPT ![r] = by[r]]
        /\ agents' \in SUBSET Clients /\ listening' = FALSE
    BY <1>1, <1>3 DEF Interrupted
  <2>2. listening' \in BOOLEAN /\ (listening' => listening)
    BY <2>1, Zenon
  <2> QED
    BY <2>1, <2>2, QuietStep
<1>4. ASSUME NEW r \in Requests, InterruptedAgain(r)
      PROVE  EngineInv'
  <2>1. /\ pc[r] = "sending" /\ ~listening /\ UNCHANGED <<listening, agents, outcome>>
        /\ \/ /\ by[r] = "model" /\ cb' = Failure(cb)
              /\ calls' = [calls EXCEPT !.fallback = @ + 1] /\ FallBack(r)
           \/ /\ by[r] = "rules"
              /\ pc' = [pc EXCEPT ![r] = "raised"] /\ by' = [by EXCEPT ![r] = "nobody"]
              /\ UNCHANGED <<cb, calls, size>>
    BY <1>4 DEF InterruptedAgain
  <2>2. by[r] = "rules" => outcome[r] # "answered"
    BY <2>1 DEF EngineInv, Settled
  <2>3. listening' \in BOOLEAN /\ (listening' => listening)
    BY <1>1, <2>1, Zenon
  <2>4. CASE by[r] = "rules"
    BY <1>1, <2>1, <2>2, <2>3, <2>4, QuietStep
  <2> QED
    BY <2>1, <2>4, OverruledStep
<1>5. ASSUME NEW r \in Requests, Cancel(r)
      PROVE  EngineInv'
  <2>1. /\ pc[r] # "idle" /\ UNCHANGED <<calls, outcome, size>> /\ cb' = cb
        /\ pc' = [pc EXCEPT ![r] = "cancelled"] /\ by' = [by EXCEPT ![r] = by[r]]
        /\ agents' \in SUBSET Clients /\ listening' = listening
    BY <1>1, <1>5 DEF Cancel, Under
  <2>2. listening' \in BOOLEAN /\ (listening' => listening)
    BY <1>1, <2>1, Zenon
  <2> QED
    BY <2>1, <2>2, QuietStep
<1>6. ASSUME cb' \in Breaker, agents' \in SUBSET Clients,
             UNCHANGED <<listening, calls, pc, by, size, outcome>>
      PROVE  EngineInv'
  BY <1>6 DEF EngineInv, TypeOK, Settled, EnrolmentsAreJudged, Counted, Begun, Asked, Failed,
              OverruledOnes, Overruled
<1>7. ASSUME NEW c \in Clients, Join(c) \/ Leave(c)
      PROVE  EngineInv'
  BY <1>1, <1>6, <1>7 DEF Join, Leave, EngineInv, TypeOK
<1>8. CASE Tick \/ UNCHANGED vars
  BY <1>1, <1>6, <1>8, BreakerOps DEF Tick, vars, EngineInv, TypeOK
<1> QED
  BY <1>2, <1>3, <1>4, <1>5, <1>7, <1>8, BeginStep, CallStep DEF Next, BroadcastEnds

\* The engine rests while another component is at work, and keeps its invariant.
LEMMA EngineAlways == ServerSpec => []EngineInv
<1>1. ServerInit => EngineInv
  BY EngineInit DEF ServerInit
<1>2. EngineInv /\ [ServerNext]_serverVars => EngineInv'
  BY EngineStep DEF ServerNext, serverVars, Rest
<1> QED
  BY <1>1, <1>2, PTL DEF ServerSpec

\* The evaluation of an enrolment raises only once the callback is lost, and never
\* when the model has answered.
THEOREM JudgedSafe == ServerSpec => []EnrolmentsAreJudged
<1>1. EngineInv => EnrolmentsAreJudged
  BY DEF EngineInv
<1> QED
  BY <1>1, EngineAlways, PTL

\* Every evaluation counts once, except that one whose verdict of the model the rules
\* overruled counts as both.
THEOREM CountsSafe == ServerSpec => []OnlyOverruledCountTwice
<1>1. EngineInv => OnlyOverruledCountTwice
  BY DEF EngineInv, Counted, OnlyOverruledCountTwice, Begun, Asked, Failed, OverruledOnes
<1> QED
  BY <1>1, EngineAlways, PTL

(***************************************************************************)
(* The statistics                                                          *)
(***************************************************************************)

Change == [at : Nat, drops : Nat]

\* The drops in the first i changes, for every i.
SumsOf(list) ==
    CHOOSE f : f = [i \in 0..Len(list) |-> IF i = 0 THEN 0 ELSE f[i - 1] + list[i].drops]

\* There is such a function ...
LEMMA SumsExist ==
    ASSUME NEW list \in Seq(Change)
    PROVE  /\ SumsOf(list) = [i \in 0..Len(list) |->
                                IF i = 0 THEN 0 ELSE SumsOf(list)[i - 1] + list[i].drops]
           /\ \A i \in 0..Len(list) : SumsOf(list)[i] \in Nat
<1> DEFINE Upto(n, f) == f = [i \in 0..n |-> IF i = 0 THEN 0 ELSE f[i - 1] + list[i].drops]
           T == {n \in Nat : n <= Len(list) => \E f : Upto(n, f)}
<1>1. 0 \in T
  <2>1. Upto(0, [i \in 0..0 |-> 0])
    OBVIOUS
  <2> QED
    BY <2>1
<1>2. ASSUME NEW n \in T
      PROVE  n + 1 \in T
  <2> SUFFICES ASSUME n + 1 <= Len(list)
               PROVE  \E f : Upto(n + 1, f)
    BY <1>2
  <2>1. PICK f : Upto(n, f)
    <3>1. n \in Nat /\ (n <= Len(list) => \E f : Upto(n, f))
      BY <1>2, Zenon
    <3>2. n <= Len(list)
      BY <3>1
    <3> QED
      BY <3>1, <3>2, Zenon
  <2> DEFINE g == [i \in 0..(n + 1) |-> IF i = n + 1 THEN f[n] + list[n + 1].drops ELSE f[i]]
  <2>2. n \in Nat
    BY <1>2
  <2>3. \A i \in 0..n : f[i] = IF i = 0 THEN 0 ELSE f[i - 1] + list[i].drops
    BY <2>1
  <2>4. \A i \in 0..(n + 1) : g[i] = IF i = 0 THEN 0 ELSE g[i - 1] + list[i].drops
    <3> SUFFICES ASSUME NEW i \in 0..(n + 1)
                 PROVE  g[i] = IF i = 0 THEN 0 ELSE g[i - 1] + list[i].drops
      OBVIOUS
    <3>1. CASE i = n + 1
      <4>1. i # 0 /\ i - 1 = n /\ n \in 0..(n + 1) /\ n # n + 1
        BY <2>2, <3>1
      <4>2. g[i] = f[n] + list[n + 1].drops /\ g[n] = f[n]
        BY <3>1, <4>1
      <4> QED
        BY <3>1, <4>1, <4>2
    <3>2. CASE i # n + 1
      <4>1. i \in 0..n /\ g[i] = f[i]
        BY <2>2, <3>2
      <4>2. i # 0 => i - 1 \in 0..(n + 1) /\ i - 1 # n + 1
        BY <2>2, <3>2
      <4>3. i # 0 => g[i - 1] = f[i - 1]
        BY <4>2
      <4> HIDE DEF g
      <4> QED
        BY <2>3, <4>1, <4>3
    <3> QED
      BY <3>1, <3>2
  <2>5. Upto(n + 1, g)
    BY <2>4
  <2> QED
    BY <2>5
<1>3. T = Nat
  <2>1. T \in SUBSET Nat
    OBVIOUS
  <2> HIDE DEF T
  <2> QED
    BY <1>1, <1>2, <2>1, Induction
<1>4. Len(list) \in Nat
  OBVIOUS
<1>5. \E f : Upto(Len(list), f)
  BY <1>3, <1>4
<1>6. Upto(Len(list), SumsOf(list))
  BY <1>5 DEF SumsOf
<1> DEFINE N == {n \in Nat : n <= Len(list) => SumsOf(list)[n] \in Nat}
<1>7. \A i \in 0..Len(list) : SumsOf(list)[i] = IF i = 0 THEN 0 ELSE SumsOf(list)[i - 1] + list[i].drops
  BY <1>6
<1>8. 0 \in N
  BY <1>4, <1>7
<1>9. ASSUME NEW n \in N
      PROVE  n + 1 \in N
  <2> SUFFICES ASSUME n + 1 <= Len(list)
               PROVE  SumsOf(list)[n + 1] \in Nat
    BY <1>9
  <2>1. n \in Nat /\ SumsOf(list)[n] \in Nat /\ n + 1 \in 0..Len(list) /\ n + 1 # 0 /\ (n + 1) - 1 = n
    BY <1>4, <1>9
  <2>2. list[n + 1] \in Change
    BY <1>4, <2>1
  <2>3. SumsOf(list)[n + 1] = SumsOf(list)[n] + list[n + 1].drops
    BY <1>7, <2>1
  <2> QED
    BY <2>1, <2>2, <2>3 DEF Change
<1>10. N = Nat
  <2>1. N \in SUBSET Nat
    OBVIOUS
  <2> HIDE DEF N
  <2> QED
    BY <1>8, <1>9, <2>1, Induction
<1>11. \A i \in 0..Len(list) : SumsOf(list)[i] \in Nat
  BY <1>4, <1>10
<1> QED
  BY <1>6, <1>11, Zenon

\* ... and a change more adds its drops to the last and leaves the others.
LEMMA SumsGrow ==
    ASSUME NEW list \in Seq(Change), NEW c \in Change
    PROVE  /\ \A i \in 0..Len(list) : SumsOf(Append(list, c))[i] = SumsOf(list)[i]
           /\ SumsOf(Append(list, c))[Len(list) + 1] = SumsOf(list)[Len(list)] + c.drops
<1> DEFINE longer == Append(list, c)
           T == {n \in Nat : n <= Len(list) => SumsOf(longer)[n] = SumsOf(list)[n]}
<1>1. /\ longer \in Seq(Change) /\ Len(list) \in Nat /\ Len(longer) = Len(list) + 1
      /\ \A i \in 1..Len(list) : longer[i] = list[i]
      /\ longer[Len(list) + 1] = c
  BY AppendProperties
<1> HIDE DEF longer
<1>2. \A i \in 0..Len(list) : SumsOf(list)[i] = IF i = 0 THEN 0 ELSE SumsOf(list)[i - 1] + list[i].drops
  BY SumsExist
<1>3. \A i \in 0..(Len(list) + 1) :
         SumsOf(longer)[i] = IF i = 0 THEN 0 ELSE SumsOf(longer)[i - 1] + longer[i].drops
  BY <1>1, SumsExist
<1>4. 0 \in T
  BY <1>1, <1>2, <1>3
<1>5. ASSUME NEW n \in T
      PROVE  n + 1 \in T
  <2> SUFFICES ASSUME n + 1 <= Len(list)
               PROVE  SumsOf(longer)[n + 1] = SumsOf(list)[n + 1]
    BY <1>5
  <2>1. n \in Nat /\ SumsOf(longer)[n] = SumsOf(list)[n]
    BY <1>1, <1>5
  <2>2. /\ n + 1 \in 0..Len(list) /\ n + 1 \in 0..(Len(list) + 1) /\ n + 1 # 0 /\ (n + 1) - 1 = n
        /\ n + 1 \in 1..Len(list)
    BY <1>1, <2>1
  <2>3. SumsOf(list)[n + 1] = SumsOf(list)[n] + list[n + 1].drops
    BY <1>2, <2>2
  <2>4. SumsOf(longer)[n + 1] = SumsOf(longer)[n] + longer[n + 1].drops
    BY <1>3, <2>2
  <2> QED
    BY <1>1, <2>1, <2>2, <2>3, <2>4
<1>6. T = Nat
  <2>1. T \in SUBSET Nat
    OBVIOUS
  <2> HIDE DEF T
  <2> QED
    BY <1>4, <1>5, <2>1, Induction
<1>7. \A i \in 0..Len(list) : SumsOf(longer)[i] = SumsOf(list)[i]
  BY <1>1, <1>6
<1>8. SumsOf(longer)[Len(list) + 1] = SumsOf(longer)[Len(list)] + c.drops
  <2>1. Len(list) + 1 \in 0..(Len(list) + 1) /\ Len(list) + 1 # 0 /\ (Len(list) + 1) - 1 = Len(list)
    BY <1>1
  <2> QED
    BY <1>1, <1>3, <2>1
<1>9. Len(list) \in 0..Len(list)
  BY <1>1
<1> QED
  BY <1>7, <1>8, <1>9 DEF longer

\* The drops are those of all the changes, and the cache's those of the ones it has
\* seen; whatever it has not seen is not older than it is.
StatsInv ==
    /\ clock \in 0..StatsTicks
    /\ changes \in Seq([at : 0..StatsTicks, drops : Counts \cup {0}])
    /\ cache \in [at : Int, seen : Nat, drops : Nat]
    /\ cache.at <= clock /\ cache.seen <= Len(changes)
    /\ \A i \in DOMAIN changes : i > cache.seen => changes[i].at >= cache.at
    /\ drops = SumsOf(changes)[Len(changes)]
    /\ cache.drops = SumsOf(changes)[cache.seen]

\* A list of changes is one of pairs of numbers.
LEMMA ChangesAre ==
    ASSUME NEW list \in Seq([at : 0..StatsTicks, drops : Counts \cup {0}])
    PROVE  list \in Seq(Change) /\ Len(list) \in Nat
<1>1. [at : 0..StatsTicks, drops : Counts \cup {0}] \subseteq Change
  BY StatsAssumption DEF Change
<1>2. list \in Seq(Change)
  BY <1>1, SeqMonotonic
<1> QED
  BY <1>2

\* Nothing is cached, and the sums are zero.
LEMMA StatsInit == Stats!Init => StatsInv
<1> SUFFICES ASSUME Stats!Init
             PROVE  StatsInv
  OBVIOUS
<1>1. PICK e \in Seq([at : 0..StatsTicks, drops : Counts \cup {0}]) : e = << >> /\ Len(e) = 0
  BY EmptySeq
<1>2. clock = 0 /\ drops = 0 /\ changes = e /\ cache = [at |-> -Lifetime, seen |-> 0, drops |-> 0]
  BY <1>1 DEF Stats!Init
<1>3. SumsOf(e)[0] = 0
  <2>1. \A i \in 0..Len(e) : SumsOf(e)[i] = IF i = 0 THEN 0 ELSE SumsOf(e)[i - 1] + e[i].drops
    BY ChangesAre, SumsExist
  <2> QED
    BY <1>1, <2>1
<1>4. cache \in [at : Int, seen : Nat, drops : Nat] /\ cache.at <= clock
  BY <1>2, StatsAssumption
<1>5. DOMAIN changes = {}
  BY <1>1, <1>2
<1> QED
  BY <1>1, <1>2, <1>3, <1>4, <1>5, StatsAssumption DEF StatsInv

\* Statistics, verdicts, drops and the clock keep the invariant of the cache.
LEMMA StatsStep ==
    ASSUME StatsInv, Stats!Next \/ UNCHANGED statsVars
    PROVE  StatsInv'
<1>1. /\ clock \in 0..StatsTicks /\ clock \in Nat
      /\ changes \in Seq([at : 0..StatsTicks, drops : Counts \cup {0}])
      /\ cache \in [at : Int, seen : Nat, drops : Nat]
      /\ changes \in Seq(Change) /\ Len(changes) \in Nat
  <2>1. /\ clock \in 0..StatsTicks
        /\ changes \in Seq([at : 0..StatsTicks, drops : Counts \cup {0}])
        /\ cache \in [at : Int, seen : Nat, drops : Nat]
    BY DEF StatsInv
  <2>2. changes \in Seq(Change) /\ Len(changes) \in Nat
    BY <2>1, ChangesAre
  <2> QED
    BY <2>1, <2>2, StatsAssumption
<1>2. CASE UNCHANGED statsVars
  BY <1>2 DEF StatsInv, statsVars
<1>3. ASSUME NEW n \in Counts \cup {0}, Stats!Change(n)
      PROVE  StatsInv'
  <2> DEFINE c == [at |-> clock, drops |-> n]
  <2>1. /\ changes' = Append(changes, c) /\ drops' = drops + n /\ UNCHANGED <<clock, cache>>
    BY <1>3 DEF Stats!Change
  <2>2. /\ c \in [at : 0..StatsTicks, drops : Counts \cup {0}] /\ c \in Change
        /\ c.at = clock /\ c.drops = n
    BY <1>1, StatsAssumption DEF Change
  <2> HIDE DEF c
  <2>3. /\ changes' \in Seq([at : 0..StatsTicks, drops : Counts \cup {0}])
        /\ Len(changes') = Len(changes) + 1
        /\ \A i \in 1..Len(changes) : changes'[i] = changes[i]
        /\ changes'[Len(changes) + 1] = c
        /\ DOMAIN changes' = 1..(Len(changes) + 1)
        /\ DOMAIN changes = 1..Len(changes)
    BY <1>1, <2>1, <2>2, AppendProperties
  <2>4. /\ \A i \in 0..Len(changes) : SumsOf(changes')[i] = SumsOf(changes)[i]
        /\ SumsOf(changes')[Len(changes) + 1] = SumsOf(changes)[Len(changes)] + n
    BY <1>1, <2>1, <2>2, SumsGrow
  <2>5. cache.seen \in 0..Len(changes)
    BY <1>1 DEF StatsInv
  <2>6. cache'.drops = SumsOf(changes')[cache'.seen] /\ drops' = SumsOf(changes')[Len(changes')]
    BY <2>1, <2>3, <2>4, <2>5 DEF StatsInv
  <2>7. \A i \in DOMAIN changes' : i > cache'.seen => changes'[i].at >= cache'.at
    <3> SUFFICES ASSUME NEW i \in DOMAIN changes', i > cache.seen
                 PROVE  changes'[i].at >= cache.at
      BY <2>1
    <3>1. CASE i = Len(changes) + 1
      BY <2>2, <2>3, <3>1 DEF StatsInv
    <3>2. CASE i # Len(changes) + 1
      <4>1. i \in DOMAIN changes /\ changes'[i] = changes[i]
        BY <1>1, <2>3, <3>2
      <4> QED
        BY <4>1 DEF StatsInv
    <3> QED
      BY <3>1, <3>2
  <2>8. cache'.seen <= Len(changes')
    BY <1>1, <2>1, <2>3, <2>5
  <2> QED
    BY <2>1, <2>3, <2>6, <2>7, <2>8 DEF StatsInv
<1>4. CASE Stats!GetStats
  <2>1. /\ cache' = [at |-> clock, seen |-> Len(changes), drops |-> drops]
        /\ UNCHANGED <<clock, drops, changes>>
    BY <1>4 DEF Stats!GetStats
  <2>2. drops \in Nat
    <3>1. SumsOf(changes)[Len(changes)] \in Nat
      BY <1>1, SumsExist
    <3> QED
      BY <3>1 DEF StatsInv
  <2>3. /\ cache' \in [at : Int, seen : Nat, drops : Nat]
        /\ cache'.at = clock /\ cache'.seen = Len(changes) /\ cache'.drops = drops
    BY <1>1, <2>1, <2>2
  <2>4. \A i \in DOMAIN changes' : ~(i > cache'.seen)
    BY <1>1, <2>1, <2>3
  <2> QED
    BY <1>1, <2>1, <2>3, <2>4 DEF StatsInv
<1>5. CASE Stats!Tick
  <2>1. clock < StatsTicks /\ clock' = clock + 1 /\ UNCHANGED <<drops, cache, changes>>
    BY <1>5 DEF Stats!Tick
  <2>2. clock' \in 0..StatsTicks /\ cache'.at <= clock'
    BY <1>1, <2>1, StatsAssumption DEF StatsInv
  <2> QED
    BY <2>1, <2>2 DEF StatsInv
<1> QED
  BY <1>2, <1>3, <1>4, <1>5 DEF Stats!Next, Stats!Stored, Stats!XdpDrop

\* The statistics rest while another component is at work, and keep their invariant.
LEMMA StatsAlways == ServerSpec => []StatsInv
<1>1. ServerInit => StatsInv
  BY StatsInit DEF ServerInit
<1>2. StatsInv /\ [ServerNext]_serverVars => StatsInv'
  BY StatsStep DEF ServerNext, serverVars, Rest
<1> QED
  BY <1>1, <1>2, PTL DEF ServerSpec

\* What may be returned from the cache lacks no change that is older than the cache's
\* lifetime, and counts exactly the drops of the changes it has seen.
THEOREM StatsSafe == ServerSpec => []StatsAreFresh
<1>1. StatsInv => StatsAreFresh
  <2> SUFFICES ASSUME StatsInv
               PROVE  StatsAreFresh
    OBVIOUS
  <2>1. cache.drops = SumsOf(changes)[cache.seen]
    BY DEF StatsInv
  <2>2. clock - cache.at < Lifetime =>
           \A i \in DOMAIN changes : changes[i].at <= clock - Lifetime => i <= cache.seen
    <3> SUFFICES ASSUME clock - cache.at < Lifetime,
                        NEW i \in DOMAIN changes, changes[i].at <= clock - Lifetime
                 PROVE  i <= cache.seen
      OBVIOUS
    <3>1. /\ clock \in Int /\ cache.at \in Int /\ cache.seen \in Nat /\ i \in Int
          /\ changes[i].at \in Int /\ Lifetime \in Int
      <4>1. changes \in Seq(Change) /\ cache \in [at : Int, seen : Nat, drops : Nat]
        BY ChangesAre DEF StatsInv
      <4>2. changes[i] \in Change /\ i \in Int
        BY <4>1
      <4> QED
        BY <4>1, <4>2, StatsAssumption DEF StatsInv, Change
    <3>2. i > cache.seen => changes[i].at >= cache.at
      BY DEF StatsInv
    <3> QED
      BY <3>1, <3>2
  <2> QED
    BY <2>1, <2>2 DEF StatsAreFresh, Stats!StatsAreFresh, SumsOf
<1> QED
  BY <1>1, StatsAlways, PTL

(***************************************************************************)
(* The simulation                                                          *)
(***************************************************************************)
SimTypes ==
    /\ active \in BOOLEAN
    /\ task \in Callers \cup {None}
    /\ holder \in Callers \cup {None}
    /\ queue \in Seq(Callers)
    /\ wish \in [Callers -> {"none", "start", "stop"}]
    /\ at \in [Callers -> {"idle", "queued", "joining", "done"}]
    /\ loop \in [Callers -> Sim!Alive \cup {"none", "ended"}]

\* Who waits for the lock is in the queue once; who holds it stops the task.
SimQueue ==
    /\ \A i \in DOMAIN queue : at[queue[i]] = "queued"
    /\ \A i, j \in DOMAIN queue : queue[i] = queue[j] => i = j

SimLock ==
    \A c \in Callers : /\ at[c] = "joining" <=> holder = c
                       /\ at[c] = "joining" => wish[c] = "stop"

\* No task runs but the last one; it runs, and nobody has cancelled it, while the flag
\* is set, and it is on its way to its end while someone joins it.
SimTask ==
    /\ \A c \in Callers : loop[c] \in Sim!Alive => c = task
    /\ active => holder = None /\ task \in Callers /\ loop[task] \in Sim!Alive \ {"cancelled"}
    /\ ~active /\ holder = None => \A c \in Callers : loop[c] \notin Sim!Alive
    /\ holder # None => task \in Callers /\ loop[task] \in {"cancelled", "ended"}

SimInv == SimTypes /\ SimQueue /\ SimLock /\ SimTask

\* What a call may say when it returns.
TrueReturn(c) == active' = (wish'[c] = "start") /\ (wish'[c] = "stop" => Sim!Running' = {})

\* The simulation does not run, and nobody calls.
LEMMA SimInit == Sim!Init => SimInv
<1> SUFFICES ASSUME Sim!Init
             PROVE  SimInv
  OBVIOUS
<1>1. active \in BOOLEAN /\ ~active
  BY Zenon DEF Sim!Init
<1>2. queue \in Seq(Callers) /\ DOMAIN queue = {}
  BY EmptySeq DEF Sim!Init
<1>3. /\ task = None /\ holder = None
      /\ wish = [c \in Callers |-> "none"] /\ at = [c \in Callers |-> "idle"]
      /\ loop = [c \in Callers |-> "none"]
  BY DEF Sim!Init
<1>4. SimTypes
  BY <1>1, <1>2, <1>3 DEF SimTypes
<1>5. SimQueue /\ SimLock /\ SimTask
  BY <1>1, <1>2, <1>3, SimAssumption DEF SimQueue, SimLock, SimTask, Sim!Alive
<1> QED
  BY <1>4, <1>5 DEF SimInv

\* start or stop, by a call that has the lock.
LEMMA ActStep ==
    ASSUME SimInv, NEW c \in Callers, NEW what, holder = None, Sim!Act(c, what),
           wish' \in [Callers -> {"none", "start", "stop"}], wish'[c] = what,
           \A d \in Callers \ {c} : wish'[d] = wish[d]
    PROVE  /\ active' \in BOOLEAN
           /\ task' \in Callers \cup {None} /\ holder' \in Callers \cup {None}
           /\ at' \in [Callers -> {"idle", "queued", "joining", "done"}]
           /\ loop' \in [Callers -> Sim!Alive \cup {"none", "ended"}]
           /\ \A d \in Callers \ {c} : at'[d] = at[d]
           /\ SimLock' /\ SimTask'
           /\ at'[c] = "done" => TrueReturn(c)
<1> USE DEF Sim!Alive
<1>1. /\ active \in BOOLEAN /\ task \in Callers \cup {None} /\ holder \in Callers \cup {None}
      /\ at \in [Callers -> {"idle", "queued", "joining", "done"}]
      /\ loop \in [Callers -> Sim!Alive \cup {"none", "ended"}]
  BY DEF SimInv, SimTypes
<1>2. /\ at[c] # "joining" /\ \A d \in Callers : at[d] # "joining"
  BY SimAssumption DEF SimInv, SimLock
<1>3. CASE what = "start" /\ active
  <2>1. /\ UNCHANGED <<active, task, loop, holder>> /\ at' = [at EXCEPT ![c] = "done"]
    BY <1>3 DEF Sim!Act, Sim!Start, Sim!Stop
  <2>2. active' \in BOOLEAN
    BY <1>1, <2>1
  <2>3. TrueReturn(c)
    <3>1. active' = TRUE
      BY <1>1, <1>3, <2>1, Zenon
    <3> QED
      BY <1>3, <3>1 DEF TrueReturn
  <2>4. SimTask'
    BY <2>1 DEF SimInv, SimTask
  <2>5. SimLock'
    BY <1>1, <1>2, <2>1, SimAssumption DEF SimLock
  <2> QED
    BY <1>1, <2>1, <2>2, <2>3, <2>4, <2>5
<1>4. CASE what = "start" /\ ~active
  <2>1. /\ active' = TRUE /\ task' = c /\ loop' = [loop EXCEPT ![c] = "created"]
        /\ holder' = holder /\ at' = [at EXCEPT ![c] = "done"]
    BY <1>4 DEF Sim!Act, Sim!Start, Sim!Stop
  <2>2. active' \in BOOLEAN /\ active'
    BY <2>1, Zenon
  <2>3. TrueReturn(c)
    BY <1>4, <2>1 DEF TrueReturn
  <2>4. \A d \in Callers : loop[d] \notin Sim!Alive
    BY <1>4 DEF SimInv, SimTask
  <2>5. SimTask'
    <3>1. loop'[c] = "created" /\ \A d \in Callers \ {c} : loop'[d] = loop[d]
      BY <1>1, <2>1
    <3> QED
      BY <2>1, <2>2, <2>4, <3>1 DEF SimTask
  <2>6. SimLock'
    BY <1>1, <1>2, <2>1, SimAssumption DEF SimLock
  <2> QED
    BY <1>1, <2>1, <2>2, <2>3, <2>5, <2>6
<1>5. CASE what = "stop" /\ task \in Sim!Running
  <2>1. /\ active' = FALSE /\ loop' = [loop EXCEPT ![task] = "cancelled"]
        /\ holder' = c /\ at' = [at EXCEPT ![c] = "joining"] /\ task' = task
    BY <1>5 DEF Sim!Act, Sim!Start, Sim!Stop
  <2>2. active' \in BOOLEAN /\ ~active'
    BY <2>1, Zenon
  <2>3. task \in Callers /\ loop'[task] = "cancelled" /\ \A d \in Callers \ {task} : loop'[d] = loop[d]
    BY <1>1, <1>5, <2>1 DEF Sim!Running
  <2>4. SimTask'
    <3>1. \A d \in Callers : loop'[d] \in Sim!Alive => d = task'
      BY <2>1, <2>3 DEF SimInv, SimTask
    <3>2. holder' # None /\ loop'[task'] \in {"cancelled", "ended"} /\ task' \in Callers
      BY <2>1, <2>3, SimAssumption
    <3> QED
      BY <2>2, <3>1, <3>2 DEF SimTask
  <2>5. SimLock'
    BY <1>1, <1>2, <1>5, <2>1 DEF SimLock
  <2>6. at'[c] # "done"
    BY <1>1, <2>1
  <2> QED
    BY <1>1, <2>1, <2>2, <2>3, <2>4, <2>5, <2>6
<1>6. CASE what = "stop" /\ task \notin Sim!Running
  <2>1. /\ active' = FALSE /\ UNCHANGED <<loop, holder, task>> /\ at' = [at EXCEPT ![c] = "done"]
    BY <1>6 DEF Sim!Act, Sim!Start, Sim!Stop
  <2>2. active' \in BOOLEAN /\ ~active'
    BY <2>1, Zenon
  <2>3. ~active
    BY <1>6 DEF SimInv, SimTask, Sim!Running
  <2>4. \A d \in Callers : loop[d] \notin Sim!Alive
    BY <2>3 DEF SimInv, SimTask
  <2>5. SimTask'
    BY <2>1, <2>2, <2>4 DEF SimTask
  <2>6. SimLock'
    BY <1>1, <1>2, <2>1, SimAssumption DEF SimLock
  <2>7. TrueReturn(c)
    <3>1. Sim!Running' = {}
      BY <2>1, <2>4 DEF Sim!Running
    <3> QED
      BY <1>6, <2>1, <3>1 DEF TrueReturn
  <2> QED
    BY <1>1, <2>1, <2>2, <2>5, <2>6, <2>7
<1> QED
  BY <1>3, <1>4, <1>5, <1>6 DEF Sim!Act

Returns(c) == at[c] # "done" /\ at'[c] = "done"

\* A call of start, stop or toggle.
LEMMA CallerStep ==
    ASSUME SimInv, NEW c \in Callers, NEW op \in {"start", "stop", "toggle"}, Sim!Call(c, op)
    PROVE  SimInv' /\ \A d \in Callers : Returns(d) => TrueReturn(d)
<1> DEFINE what == IF op # "toggle" THEN op ELSE IF active THEN "stop" ELSE "start"
<1>1. /\ queue \in Seq(Callers) /\ wish \in [Callers -> {"none", "start", "stop"}]
      /\ at \in [Callers -> {"idle", "queued", "joining", "done"}]
      /\ at[c] = "idle" /\ wish' = [wish EXCEPT ![c] = what]
      /\ \/ holder = None /\ queue = << >> /\ Sim!Act(c, what) /\ queue' = queue
         \/ /\ holder # None \/ queue # << >>
            /\ queue' = Append(queue, c) /\ at' = [at EXCEPT ![c] = "queued"]
            /\ UNCHANGED <<active, task, holder, loop>>
  BY DEF Sim!Call, SimInv, SimTypes
<1>2. what \in {"start", "stop"}
  OBVIOUS
<1> HIDE DEF what
<1>3. /\ wish' \in [Callers -> {"none", "start", "stop"}] /\ wish'[c] = what
      /\ \A d \in Callers \ {c} : wish'[d] = wish[d]
  BY <1>1, <1>2
<1>4. CASE holder = None /\ queue = << >> /\ Sim!Act(c, what) /\ queue' = queue
  <2>1. /\ active' \in BOOLEAN
        /\ task' \in Callers \cup {None} /\ holder' \in Callers \cup {None}
        /\ at' \in [Callers -> {"idle", "queued", "joining", "done"}]
        /\ loop' \in [Callers -> Sim!Alive \cup {"none", "ended"}]
        /\ \A d \in Callers \ {c} : at'[d] = at[d]
        /\ SimLock' /\ SimTask'
        /\ at'[c] = "done" => TrueReturn(c)
    BY <1>3, <1>4, ActStep
  <2>2. SimQueue'
    <3>1. DOMAIN queue' = {}
      BY <1>4
    <3> QED
      BY <3>1 DEF SimQueue
  <2>3. SimTypes'
    BY <1>1, <1>3, <1>4, <2>1 DEF SimTypes
  <2>4. \A d \in Callers : Returns(d) => TrueReturn(d)
    <3>1. \A d \in Callers : Returns(d) => d = c /\ at'[c] = "done"
      BY <2>1 DEF Returns
    <3> QED
      BY <2>1, <3>1
  <2> QED
    BY <2>1, <2>2, <2>3, <2>4 DEF SimInv
<1>5. CASE /\ queue' = Append(queue, c) /\ at' = [at EXCEPT ![c] = "queued"]
           /\ UNCHANGED <<active, task, holder, loop>>
  <2>1. SimTypes'
    BY <1>1, <1>3, <1>5 DEF SimInv, SimTypes
  <2>2. SimQueue'
    <3>1. /\ Len(queue) \in Nat /\ DOMAIN queue = 1..Len(queue)
          /\ DOMAIN queue' = 1..(Len(queue) + 1)
          /\ \A i \in DOMAIN queue : queue'[i] = queue[i] /\ queue[i] \in Callers
          /\ queue'[Len(queue) + 1] = c
      BY <1>1, <1>5, AppendProperties
    <3>2. \A i \in DOMAIN queue : queue[i] # c /\ at[queue[i]] = "queued"
      BY <1>1 DEF SimInv, SimQueue
    <3>3. \A i \in DOMAIN queue' : i \in DOMAIN queue \/ i = Len(queue) + 1
      BY <3>1
    <3>4. \A i \in DOMAIN queue' : at'[queue'[i]] = "queued"
      <4>1. at'[c] = "queued" /\ \A d \in Callers \ {c} : at'[d] = at[d]
        BY <1>1, <1>5
      <4>2. \A i \in DOMAIN queue : queue[i] \in Callers \ {c}
        BY <3>1, <3>2
      <4> QED
        BY <3>1, <3>2, <3>3, <4>1, <4>2
    <3>5. \A i, j \in DOMAIN queue' : queue'[i] = queue'[j] => i = j
      BY <3>1, <3>2, <3>3 DEF SimInv, SimQueue
    <3> QED
      BY <3>4, <3>5 DEF SimQueue
  <2>3. SimLock'
    BY <1>1, <1>3, <1>5 DEF SimInv, SimLock
  <2>4. SimTask'
    BY <1>5 DEF SimInv, SimTask
  <2>5. \A d \in Callers : ~Returns(d)
    BY <1>1, <1>5 DEF Returns
  <2> QED
    BY <2>1, <2>2, <2>3, <2>4, <2>5 DEF SimInv
<1> QED
  BY <1>1, <1>4, <1>5

\* A call that has waited for the lock, and one that has joined the task.
LEMMA LockStep ==
    ASSUME SimInv, NEW c \in Callers, Sim!Locked(c) \/ Sim!Joined(c)
    PROVE  SimInv' /\ \A d \in Callers : Returns(d) => TrueReturn(d)
<1>1. /\ queue \in Seq(Callers) /\ wish \in [Callers -> {"none", "start", "stop"}]
      /\ at \in [Callers -> {"idle", "queued", "joining", "done"}]
      /\ \A i \in DOMAIN queue : at[queue[i]] = "queued"
      /\ \A i, j \in DOMAIN queue : queue[i] = queue[j] => i = j
  BY DEF SimInv, SimTypes, SimQueue
<1>2. CASE Sim!Locked(c)
  <2>1. /\ holder = None /\ queue # << >> /\ c = Head(queue) /\ queue' = Tail(queue)
        /\ Sim!Act(c, wish[c]) /\ wish' = wish
    BY <1>2 DEF Sim!Locked
  <2>2. /\ active' \in BOOLEAN
        /\ task' \in Callers \cup {None} /\ holder' \in Callers \cup {None}
        /\ at' \in [Callers -> {"idle", "queued", "joining", "done"}]
        /\ loop' \in [Callers -> Sim!Alive \cup {"none", "ended"}]
        /\ \A d \in Callers \ {c} : at'[d] = at[d]
        /\ SimLock' /\ SimTask'
        /\ at'[c] = "done" => TrueReturn(c)
    <3>1. wish' \in [Callers -> {"none", "start", "stop"}] /\ \A d \in Callers : wish'[d] = wish[d]
      BY <1>1, <2>1
    <3> QED
      BY <2>1, <3>1, ActStep
  <2>3. /\ queue' \in Seq(Callers) /\ Len(queue) \in Nat \ {0}
        /\ DOMAIN queue = 1..Len(queue) /\ DOMAIN queue' = 1..(Len(queue) - 1)
        /\ \A i \in 1..(Len(queue) - 1) : queue'[i] = queue[i + 1]
        /\ c = queue[1]
    BY <1>1, <2>1, HeadTailProperties
  <2>4. SimTypes'
    BY <1>1, <2>1, <2>2, <2>3 DEF SimTypes
  <2>5. SimQueue'
    <3>1. \A i \in DOMAIN queue' : i + 1 \in DOMAIN queue /\ i + 1 # 1 /\ queue[i + 1] \in Callers
      BY <1>1, <2>3
    <3>2. 1 \in DOMAIN queue
      BY <2>3
    <3>3. \A i \in DOMAIN queue' : queue'[i] # c
      BY <1>1, <2>3, <3>1, <3>2
    <3>4. \A i \in DOMAIN queue' : at'[queue'[i]] = "queued"
      <4> SUFFICES ASSUME NEW i \in DOMAIN queue'
                   PROVE  at'[queue'[i]] = "queued"
        OBVIOUS
      <4>1. queue'[i] = queue[i + 1] /\ at[queue[i + 1]] = "queued"
        BY <1>1, <2>3, <3>1
      <4>2. queue'[i] \in Callers \ {c}
        BY <2>3, <3>1, <3>3
      <4> QED
        BY <2>2, <4>1, <4>2
    <3>5. \A i, j \in DOMAIN queue' : queue'[i] = queue'[j] => i = j
      <4> SUFFICES ASSUME NEW i \in DOMAIN queue', NEW j \in DOMAIN queue', queue'[i] = queue'[j]
                   PROVE  i = j
        OBVIOUS
      <4>1. i + 1 = j + 1
        BY <1>1, <2>3, <3>1
      <4> QED
        BY <2>3, <4>1
    <3> QED
      BY <3>4, <3>5 DEF SimQueue
  <2>6. \A d \in Callers : Returns(d) => TrueReturn(d)
    <3>1. \A d \in Callers : Returns(d) => d = c /\ at'[c] = "done"
      BY <2>2 DEF Returns
    <3> QED
      BY <2>2, <3>1
  <2> QED
    BY <2>2, <2>4, <2>5, <2>6 DEF SimInv
<1>3. CASE Sim!Joined(c)
  <2>1. /\ at[c] = "joining" /\ loop[task] = "ended" /\ task' = None /\ holder' = None
        /\ at' = [at EXCEPT ![c] = "done"] /\ UNCHANGED <<active, queue, wish, loop>>
    BY <1>3 DEF Sim!Joined
  <2>2. holder = c /\ wish[c] = "stop" /\ holder # None
    BY <2>1, SimAssumption DEF SimInv, SimLock
  <2>3. ~active /\ \A d \in Callers : loop[d] \notin Sim!Alive
    BY <2>1, <2>2 DEF SimInv, SimTask, Sim!Alive
  <2>4. active' \in BOOLEAN /\ ~active'
    <3>1. active \in BOOLEAN
      BY DEF SimInv, SimTypes
    <3> QED
      BY <2>1, <2>3, <3>1, Zenon
  <2>5. SimTypes'
    BY <1>1, <2>1, <2>4 DEF SimInv, SimTypes
  <2>6. SimQueue'
    BY <1>1, <2>1 DEF SimQueue
  <2>7. SimLock'
    BY <1>1, <2>1, <2>2, SimAssumption DEF SimInv, SimLock
  <2>8. SimTask'
    BY <2>1, <2>3, <2>4 DEF SimTask
  <2>9. TrueReturn(c)
    <3>1. wish'[c] = "stop" /\ wish'[c] # "start"
      BY <2>1, <2>2
    <3>2. Sim!Running' = {}
      BY <2>1, <2>3 DEF Sim!Running
    <3>3. active' = FALSE
      BY <2>4, Zenon
    <3> QED
      BY <3>1, <3>2, <3>3 DEF TrueReturn
  <2>10. \A d \in Callers : Returns(d) => d = c
    BY <1>1, <2>1 DEF Returns
  <2> QED
    BY <2>5, <2>6, <2>7, <2>8, <2>9, <2>10 DEF SimInv
<1> QED
  BY <1>2, <1>3

\* A turn of a task.
LEMMA TurnStep ==
    ASSUME SimInv, NEW c \in Callers,
           Sim!NextRun(c) \/ Sim!Evaluated(c) \/ Sim!EvaluationRaises(c) \/ Sim!Cancelled(c)
    PROVE  SimInv' /\ \A d \in Callers : ~Returns(d)
<1> USE DEF Sim!Alive
<1>1. /\ UNCHANGED <<active, task, holder, queue, wish, at>>
      /\ loop[c] \in Sim!Alive
      /\ \/ /\ loop[c] # "cancelled" /\ active
            /\ loop' = [loop EXCEPT ![c] = "evaluating"]
         \/ /\ loop[c] = "evaluating"
            /\ loop' = [loop EXCEPT ![c] = "sleeping"] \/ loop' = [loop EXCEPT ![c] = "backing off"]
         \/ /\ (loop[c] # "cancelled" /\ ~active) \/ loop[c] = "cancelled"
            /\ loop' = [loop EXCEPT ![c] = "ended"]
  BY DEF Sim!NextRun, Sim!Evaluated, Sim!EvaluationRaises, Sim!Cancelled, Sim!Turn, Sim!lockVars
<1>2. c = task /\ loop \in [Callers -> Sim!Alive \cup {"none", "ended"}]
  BY <1>1 DEF SimInv, SimTypes, SimTask
<1>3. loop' \in [Callers -> Sim!Alive \cup {"none", "ended"}]
  BY <1>1, <1>2
<1>4. SimTask'
  <2>1. \A d \in Callers : loop'[d] \in Sim!Alive => d = task
    BY <1>1, <1>2 DEF SimInv, SimTask
  <2>2. active => loop'[task] \in Sim!Alive \ {"cancelled"}
    BY <1>1, <1>2 DEF SimInv, SimTask
  <2>3. ~active => holder # None
    BY <1>1 DEF SimInv, SimTask
  <2>4. holder # None => loop'[task] = "ended"
    BY <1>1, <1>2 DEF SimInv, SimTask
  <2> QED
    BY <1>1, <2>1, <2>2, <2>3, <2>4 DEF SimInv, SimTask
<1>5. SimTypes' /\ SimQueue' /\ SimLock'
  BY <1>1, <1>3 DEF SimInv, SimTypes, SimQueue, SimLock
<1> QED
  BY <1>1, <1>4, <1>5 DEF SimInv, Returns

\* Every step of a call and of the task keeps the invariant of the simulation.
LEMMA SimStep ==
    ASSUME SimInv, Sim!Next \/ UNCHANGED simVars
    PROVE  SimInv' /\ \A c \in Callers : Returns(c) => TrueReturn(c)
<1>1. CASE UNCHANGED simVars
  BY <1>1 DEF simVars, SimInv, SimTypes, SimQueue, SimLock, SimTask, Returns
<1> QED
  BY <1>1, CallerStep, LockStep, TurnStep DEF Sim!Next

\* The simulation rests while another component is at work, and keeps its invariant.
LEMMA SimAlways == ServerSpec => []SimInv
<1>1. ServerInit => SimInv
  BY SimInit DEF ServerInit
<1>2. SimInv /\ [ServerNext]_serverVars => SimInv'
  BY SimStep DEF ServerNext, serverVars, Rest
<1> QED
  BY <1>1, <1>2, PTL DEF ServerSpec

\* The flag is right whenever nobody is between two steps of stop, and every call says
\* what it did: when stop returns no task runs, and toggle returns the flag it leaves.
THEOREM ReturnsSafe == ServerSpec => ReturnsAreTrue
<1>1. ASSUME SimInv
      PROVE  Sim!ActiveIsTrue
  BY <1>1 DEF SimInv, SimTask, Sim!ActiveIsTrue, Sim!Running
<1>2. SimInv => Sim!ActiveIsTrue
  BY <1>1
<1>3. SimInv /\ [ServerNext]_serverVars =>
         [/\ Sim!ActiveIsTrue'
          /\ \A c \in Callers :
                at[c] # "done" /\ at'[c] = "done" =>
                   /\ active' = (wish'[c] = "start")
                   /\ wish'[c] = "stop" => Sim!Running' = {}]_(Sim!vars)
  <2> SUFFICES ASSUME SimInv, Sim!Next \/ UNCHANGED simVars
               PROVE  /\ Sim!ActiveIsTrue'
                      /\ \A c \in Callers :
                            at[c] # "done" /\ at'[c] = "done" =>
                               /\ active' = (wish'[c] = "start")
                               /\ wish'[c] = "stop" => Sim!Running' = {}
    BY DEF ServerNext, serverVars, Rest
  <2>1. SimInv' /\ \A c \in Callers : Returns(c) => TrueReturn(c)
    BY SimStep
  <2>2. Sim!ActiveIsTrue'
    BY <1>2, <2>1, PTL
  <2> QED
    BY <2>1, <2>2 DEF Returns, TrueReturn
<1> QED
  BY <1>3, SimAlways, PTL DEF ServerSpec, ReturnsAreTrue, Sim!ReturnsAreTrue

(***************************************************************************)
(* Enrolment                                                               *)
(***************************************************************************)
Asking == Requests \ Simulated
Moments == 0..EnrolTicks
Seen == Enrol!Kinds \X Keys

\* Enrolment's window is that of SlidingWindow.
LEMMA EnrolOps ==
    /\ \A q, n, w : Enrol!Detector!Recent(q, n, w) = Recent(q, n, w)
    /\ \A q, n, w : Enrol!Detector!Push(q, n, w) = Push(q, n, w)
    /\ \A S : Enrol!Cardinality(S) = Cardinality(S)
    /\ Enrol!Detector!Times = Moments
<1>1. \A q, n, w : Enrol!Detector!Recent(q, n, w) = Recent(q, n, w)
  BY Zenon DEF Enrol!Detector!Recent, Enrol!Detector!Within, Recent, Within
<1>2. \A q, n, w : Enrol!Detector!Push(q, n, w) = Push(q, n, w)
  BY Zenon DEF Enrol!Detector!Push, Push
<1>3. \A S : Enrol!Cardinality(S) = Cardinality(S)
  BY Zenon DEF Enrol!Cardinality, Cardinality
<1>4. Enrol!Detector!Times = Moments
  BY DEF Enrol!Detector!Times, Moments
<1> QED
  BY <1>1, <1>2, <1>3, <1>4

Job == [pc : {"idle", "judging", "answered", "refused", "raised"}, key : Keys, at : Moments,
        kinds : SUBSET Enrol!Kinds, counts : [Enrol!Kinds -> Nat],
        by : {"nobody", "model", "rules"}, verdict : Enrol!Store!Verdicts]

EnrolTypes ==
    /\ now \in Moments
    /\ window \in [Seen -> Seq(Moments)]
    /\ events \in [Seen -> Seq(Moments)]
    /\ report \in [key : Keys, at : Moments, kinds : SUBSET Enrol!Kinds, counts : [Enrol!Kinds -> Nat]]
    /\ ports \in [Keys -> SUBSET {}] /\ scans = {}
    /\ job \in [Asking -> Job]
    /\ block \in [Asking -> {"none", "due", "sent", "lost"}]

\* A queue is the end of what was seen, in the order of the clock.
QueuesAreEnds ==
    \A x \in Seen : IsEnd(window[x], events[x], Rule[x[1]].keep) /\ Ordered(events[x], now)

\* The enrolments of a key at certain times are what the sentinel has seen.
Enrolled(k, s, D) ==
    {r \in Asking : job[r].pc # "idle" /\ job[r].key = s /\ k \in job[r].kinds /\ job[r].at \in D}

EventsAreJobs ==
    /\ \A r \in Asking : job[r].at <= now
    /\ \A k \in Enrol!Kinds, s \in Keys : \A D \in SUBSET Int :
          IsFiniteSet(Enrolled(k, s, D)) /\ Cardinality(Enrolled(k, s, D)) = HowMany(events[<<k, s>>], D)

Span(k, t) == (t - Rule[k].window + 1)..t

\* Of the enrolments in a window, those that came with a count of most m at most.
Low(k, s, t, m) == {r \in Enrolled(k, s, Span(k, t)) : job[r].counts[k] <= m}

BurstsBounded ==
    \A k \in Enrol!Kinds, s \in Keys, t \in Int :
        /\ Cardinality(Low(k, s, t, 0)) <= Rule[k].limit
        /\ Cardinality(Low(k, s, t, DenyAbove[k])) <= DenyAbove[k]

\* A verdict of the rules is that of the rules.
RulesRuled ==
    \A r \in Asking : job[r].by = "rules" =>
        job[r].pc # "idle" /\ job[r].verdict = Enrol!Rules(job[r].counts)

SentinelInv == EnrolTypes /\ QueuesAreEnds /\ EventsAreJobs /\ BurstsBounded /\ RulesRuled

\* What the constants are.
LEMMA EnrolConstants ==
    /\ Moments \in SUBSET Int
    /\ \A k \in Enrol!Kinds : /\ Rule[k].window \in Int /\ Rule[k].limit \in Nat
                              /\ Rule[k].keep \in Nat /\ DenyAbove[k] \in Nat
                              /\ Rule[k].limit <= DenyAbove[k] /\ DenyAbove[k] < Rule[k].keep
BY EnrolAssumption DEF Enrol!Kinds, Moments

\* What is counted when a queue is pushed.
LEMMA PushedAt ==
    ASSUME SentinelInv, NEW k \in Enrol!Kinds, NEW s \in Keys
    PROVE  LET q == window[<<k, s>>]
               h == events[<<k, s>>]
               p == Push(q, now, Rule[k].keep)
               g == Append(h, now)
               n == HowMany(g, Young(now, Rule[k].window))
               c == Len(Recent(p, now, Rule[k].window))
           IN  /\ p \in Seq(Moments) /\ g \in Seq(Moments)
               /\ IsEnd(p, g, Rule[k].keep) /\ Ordered(g, now)
               /\ c \in Nat /\ n \in Nat
               /\ c <= Rule[k].limit => n <= Rule[k].limit
               /\ c <= DenyAbove[k] => n <= DenyAbove[k]
<1> DEFINE q == window[<<k, s>>]
           h == events[<<k, s>>]
           r == Rule[k]
           p == Push(q, now, r.keep)
           g == Append(h, now)
           n == InWindow(g, now, r.window)
<1>1. /\ Moments \in SUBSET Int /\ now \in Moments
      /\ r.window \in Int /\ r.limit \in Nat /\ r.keep \in Nat /\ DenyAbove[k] \in Nat
      /\ r.limit <= DenyAbove[k] /\ DenyAbove[k] < r.keep
  BY EnrolConstants DEF SentinelInv, EnrolTypes
<1>2. /\ q \in Seq(Moments) /\ h \in Seq(Moments)
      /\ IsEnd(q, h, r.keep) /\ Ordered(h, now)
  BY DEF SentinelInv, EnrolTypes, QueuesAreEnds, Seen
<1>3. h \in Seq(Int) /\ g \in Seq(Moments)
  BY <1>1, <1>2, SeqMonotonic, AppendProperties
<1> HIDE DEF q, h, r
<1>4. /\ p \in Seq(Moments) /\ IsEnd(p, g, r.keep) /\ Ordered(g, now)
      /\ Len(Recent(p, now, r.window)) = Least(n, r.keep)
      /\ n \in Nat
  BY <1>1, <1>2, <1>3, BurstCounted
<1>5. n = HowMany(g, Young(now, r.window))
  <2>1. g \in Seq(Int)
    BY <1>1, <1>3, SeqMonotonic
  <2>2. Those(g, Young(now, r.window)) = {i \in DOMAIN g : Within(g[i], now, r.window)}
    BY <2>1 DEF Those, Young
  <2> QED
    BY <2>2 DEF InWindow, HowMany
<1> HIDE DEF p, g, n
<1>6. /\ Least(n, r.keep) \in Nat
      /\ Least(n, r.keep) <= r.limit => n <= r.limit
      /\ Least(n, r.keep) <= DenyAbove[k] => n <= DenyAbove[k]
  BY <1>1, <1>4 DEF Least
<1> QED
  BY <1>3, <1>4, <1>5, <1>6 DEF q, h, r, p, g, n

\* Nobody has enrolled.
LEMMA SentinelInit == Enrol!Init => SentinelInv
<1> SUFFICES ASSUME Enrol!Init
             PROVE  SentinelInv
  OBVIOUS
<1>1. /\ << >> \in Seq(Moments) /\ << >> \in Seq(Int) /\ Len(<< >>) = 0 /\ DOMAIN << >> = {}
  BY EmptySeq
<1>2. /\ now = 0 /\ window = [x \in Seen |-> << >>] /\ events = [x \in Seen |-> << >>]
      /\ ports = [s \in Keys |-> {}] /\ scans = {}
      /\ report \in [key : Keys, at : {0}, kinds : {{}}, counts : {[k \in Enrol!Kinds |-> 0]}]
      /\ job = [r \in Asking |-> Enrol!Waiting]
      /\ block = [r \in Asking |-> "none"]
  BY DEF Enrol!Init, Enrol!Detector!Init, Seen, Asking
<1>3. 0 \in Moments /\ [k \in Enrol!Kinds |-> 0] \in [Enrol!Kinds -> Nat] /\ {} \in SUBSET Enrol!Kinds
  BY EnrolAssumption DEF Moments
<1>4. /\ Enrol!Waiting \in Job
      /\ Enrol!Waiting.pc = "idle" /\ Enrol!Waiting.at = 0 /\ Enrol!Waiting.by = "nobody"
  BY <1>2, <1>3 DEF Enrol!Waiting, Job, Enrol!Store!Verdicts
<1>5. EnrolTypes
  BY <1>1, <1>2, <1>3, <1>4 DEF EnrolTypes
<1>6. QueuesAreEnds
  BY <1>1, <1>2, EnrolConstants DEF QueuesAreEnds, IsEnd, Ordered, Least, Seen
<1>7. \A k, s, D : Enrolled(k, s, D) = {}
  BY <1>2, <1>4 DEF Enrolled
<1>8. EventsAreJobs
  <2>1. \A D : HowMany(<< >>, D) = 0
    <3>1. \A D : Those(<< >>, D) = {}
      BY <1>1 DEF Those
    <3> QED
      BY <3>1, FS_EmptySet DEF HowMany
  <2>2. ASSUME NEW k \in Enrol!Kinds, NEW s \in Keys, NEW D
        PROVE  IsFiniteSet(Enrolled(k, s, D)) /\ Cardinality(Enrolled(k, s, D)) = HowMany(events[<<k, s>>], D)
    <3>1. events[<<k, s>>] = << >>
      BY <1>2 DEF Seen
    <3> QED
      BY <1>7, <2>1, <3>1, FS_EmptySet
  <2>3. \A r \in Asking : job[r].at = 0
    BY <1>2, <1>4
  <2> QED
    BY <1>2, <2>2, <2>3 DEF EventsAreJobs
<1>9. BurstsBounded
  <2>1. ASSUME NEW k, NEW s, NEW t, NEW m
        PROVE  Cardinality(Low(k, s, t, m)) = 0
    <3>1. Low(k, s, t, m) = {}
      BY <1>7 DEF Low
    <3> QED
      BY <3>1, FS_EmptySet
  <2>2. \A k \in Enrol!Kinds : 0 <= Rule[k].limit /\ 0 <= DenyAbove[k]
    BY EnrolConstants
  <2> QED
    BY <2>1, <2>2 DEF BurstsBounded
<1>10. RulesRuled
  BY <1>2, <1>4 DEF RulesRuled
<1> QED
  BY <1>5, <1>6, <1>8, <1>9, <1>10 DEF SentinelInv

\* A request has its sentinel look at it: one more is enrolled, and seen; it is told of
\* a burst unless the whole of it is within what the sentinel, or the rules, tolerate.
LEMMA EnrollStep ==
    ASSUME SentinelInv, NEW r \in Asking, NEW s \in Keys, NEW kinds \in SUBSET Enrol!Kinds,
           Enrol!Enroll(r, s, kinds)
    PROVE  SentinelInv'
<1> DEFINE Mine(x) == x[1] \in kinds /\ x[2] = s
           Size(k) == Len(Recent(window'[<<k, s>>], now, Rule[k].window))
           told == [k \in Enrol!Kinds |->
                      IF k \in kinds /\ Size(k) > Rule[k].limit THEN Size(k) ELSE 0]
           mine == [Enrol!Waiting EXCEPT !.pc = "judging", !.key = s, !.at = now,
                                         !.kinds = kinds, !.counts = report'.counts]
<1>1. /\ window' = [x \in Seen |-> IF Mine(x) THEN Push(window[x], now, Rule[x[1]].keep) ELSE window[x]]
      /\ events' = [x \in Seen |-> IF Mine(x) THEN Append(events[x], now) ELSE events[x]]
      /\ report' = [key |-> s, at |-> now, kinds |-> kinds, counts |-> told]
      /\ UNCHANGED <<now, ports, scans, block>>
      /\ job[r].pc = "idle" /\ job' = [job EXCEPT ![r] = mine]
  <2>1. Enrol!Detector!Analyze(s, kinds)
    BY DEF Enrol!Enroll
  <2>2. window' = [x \in Seen |-> IF Mine(x) THEN Push(window[x], now, Rule[x[1]].keep) ELSE window[x]]
    BY <2>1, EnrolOps, Zenon DEF Enrol!Detector!Analyze, Seen
  <2>3. \A q, n, w : Enrol!Detector!Recent(q, n, w) = Recent(q, n, w)
    BY EnrolOps
  <2>4. /\ events' = [x \in Seen |-> IF Mine(x) THEN Append(events[x], now) ELSE events[x]]
        /\ UNCHANGED <<now, ports, scans>>
    BY <2>1 DEF Enrol!Detector!Analyze, Enrol!Detector!scanVars, Seen
  <2>5. report' = [key |-> s, at |-> now, kinds |-> kinds, counts |-> told]
    BY <2>1, <2>3, Zenon DEF Enrol!Detector!Analyze
  <2>6. job[r].pc = "idle" /\ job' = [job EXCEPT ![r] = mine] /\ UNCHANGED block
    BY DEF Enrol!Enroll
  <2> QED
    BY <2>2, <2>4, <2>5, <2>6
<1> HIDE DEF Size
<1>2. \A k \in kinds : <<k, s>> \in Seen /\ Mine(<<k, s>>) /\ k \in Enrol!Kinds
  BY DEF Seen
<1>3. \A k \in kinds : /\ window'[<<k, s>>] = Push(window[<<k, s>>], now, Rule[k].keep)
                       /\ events'[<<k, s>>] = Append(events[<<k, s>>], now)
  BY <1>1, <1>2
<1>4. \A x \in Seen : Mine(x) => x = <<x[1], s>> /\ x[1] \in kinds
  BY DEF Seen
<1>5. ASSUME NEW x \in Seen
      PROVE  /\ window'[x] \in Seq(Moments) /\ events'[x] \in Seq(Moments)
             /\ IsEnd(window'[x], events'[x], Rule[x[1]].keep) /\ Ordered(events'[x], now)
  <2>1. CASE Mine(x)
    <3>1. PICK k \in kinds : x = <<k, s>> /\ x[1] = k
      BY <1>4, <2>1
    <3> QED
      BY <1>2, <1>3, <3>1, PushedAt
  <2>2. CASE ~Mine(x)
    <3>1. window'[x] = window[x] /\ events'[x] = events[x]
      BY <1>1, <2>2
    <3> QED
      BY <3>1 DEF SentinelInv, EnrolTypes, QueuesAreEnds
  <2> QED
    BY <2>1, <2>2
<1>6. ASSUME NEW k \in kinds
      PROVE  /\ told[k] \in Nat /\ HowMany(events'[<<k, s>>], Young(now, Rule[k].window)) \in Nat
             /\ told[k] <= 0 =>
                   HowMany(events'[<<k, s>>], Young(now, Rule[k].window)) <= Rule[k].limit
             /\ told[k] <= DenyAbove[k] =>
                   HowMany(events'[<<k, s>>], Young(now, Rule[k].window)) <= DenyAbove[k]
  <2> DEFINE n == HowMany(events'[<<k, s>>], Young(now, Rule[k].window))
  <2>1. /\ Size(k) \in Nat /\ n \in Nat
        /\ Size(k) <= Rule[k].limit => n <= Rule[k].limit
        /\ Size(k) <= DenyAbove[k] => n <= DenyAbove[k]
    BY <1>2, <1>3, PushedAt DEF Size
  <2>2. told[k] = IF Size(k) > Rule[k].limit THEN Size(k) ELSE 0
    BY <1>2
  <2>3. Rule[k].limit \in Nat /\ DenyAbove[k] \in Nat /\ Rule[k].limit <= DenyAbove[k]
    BY <1>2, EnrolConstants
  <2> HIDE DEF n, told
  <2> QED
    BY <2>1, <2>2, <2>3 DEF n
<1>7. told \in [Enrol!Kinds -> Nat]
  BY <1>6
<1>8. EnrolTypes'
  <2>1. /\ window' \in [Seen -> Seq(Moments)] /\ events' \in [Seen -> Seq(Moments)]
    BY <1>1, <1>5
  <2>2. now \in Moments /\ ports \in [Keys -> SUBSET {}] /\ scans = {}
        /\ job \in [Asking -> Job] /\ block \in [Asking -> {"none", "due", "sent", "lost"}]
        /\ report.key \in Keys
    BY DEF SentinelInv, EnrolTypes
  <2>3. report' \in [key : Keys, at : Moments, kinds : SUBSET Enrol!Kinds, counts : [Enrol!Kinds -> Nat]]
        /\ report'.counts = told
    BY <1>1, <1>7, <2>2
  <2>4. mine \in Job
    BY <1>7, <2>2, <2>3 DEF Enrol!Waiting, Job, Enrol!Store!Verdicts
  <2> HIDE DEF mine, told
  <2> QED
    BY <1>1, <2>1, <2>2, <2>3, <2>4 DEF EnrolTypes
<1>9. /\ job'[r].pc = "judging" /\ job'[r].key = s /\ job'[r].at = now /\ job'[r].kinds = kinds
      /\ job'[r].counts = told /\ job'[r].by = "nobody"
      /\ \A q \in Asking \ {r} : job'[q] = job[q]
  <2>1. job'[r] = mine
    BY <1>1 DEF SentinelInv, EnrolTypes
  <2>2. report'.counts = told
    BY <1>1
  <2> QED
    BY <1>1, <2>1, <2>2 DEF Enrol!Waiting, SentinelInv, EnrolTypes
<1> HIDE DEF told, mine
<1>10. ASSUME NEW k \in Enrol!Kinds, NEW u \in Keys, NEW D
       PROVE  /\ r \notin Enrolled(k, u, D)
              /\ Enrolled(k, u, D)' = IF u = s /\ k \in kinds /\ now \in D
                                      THEN Enrolled(k, u, D) \cup {r} ELSE Enrolled(k, u, D)
  BY <1>1, <1>9 DEF Enrolled
<1>11. EventsAreJobs'
  <2>1. \A q \in Asking : job'[q].at <= now
    <3>1. now <= now
      BY EnrolConstants DEF SentinelInv, EnrolTypes
    <3>2. \A q \in Asking : job[q].at <= now
      BY DEF SentinelInv, EventsAreJobs
    <3> QED
      BY <1>9, <3>1, <3>2
  <2>2. ASSUME NEW k \in Enrol!Kinds, NEW u \in Keys, NEW D \in SUBSET Int
        PROVE  /\ IsFiniteSet(Enrolled(k, u, D)')
               /\ Cardinality(Enrolled(k, u, D)') = HowMany(events'[<<k, u>>], D)
    <3>1. /\ IsFiniteSet(Enrolled(k, u, D))
          /\ Cardinality(Enrolled(k, u, D)) = HowMany(events[<<k, u>>], D)
      BY DEF SentinelInv, EventsAreJobs
    <3>2. now \in Int /\ <<k, u>> \in Seen /\ events[<<k, u>>] \in Seq(Int)
      <4>1. now \in Int /\ <<k, u>> \in Seen /\ events[<<k, u>>] \in Seq(Moments)
        BY EnrolConstants DEF SentinelInv, EnrolTypes, Seen
      <4> QED
        BY <4>1, EnrolConstants, SeqMonotonic
    <3>3. CASE u = s /\ k \in kinds
      <4>1. events'[<<k, u>>] = Append(events[<<k, u>>], now)
        BY <1>3, <3>3
      <4>2. HowMany(events'[<<k, u>>], D) = HowMany(events[<<k, u>>], D) + (IF now \in D THEN 1 ELSE 0)
        BY <3>2, <4>1, HowManyAppended
      <4>3. HowMany(events[<<k, u>>], D) \in Nat
        BY <3>2, HowManyAre
      <4>4. CASE now \in D
        <5>1. Enrolled(k, u, D)' = Enrolled(k, u, D) \cup {r} /\ r \notin Enrolled(k, u, D)
          BY <1>10, <3>3, <4>4
        <5> QED
          BY <3>1, <4>2, <4>4, <5>1, FS_AddElement
      <4>5. CASE now \notin D
        BY <1>10, <3>1, <4>2, <4>3, <4>5
      <4> QED
        BY <4>4, <4>5
    <3>4. CASE ~(u = s /\ k \in kinds)
      <4>1. events'[<<k, u>>] = events[<<k, u>>]
        BY <1>1, <3>2, <3>4
      <4> QED
        BY <1>10, <3>1, <3>4, <4>1
    <3> QED
      BY <3>3, <3>4
  <2> QED
    BY <1>1, <2>1, <2>2 DEF EventsAreJobs
<1>12. ASSUME NEW k \in Enrol!Kinds, NEW u \in Keys, NEW t \in Int, NEW m, NEW most \in Nat,
              Cardinality(Low(k, u, t, m)) <= most,
              k \in kinds /\ told[k] <= m =>
                 HowMany(events'[<<k, s>>], Young(now, Rule[k].window)) <= most
       PROVE  Cardinality(Low(k, u, t, m)') <= most
  <2> DEFINE low == {q \in Enrolled(k, u, Span(k, t))' : job'[q].counts[k] <= m}
  <2>1. Low(k, u, t, m)' = low
    BY DEF Low
  <2>2. Low(k, u, t, m) = {q \in Enrolled(k, u, Span(k, t)) : job[q].counts[k] <= m}
    BY DEF Low
  <2>3. PICK S : S = Span(k, t)
    OBVIOUS
  <2>4. PICK D \in SUBSET Int : D = Young(now, Rule[k].window)
    BY DEF Young
  <2>5. CASE u = s /\ k \in kinds /\ now \in S /\ told[k] <= m
    <3>1. now \in Int /\ Rule[k].window \in Int
      BY EnrolConstants DEF SentinelInv, EnrolTypes
    <3>2. ASSUME NEW q \in low
          PROVE  q \in Enrolled(k, s, D)'
      <4>1. /\ q \in Asking /\ job'[q].at \in Span(k, t) /\ job'[q].pc # "idle"
            /\ job'[q].key = s /\ k \in job'[q].kinds
        BY <2>5 DEF Enrolled
      <4>2. job'[q].at <= now /\ job'[q].at \in Int
        BY <1>1, <1>8, <1>11, <4>1, EnrolConstants DEF EventsAreJobs, EnrolTypes, Job
      <4>3. job'[q].at \in D
        BY <2>3, <2>4, <2>5, <3>1, <4>1, <4>2 DEF Span, Young, Within
      <4> QED
        BY <4>1, <4>3 DEF Enrolled
    <3>3. /\ IsFiniteSet(Enrolled(k, s, D)')
          /\ Cardinality(Enrolled(k, s, D)') = HowMany(events'[<<k, s>>], D)
      BY <1>11 DEF EventsAreJobs
    <3>4. low \subseteq Enrolled(k, s, D)'
      BY <3>2
    <3> HIDE DEF low
    <3>5. Cardinality(low) <= HowMany(events'[<<k, s>>], D) /\ Cardinality(low) \in Nat
      BY <3>3, <3>4, FS_Subset, FS_CardinalityType
    <3>6. HowMany(events'[<<k, s>>], D) <= most /\ HowMany(events'[<<k, s>>], D) \in Nat
      BY <1>6, <1>12, <2>4, <2>5
    <3> QED
      BY <2>1, <3>5, <3>6
  <2>6. CASE ~(u = s /\ k \in kinds /\ now \in S /\ told[k] <= m)
    <3>1. low = {q \in Enrolled(k, u, S) : job[q].counts[k] <= m}
      <4>1. /\ r \notin Enrolled(k, u, S)
            /\ Enrolled(k, u, S)' = IF u = s /\ k \in kinds /\ now \in S
                                    THEN Enrolled(k, u, S) \cup {r} ELSE Enrolled(k, u, S)
        BY <1>10
      <4>2. Enrolled(k, u, Span(k, t))' = Enrolled(k, u, S)'
        BY <2>3
      <4>3. \A q \in Enrolled(k, u, S) : q \in Asking \ {r} /\ job'[q].counts[k] = job[q].counts[k]
        BY <1>9, <4>1 DEF Enrolled
      <4>4. job'[r].counts[k] = told[k]
        BY <1>9
      <4> QED
        BY <2>6, <4>1, <4>2, <4>3, <4>4
    <3> QED
      BY <1>12, <2>1, <2>2, <2>3, <3>1
  <2> QED
    BY <2>5, <2>6
<1>13. BurstsBounded'
  <2> SUFFICES ASSUME NEW k \in Enrol!Kinds, NEW u \in Keys, NEW t \in Int
               PROVE  /\ Cardinality(Low(k, u, t, 0)') <= Rule[k].limit
                      /\ Cardinality(Low(k, u, t, DenyAbove[k])') <= DenyAbove[k]
    BY DEF BurstsBounded, Low, Enrolled
  <2>1. Rule[k].limit \in Nat /\ DenyAbove[k] \in Nat
    BY EnrolConstants
  <2>2. Cardinality(Low(k, u, t, 0)) <= Rule[k].limit
        /\ Cardinality(Low(k, u, t, DenyAbove[k])) <= DenyAbove[k]
    BY DEF SentinelInv, BurstsBounded
  <2>3. Cardinality(Low(k, u, t, 0)') <= Rule[k].limit
    BY <1>6, <1>12, <2>1, <2>2
  <2>4. Cardinality(Low(k, u, t, DenyAbove[k])') <= DenyAbove[k]
    BY <1>6, <1>12, <2>1, <2>2
  <2> QED
    BY <2>3, <2>4
<1>14. RulesRuled'
  BY <1>9 DEF SentinelInv, RulesRuled
<1>15. QueuesAreEnds'
  BY <1>1, <1>5 DEF QueuesAreEnds
<1> QED
  BY <1>8, <1>11, <1>13, <1>14, <1>15 DEF SentinelInv

\* A request that goes on is still the one that enrolled.
LEMMA JobsKept ==
    ASSUME SentinelInv, UNCHANGED <<now, window, events, report, ports, scans>>,
           job' \in [Asking -> Job], block' \in [Asking -> {"none", "due", "sent", "lost"}],
           \A r \in Asking : /\ job'[r].pc = "idle" <=> job[r].pc = "idle"
                             /\ job'[r].key = job[r].key /\ job'[r].at = job[r].at
                             /\ job'[r].kinds = job[r].kinds /\ job'[r].counts = job[r].counts,
           RulesRuled'
    PROVE  SentinelInv'
<1>1. \A k, s, D : Enrolled(k, s, D)' = Enrolled(k, s, D)
  BY DEF Enrolled
<1>2. EnrolTypes' /\ QueuesAreEnds'
  BY DEF SentinelInv, EnrolTypes, QueuesAreEnds
<1>3. EventsAreJobs'
  BY <1>1 DEF SentinelInv, EventsAreJobs
<1>4. ASSUME NEW k, NEW s, NEW t, NEW m
      PROVE  Low(k, s, t, m)' = Low(k, s, t, m)
  <2>1. Low(k, s, t, m)' = {q \in Enrolled(k, s, Span(k, t))' : job'[q].counts[k] <= m}
    BY DEF Low
  <2>2. \A q \in Enrolled(k, s, Span(k, t)) : job'[q].counts = job[q].counts
    BY DEF Enrolled
  <2> QED
    BY <1>1, <2>1, <2>2 DEF Low
<1>5. BurstsBounded'
  BY <1>4 DEF SentinelInv, BurstsBounded
<1> QED
  BY <1>2, <1>3, <1>5 DEF SentinelInv

\* What a verdict does to its request.
LEMMA VerdictOf ==
    ASSUME SentinelInv, NEW r \in Asking, NEW v \in Enrol!Store!Verdicts, NEW author \in {"model", "rules"},
           Enrol!Verdict(r, v, author)
    PROVE  /\ job[r].pc = "judging"
           /\ job' \in [Asking -> Job] /\ \A q \in Asking \ {r} : job'[q] = job[q]
           /\ job'[r].pc = IF v = "DENY" /\ job[r].key \in Addressed THEN "refused" ELSE "answered"
           /\ job'[r].by = author /\ job'[r].verdict = v
           /\ job'[r].key = job[r].key /\ job'[r].at = job[r].at
           /\ job'[r].kinds = job[r].kinds /\ job'[r].counts = job[r].counts
           /\ block' = [block EXCEPT ![r] = IF job'[r].pc = "refused" THEN "due" ELSE block[r]]
           /\ UNCHANGED <<now, window, events, report, ports, scans>>
<1> DEFINE next == IF v = "DENY" /\ job[r].key \in Addressed THEN "refused" ELSE "answered"
<1>1. /\ job[r].pc = "judging"
      /\ job' = [job EXCEPT ![r].pc = next, ![r].by = author, ![r].verdict = v]
      /\ block' = [block EXCEPT ![r] = IF next = "refused" THEN "due" ELSE block[r]]
      /\ UNCHANGED <<now, window, events, report, ports, scans>>
  BY DEF Enrol!Verdict, Enrol!sentinelVars
<1>2. next \in {"refused", "answered"}
  OBVIOUS
<1> HIDE DEF next
<1>3. job \in [Asking -> Job] /\ job[r] \in Job
  BY DEF SentinelInv, EnrolTypes
<1>4. job'[r] = [job[r] EXCEPT !.pc = next, !.by = author, !.verdict = v]
      /\ \A q \in Asking \ {r} : job'[q] = job[q]
  BY <1>1, <1>3
<1>5. /\ job'[r].pc = next /\ job'[r].by = author /\ job'[r].verdict = v
      /\ job'[r].key = job[r].key /\ job'[r].at = job[r].at
      /\ job'[r].kinds = job[r].kinds /\ job'[r].counts = job[r].counts
      /\ job'[r] \in Job
  BY <1>2, <1>3, <1>4 DEF Job
<1>6. job' \in [Asking -> Job]
  BY <1>1, <1>3, <1>4, <1>5
<1> QED
  BY <1>1, <1>4, <1>5, <1>6 DEF next

\* What the rules say is a verdict.
LEMMA RulesGive ==
    ASSUME NEW counts \in [Enrol!Kinds -> Nat]
    PROVE  /\ Enrol!Rules(counts) \in Enrol!Store!Verdicts
           /\ Enrol!Rules(counts) = "ALLOW" => \A k \in Enrol!Kinds : counts[k] <= 0
           /\ Enrol!Rules(counts) # "DENY" => \A k \in Enrol!Kinds : counts[k] <= DenyAbove[k]
<1>1. \A k \in Enrol!Kinds : counts[k] \in Nat /\ DenyAbove[k] \in Nat
  BY EnrolConstants
<1>2. CASE \E k \in Enrol!Kinds : counts[k] > DenyAbove[k]
  <2>1. ~\A k \in Enrol!Kinds : counts[k] = 0
    BY <1>1, <1>2
  <2>2. Enrol!Rules(counts) = "DENY"
    BY <1>2, <2>1 DEF Enrol!Rules
  <2> QED
    BY <2>2 DEF Enrol!Store!Verdicts
<1>3. CASE ~\E k \in Enrol!Kinds : counts[k] > DenyAbove[k]
  <2>1. \A k \in Enrol!Kinds : counts[k] <= DenyAbove[k]
    BY <1>1, <1>3
  <2>2. CASE \A k \in Enrol!Kinds : counts[k] = 0
    <3>1. Enrol!Rules(counts) = "ALLOW"
      BY <1>3, <2>2 DEF Enrol!Rules
    <3> QED
      BY <2>1, <2>2, <3>1 DEF Enrol!Store!Verdicts
  <2>3. CASE ~\A k \in Enrol!Kinds : counts[k] = 0
    <3>1. Enrol!Rules(counts) = "MONITOR"
      BY <1>3, <2>3 DEF Enrol!Rules
    <3> QED
      BY <2>1, <3>1 DEF Enrol!Store!Verdicts
  <2> QED
    BY <2>2, <2>3
<1> QED
  BY <1>2, <1>3

\* A call of the model ends with a verdict.
LEMMA ModelGives == \A v \in ModelVerdicts : v \in Enrol!Store!Verdicts
BY DEF ModelVerdicts, Parse, Build, ByKeyword, Answers, Verdicts, Enrol!Store!Verdicts

\* Verdicts are given by the model or the rules; every other step leaves them.
LEMMA SentinelStep ==
    ASSUME SentinelInv, Enrol!Next \/ UNCHANGED enrolVars
    PROVE  SentinelInv'
<1>1. ASSUME NEW r \in Asking, NEW s \in Keys, NEW kinds \in SUBSET Enrol!Kinds,
             Enrol!Enroll(r, s, kinds)
      PROVE  SentinelInv'
  BY <1>1, EnrollStep
<1>2. ASSUME NEW r \in Asking, Enrol!ByRules(r)
      PROVE  SentinelInv'
  <2>1. job[r].counts \in [Enrol!Kinds -> Nat]
    BY DEF SentinelInv, EnrolTypes, Job
  <2>2. PICK v \in Enrol!Store!Verdicts : v = Enrol!Rules(job[r].counts)
    BY <2>1, RulesGive
  <2>3. Enrol!Verdict(r, v, "rules")
    BY <1>2, <2>2 DEF Enrol!ByRules
  <2>4. RulesRuled'
    BY <2>2, <2>3, VerdictOf DEF SentinelInv, RulesRuled
  <2>5. block' \in [Asking -> {"none", "due", "sent", "lost"}]
    BY <2>3, VerdictOf DEF SentinelInv, EnrolTypes
  <2> QED
    BY <2>3, <2>4, <2>5, VerdictOf, JobsKept
<1>3. ASSUME NEW r \in Asking, Enrol!ByModel(r)
      PROVE  SentinelInv'
  <2>1. PICK v \in Enrol!Store!Verdicts : Enrol!Verdict(r, v, "model")
    BY <1>3, ModelGives DEF Enrol!ByModel
  <2>2. RulesRuled'
    <3>1. job'[r].by = "model" /\ \A q \in Asking \ {r} : job'[q] = job[q]
      BY <2>1, VerdictOf
    <3> QED
      BY <3>1 DEF SentinelInv, RulesRuled
  <2>3. block' \in [Asking -> {"none", "due", "sent", "lost"}]
    BY <2>1, VerdictOf DEF SentinelInv, EnrolTypes
  <2> QED
    BY <2>1, <2>2, <2>3, VerdictOf, JobsKept
<1>4. ASSUME NEW r \in Asking, Enrol!Raised(r)
      PROVE  SentinelInv'
  <2>1. /\ job[r].pc = "judging" /\ job' = [job EXCEPT ![r].pc = "raised"]
        /\ UNCHANGED <<now, window, events, report, ports, scans, block>>
    BY <1>4 DEF Enrol!Raised, Enrol!sentinelVars
  <2>2. job \in [Asking -> Job] /\ job[r] \in Job
    BY DEF SentinelInv, EnrolTypes
  <2>3. job'[r] = [job[r] EXCEPT !.pc = "raised"] /\ \A q \in Asking \ {r} : job'[q] = job[q]
    BY <2>1, <2>2
  <2>4. /\ job'[r].pc = "raised" /\ job'[r].by = job[r].by /\ job'[r].verdict = job[r].verdict
        /\ job'[r].key = job[r].key /\ job'[r].at = job[r].at
        /\ job'[r].kinds = job[r].kinds /\ job'[r].counts = job[r].counts
        /\ job'[r] \in Job
    BY <2>2, <2>3 DEF Job
  <2>5. job' \in [Asking -> Job]
    BY <2>1, <2>2, <2>3, <2>4
  <2>6. RulesRuled'
    <3> SUFFICES ASSUME NEW q \in Asking, job'[q].by = "rules"
                 PROVE  job'[q].pc # "idle" /\ job'[q].verdict = Enrol!Rules(job'[q].counts)
      BY DEF RulesRuled
    <3>1. job[q].by = "rules" => job[q].pc # "idle" /\ job[q].verdict = Enrol!Rules(job[q].counts)
      BY DEF SentinelInv, RulesRuled
    <3>2. CASE q = r
      <4>1. job'[q].counts = job[q].counts
        BY <2>4, <3>2
      <4> QED
        BY <2>4, <3>1, <3>2, <4>1
    <3>3. CASE q # r
      BY <2>3, <3>1, <3>3
    <3> QED
      BY <3>2, <3>3
  <2>7. block' \in [Asking -> {"none", "due", "sent", "lost"}]
    BY <2>1 DEF SentinelInv, EnrolTypes
  <2> QED
    BY <2>1, <2>3, <2>4, <2>5, <2>6, <2>7, JobsKept
<1>5. ASSUME NEW r \in Asking, Enrol!Block(r)
      PROVE  SentinelInv'
  <2>1. UNCHANGED <<now, window, events, report, ports, scans, job>>
    BY <1>5 DEF Enrol!Block, Enrol!sentinelVars
  <2>2. block' \in [Asking -> {"none", "due", "sent", "lost"}]
    BY <1>5 DEF Enrol!Block, SentinelInv, EnrolTypes
  <2>3. job' \in [Asking -> Job] /\ RulesRuled'
    BY <2>1 DEF SentinelInv, EnrolTypes, RulesRuled
  <2> QED
    BY <2>1, <2>2, <2>3, JobsKept
<1>6. CASE Enrol!Tick
  <2>1. /\ now < EnrolTicks /\ now' = now + 1
        /\ UNCHANGED <<window, ports, scans, events, report, job, block>>
    BY <1>6 DEF Enrol!Tick, Enrol!Detector!Tick, Enrol!Detector!windowVars, Enrol!Detector!scanVars
  <2>2. EnrolTypes' /\ now \in Int
    BY <2>1, EnrolAssumption DEF SentinelInv, EnrolTypes, Moments
  <2>3. ASSUME NEW x \in Seen
        PROVE  Ordered(events[x], now + 1)
    <3>1. events[x] \in Seq(Int)
      BY EnrolConstants, SeqMonotonic DEF SentinelInv, EnrolTypes
    <3>2. \A i \in DOMAIN events[x] : events[x][i] \in Int /\ events[x][i] <= now
      BY <3>1 DEF SentinelInv, QueuesAreEnds, Ordered
    <3>3. \A i \in DOMAIN events[x] : events[x][i] <= now + 1
      BY <2>2, <3>2
    <3> QED
      BY <3>3 DEF SentinelInv, QueuesAreEnds, Ordered
  <2>4. \A r \in Asking : job[r].at <= now + 1
    <3>1. \A r \in Asking : job[r].at \in Int /\ job[r].at <= now
      BY EnrolConstants DEF SentinelInv, EnrolTypes, EventsAreJobs, Job
    <3> QED
      BY <2>2, <3>1
  <2>5. QueuesAreEnds'
    BY <2>1, <2>3 DEF SentinelInv, QueuesAreEnds
  <2>6. \A k, s, D : Enrolled(k, s, D)' = Enrolled(k, s, D)
    BY <2>1 DEF Enrolled
  <2>7. \A k, s, t, m : Low(k, s, t, m)' = Low(k, s, t, m)
    BY <2>1 DEF Low, Enrolled
  <2>8. EventsAreJobs'
    BY <2>1, <2>4, <2>6 DEF SentinelInv, EventsAreJobs
  <2>9. BurstsBounded' /\ RulesRuled'
    BY <2>1, <2>7 DEF SentinelInv, BurstsBounded, RulesRuled
  <2> QED
    BY <2>2, <2>5, <2>8, <2>9 DEF SentinelInv
<1>7. CASE UNCHANGED enrolVars
  <2>1. UNCHANGED <<now, window, events, report, ports, scans, job, block>>
    BY <1>7 DEF enrolVars
  <2>2. \A r \in Asking : job'[r] = job[r]
    BY <2>1
  <2>3. job' \in [Asking -> Job] /\ block' \in [Asking -> {"none", "due", "sent", "lost"}] /\ RulesRuled'
    BY <2>1 DEF SentinelInv, EnrolTypes, RulesRuled
  <2> QED
    BY <2>1, <2>2, <2>3, JobsKept
<1> QED
  BY <1>1, <1>2, <1>3, <1>4, <1>5, <1>6, <1>7 DEF Enrol!Next, Asking

\* The sentinel and the requests, while another component is at work.
LEMMA SentinelAlways == ServerSpec => []SentinelInv
<1>1. ServerInit => SentinelInv
  BY SentinelInit DEF ServerInit
<1>2. SentinelInv /\ [ServerNext]_serverVars => SentinelInv'
  BY SentinelStep DEF ServerNext, serverVars, Rest
<1> QED
  BY <1>1, <1>2, PTL DEF ServerSpec

\* What the rules allow came with no count, and what they do not deny with small ones.
LEMMA BurstsAreBounded == SentinelInv => Enrol!RulesBoundBursts
<1> SUFFICES ASSUME SentinelInv, NEW s \in Keys, NEW k \in Enrol!Kinds, NEW t \in 0..now
             PROVE  LET judged == {r \in Asking : /\ job[r].by = "rules" /\ job[r].key = s
                                                  /\ k \in job[r].kinds
                                                  /\ job[r].at \in (t - Rule[k].window + 1)..t}
                    IN  /\ Cardinality({r \in judged : job[r].verdict = "ALLOW"}) <= Rule[k].limit
                        /\ Cardinality({r \in judged : job[r].verdict # "DENY"}) <= DenyAbove[k]
  BY EnrolOps DEF Enrol!RulesBoundBursts, Asking
<1> DEFINE judged == {r \in Asking : /\ job[r].by = "rules" /\ job[r].key = s
                                     /\ k \in job[r].kinds
                                     /\ job[r].at \in (t - Rule[k].window + 1)..t}
           allowed == {r \in judged : job[r].verdict = "ALLOW"}
           tolerated == {r \in judged : job[r].verdict # "DENY"}
<1>1. t \in Int /\ Rule[k].window \in Int /\ Rule[k].limit \in Nat /\ DenyAbove[k] \in Nat
  BY EnrolConstants DEF SentinelInv, EnrolTypes
<1>2. ASSUME NEW r \in judged
      PROVE  /\ r \in Enrolled(k, s, Span(k, t))
             /\ job[r].verdict = "ALLOW" => job[r].counts[k] <= 0
             /\ job[r].verdict # "DENY" => job[r].counts[k] <= DenyAbove[k]
  <2>1. /\ job[r].pc # "idle" /\ job[r].verdict = Enrol!Rules(job[r].counts)
        /\ job[r].counts \in [Enrol!Kinds -> Nat]
    BY DEF SentinelInv, RulesRuled, EnrolTypes, Job
  <2>2. r \in Enrolled(k, s, Span(k, t))
    BY <2>1 DEF Enrolled, Span
  <2> QED
    BY <2>1, <2>2, RulesGive
<1>3. allowed \subseteq Low(k, s, t, 0) /\ tolerated \subseteq Low(k, s, t, DenyAbove[k])
  BY <1>2 DEF Low
<1>4. Span(k, t) \in SUBSET Int
  BY <1>1 DEF Span
<1>5. \A m : IsFiniteSet(Low(k, s, t, m))
  <2>1. IsFiniteSet(Enrolled(k, s, Span(k, t)))
    BY <1>4 DEF SentinelInv, EventsAreJobs
  <2>2. \A m : Low(k, s, t, m) \subseteq Enrolled(k, s, Span(k, t))
    BY DEF Low
  <2> QED
    BY <2>1, <2>2, FS_Subset
<1>6. /\ Cardinality(Low(k, s, t, 0)) <= Rule[k].limit
      /\ Cardinality(Low(k, s, t, DenyAbove[k])) <= DenyAbove[k]
  BY <1>1 DEF SentinelInv, BurstsBounded
<1> HIDE DEF allowed, tolerated
<1>7. /\ Cardinality(allowed) <= Cardinality(Low(k, s, t, 0))
      /\ Cardinality(tolerated) <= Cardinality(Low(k, s, t, DenyAbove[k]))
      /\ Cardinality(allowed) \in Nat /\ Cardinality(Low(k, s, t, 0)) \in Nat
      /\ Cardinality(tolerated) \in Nat /\ Cardinality(Low(k, s, t, DenyAbove[k])) \in Nat
  BY <1>3, <1>5, FS_Subset, FS_CardinalityType
<1>8. Cardinality(allowed) <= Rule[k].limit /\ Cardinality(tolerated) <= DenyAbove[k]
  BY <1>1, <1>6, <1>7
<1> QED
  BY <1>8 DEF allowed, tolerated

\* A verdict that is stored.
Told == [id : Asking, verdict : Enrol!Store!Verdicts]

\* The request has been told a verdict.
Closed(r) == job[r].pc \in {"answered", "refused"}

\* The calls of store are the verdicts that were told, one for each request.
CallsAreVerdicts ==
    /\ stored \in Seq(Told)
    /\ \A i, j \in DOMAIN stored : stored[i].id = stored[j].id => i = j
    /\ \A i \in DOMAIN stored :
          Closed(stored[i].id) /\ stored[i].verdict = job[stored[i].id].verdict
    /\ \A r \in Asking : Closed(r) => \E i \in DOMAIN stored : stored[i].id = r

\* The queue is the end of them, and the dictionary has what is in the queue.
StoreIsTheEnd ==
    /\ order \in Seq(Asking) /\ Len(order) = Least(Len(stored), Capacity)
    /\ \A i \in 1..Len(order) : order[i] = stored[Len(stored) - Len(order) + i].id
    /\ sessions \in [{order[i] : i \in 1..Len(order)} -> Enrol!Store!Record]
    /\ \A r \in DOMAIN sessions :
          sessions[r] = [verdict |-> job[r].verdict, token |-> job[r].verdict # "DENY"]

RefusedAreBlocked ==
    \A r \in Asking : job[r].pc = "refused" => job[r].verdict = "DENY" /\ block[r] # "none"

StoreInv == CallsAreVerdicts /\ StoreIsTheEnd /\ RefusedAreBlocked

\* Nothing has been stored.
LEMMA StoreInit == Enrol!Init => StoreInv
<1> SUFFICES ASSUME Enrol!Init
             PROVE  StoreInv
  OBVIOUS
<1>1. /\ stored = << >> /\ order = << >> /\ sessions = [i \in {} |-> 0]
      /\ job = [r \in Asking |-> Enrol!Waiting]
  BY DEF Enrol!Init, Enrol!Store!Init, Asking
<1>2. \A r \in Asking : job[r].pc = "idle"
  BY <1>1 DEF Enrol!Waiting
<1>3. /\ stored \in Seq(Told) /\ order \in Seq(Asking)
      /\ Len(order) = 0 /\ Len(stored) = 0 /\ DOMAIN stored = {}
  BY <1>1, EmptySeq
<1>4. CallsAreVerdicts /\ RefusedAreBlocked
  BY <1>2, <1>3 DEF CallsAreVerdicts, RefusedAreBlocked, Closed
<1>5. StoreIsTheEnd
  <2>1. {order[i] : i \in 1..Len(order)} = {}
    BY <1>3
  <2> QED
    BY <1>1, <1>3, <2>1, EnrolAssumption DEF StoreIsTheEnd, Least
<1> QED
  BY <1>4, <1>5 DEF StoreInv

\* Steps that tell no verdict leave the store.
LEMMA StoreKept ==
    ASSUME StoreInv, UNCHANGED <<sessions, order, stored>>,
           \A r \in Asking : /\ Closed(r)' <=> Closed(r)
                             /\ Closed(r) => job'[r] = job[r]
                             /\ block[r] # "none" => block'[r] # "none"
    PROVE  StoreInv'
<1>0. \A i \in DOMAIN stored : stored[i].id \in Asking
  <2>1. stored \in Seq(Told)
    BY DEF StoreInv, CallsAreVerdicts
  <2>2. \A i \in DOMAIN stored : stored[i] \in Told
    BY <2>1
  <2> QED
    BY <2>2 DEF Told
<1>1. CallsAreVerdicts'
  BY <1>0 DEF StoreInv, CallsAreVerdicts
<1>2. StoreIsTheEnd'
  <2>1. \A r \in DOMAIN sessions : r \in Asking /\ Closed(r)
    <3> SUFFICES ASSUME NEW i \in 1..Len(order)
                 PROVE  order[i] \in Asking /\ Closed(order[i])
      BY DEF StoreInv, StoreIsTheEnd
    <3>1. Len(stored) \in Nat /\ Len(order) \in Nat /\ Len(order) <= Len(stored)
          /\ DOMAIN stored = 1..Len(stored)
      BY EnrolAssumption DEF StoreInv, StoreIsTheEnd, CallsAreVerdicts, Least
    <3>2. PICK j \in DOMAIN stored : order[i] = stored[j].id
      BY <3>1 DEF StoreInv, StoreIsTheEnd
    <3> QED
      BY <1>0, <3>2 DEF StoreInv, CallsAreVerdicts
  <2>2. \A r \in DOMAIN sessions : job'[r] = job[r]
    BY <2>1
  <2>3. \A r \in DOMAIN sessions :
           sessions'[r] = [verdict |-> job'[r].verdict, token |-> job'[r].verdict # "DENY"]
    <3> SUFFICES ASSUME NEW r \in DOMAIN sessions
                 PROVE  sessions'[r] = [verdict |-> job'[r].verdict, token |-> job'[r].verdict # "DENY"]
      OBVIOUS
    <3>1. sessions[r] = [verdict |-> job[r].verdict, token |-> job[r].verdict # "DENY"]
      BY DEF StoreInv, StoreIsTheEnd
    <3>2. sessions'[r] = sessions[r] /\ job'[r] = job[r]
      BY <2>2
    <3> QED
      BY <3>1, <3>2, Zenon
  <2> QED
    BY <2>3 DEF StoreInv, StoreIsTheEnd
<1>3. RefusedAreBlocked'
  BY DEF StoreInv, RefusedAreBlocked, Closed
<1> QED
  BY <1>1, <1>2, <1>3 DEF StoreInv

\* A queue that is full loses its first member for the new one.
LEMMA Queued ==
    ASSUME NEW S, NEW q \in Seq(S), NEW x \in S, NEW most \in Nat \ {0}, Len(q) <= most
    PROVE  LET d == IF Len(q) >= most THEN 1 ELSE 0
               p == Append(IF Len(q) >= most THEN Tail(q) ELSE q, x)
           IN  /\ p \in Seq(S) /\ Len(p) = Len(q) - d + 1
               /\ \A i \in 1..(Len(q) - d) : p[i] = q[i + d]
               /\ p[Len(q) - d + 1] = x
<1>1. Len(q) \in Nat
  OBVIOUS
<1>2. CASE Len(q) >= most
  <2>1. q # << >>
    BY <1>2
  <2>2. PICK u : u = Tail(q)
    OBVIOUS
  <2>3. u \in Seq(S) /\ Len(u) = Len(q) - 1 /\ \A i \in 1..(Len(q) - 1) : u[i] = q[i + 1]
    BY <2>1, <2>2, HeadTailProperties
  <2>4. /\ Append(u, x) \in Seq(S) /\ Len(Append(u, x)) = Len(u) + 1
        /\ \A i \in 1..Len(u) : Append(u, x)[i] = u[i]
        /\ Append(u, x)[Len(u) + 1] = x
    BY <2>3, AppendProperties
  <2> QED
    BY <1>1, <1>2, <2>2, <2>3, <2>4
<1>3. CASE ~(Len(q) >= most)
  <2>1. /\ Append(q, x) \in Seq(S) /\ Len(Append(q, x)) = Len(q) + 1
        /\ \A i \in 1..Len(q) : Append(q, x)[i] = q[i]
        /\ Append(q, x)[Len(q) + 1] = x
    BY AppendProperties
  <2> QED
    BY <1>1, <1>3, <2>1
<1> QED
  BY <1>2, <1>3

\* What the invariant says of the queue.
LEMMA StoreAt ==
    ASSUME StoreInv
    PROVE  /\ stored \in Seq(Told)
           /\ order \in Seq(Asking)
           /\ Len(stored) \in Nat /\ Len(order) \in Nat /\ DOMAIN stored = 1..Len(stored)
           /\ DOMAIN order = 1..Len(order)
           /\ Len(order) = Least(Len(stored), Capacity) /\ Len(order) <= Len(stored)
           /\ Len(order) <= Capacity /\ Capacity \in Nat \ {0}
           /\ \A i \in 1..Len(stored) : stored[i].id \in Asking /\ Closed(stored[i].id)
           /\ \A i, j \in 1..Len(stored) : stored[i].id = stored[j].id => i = j
           /\ \A i \in 1..Len(order) : order[i] = stored[Len(stored) - Len(order) + i].id
           /\ \A i, j \in 1..Len(order) : order[i] = order[j] => i = j
           /\ \A i \in 1..Len(order) : Closed(order[i])
<1>1. /\ stored \in Seq(Told) /\ order \in Seq(Asking)
      /\ Len(order) = Least(Len(stored), Capacity)
      /\ \A i \in 1..Len(order) : order[i] = stored[Len(stored) - Len(order) + i].id
  BY DEF StoreInv, CallsAreVerdicts, StoreIsTheEnd
<1>2. /\ Len(stored) \in Nat /\ Len(order) \in Nat /\ DOMAIN stored = 1..Len(stored)
      /\ DOMAIN order = 1..Len(order)
      /\ \A i \in 1..Len(stored) : stored[i] \in Told
  BY <1>1
<1>3. Len(order) <= Len(stored) /\ Len(order) <= Capacity /\ Capacity \in Nat \ {0}
  BY <1>1, <1>2, EnrolAssumption DEF Least
<1>4. \A i \in 1..Len(stored) : stored[i].id \in Asking /\ Closed(stored[i].id)
  BY <1>2 DEF StoreInv, CallsAreVerdicts, Told
<1>5. \A i, j \in 1..Len(stored) : stored[i].id = stored[j].id => i = j
  BY <1>2 DEF StoreInv, CallsAreVerdicts
<1>6. \A i \in 1..Len(order) : Len(stored) - Len(order) + i \in 1..Len(stored)
  BY <1>2, <1>3
<1>7. \A i \in 1..Len(order) : Closed(order[i])
  BY <1>1, <1>4, <1>6
<1>8. ASSUME NEW i \in 1..Len(order), NEW j \in 1..Len(order), order[i] = order[j]
      PROVE  i = j
  <2>1. Len(stored) - Len(order) + i = Len(stored) - Len(order) + j
    BY <1>1, <1>5, <1>6, <1>8
  <2> QED
    BY <1>2, <2>1
<1> QED
  BY <1>1, <1>2, <1>3, <1>4, <1>5, <1>7, <1>8

\* A verdict is told: its request was not in the store, and is the last in it.
LEMMA StoreStep ==
    ASSUME SentinelInv, StoreInv, NEW r \in Asking, NEW v \in Enrol!Store!Verdicts,
           NEW author \in {"model", "rules"}, Enrol!Verdict(r, v, author)
    PROVE  StoreInv'
<1> DEFINE d == IF Len(order) >= Capacity THEN 1 ELSE 0
           n == Len(stored)
           m == Len(order)
           call == [id |-> r, verdict |-> v]
<1>1. /\ order' = Append(IF Len(order) >= Capacity THEN Tail(order) ELSE order, r)
      /\ stored' = Append(stored, call)
      /\ sessions' = [i \in (DOMAIN sessions \cup {r}) \ Enrol!Store!Dropped(r) |->
                        IF i = r THEN [verdict |-> v, token |-> v # "DENY"] ELSE sessions[i]]
  <2>1. Enrol!Store!Store(r, v)
    BY DEF Enrol!Verdict
  <2> QED
    BY <2>1, Zenon DEF Enrol!Store!Store, Enrol!Store!Appended
<1>2. /\ job[r].pc = "judging" /\ Closed(r)' /\ ~Closed(r)
      /\ job'[r].verdict = v /\ \A q \in Asking \ {r} : job'[q] = job[q]
      /\ job'[r].pc = "refused" => v = "DENY"
      /\ block' = [block EXCEPT ![r] = IF job'[r].pc = "refused" THEN "due" ELSE block[r]]
      /\ block \in [Asking -> {"none", "due", "sent", "lost"}]
  BY VerdictOf DEF Closed, SentinelInv, EnrolTypes
<1>3. /\ d \in {0, 1} /\ m - d \in Nat /\ n \in Nat /\ m \in Nat
      /\ order' \in Seq(Asking) /\ Len(order') = m - d + 1
      /\ \A i \in 1..(m - d) : order'[i] = order[i + d]
      /\ order'[m - d + 1] = r
  <2>1. order \in Seq(Asking) /\ m \in Nat /\ m <= Capacity /\ Capacity \in Nat \ {0} /\ n \in Nat
    BY StoreAt
  <2>2. d \in {0, 1} /\ m - d \in Nat
    BY <2>1
  <2>3. /\ order' \in Seq(Asking) /\ Len(order') = m - d + 1
        /\ \A i \in 1..(m - d) : order'[i] = order[i + d]
        /\ order'[m - d + 1] = r
    BY <1>1, <2>1, Queued
  <2> QED
    BY <2>1, <2>2, <2>3
<1>4. /\ stored' \in Seq(Told) /\ Len(stored') = n + 1
      /\ \A i \in 1..n : stored'[i] = stored[i]
      /\ stored'[n + 1].id = r /\ stored'[n + 1].verdict = v
      /\ DOMAIN stored' = 1..(n + 1) /\ DOMAIN stored = 1..n
  <2>1. call \in Told /\ call.id = r /\ call.verdict = v
    BY DEF Told
  <2> HIDE DEF call
  <2> QED
    BY <1>1, <2>1, StoreAt, AppendProperties
<1>5. \A i \in 1..n : stored[i].id \in Asking \ {r}
  BY <1>2, StoreAt
<1>6. \A i \in 1..m : order[i] \in Asking \ {r}
  BY <1>2, StoreAt
<1>7. CallsAreVerdicts'
  <2>1. \A i, j \in 1..(n + 1) : stored'[i].id = stored'[j].id => i = j
    <3> SUFFICES ASSUME NEW i \in 1..(n + 1), NEW j \in 1..(n + 1), stored'[i].id = stored'[j].id
                 PROVE  i = j
      OBVIOUS
    <3>1. CASE i = n + 1 /\ j = n + 1
      BY <3>1
    <3>2. CASE i \in 1..n /\ j = n + 1
      BY <1>4, <1>5, <3>2
    <3>3. CASE i = n + 1 /\ j \in 1..n
      BY <1>4, <1>5, <3>3
    <3>4. CASE i \in 1..n /\ j \in 1..n
      BY <1>4, <3>4, StoreAt
    <3> QED
      BY <1>3, <3>1, <3>2, <3>3, <3>4
  <2>2. ASSUME NEW i \in 1..(n + 1)
        PROVE  job'[stored'[i].id].pc \in {"answered", "refused"}
               /\ stored'[i].verdict = job'[stored'[i].id].verdict
    <3>1. CASE i = n + 1
      BY <1>2, <1>4, <3>1 DEF Closed
    <3>2. CASE i \in 1..n
      <4>1. /\ stored'[i] = stored[i] /\ stored[i].id \in Asking \ {r}
            /\ job'[stored[i].id] = job[stored[i].id]
        BY <1>2, <1>4, <1>5, <3>2
      <4>2. job[stored[i].id].pc \in {"answered", "refused"}
            /\ stored[i].verdict = job[stored[i].id].verdict
        BY <1>4, <3>2 DEF StoreInv, CallsAreVerdicts, Closed
      <4> QED
        BY <4>1, <4>2
    <3> QED
      BY <1>3, <3>1, <3>2
  <2>3. ASSUME NEW q \in Asking, job'[q].pc \in {"answered", "refused"}
        PROVE  \E i \in 1..(n + 1) : stored'[i].id = q
    <3>1. CASE q = r
      BY <1>3, <1>4, <3>1
    <3>2. CASE q # r
      <4>1. Closed(q)
        BY <1>2, <2>3, <3>2 DEF Closed
      <4>2. PICK i \in 1..n : stored[i].id = q
        BY <1>4, <4>1 DEF StoreInv, CallsAreVerdicts
      <4> QED
        BY <1>3, <1>4, <4>2
    <3> QED
      BY <3>1, <3>2
  <2> QED
    BY <1>4, <2>1, <2>2, <2>3 DEF CallsAreVerdicts, Closed
<1>8. RefusedAreBlocked'
  BY <1>2 DEF StoreInv, RefusedAreBlocked
<1>9. Len(order') = Least(Len(stored'), Capacity)
      /\ \A i \in 1..Len(order') : order'[i] = stored'[Len(stored') - Len(order') + i].id
  <2>1. /\ m = Least(n, Capacity) /\ m <= n /\ m <= Capacity /\ Capacity \in Nat \ {0}
        /\ \A i \in 1..m : order[i] = stored[n - m + i].id
    BY StoreAt
  <2>2. Len(order') = Least(n + 1, Capacity)
    <3>1. /\ Len(order') = m - d + 1 /\ n \in Nat /\ m \in Nat
          /\ m >= Capacity => d = 1
          /\ ~(m >= Capacity) => d = 0
      BY <1>3
    <3>2. m <= n /\ m <= Capacity /\ Capacity \in Nat /\ (m = n \/ m = Capacity)
      BY <2>1 DEF Least
    <3>3. \A l : Least(l, Capacity) = IF l < Capacity THEN l ELSE Capacity
      BY DEF Least
    <3> HIDE DEF m, n, d
    <3>4. Len(order') = IF n + 1 < Capacity THEN n + 1 ELSE Capacity
      BY <3>1, <3>2
    <3> QED
      BY <3>3, <3>4
  <2>3. ASSUME NEW i \in 1..(m - d + 1)
        PROVE  order'[i] = stored'[(n + 1) - (m - d + 1) + i].id
    <3>1. CASE i = m - d + 1
      <4>1. (n + 1) - (m - d + 1) + i = n + 1
        BY <1>3, <3>1
      <4> QED
        BY <1>3, <1>4, <3>1, <4>1
    <3>2. CASE i # m - d + 1
      <4>1. /\ i \in 1..(m - d) /\ i + d \in 1..m
            /\ (n + 1) - (m - d + 1) + i = n - m + (i + d) /\ n - m + (i + d) \in 1..n
        <5>1. PICK e \in {0, 1} : e = d
          BY <1>3
        <5>2. i \in 1..(m - e + 1) /\ i # m - e + 1 /\ m - e \in Nat /\ m <= n
          BY <1>3, <2>1, <3>2, <5>1
        <5> HIDE DEF d, m, n
        <5>3. /\ i \in 1..(m - e) /\ i + e \in 1..m
              /\ (n + 1) - (m - e + 1) + i = n - m + (i + e) /\ n - m + (i + e) \in 1..n
          BY <1>3, <5>2
        <5> QED
          BY <5>1, <5>3
      <4>2. order'[i] = order[i + d] /\ order[i + d] = stored[n - m + (i + d)].id
        BY <1>3, <2>1, <4>1
      <4> QED
        BY <1>4, <4>1, <4>2
    <3> QED
      BY <3>1, <3>2
  <2> QED
    BY <1>3, <1>4, <2>2, <2>3
\* The one that falls out of the queue is in it no more.
<1>10. (DOMAIN sessions \cup {r}) \ Enrol!Store!Dropped(r) = {order'[i] : i \in 1..Len(order')}
  <2>1. DOMAIN sessions = {order[i] : i \in 1..m}
    BY DEF StoreInv, StoreIsTheEnd
  <2>2. {order'[i] : i \in 1..Len(order')} = {order[i + d] : i \in 1..(m - d)} \cup {r}
    <3>1. \A i \in 1..Len(order') : i \in 1..(m - d) \/ i = m - d + 1
      BY <1>3
    <3>2. \A i \in 1..(m - d) : i \in 1..Len(order')
      BY <1>3
    <3>3. m - d + 1 \in 1..Len(order')
      BY <1>3
    <3> QED
      BY <1>3, <3>1, <3>2, <3>3
  <2>3. Enrol!Store!Members(order') = {order'[i] : i \in 1..Len(order')}
    BY <1>3 DEF Enrol!Store!Members
  <2>4. Enrol!Store!Dropped(r) = IF m >= Capacity THEN {Head(order)} \ Enrol!Store!Members(order') ELSE {}
    BY <1>1, Zenon DEF Enrol!Store!Dropped, Enrol!Store!Appended
  <2>5. CASE m >= Capacity
    <3>1. d = 1 /\ m \in Nat \ {0} /\ Head(order) = order[1]
      BY <2>5, StoreAt
    <3>2. \A i \in 1..(m - 1) : i + 1 \in 2..m
      BY <3>1
    <3>3. \A i \in 2..m : i - 1 \in 1..(m - 1) /\ (i - 1) + 1 = i
      BY <3>1
    <3>4. {order[i + 1] : i \in 1..(m - 1)} = {order[i] : i \in 2..m}
      BY <3>2, <3>3
    <3>5. order[1] \notin {order[i] : i \in 2..m}
      BY <3>1, StoreAt
    <3>6. {order[i] : i \in 1..m} = {order[1]} \cup {order[i] : i \in 2..m}
      <4>1. \A i \in 1..m : i = 1 \/ i \in 2..m
        BY <3>1
      <4>2. 1 \in 1..m /\ \A i \in 2..m : i \in 1..m
        BY <3>1
      <4> QED
        BY <4>1, <4>2
    <3>7. order[1] # r
      BY <1>6, <3>1
    <3> QED
      BY <2>1, <2>2, <2>3, <2>4, <2>5, <3>1, <3>4, <3>5, <3>6, <3>7
  <2>6. CASE ~(m >= Capacity)
    <3>1. d = 0
      BY <2>6
    <3>2. {order[i + 0] : i \in 1..(m - 0)} = {order[i] : i \in 1..m}
      BY <1>3
    <3> QED
      BY <2>1, <2>2, <2>4, <2>6, <3>1, <3>2
  <2> QED
    BY <2>5, <2>6
<1>11. StoreIsTheEnd'
  <2>1. DOMAIN sessions' = {order'[i] : i \in 1..Len(order')}
    BY <1>1, <1>10
  <2>2. ASSUME NEW q \in DOMAIN sessions'
        PROVE  /\ sessions'[q] = [verdict |-> job'[q].verdict, token |-> job'[q].verdict # "DENY"]
               /\ sessions'[q] \in Enrol!Store!Record
    <3>1. CASE q = r
      <4>1. sessions'[q] = [verdict |-> v, token |-> v # "DENY"]
        BY <1>1, <3>1
      <4> QED
        BY <1>2, <3>1, <4>1 DEF Enrol!Store!Record
    <3>2. CASE q # r
      <4>1. q \in DOMAIN sessions /\ sessions'[q] = sessions[q]
        BY <1>1, <3>2
      <4>2. q \in Asking \ {r}
        BY <1>6, <4>1 DEF StoreInv, StoreIsTheEnd
      <4> QED
        BY <1>2, <4>1, <4>2 DEF StoreInv, StoreIsTheEnd
    <3> QED
      BY <3>1, <3>2
  <2>3. sessions' \in [{order'[i] : i \in 1..Len(order')} -> Enrol!Store!Record]
    BY <1>1, <2>1, <2>2
  <2> QED
    BY <1>3, <1>9, <2>2, <2>3 DEF StoreIsTheEnd
<1> QED
  BY <1>7, <1>8, <1>11 DEF StoreInv

\* Verdicts are stored; every other step leaves what was told, and the block of a
\* source that is refused.
LEMMA EnrolStep ==
    ASSUME SentinelInv, StoreInv, Enrol!Next \/ UNCHANGED enrolVars
    PROVE  StoreInv'
<1>0. job \in [Asking -> Job] /\ block \in [Asking -> {"none", "due", "sent", "lost"}]
  BY DEF SentinelInv, EnrolTypes
<1>1. ASSUME NEW r \in Asking, NEW s \in Keys, NEW kinds \in SUBSET Enrol!Kinds,
             Enrol!Enroll(r, s, kinds)
      PROVE  StoreInv'
  <2> DEFINE mine == [Enrol!Waiting EXCEPT !.pc = "judging", !.key = s, !.at = now,
                                           !.kinds = kinds, !.counts = report'.counts]
  <2>1. /\ job[r].pc = "idle" /\ job' = [job EXCEPT ![r] = mine]
        /\ UNCHANGED <<sessions, order, stored, block>>
    BY <1>1 DEF Enrol!Enroll, Enrol!storeVars
  <2>2. mine.pc = "judging"
    BY DEF Enrol!Waiting
  <2> HIDE DEF mine
  <2>3. job'[r].pc = "judging" /\ \A q \in Asking \ {r} : job'[q] = job[q]
    BY <1>0, <2>1, <2>2
  <2> QED
    BY <2>1, <2>3, StoreKept DEF Closed
<1>2. ASSUME NEW r \in Asking, Enrol!ByRules(r)
      PROVE  StoreInv'
  <2>1. job[r].counts \in [Enrol!Kinds -> Nat]
    BY <1>0 DEF Job
  <2>2. PICK v \in Enrol!Store!Verdicts : v = Enrol!Rules(job[r].counts)
    BY <2>1, RulesGive
  <2>3. Enrol!Verdict(r, v, "rules")
    BY <1>2, <2>2 DEF Enrol!ByRules
  <2> QED
    BY <2>3, StoreStep
<1>3. ASSUME NEW r \in Asking, Enrol!ByModel(r)
      PROVE  StoreInv'
  <2>1. PICK v \in Enrol!Store!Verdicts : Enrol!Verdict(r, v, "model")
    BY <1>3, ModelGives DEF Enrol!ByModel
  <2> QED
    BY <2>1, StoreStep
<1>4. ASSUME NEW r \in Asking, Enrol!Raised(r)
      PROVE  StoreInv'
  <2>1. /\ job[r].pc = "judging" /\ job' = [job EXCEPT ![r].pc = "raised"]
        /\ UNCHANGED <<sessions, order, stored, block>>
    BY <1>4 DEF Enrol!Raised, Enrol!storeVars
  <2>2. job[r] \in Job
    BY <1>0
  <2>3. job'[r].pc = "raised" /\ \A q \in Asking \ {r} : job'[q] = job[q]
    BY <1>0, <2>1, <2>2 DEF Job
  <2> QED
    BY <2>1, <2>3, StoreKept DEF Closed
<1>5. ASSUME NEW r \in Asking, Enrol!Block(r)
      PROVE  StoreInv'
  <2>1. /\ block' \in {[block EXCEPT ![r] = end] : end \in {"sent", "lost"}}
        /\ UNCHANGED <<sessions, order, stored, job>>
    BY <1>5 DEF Enrol!Block, Enrol!storeVars
  <2>2. \A q \in Asking : block[q] # "none" => block'[q] # "none"
    BY <1>0, <2>1
  <2> QED
    BY <2>1, <2>2, StoreKept DEF Closed
<1>6. CASE Enrol!Tick
  BY <1>6, StoreKept DEF Enrol!Tick, Enrol!storeVars, Closed
<1>7. CASE UNCHANGED enrolVars
  BY <1>7, StoreKept DEF enrolVars, Closed
<1> QED
  BY <1>1, <1>2, <1>3, <1>4, <1>5, <1>6, <1>7 DEF Enrol!Next, Asking

\* The store, while another component is at work.
LEMMA StoreAlways == ServerSpec => []StoreInv
<1>1. ServerInit => StoreInv
  BY StoreInit DEF ServerInit
<1>2. SentinelInv /\ StoreInv /\ [ServerNext]_serverVars => StoreInv'
  BY EnrolStep DEF ServerNext, serverVars, Rest
<1> QED
  BY <1>1, <1>2, SentinelAlways, PTL DEF ServerSpec

\* The store is the last calls, and tells what their requests were told.
LEMMA StoreIsTold == StoreInv => Enrol!StoreTellsTheAnswers
<1> SUFFICES ASSUME StoreInv
             PROVE  Enrol!StoreTellsTheAnswers
  OBVIOUS
<1> DEFINE n == Len(stored)
           m == Len(order)
           kept == IF n < Capacity THEN 1..n ELSE (n - Capacity + 1)..n
<1>1. /\ DOMAIN sessions = {order[i] : i \in 1..m}
      /\ \A r \in DOMAIN sessions :
            sessions[r] = [verdict |-> job[r].verdict, token |-> job[r].verdict # "DENY"]
  BY DEF StoreInv, StoreIsTheEnd
<1>2. /\ n \in Nat /\ m \in Nat /\ m <= n /\ m = Least(n, Capacity) /\ Capacity \in Nat
      /\ DOMAIN stored = 1..n
      /\ \A i \in 1..m : order[i] = stored[n - m + i].id
      /\ \A i, j \in 1..n : stored[i].id = stored[j].id => i = j
      /\ \A i \in 1..n : stored[i].id \in Asking
  BY StoreAt
<1>3. \A j \in 1..n : stored[j].verdict = job[stored[j].id].verdict
  BY <1>2 DEF StoreInv, CallsAreVerdicts
<1>4. kept = (n - m + 1)..n
  <2>1. CASE n < Capacity
    <3>1. m = n /\ n - n + 1 = 1
      BY <1>2, <2>1 DEF Least
    <3> QED
      BY <2>1, <3>1
  <2>2. CASE ~(n < Capacity)
    <3>1. m = Capacity
      BY <1>2, <2>2 DEF Least
    <3> QED
      BY <2>2, <3>1
  <2> QED
    BY <2>1, <2>2
<1>5. {order[i] : i \in 1..m} = {stored[j].id : j \in kept}
  <2>1. \A i \in 1..m : n - m + i \in (n - m + 1)..n
    BY <1>2
  <2>2. \A j \in (n - m + 1)..n : j - (n - m) \in 1..m /\ n - m + (j - (n - m)) = j
    BY <1>2
  <2>3. \A j \in (n - m + 1)..n : order[j - (n - m)] = stored[j].id
    BY <1>2, <2>2
  <2>4. kept = (n - m + 1)..n
    BY <1>4
  <2> HIDE DEF n, m, kept
  <2>5. ASSUME NEW i \in 1..m
        PROVE  order[i] \in {stored[j].id : j \in (n - m + 1)..n}
    BY <1>2, <2>1
  <2>6. ASSUME NEW j \in (n - m + 1)..n
        PROVE  stored[j].id \in {order[i] : i \in 1..m}
    BY <2>2, <2>3
  <2> QED
    BY <2>4, <2>5, <2>6
<1>6. ASSUME NEW r \in DOMAIN sessions
      PROVE  r \in Asking /\ Enrol!Store!LatestOf(r).verdict = job[r].verdict
  <2>1. PICK j \in 1..n : stored[j].id = r
    <3>1. \A i \in kept : i \in 1..n
      BY <1>2, <1>4
    <3> QED
      BY <1>1, <1>5, <3>1
  <2> DEFINE about == {i \in DOMAIN stored : stored[i].id = r}
             last == CHOOSE i \in about : \A k \in about : k <= i
  <2>2. about = {j}
    BY <1>2, <2>1
  <2>3. j <= j
    BY <1>2, <2>1
  <2>4. last = j
    BY <2>2, <2>3
  <2>5. Enrol!Store!LatestOf(r) = stored[last]
    BY DEF Enrol!Store!LatestOf
  <2> HIDE DEF last
  <2> QED
    BY <1>2, <1>3, <2>1, <2>4, <2>5
<1>10. ASSUME NEW r \in DOMAIN sessions
       PROVE  /\ sessions[r].verdict = job[r].verdict
              /\ job[r].verdict = "DENY" => ~sessions[r].token
  <2>1. sessions[r] = [verdict |-> job[r].verdict, token |-> job[r].verdict # "DENY"]
    BY <1>1
  <2>2. PICK t : t = (job[r].verdict # "DENY")
    OBVIOUS
  <2>3. sessions[r] = [verdict |-> job[r].verdict, token |-> t]
    BY <2>1, <2>2, Zenon
  <2>4. sessions[r].verdict = job[r].verdict /\ sessions[r].token = t
    BY <2>3
  <2> QED
    BY <2>2, <2>4, Zenon
<1>7. Enrol!Store!StoreIsLatest
  <2>1. \A r \in DOMAIN sessions : sessions[r].verdict = job[r].verdict
    BY <1>10
  <2>2. DOMAIN sessions = {stored[j].id : j \in kept}
    BY <1>1, <1>5
  <2> QED
    BY <1>6, <2>1, <2>2 DEF Enrol!Store!StoreIsLatest
<1>8. \A r \in DOMAIN sessions :
          /\ sessions[r].verdict = job[r].verdict
          /\ job[r].pc = "refused" => ~sessions[r].token /\ block[r] # "none"
  <2> SUFFICES ASSUME NEW r \in DOMAIN sessions
               PROVE  /\ sessions[r].verdict = job[r].verdict
                      /\ job[r].pc = "refused" => ~sessions[r].token /\ block[r] # "none"
    OBVIOUS
  <2>1. job[r].pc = "refused" => job[r].verdict = "DENY" /\ block[r] # "none"
    BY <1>6 DEF StoreInv, RefusedAreBlocked
  <2> QED
    BY <1>10, <2>1
<1>9. \A r \in Asking : job[r].pc \in {"answered", "refused"} => \E i \in DOMAIN stored : stored[i].id = r
  BY DEF StoreInv, CallsAreVerdicts, Closed
<1> QED
  BY <1>7, <1>8, <1>9 DEF Enrol!StoreTellsTheAnswers, Asking

\* The parser, case by case.
LEMMA ParsedAsAnswered == NoStrongerThanTheAnswer
<1> SUFFICES ASSUME NEW a \in Answers
             PROVE  /\ a.form \in {"object", "block"} /\ a.confidence = "low" => Parse(a) = "MONITOR"
                    /\ Parse(a) \in {"ALLOW", "DENY"} => Parse(a) \in a.words
                    /\ Parse(a) = "ALLOW" /\ "DENY" \in a.words =>
                          a.form \in {"object", "block"} /\ Readable(a) /\ a.verdict = "ALLOW"
  BY DEF NoStrongerThanTheAnswer
<1>1. /\ a.form \in {"object", "value", "block", "text"}
      /\ a.verdict \in {"ALLOW", "DENY", "MONITOR", "other"}
      /\ a.confidence \in {"low", "high", "nan", "text", "null"}
      /\ a.form \in {"object", "block"} => {a.verdict} \cap {"ALLOW", "DENY"} \subseteq a.words
  BY DEF Answers, Verdicts
<1>2. CASE a.form = "value" \/ (a.form = "object" /\ a.confidence = "null")
  <2>1. Parse(a) = "raises"
    BY <1>1, <1>2 DEF Parse, Readable
  <2> QED
    BY <1>2, <2>1
<1>3. CASE a.form \in {"object", "block"} /\ Readable(a)
  <2>1. Parse(a) = Build(a)
    BY <1>3 DEF Parse, Readable
  <2>2. Build(a) = IF a.verdict = "other" \/ a.confidence = "low" THEN "MONITOR" ELSE a.verdict
    BY DEF Build
  <2> QED
    BY <1>1, <1>3, <2>1, <2>2
<1>4. CASE /\ ~(a.form = "value" \/ (a.form = "object" /\ a.confidence = "null"))
           /\ ~(a.form \in {"object", "block"} /\ Readable(a))
  <2>1. Parse(a) = ByKeyword(a)
    BY <1>4 DEF Parse
  <2>2. a.form \in {"object", "block"} => a.confidence # "low"
    BY <1>4 DEF Readable
  <2> QED
    BY <2>1, <2>2 DEF ByKeyword
<1> QED
  BY <1>2, <1>3, <1>4

\* What the rules allow is bounded, a session is stored as it was answered, and an
\* answer of the model is read as no more than it says.
THEOREM AdmissionSafe == ServerSpec => []Admission
<1>1. SentinelInv /\ StoreInv => Admission
  BY BurstsAreBounded, StoreIsTold, ParsedAsAnswered DEF Admission, Enrol!Admission
<1> QED
  BY <1>1, SentinelAlways, StoreAlways, PTL

(***************************************************************************)
(* All of them                                                             *)
(***************************************************************************)

\* The simulation's invariant gives its types.
LEMMA SimTyped == SimInv => Sim!TypeOK
BY Zenon DEF SimInv, SimTypes, SimQueue, Sim!TypeOK

\* So does that of the statistics.
LEMMA StatsTyped == StatsInv => Stats!TypeOK
<1> SUFFICES ASSUME StatsInv
             PROVE  Stats!TypeOK
  OBVIOUS
<1>1. changes \in Seq(Change) /\ Len(changes) \in Nat
  BY ChangesAre DEF StatsInv
<1>2. drops \in Nat
  <2>1. \A i \in 0..Len(changes) : SumsOf(changes)[i] \in Nat
    BY <1>1, SumsExist
  <2> QED
    BY <1>1, <2>1 DEF StatsInv
<1>3. cache.seen \in 0..Len(changes)
  BY <1>1 DEF StatsInv
<1> QED
  BY <1>2, <1>3 DEF StatsInv, Stats!TypeOK

\* So do those of enrolment, with its sentinel and its store, of bounded queues both.
LEMMA EnrolTyped == SentinelInv /\ StoreInv => Enrol!TypeOK
<1> SUFFICES ASSUME SentinelInv, StoreInv
             PROVE  Enrol!TypeOK
  OBVIOUS
<1>1. EnrolTypes
  BY DEF SentinelInv
<1>2. Enrol!Detector!TypeOK
  <2>1. ASSUME NEW k \in Enrol!Kinds, NEW s \in Keys
        PROVE  Len(window[<<k, s>>]) <= Rule[k].keep
    <3>1. /\ IsEnd(window[<<k, s>>], events[<<k, s>>], Rule[k].keep)
          /\ events[<<k, s>>] \in Seq(Moments) /\ Rule[k].keep \in Nat
      BY EnrolConstants DEF SentinelInv, QueuesAreEnds, EnrolTypes, Seen
    <3>2. Len(events[<<k, s>>]) \in Nat
      BY <3>1
    <3> QED
      BY <3>1, <3>2 DEF IsEnd, Least
  <2>2. scans \in SUBSET ({} \X Keys)
    BY <1>1 DEF EnrolTypes
  <2>3. /\ now \in Enrol!Detector!Times
        /\ window \in [Enrol!Kinds \X Keys -> Seq(Enrol!Detector!Times)]
        /\ events \in [Enrol!Kinds \X Keys -> Seq(Enrol!Detector!Times)]
        /\ ports \in [Keys -> SUBSET {}]
        /\ report \in [key : Keys, at : Enrol!Detector!Times, kinds : SUBSET Enrol!Kinds,
                       counts : [Enrol!Kinds -> Nat]]
    BY <1>1, EnrolOps, Zenon DEF EnrolTypes, Seen
  <2> QED
    BY <2>1, <2>2, <2>3, Zenon DEF Enrol!Detector!TypeOK
<1>3. Enrol!Store!TypeOK
  <2>1. sessions \in UNION {[S -> Enrol!Store!Record] : S \in SUBSET Asking}
    <3>1. {order[i] : i \in 1..Len(order)} \in SUBSET Asking
      BY StoreAt
    <3> QED
      BY <3>1 DEF StoreInv, StoreIsTheEnd
  <2>2. order \in UNION {[1..n -> Asking] : n \in 0..Capacity}
    <3>1. /\ order \in Seq(Asking) /\ Len(order) \in Nat
          /\ Len(order) <= Capacity /\ Capacity \in Nat
      BY StoreAt
    <3>2. order \in [1..Len(order) -> Asking] /\ Len(order) \in 0..Capacity
      BY <3>1
    <3> QED
      BY <3>2
  <2>3. stored \in Seq(Told)
    BY StoreAt
  <2> QED
    BY <2>1, <2>2, <2>3 DEF Enrol!Store!TypeOK, Told, Asking
<1>4. \A r \in Asking : /\ job[r].pc \in {"idle", "judging", "answered", "refused", "raised"}
                        /\ job[r].by \in {"nobody", "model", "rules"}
                        /\ job[r].verdict \in Enrol!Store!Verdicts
  BY <1>1 DEF EnrolTypes, Job
<1>5. block \in [Asking -> {"none", "due", "sent", "lost"}]
  BY <1>1 DEF EnrolTypes
<1> QED
  BY <1>2, <1>3, <1>4, <1>5 DEF Enrol!TypeOK, Asking

\* Every component of the server keeps its types, whichever is at work.
THEOREM TypesSafe == ServerSpec => []TypesOK
<1>1. EngineInv /\ SimInv /\ StatsInv /\ SentinelInv /\ StoreInv => TypesOK
  BY SimTyped, StatsTyped, EnrolTyped DEF EngineInv, TypesOK
<1> QED
  BY <1>1, EngineAlways, SimAlways, StatsAlways, SentinelAlways, StoreAlways, PTL

=============================================================================
