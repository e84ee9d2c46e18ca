------------------------- MODULE TrustEngineProofs -------------------------
(***************************************************************************)
(* Proofs about TrustEngine, for any number of requests, verifications,    *)
(* sessions and answers, and any threshold, recovery time and cache limit. *)
(***************************************************************************)
EXTENDS TrustEngine, FiniteSetTheorems, TLAPS

(***************************************************************************)
(* The breaker's operators.                                                *)
(***************************************************************************)

\* success(), failure(), the allow property and the clock keep a breaker a
\* breaker: failure() in particular keeps the saturated count in its range.
LEMMA BreakerOps ==
    ASSUME NEW b \in Breaker
    PROVE  /\ Success(b) \in Breaker
           /\ Failure(b) \in Breaker
           /\ AfterAllow(b) \in Breaker
           /\ Elapse(b) \in Breaker
  <1> USE BreakerAssumption DEF Breaker, CBState
  <1>1. Success(b) \in Breaker
    BY DEF Success
  <1>2. Failure(b) \in Breaker
    <2>1. Saturate(b.failures + 1, Threshold) \in 0..Threshold
      BY DEF Saturate
    <2>2. QED
      BY <2>1 DEF Failure
  <1>3. AfterAllow(b) \in Breaker
    BY DEF AfterAllow
  <1>4. Elapse(b) \in Breaker
    <2>1. Saturate(b.age + 1, Recovery + 1) \in 0..(Recovery + 1)
      BY DEF Saturate
    <2>2. QED
      BY <2>1 DEF Elapse
  <1>5. QED
    BY <1>1, <1>2, <1>3, <1>4

\* A breaker whose state and count agree, in the sense of BreakerCoherent.
Coherent(b) == b.state = "closed" <=> b.failures < Threshold

\* Every operation of the breaker preserves the agreement of state and count;
\* failure() on a half-open breaker opens it, success() always closes it.
LEMMA CoherentOps ==
    ASSUME NEW b \in Breaker, Coherent(b)
    PROVE  /\ Coherent(Success(b)) /\ Success(b).state = "closed"
           /\ Coherent(Failure(b)) /\ Failure(b).state # "half_open"
           /\ b.state # "closed" => Failure(b).state = "open"
           /\ Coherent(AfterAllow(b))
           /\ AfterAllow(b).state = "half_open" => b.state # "closed"
           /\ Coherent(Elapse(b)) /\ Elapse(b).state = b.state
  BY BreakerAssumption
  DEF Breaker, CBState, Coherent, Success, Failure, AfterAllow, Elapse, Saturate,
      RecoveryElapsed

(***************************************************************************)
(* The client's operators.                                                 *)
(***************************************************************************)

\* _parse returns a verdict, whatever the model wrote: one of the three, with a
\* confidence between 0 and 1 and a reason that never is a rule's; and ALLOW or
\* DENY only with a confidence of at least a half.
LEMMA ParseTyped ==
    ASSUME NEW raw \in RawAnswers
    PROVE  /\ Parse(raw) \in TrustVerdict
           /\ Parse(raw).reason \in {"model", "ollama_error"}
           /\ Parse(raw).verdict # "MONITOR" => Parse(raw).confidence >= 50
  <1>1. CASE raw.form = "json"
    <2>1. raw.confidence \in Int /\ raw.reason \in {"model", "ollama_error"}
      BY <1>1, CacheAssumption
    <2>2. Clamp(raw.confidence) \in 0..100
      BY <2>1 DEF Clamp
    <2>3. raw.confidence >= 50 => Clamp(raw.confidence) >= 50
      BY <2>1 DEF Clamp
    <2>4. QED
      BY <1>1, <2>1, <2>2, <2>3 DEF Parse, Answered, TrustVerdict, Verdicts
  <1>2. CASE raw.form # "json"
    BY <1>2 DEF Parse, Answered, TrustVerdict, Verdicts
  <1>3. QED
    BY <1>1, <1>2

\* Storing a verdict keeps the cache a cache.
LEMMA StoreTyped ==
    ASSUME NEW c \in Cache, NEW k \in Keys, NEW v \in TrustVerdict
    PROVE  Store(c, k, v) \in Cache
  <1>1. ASSUME NEW d \in Cache
        PROVE  Put(d, k, v) \in Cache
    BY <1>1 DEF Put, Cache, Cached
  <1>2. ASSUME Len(c.order) > CacheLimit
        PROVE  PopOldest(c) \in Cache
    <2>1. c.order \in Seq(Keys) /\ c.order # << >>
      BY <1>2, CacheAssumption DEF Cache
    <2>2. Tail(c.order) \in Seq(Keys) /\ Head(c.order) \in Keys
      BY <2>1
    <2>3. QED
      BY <2>2 DEF PopOldest, Cache
  <1>3. QED
    BY <1>1, <1>2 DEF Store

\* The cache never exceeds its limit by more than one: the eviction makes room
\* before the new key goes in.
LEMMA StoreBounded ==
    ASSUME NEW c \in Cache, NEW k \in Keys, NEW v \in TrustVerdict,
           Len(c.order) <= CacheLimit + 1
    PROVE  Len(Store(c, k, v).order) <= CacheLimit + 1
  <1>1. c.order \in Seq(Keys) /\ Len(c.order) \in Nat
    BY DEF Cache
  <1>2. ASSUME NEW d, d.order \in Seq(Keys), Len(d.order) <= CacheLimit
        PROVE  Len(Put(d, k, v).order) <= CacheLimit + 1
    BY <1>2, CacheAssumption DEF Put
  <1>3. CASE Len(c.order) > CacheLimit
    <2>1. c.order # << >>
      BY <1>1, <1>3, CacheAssumption
    <2>2. /\ Tail(c.order) \in Seq(Keys)
          /\ Len(Tail(c.order)) = Len(c.order) - 1
      BY <1>1, <2>1
    <2>3. PopOldest(c).order \in Seq(Keys) /\ Len(PopOldest(c).order) <= CacheLimit
      BY <1>1, <2>2, CacheAssumption DEF PopOldest
    <2>4. QED
      BY <1>2, <1>3, <2>3 DEF Store
  <1>4. CASE ~(Len(c.order) > CacheLimit)
    <2>1. Len(c.order) <= CacheLimit
      BY <1>1, <1>4, CacheAssumption
    <2>2. QED
      BY <1>1, <1>2, <1>4, <2>1 DEF Store
  <1>5. QED
    BY <1>3, <1>4

\* A stored verdict is the stored one or was there before.
LEMMA StoreEntries ==
    ASSUME NEW c \in Cache, NEW k \in Keys, NEW v \in TrustVerdict, NEW j \in Keys,
           Store(c, k, v).entry[j] # None
    PROVE  \/ Store(c, k, v).entry[j] = v
           \/ c.entry[j] # None /\ Store(c, k, v).entry[j] = c.entry[j]
  <1>1. ASSUME NEW d, d.entry \in [Keys -> TrustVerdict \cup {None}]
        PROVE  Put(d, k, v).entry[j] = IF j = k THEN v ELSE d.entry[j]
    BY <1>1 DEF Put
  <1>2. c.entry \in [Keys -> TrustVerdict \cup {None}]
    BY DEF Cache
  <1>3. CASE Len(c.order) > CacheLimit
    <2>1. c.order \in Seq(Keys) /\ c.order # << >>
      BY <1>3, CacheAssumption DEF Cache
    <2>2. Head(c.order) \in Keys
      BY <2>1
    <2>3. /\ PopOldest(c).entry \in [Keys -> TrustVerdict \cup {None}]
          /\ PopOldest(c).entry[j] \in {None, c.entry[j]}
      BY <1>2, <2>2 DEF PopOldest
    <2>4. QED
      BY <1>1, <1>3, <2>3 DEF Store
  <1>4. CASE ~(Len(c.order) > CacheLimit)
    BY <1>1, <1>2, <1>4 DEF Store
  <1>5. QED
    BY <1>3, <1>4

\* The fallback rules return a verdict of their own, confident unless MONITOR.
LEMMA FallbackTyped ==
    ASSUME NEW s
    PROVE  /\ Fallback(s) \in TrustVerdict
           /\ Fallback(s).reason = "fallback"
           /\ Fallback(s).verdict # "MONITOR" => Fallback(s).confidence >= 50
  BY DEF Fallback, TrustVerdict, Verdicts

\* Incrementing counters leaves natural numbers.
LEMMA BumpTyped ==
    ASSUME NEW c \in [CountNames -> Nat], NEW names
    PROVE  Bump(c, names) \in [CountNames -> Nat]
  BY DEF Bump

\* The cache key of a request's session is one of the keys.
LEMMA KeyTyped ==
    ASSUME TypeOK, NEW r \in Requests
    PROVE  session[r] \in Sessions /\ CacheKey(session[r]) \in Keys
  BY DEF TypeOK, Keys

(***************************************************************************)
(* Type correctness.                                                       *)
(***************************************************************************)

\* The common tail of evaluate keeps the types of what it writes.
LEMMA DecideTyped ==
    ASSUME TypeOK, NEW r \in Requests, NEW v \in TrustVerdict, NEW names,
           Decide(r, v, names)
    PROVE  /\ result' \in [Requests -> TrustVerdict \cup {None}]
           /\ pc' \in [Requests -> {"idle", "asking", "publishing", "returned", "raised"}]
           /\ counts' \in [CountNames -> Nat]
  BY BumpTyped DEF TypeOK, Decide

\* So does falling back on the rules, whether they decide or raise.
LEMMA FallBackTyped ==
    ASSUME TypeOK, NEW r \in Requests, NEW names, FallBack(r, names)
    PROVE  /\ result' \in [Requests -> TrustVerdict \cup {None}]
           /\ pc' \in [Requests -> {"idle", "asking", "publishing", "returned", "raised"}]
           /\ counts' \in [CountNames -> Nat]
  <1>1. CASE FallbackRaises(session[r])
    BY <1>1, BumpTyped DEF TypeOK, FallBack
  <1>2. CASE ~FallbackRaises(session[r])
    BY <1>2, FallbackTyped, DecideTyped DEF FallBack
  <1>3. QED
    BY <1>1, <1>2

\* What the engine makes of a verdict of the client keeps the types.
LEMMA JudgeTyped ==
    ASSUME TypeOK, NEW r \in Requests, NEW b \in Breaker, NEW v \in TrustVerdict, NEW names,
           Judge(r, b, v, names)
    PROVE  /\ cb' \in Breaker
           /\ result' \in [Requests -> TrustVerdict \cup {None}]
           /\ pc' \in [Requests -> {"idle", "asking", "publishing", "returned", "raised"}]
           /\ counts' \in [CountNames -> Nat]
  <1>1. Success(b) \in Breaker /\ Failure(b) \in Breaker /\ Failure(Failure(b)) \in Breaker
    BY BreakerOps
  <1>2. CASE LooksFailed(v)
    BY <1>1, <1>2, FallBackTyped DEF Judge
  <1>3. CASE ~LooksFailed(v)
    BY <1>1, <1>3, DecideTyped DEF Judge
  <1>4. QED
    BY <1>2, <1>3

\* The client's own error is a verdict, and one that looks failed.
LEMMA ErrorTyped == OllamaError \in TrustVerdict /\ LooksFailed(OllamaError)
  BY DEF OllamaError, TrustVerdict, Verdicts, LooksFailed

\* Every step of the engine, of the client and of a verification keeps TypeOK.
LEMMA TypeStep == TypeOK /\ [Next]_vars => TypeOK'
  <1> SUFFICES ASSUME TypeOK, [Next]_vars
               PROVE  TypeOK'
    OBVIOUS
  <1>1. CASE Tick
    BY <1>1, BreakerOps DEF TypeOK, Tick
  <1>2. ASSUME NEW r \in Requests, ShortCircuit(r)
        PROVE  TypeOK'
    BY <1>2, FallBackTyped DEF TypeOK, ShortCircuit
  <1>3. ASSUME NEW r \in Requests, CacheHit(r)
        PROVE  TypeOK'
    <2>1. AfterAllow(cb) \in Breaker
      BY BreakerOps DEF TypeOK
    <2>2. cache.entry[CacheKey(session[r])] \in TrustVerdict
      BY <1>3, KeyTyped DEF TypeOK, CacheHit, Cache, Cached
    <2>3. Judge(r, AfterAllow(cb), cache.entry[CacheKey(session[r])], {"hits"})
      BY <1>3 DEF CacheHit
    <2>4. QED
      BY <1>3, <2>1, <2>2, <2>3, JudgeTyped DEF TypeOK, CacheHit
  <1>4. ASSUME NEW r \in Requests, StartCall(r)
        PROVE  TypeOK'
    <2>1. attempt' \in [Callers -> 0..MaxAttempts]
      BY <1>4 DEF TypeOK, StartCall, Callers, MaxAttempts
    <2>2. QED
      BY <1>4, <2>1, BreakerOps, BumpTyped DEF TypeOK, StartCall
  <1>5. ASSUME NEW r \in Requests, Publish(r)
        PROVE  TypeOK'
    BY <1>5 DEF TypeOK, Publish
  <1>6. ASSUME NEW v \in Verifiers, VerifyFromCache(v)
        PROVE  TypeOK'
    BY <1>6, BumpTyped DEF TypeOK, VerifyFromCache, Verified
  <1>7. ASSUME NEW v \in Verifiers, NEW m \in Models, VerifyStart(v, m)
        PROVE  TypeOK'
    <2>1. attempt' \in [Callers -> 0..MaxAttempts]
      BY <1>7 DEF TypeOK, VerifyStart, Callers, MaxAttempts
    <2>2. counts' \in [CountNames -> Nat]
      BY <1>7, BumpTyped DEF TypeOK, VerifyStart
    <2>3. overlapped' \in BOOLEAN
      BY <1>7, Zenon DEF VerifyStart
    <2>4. QED
      BY <1>7, <2>1, <2>2, <2>3 DEF TypeOK, VerifyStart
  <1>8. ASSUME NEW c \in Callers, Retry(c)
        PROVE  TypeOK'
    <2>1. attempt' \in [Callers -> 0..MaxAttempts]
      BY <1>8 DEF TypeOK, Retry, MaxAttempts
    <2>2. QED
      BY <1>8, <2>1 DEF TypeOK, Retry
  <1>9. ASSUME NEW r \in Requests, CallFails(r)
        PROVE  TypeOK'
    <2>1. attempt' \in [Callers -> 0..MaxAttempts]
      BY <1>9 DEF TypeOK, CallFails, Callers, MaxAttempts
    <2>2. Judge(r, cb, OllamaError, {}) /\ cb \in Breaker
      BY <1>9 DEF TypeOK, CallFails
    <2>3. QED
      BY <1>9, <2>1, <2>2, ErrorTyped, JudgeTyped DEF TypeOK, CallFails
  <1>10. ASSUME NEW r \in Requests, NEW raw \in RawAnswers, Answer(r, raw)
         PROVE  TypeOK'
    <2>1. attempt' \in [Callers -> 0..MaxAttempts]
      BY <1>10 DEF TypeOK, Answer, Callers, MaxAttempts
    <2>2. cb \in Breaker /\ cache' \in Cache
      BY <1>10, ParseTyped, StoreTyped, KeyTyped DEF TypeOK, Answer
    <2>3. Judge(r, cb, Parse(raw), {}) /\ Parse(raw) \in TrustVerdict
      BY <1>10, ParseTyped DEF Answer
    <2>4. QED
      BY <1>10, <2>1, <2>2, <2>3, JudgeTyped DEF TypeOK, Answer
  <1>11. ASSUME NEW v \in Verifiers, NEW raw \in RawAnswers, VerifyAnswer(v, raw)
         PROVE  TypeOK'
    <2>1. TestKey \in Keys
      BY EngineAssumption DEF TestKey, Keys
    <2>2. attempt' \in [Callers -> 0..MaxAttempts]
      BY <1>11 DEF TypeOK, VerifyAnswer, Callers, MaxAttempts
    <2>3. cache' \in Cache
      BY <1>11, <2>1, ParseTyped, StoreTyped DEF TypeOK, VerifyAnswer
    <2>4. QED
      BY <1>11, <2>2, <2>3 DEF TypeOK, VerifyAnswer, Verified
  <1>12. ASSUME NEW v \in Verifiers, VerifyError(v)
         PROVE  TypeOK'
    <2>1. attempt' \in [Callers -> 0..MaxAttempts]
      BY <1>12 DEF TypeOK, VerifyError, Callers, MaxAttempts
    <2>2. QED
      BY <1>12, <2>1 DEF TypeOK, VerifyError
  <1>13. CASE UNCHANGED vars
    BY <1>13 DEF TypeOK, vars
  <1>14. QED
    BY <1>1, <1>2, <1>3, <1>4, <1>5, <1>6, <1>7, <1>8, <1>9, <1>10, <1>11, <1>12, <1>13
    DEF Next, Outcome

\* The initial state is well typed.
LEMMA TypeInit == Init => TypeOK
  <1> SUFFICES ASSUME Init
               PROVE  TypeOK
    OBVIOUS
  <1>1. cb \in Breaker
    BY BreakerAssumption DEF Init, NewBreaker, Breaker, CBState
  <1>2. cache \in Cache
    BY DEF Init, EmptyCache, Cache
  <1>3. attempt \in [Callers -> 0..MaxAttempts]
    BY DEF Init, MaxAttempts
  <1>4. counts \in [CountNames -> Nat]
    BY DEF Init
  <1>5. overlapped \in BOOLEAN
    BY DEF Init
  <1>6. QED
    BY <1>1, <1>2, <1>3, <1>4, <1>5, EngineAssumption DEF Init, TypeOK

\* Type correctness of the engine: in particular every verdict it holds, caches
\* or returns is one of the three with a confidence between 0 and 1.
THEOREM TypeCorrect == Spec => []TypeOK
  BY TypeInit, TypeStep, PTL DEF Spec

(***************************************************************************)
(* The breaker.  Neither conjunct is inductive alone: that a failed probe  *)
(* leaves HALF_OPEN needs the agreement of state and count.                *)
(***************************************************************************)
BreakerInv == BreakerCoherent /\ HalfOpenHasProbe

\* Whatever the engine makes of a verdict leaves a coherent breaker that is not
\* half-open: one that was not closed is open if the verdict looks failed, and
\* closed if not.
LEMMA JudgeMoves ==
    ASSUME NEW r, NEW b \in Breaker, Coherent(b), NEW v, NEW names, Judge(r, b, v, names)
    PROVE  /\ Coherent(cb') /\ cb'.state # "half_open"
           /\ ~LooksFailed(v) => cb'.state = "closed"
           /\ LooksFailed(v) /\ b.state # "closed" => cb'.state = "open"
  <1>1. /\ Failure(b) \in Breaker
        /\ Coherent(Failure(b)) /\ Failure(b).state # "half_open"
        /\ b.state # "closed" => Failure(b).state = "open"
    BY BreakerOps, CoherentOps
  <1>2. /\ Coherent(Failure(Failure(b))) /\ Failure(Failure(b)).state # "half_open"
        /\ b.state # "closed" => Failure(Failure(b)).state = "open"
    BY <1>1, CoherentOps
  <1>3. Coherent(Success(b)) /\ Success(b).state = "closed"
    BY CoherentOps
  <1>4. CASE LooksFailed(v)
    BY <1>1, <1>2, <1>4 DEF Judge
  <1>5. CASE ~LooksFailed(v)
    BY <1>3, <1>5 DEF Judge
  <1>6. QED
    BY <1>4, <1>5

\* A request that leaves "asking" takes the circuit out of HALF_OPEN, and one
\* that takes it into HALF_OPEN is itself asking.
LEMMA BreakerStep == TypeOK /\ BreakerInv /\ [Next]_vars => BreakerInv'
  <1> SUFFICES ASSUME TypeOK, BreakerInv, [Next]_vars
               PROVE  BreakerInv'
    OBVIOUS
  <1>a. cb \in Breaker /\ Coherent(cb)
    BY DEF TypeOK, BreakerInv, BreakerCoherent, Coherent
  <1>b. ASSUME Coherent(cb'), cb'.state # "half_open"
        PROVE  BreakerInv'
    BY <1>b DEF BreakerInv, BreakerCoherent, HalfOpenHasProbe, Coherent
  <1>c. ASSUME Coherent(cb'), cb'.state = "half_open" => cb.state = "half_open",
               \A r \in Requests : pc[r] = "asking" => pc'[r] = "asking"
        PROVE  BreakerInv'
    BY <1>c DEF BreakerInv, BreakerCoherent, HalfOpenHasProbe, Coherent
  <1>1. CASE Tick
    BY <1>1, <1>a, <1>c, CoherentOps DEF Tick
  <1>2. ASSUME NEW r \in Requests, ShortCircuit(r)
        PROVE  BreakerInv'
    <2>1. \A q \in Requests : pc[q] = "asking" => pc'[q] = "asking"
      BY <1>2 DEF TypeOK, ShortCircuit, FallBack, Decide
    <2>2. QED
      BY <1>2, <1>a, <1>c, <2>1 DEF ShortCircuit
  <1>3. ASSUME NEW r \in Requests, CacheHit(r)
        PROVE  BreakerInv'
    <2>1. AfterAllow(cb) \in Breaker /\ Coherent(AfterAllow(cb))
      BY <1>a, BreakerOps, CoherentOps
    <2>2. Coherent(cb') /\ cb'.state # "half_open"
      BY <1>3, <2>1, JudgeMoves DEF CacheHit
    <2>3. QED
      BY <1>b, <2>2
  <1>4. ASSUME NEW r \in Requests, StartCall(r)
        PROVE  BreakerInv'
    <2>1. Coherent(cb')
      BY <1>4, <1>a, CoherentOps DEF StartCall
    <2>2. pc'[r] = "asking"
      BY <1>4 DEF TypeOK, StartCall
    <2>3. QED
      BY <2>1, <2>2 DEF BreakerInv, BreakerCoherent, HalfOpenHasProbe, Coherent
  <1>5. ASSUME NEW r \in Requests, Publish(r)
        PROVE  BreakerInv'
    BY <1>5, <1>a, <1>c DEF TypeOK, Publish
  <1>6. ASSUME NEW v \in Verifiers, VerifyFromCache(v)
        PROVE  BreakerInv'
    BY <1>6, <1>a, <1>c DEF VerifyFromCache
  <1>7. ASSUME NEW v \in Verifiers, NEW m \in Models, VerifyStart(v, m)
        PROVE  BreakerInv'
    BY <1>7, <1>a, <1>c DEF VerifyStart
  <1>8. ASSUME NEW c \in Callers, Retry(c)
        PROVE  BreakerInv'
    BY <1>8, <1>a, <1>c DEF Retry
  <1>9. ASSUME NEW r \in Requests, CallFails(r)
        PROVE  BreakerInv'
    <2>1. Coherent(cb') /\ cb'.state # "half_open"
      BY <1>9, <1>a, JudgeMoves DEF CallFails
    <2>2. QED
      BY <1>b, <2>1
  <1>10. ASSUME NEW r \in Requests, NEW raw \in RawAnswers, Answer(r, raw)
         PROVE  BreakerInv'
    <2>1. Coherent(cb') /\ cb'.state # "half_open"
      BY <1>10, <1>a, JudgeMoves DEF Answer
    <2>2. QED
      BY <1>b, <2>1
  <1>11. ASSUME NEW v \in Verifiers, NEW raw \in RawAnswers, VerifyAnswer(v, raw)
         PROVE  BreakerInv'
    BY <1>11, <1>a, <1>c DEF VerifyAnswer
  <1>12. ASSUME NEW v \in Verifiers, VerifyError(v)
         PROVE  BreakerInv'
    BY <1>12, <1>a, <1>c DEF VerifyError
  <1>13. CASE UNCHANGED vars
    BY <1>13, <1>a, <1>c DEF vars
  <1>14. QED
    BY <1>1, <1>2, <1>3, <1>4, <1>5, <1>6, <1>7, <1>8, <1>9, <1>10, <1>11, <1>12, <1>13
    DEF Next, Outcome

\* The circuit is closed exactly while fewer than Threshold consecutive failures
\* are on record, and a half-open circuit always has a probe in flight.
THEOREM BreakerSafe == Spec => [](BreakerCoherent /\ HalfOpenHasProbe)
  <1>1. Init => BreakerInv
    BY BreakerAssumption
    DEF Init, NewBreaker, BreakerInv, BreakerCoherent, HalfOpenHasProbe
  <1>2. QED
    BY <1>1, BreakerStep, TypeCorrect, PTL DEF Spec, BreakerInv

(***************************************************************************)
(* Verdicts.  What a request is told may come from the cache, so what is   *)
(* said of results has to be said of the cached verdicts too.              *)
(***************************************************************************)
Sound(v) == v.verdict # "MONITOR" => v.confidence >= 50

VerdictInv ==
    /\ \A k \in Keys : Cached(cache, k) =>
          cache.entry[k] \in {Parse(raw) : raw \in RawAnswers}
    /\ \A r \in Requests : Decided(r) =>
          result[r].reason # "ollama_error" /\ Sound(result[r])

\* Deciding with a sound verdict that is no error keeps the results sound.
LEMMA DecideSound ==
    ASSUME TypeOK, VerdictInv, NEW r \in Requests, NEW v \in TrustVerdict, NEW names,
           Decide(r, v, names), v.reason # "ollama_error", Sound(v)
    PROVE  \A q \in Requests : Decided(q)' =>
              result'[q].reason # "ollama_error" /\ Sound(result'[q])
  BY DEF TypeOK, VerdictInv, Decide, Decided

\* Falling back keeps the results sound.
LEMMA FallBackSound ==
    ASSUME TypeOK, VerdictInv, NEW r \in Requests, NEW names, FallBack(r, names)
    PROVE  \A q \in Requests : Decided(q)' =>
              result'[q].reason # "ollama_error" /\ Sound(result'[q])
  <1>1. CASE FallbackRaises(session[r])
    BY <1>1 DEF TypeOK, VerdictInv, FallBack, Decided
  <1>2. CASE ~FallbackRaises(session[r])
    <2>1. Decide(r, Fallback(session[r]), names \cup {"fallbacks"})
      BY <1>2 DEF FallBack
    <2>2. Sound(Fallback(session[r])) /\ Fallback(session[r]).reason # "ollama_error"
      BY FallbackTyped DEF Sound
    <2>3. QED
      BY <2>1, <2>2, FallbackTyped, DecideSound
  <1>3. QED
    BY <1>1, <1>2

\* What the engine makes of a sound verdict keeps the results sound, also when
\* the verdict claims to be an error.
LEMMA JudgeSound ==
    ASSUME TypeOK, VerdictInv, NEW r \in Requests, NEW b, NEW v \in TrustVerdict, NEW names,
           Judge(r, b, v, names), Sound(v)
    PROVE  \A q \in Requests : Decided(q)' =>
              result'[q].reason # "ollama_error" /\ Sound(result'[q])
  <1>1. CASE LooksFailed(v)
    BY <1>1, FallBackSound DEF Judge
  <1>2. CASE ~LooksFailed(v)
    BY <1>2, DecideSound DEF Judge, LooksFailed
  <1>3. QED
    BY <1>1, <1>2

\* What the model said is a sound verdict, and not one of a rule.
LEMMA SaidSound ==
    ASSUME NEW v \in {Parse(raw) : raw \in RawAnswers}
    PROVE  v \in TrustVerdict /\ Sound(v) /\ v.reason # "fallback"
  BY ParseTyped DEF Sound

\* Storing a parsed answer keeps the cache to what the model said.
LEMMA StoreSaid ==
    ASSUME TypeOK, VerdictInv, NEW k \in Keys, NEW raw \in RawAnswers,
           cache' = Store(cache, k, Parse(raw))
    PROVE  \A j \in Keys : Cached(cache', j) =>
              cache'.entry[j] \in {Parse(said) : said \in RawAnswers}
  <1> SUFFICES ASSUME NEW j \in Keys, cache'.entry[j] # None
               PROVE  cache'.entry[j] \in {Parse(said) : said \in RawAnswers}
    BY DEF Cached
  <1>1. Parse(raw) \in TrustVerdict
    BY ParseTyped
  <1>2. cache \in Cache
    BY DEF TypeOK
  <1>3. \/ cache'.entry[j] = Parse(raw)
        \/ cache.entry[j] # None /\ cache'.entry[j] = cache.entry[j]
    BY <1>1, <1>2, StoreEntries
  <1>4. QED
    BY <1>3 DEF VerdictInv, Cached

\* Every step keeps cached and returned verdicts sound.
LEMMA VerdictStep == TypeOK /\ VerdictInv /\ [Next]_vars => VerdictInv'
  <1> SUFFICES ASSUME TypeOK, VerdictInv, [Next]_vars
               PROVE  VerdictInv'
    OBVIOUS
  <1>a. ASSUME cache' = cache,
               \A q \in Requests : Decided(q)' =>
                 result'[q].reason # "ollama_error" /\ Sound(result'[q])
        PROVE  VerdictInv'
    BY <1>a DEF VerdictInv, Cached, Sound
  <1>b. ASSUME result' = result, \A q \in Requests : Decided(q)' => Decided(q)
        PROVE  \A q \in Requests : Decided(q)' =>
                 result'[q].reason # "ollama_error" /\ Sound(result'[q])
    BY <1>b DEF VerdictInv
  <1>1. CASE Tick
    BY <1>1, <1>a, <1>b DEF Tick, Decided
  <1>2. ASSUME NEW r \in Requests, ShortCircuit(r)
        PROVE  VerdictInv'
    BY <1>2, <1>a, FallBackSound DEF ShortCircuit
  <1>3. ASSUME NEW r \in Requests, CacheHit(r)
        PROVE  VerdictInv'
    <2>1. CacheKey(session[r]) \in Keys /\ Cached(cache, CacheKey(session[r]))
      BY <1>3, KeyTyped DEF CacheHit
    <2>2. LET v == cache.entry[CacheKey(session[r])]
          IN  v \in TrustVerdict /\ Sound(v)
      BY <2>1, SaidSound DEF VerdictInv
    <2>3. QED
      BY <1>3, <1>a, <2>2, JudgeSound DEF CacheHit
  <1>4. ASSUME NEW r \in Requests, StartCall(r)
        PROVE  VerdictInv'
    BY <1>4, <1>a, <1>b DEF TypeOK, StartCall, Decided
  <1>5. ASSUME NEW r \in Requests, Publish(r)
        PROVE  VerdictInv'
    BY <1>5, <1>a, <1>b DEF TypeOK, Publish, Decided
  <1>6. ASSUME NEW v \in Verifiers, VerifyFromCache(v)
        PROVE  VerdictInv'
    BY <1>6, <1>a, <1>b DEF VerifyFromCache, Decided
  <1>7. ASSUME NEW v \in Verifiers, NEW m \in Models, VerifyStart(v, m)
        PROVE  VerdictInv'
    BY <1>7, <1>a, <1>b DEF VerifyStart, Decided
  <1>8. ASSUME NEW c \in Callers, Retry(c)
        PROVE  VerdictInv'
    BY <1>8, <1>a, <1>b DEF Retry, Decided
  <1>9. ASSUME NEW r \in Requests, CallFails(r)
        PROVE  VerdictInv'
    <2>1. Sound(OllamaError)
      BY DEF OllamaError, Sound
    <2>2. QED
      BY <1>9, <1>a, <2>1, ErrorTyped, JudgeSound DEF CallFails
  <1>10. ASSUME NEW r \in Requests, NEW raw \in RawAnswers, Answer(r, raw)
         PROVE  VerdictInv'
    <2>1. Parse(raw) \in TrustVerdict /\ Sound(Parse(raw))
      BY SaidSound
    <2>2. \A q \in Requests : Decided(q)' =>
             result'[q].reason # "ollama_error" /\ Sound(result'[q])
      BY <1>10, <2>1, JudgeSound DEF Answer
    <2>3. \A j \in Keys : Cached(cache', j) =>
             cache'.entry[j] \in {Parse(said) : said \in RawAnswers}
      BY <1>10, KeyTyped, StoreSaid DEF Answer
    <2>4. QED
      BY <2>2, <2>3 DEF VerdictInv, Cached, Sound
  <1>11. ASSUME NEW v \in Verifiers, NEW raw \in RawAnswers, VerifyAnswer(v, raw)
         PROVE  VerdictInv'
    <2>1. TestKey \in Keys
      BY EngineAssumption DEF TestKey, Keys
    <2>2. \A q \in Requests : Decided(q)' =>
             result'[q].reason # "ollama_error" /\ Sound(result'[q])
      BY <1>11, <1>b DEF VerifyAnswer, Decided
    <2>3. \A j \in Keys : Cached(cache', j) =>
             cache'.entry[j] \in {Parse(said) : said \in RawAnswers}
      BY <1>11, <2>1, StoreSaid DEF VerifyAnswer
    <2>4. QED
      BY <2>2, <2>3 DEF VerdictInv, Cached, Sound
  <1>12. ASSUME NEW v \in Verifiers, VerifyError(v)
         PROVE  VerdictInv'
    BY <1>12, <1>a, <1>b DEF VerifyError, Decided
  <1>13. CASE UNCHANGED vars
    BY <1>13, <1>a, <1>b DEF vars, Decided
  <1>14. QED
    BY <1>1, <1>2, <1>3, <1>4, <1>5, <1>6, <1>7, <1>8, <1>9, <1>10, <1>11, <1>12, <1>13
    DEF Next, Outcome

\* Nothing that claims to be an error leaves the engine, be it the client's or the
\* model's own words, fresh or from the cache; the cache holds only what the model
\* said; and a verdict that acts was held with confidence of at least a half.
THEOREM VerdictSafe == Spec => [](NoErrorVerdict /\ ConfidentDecisions)
  <1>1. Init => VerdictInv
    BY DEF Init, EmptyCache, VerdictInv, Cached, Decided
  <1>2. VerdictInv => NoErrorVerdict /\ ConfidentDecisions
    BY DEF VerdictInv, NoErrorVerdict, LooksFailed, ConfidentDecisions, Sound
  <1>3. QED
    BY <1>1, <1>2, VerdictStep, TypeCorrect, PTL DEF Spec

(***************************************************************************)
(* The bound of the cache.                                                 *)
(***************************************************************************)

\* The client's cache holds at most CacheLimit + 1 verdicts, with any number of
\* calls in flight.
THEOREM CacheSafe == Spec => []CacheBounded
  <1>1. Init => CacheBounded
    BY CacheAssumption DEF Init, EmptyCache, CacheBounded
  <1>2. TypeOK /\ CacheBounded /\ [Next]_vars => CacheBounded'
    <2> SUFFICES ASSUME TypeOK, CacheBounded, [Next]_vars
                 PROVE  CacheBounded'
      OBVIOUS
    <2>1. ASSUME NEW r \in Requests, NEW raw \in RawAnswers, Answer(r, raw)
          PROVE  CacheBounded'
      BY <2>1, KeyTyped, ParseTyped, StoreBounded DEF TypeOK, Answer, CacheBounded
    <2>2. ASSUME NEW v \in Verifiers, NEW raw \in RawAnswers, VerifyAnswer(v, raw)
          PROVE  CacheBounded'
      <3>1. TestKey \in Keys
        BY EngineAssumption DEF TestKey, Keys
      <3>2. QED
        BY <2>2, <3>1, ParseTyped, StoreBounded DEF TypeOK, VerifyAnswer, CacheBounded
    <2>3. CASE UNCHANGED cache
      BY <2>3 DEF CacheBounded
    <2>4. QED
      BY <2>1, <2>2, <2>3
      DEF Next, Outcome, Tick, ShortCircuit, CacheHit, StartCall, Publish, CallFails, Retry,
          VerifyFromCache, VerifyStart, VerifyError, vars
  <1>3. QED
    BY <1>1, <1>2, TypeCorrect, PTL DEF Spec

(***************************************************************************)
(* The model.  As long as verifications have not overlapped, there is at   *)
(* most one in flight, and what it will restore is the configured model.   *)
(***************************************************************************)
ModelInv ==
    ~overlapped =>
        /\ \A v, w \in Verifiers : vpc[v] = "asking" /\ vpc[w] = "asking" => v = w
        /\ \A v \in Verifiers : vpc[v] = "asking" => oldModel[v] = DefaultModel
        /\ (\A v \in Verifiers : vpc[v] # "asking") => model = DefaultModel

\* The client is back on the configured model whenever no verification is in
\* flight, unless two of them have overlapped.
THEOREM ModelSafe == Spec => []ModelRestored
  <1>1. Init => ModelInv
    BY DEF Init, ModelInv
  <1>2. TypeOK /\ ModelInv /\ [Next]_vars => ModelInv'
    <2> SUFFICES ASSUME TypeOK, ModelInv, [Next]_vars
                 PROVE  ModelInv'
      OBVIOUS
    <2>1. ASSUME NEW v \in Verifiers, NEW m \in Models, VerifyStart(v, m)
          PROVE  ModelInv'
      <3> SUFFICES ASSUME ~overlapped'
                   PROVE  ModelInv'
        BY DEF ModelInv
      <3>1. ~overlapped /\ \A w \in Verifiers : vpc[w] # "asking"
        BY <2>1 DEF TypeOK, VerifyStart
      <3>2. model = DefaultModel
        BY <3>1 DEF ModelInv
      <3>3. QED
        BY <2>1, <3>1, <3>2 DEF TypeOK, ModelInv, VerifyStart
    <2>2. ASSUME NEW v \in Verifiers,
                 VerifyError(v) \/ \E raw \in RawAnswers : VerifyAnswer(v, raw)
          PROVE  ModelInv'
      <3>1. /\ vpc[v] = "asking" /\ vpc'[v] # "asking"
            /\ \A w \in Verifiers : w # v => vpc'[w] = vpc[w]
            /\ model' = oldModel[v] /\ oldModel' = oldModel /\ overlapped' = overlapped
        BY <2>2 DEF TypeOK, VerifyError, VerifyAnswer, Verified
      <3>2. QED
        BY <3>1 DEF ModelInv
    <2>3. ASSUME NEW v \in Verifiers, VerifyFromCache(v)
          PROVE  ModelInv'
      <3>1. \A w \in Verifiers : vpc'[w] = "asking" <=> vpc[w] = "asking"
        BY <2>3 DEF TypeOK, VerifyFromCache, Verified
      <3>2. QED
        BY <2>3, <3>1 DEF ModelInv, VerifyFromCache
    <2>4. CASE UNCHANGED <<model, vpc, oldModel, overlapped>>
      BY <2>4 DEF ModelInv
    <2>5. QED
      BY <2>1, <2>2, <2>3, <2>4
      DEF Next, Outcome, Tick, ShortCircuit, CacheHit, StartCall, Publish, CallFails, Retry,
          Answer, vars
  <1>3. ModelInv => ModelRestored
    BY DEF ModelInv, ModelRestored
  <1>4. QED
    BY <1>1, <1>2, <1>3, TypeCorrect, PTL DEF Spec

(***************************************************************************)
(* Action properties.                                                      *)
(***************************************************************************)

\* A request has no result before it is decided.
UndecidedInv == \A r \in Requests : pc[r] \in {"idle", "asking"} => result[r] = None

\* Which requests a step moves, and how: the one it is about, and no other.
LEMMA StepShape ==
    ASSUME TypeOK, Next
    PROVE  \/ pc' = pc /\ result' = result
           \/ \E r \in Requests :
                /\ \A q \in Requests : q # r => pc'[q] = pc[q] /\ result'[q] = result[q]
                /\ \/ ShortCircuit(r)
                   \/ CacheHit(r)
                   \/ StartCall(r)
                   \/ Publish(r)
                   \/ CallFails(r)
                   \/ \E raw \in RawAnswers : Answer(r, raw)
  <1>1. ASSUME NEW r \in Requests,
               \/ ShortCircuit(r) \/ CacheHit(r) \/ StartCall(r) \/ Publish(r)
               \/ CallFails(r) \/ \E raw \in RawAnswers : Answer(r, raw)
        PROVE  \A q \in Requests : q # r => pc'[q] = pc[q] /\ result'[q] = result[q]
    BY <1>1 DEF TypeOK, ShortCircuit, CacheHit, StartCall, Publish, CallFails, Answer,
                Judge, FallBack, Decide
  <1>2. QED
    BY <1>1 DEF Next, Outcome, Tick, Retry, VerifyFromCache, VerifyStart, VerifyError,
                VerifyAnswer

\* The rules have decided about r, or raised.
RulesHandled(r) ==
    \/ pc'[r] = "raised" /\ result'[r] = result[r]
    \/ pc'[r] = "publishing" /\ result'[r].reason = "fallback"

\* What each step does to the request it is about.
LEMMA StepResult ==
    ASSUME TypeOK, NEW r \in Requests
    PROVE  /\ ShortCircuit(r) \/ CallFails(r) => RulesHandled(r)
           /\ CacheHit(r) => pc'[r] \in {"raised", "publishing"}
           /\ StartCall(r) => pc'[r] = "asking" /\ result'[r] = result[r]
           /\ Publish(r) => pc'[r] = "returned"
           /\ \A raw \in RawAnswers : Answer(r, raw) =>
                 IF LooksFailed(Parse(raw)) THEN RulesHandled(r)
                 ELSE /\ pc'[r] = "publishing"
                      /\ result'[r] # None /\ result'[r].reason = "model"
  <1>1. ASSUME NEW names, FallBack(r, names)
        PROVE  RulesHandled(r)
    BY <1>1, FallbackTyped DEF TypeOK, FallBack, Decide, RulesHandled
  <1>2. ASSUME NEW b, NEW v, NEW names, Judge(r, b, v, names)
        PROVE  /\ pc'[r] \in {"raised", "publishing"}
               /\ LooksFailed(v) => RulesHandled(r)
               /\ ~LooksFailed(v) => pc'[r] = "publishing" /\ result'[r] = v
    BY <1>1, <1>2 DEF TypeOK, Judge, Decide, RulesHandled
  <1>3. ASSUME NEW raw \in RawAnswers, Answer(r, raw)
        PROVE  IF LooksFailed(Parse(raw)) THEN RulesHandled(r)
               ELSE /\ pc'[r] = "publishing"
                    /\ result'[r] # None /\ result'[r].reason = "model"
    <2>1. Judge(r, cb, Parse(raw), {})
      BY <1>3 DEF Answer
    <2>2. Parse(raw) # None
      BY ParseTyped, EngineAssumption
    <2>3. QED
      BY <1>2, <2>1, <2>2, ParseTyped DEF LooksFailed
  <1>4. CallFails(r) => RulesHandled(r)
    BY <1>2, ErrorTyped DEF CallFails
  <1>5. CacheHit(r) => pc'[r] \in {"raised", "publishing"}
    BY <1>2 DEF CacheHit
  <1>6. QED
    BY <1>1, <1>3, <1>4, <1>5 DEF TypeOK, ShortCircuit, StartCall, Publish

\* No step gives a result to a request that stays undecided.
LEMMA UndecidedStep == TypeOK /\ UndecidedInv /\ [Next]_vars => UndecidedInv'
  <1> SUFFICES ASSUME TypeOK, UndecidedInv, Next
               PROVE  UndecidedInv'
    BY DEF UndecidedInv, vars
  <1>1. CASE pc' = pc /\ result' = result
    BY <1>1 DEF UndecidedInv
  <1>2. ASSUME NEW r \in Requests,
               \A q \in Requests : q # r => pc'[q] = pc[q] /\ result'[q] = result[q],
               \/ ShortCircuit(r) \/ CacheHit(r) \/ StartCall(r) \/ Publish(r)
               \/ CallFails(r) \/ \E raw \in RawAnswers : Answer(r, raw)
        PROVE  UndecidedInv'
    <2>1. pc'[r] \in {"idle", "asking"} => pc[r] = "idle" /\ result'[r] = result[r]
      BY <1>2, StepResult DEF StartCall, RulesHandled
    <2>2. QED
      BY <1>2, <2>1 DEF UndecidedInv
  <1>3. QED
    BY <1>1, <1>2, StepShape

\* While the circuit is half-open the first outcome decides: an answer closes
\* it, a failed call or an answer that is taken for one opens it.
THEOREM ProbeSafe == Spec => ProbeOutcomeDecides
  <1> DEFINE Outcomes ==
        cb.state = "half_open" =>
          \A r \in Requests : pc[r] = "asking" /\ pc'[r] # "asking" =>
            cb'.state = IF result'[r] # None /\ result'[r].reason = "model"
                        THEN "closed" ELSE "open"
  <1>1. Init => UndecidedInv
    BY DEF Init, UndecidedInv
  <1>2. TypeOK /\ BreakerCoherent /\ UndecidedInv /\ [Next]_vars => [Outcomes]_vars
    <2> SUFFICES ASSUME TypeOK, BreakerCoherent, UndecidedInv, Next,
                        cb.state = "half_open",
                        NEW r \in Requests, pc[r] = "asking", pc'[r] # "asking"
                 PROVE  cb'.state = IF result'[r] # None /\ result'[r].reason = "model"
                                    THEN "closed" ELSE "open"
      OBVIOUS
    <2>1. cb \in Breaker /\ Coherent(cb)
      BY DEF TypeOK, BreakerCoherent, Coherent
    <2>2. CallFails(r) \/ \E raw \in RawAnswers : Answer(r, raw)
      BY StepShape DEF ShortCircuit, CacheHit, StartCall, Publish
    <2>3. CASE CallFails(r)
      <3>1. cb'.state = "open"
        BY <2>1, <2>3, ErrorTyped, JudgeMoves DEF CallFails
      <3>2. ~(result'[r] # None /\ result'[r].reason = "model")
        BY <2>3, StepResult DEF UndecidedInv, RulesHandled
      <3>3. QED
        BY <3>1, <3>2
    <2>4. ASSUME NEW raw \in RawAnswers, Answer(r, raw)
          PROVE  cb'.state = IF result'[r] # None /\ result'[r].reason = "model"
                             THEN "closed" ELSE "open"
      <3>1. cb'.state = IF LooksFailed(Parse(raw)) THEN "open" ELSE "closed"
        BY <2>1, <2>4, JudgeMoves DEF Answer
      <3>2. (result'[r] # None /\ result'[r].reason = "model") <=> ~LooksFailed(Parse(raw))
        BY <2>4, StepResult DEF UndecidedInv, RulesHandled
      <3>3. QED
        BY <3>1, <3>2
    <2>5. QED
      BY <2>2, <2>3, <2>4
  <1>3. QED
    BY <1>1, <1>2, UndecidedStep, BreakerSafe, TypeCorrect, PTL
    DEF Spec, ProbeOutcomeDecides

\* While the circuit is open and its recovery time has not passed, a new request
\* is answered by the rules; once it has, one that is not cached asks Ollama.
THEOREM OpenSafe == Spec => OpenCircuitRests
  <1> DEFINE Rests(r) ==
        IF RecoveryElapsed(cb)
        THEN pc'[r] \in {"idle", "asking"} \/ Cached(cache, CacheKey(session[r]))
        ELSE /\ pc'[r] # "asking"
             /\ result'[r] # None => result'[r].reason = "fallback"
  <1>1. Init => UndecidedInv
    BY DEF Init, UndecidedInv
  <1>2. TypeOK /\ UndecidedInv /\ [Next]_vars =>
          [cb.state = "open" => \A r \in Requests : pc[r] = "idle" => Rests(r)]_vars
    <2> SUFFICES ASSUME TypeOK, UndecidedInv, Next,
                        cb.state = "open",
                        NEW r \in Requests, pc[r] = "idle"
                 PROVE  Rests(r)
      OBVIOUS
    <2>1. result[r] = None
      BY DEF UndecidedInv
    <2>2. Allows(cb) <=> RecoveryElapsed(cb)
      BY DEF Allows
    <2>3. \/ ShortCircuit(r) \/ CacheHit(r) \/ StartCall(r)
          \/ pc'[r] = pc[r] /\ result'[r] = result[r]
      BY StepShape DEF Publish, CallFails, Answer
    <2>4. CASE RecoveryElapsed(cb)
      BY <2>2, <2>3, <2>4, StepResult DEF ShortCircuit, CacheHit
    <2>5. CASE ~RecoveryElapsed(cb)
      <3>1. ~CacheHit(r) /\ ~StartCall(r)
        BY <2>2, <2>5 DEF CacheHit, StartCall
      <3>2. QED
        BY <2>1, <2>3, <2>5, <3>1, StepResult DEF RulesHandled
    <2>6. QED
      BY <2>4, <2>5
  <1>3. QED
    BY <1>1, <1>2, UndecidedStep, TypeCorrect, PTL DEF Spec, OpenCircuitRests

(***************************************************************************)
(* The statistics.  They are numbers of requests, and only finitely many   *)
(* have been decided; that a verdict of the rules is told from one of the  *)
(* model, also when it comes from the cache, is what VerdictInv says.      *)
(***************************************************************************)
DecidedOnes == {r \in Requests : Decided(r)}
Told(v) == {r \in Requests : Decided(r) /\ result[r].verdict = v}
Ruled == {r \in Requests : Decided(r) /\ result[r].reason = "fallback"}

CountsInv ==
    /\ IsFiniteSet(DecidedOnes)
    /\ counts["total"] = Cardinality(DecidedOnes)
    /\ \A v \in Verdicts : counts[v] = Cardinality(Told(v))
    /\ counts["fallbacks"] = Cardinality(Ruled)

\* A request that is decided is counted in total, under its verdict, and as one
\* of the rules' if it is.
LEMMA DecideCounts ==
    ASSUME TypeOK, CountsInv, NEW r \in Requests, pc[r] \in {"idle", "asking"},
           NEW v \in TrustVerdict, NEW names \in SUBSET {"fallbacks", "hits"},
           Decide(r, v, names), "fallbacks" \in names <=> v.reason = "fallback"
    PROVE  CountsInv'
  <1> DEFINE Size(S) == Cardinality(S)
  <1>1. /\ r \notin DecidedOnes /\ IsFiniteSet(DecidedOnes)
        /\ v.verdict \in Verdicts
        /\ counts \in [CountNames -> Nat]
        /\ counts' = Bump(counts, names \cup {"total", v.verdict})
    BY DEF TypeOK, CountsInv, Decide, DecidedOnes, Decided, TrustVerdict
  <1>2. /\ \A q \in Requests : Decided(q)' <=> Decided(q) \/ q = r
        /\ \A q \in Requests : q # r => result'[q] = result[q]
        /\ result'[r] = v
    BY DEF TypeOK, Decide, Decided
  <1>3. ASSUME NEW S \in SUBSET DecidedOnes
        PROVE  /\ IsFiniteSet(S) /\ Size(S) \in Nat
               /\ IsFiniteSet(S \cup {r}) /\ Size(S \cup {r}) = Size(S) + 1
    BY <1>1, FS_Subset, FS_CardinalityType, FS_AddElement
  <1>4. DecidedOnes' = DecidedOnes \cup {r}
    BY <1>2 DEF DecidedOnes
  <1>5. ASSUME NEW w \in Verdicts
        PROVE  /\ Told(w) \in SUBSET DecidedOnes
               /\ Told(w)' = IF w = v.verdict THEN Told(w) \cup {r} ELSE Told(w)
    BY <1>1, <1>2 DEF Told, DecidedOnes
  <1>6. /\ Ruled \in SUBSET DecidedOnes
        /\ Ruled' = IF v.reason = "fallback" THEN Ruled \cup {r} ELSE Ruled
    BY <1>1, <1>2 DEF Ruled, DecidedOnes
  <1>7. /\ counts'["total"] = counts["total"] + 1
        /\ counts'["fallbacks"] = IF v.reason = "fallback" THEN counts["fallbacks"] + 1
                                  ELSE counts["fallbacks"]
        /\ \A w \in Verdicts :
              counts'[w] = IF w = v.verdict THEN counts[w] + 1 ELSE counts[w]
    BY <1>1 DEF Bump, CountNames, Verdicts
  <1>8. IsFiniteSet(DecidedOnes') /\ counts'["total"] = Cardinality(DecidedOnes')
    BY <1>1, <1>3, <1>4, <1>7 DEF CountsInv
  <1>9. ASSUME NEW w \in Verdicts
        PROVE  counts'[w] = Cardinality(Told(w)')
    <2>0. counts[w] = Cardinality(Told(w))
      BY DEF CountsInv
    <2>1. CASE w = v.verdict
      <3>1. Told(w)' = Told(w) \cup {r} /\ counts'[w] = counts[w] + 1
        BY <1>5, <1>7, <2>1
      <3>2. Cardinality(Told(w) \cup {r}) = Cardinality(Told(w)) + 1
        BY <1>3, <1>5
      <3>3. QED
        BY <2>0, <3>1, <3>2
    <2>2. CASE w # v.verdict
      <3>1. Told(w)' = Told(w) /\ counts'[w] = counts[w]
        BY <1>5, <1>7, <2>2
      <3>2. QED
        BY <2>0, <3>1
    <2>3. QED
      BY <2>1, <2>2
  <1>10. counts'["fallbacks"] = Cardinality(Ruled')
    <2>1. CASE v.reason = "fallback"
      BY <1>3, <1>6, <1>7, <2>1 DEF CountsInv
    <2>2. CASE v.reason # "fallback"
      BY <1>6, <1>7, <2>2 DEF CountsInv
    <2>3. QED
      BY <2>1, <2>2
  <1>11. QED
    BY <1>8, <1>9, <1>10 DEF CountsInv

\* Who is decided stays so with the same verdict, and nobody else is counted.
LEMMA SameCounts ==
    ASSUME CountsInv,
           \A q \in Requests : Decided(q)' <=> Decided(q),
           \A q \in Requests : Decided(q) => result'[q] = result[q],
           \A n \in {"total", "fallbacks"} \cup Verdicts : counts'[n] = counts[n]
    PROVE  CountsInv'
  <1>1. DecidedOnes' = DecidedOnes /\ Ruled' = Ruled /\ \A v \in Verdicts : Told(v)' = Told(v)
    BY DEF DecidedOnes, Ruled, Told
  <1>2. QED
    BY <1>1 DEF CountsInv

\* Falling back counts what it decides, and nothing if it raises.
LEMMA FallBackCounts ==
    ASSUME TypeOK, CountsInv, NEW r \in Requests, pc[r] \in {"idle", "asking"},
           NEW names \in SUBSET {"hits"}, FallBack(r, names)
    PROVE  CountsInv'
  <1>1. CASE FallbackRaises(session[r])
    <2>1. \A q \in Requests : Decided(q)' <=> Decided(q)
      BY <1>1 DEF FallBack, TypeOK, Decided
    <2>2. \A n \in {"total", "fallbacks"} \cup Verdicts : counts'[n] = counts[n]
      BY <1>1 DEF FallBack, Bump, CountNames, Verdicts
    <2>3. QED
      BY <1>1, <2>1, <2>2, SameCounts DEF FallBack
  <1>2. CASE ~FallbackRaises(session[r])
    BY <1>2, FallbackTyped, DecideCounts DEF FallBack
  <1>3. QED
    BY <1>1, <1>2

\* So does what the engine makes of a verdict that is not a rule's.
LEMMA JudgeCounts ==
    ASSUME TypeOK, CountsInv, NEW r \in Requests, pc[r] \in {"idle", "asking"}, NEW b,
           NEW v \in TrustVerdict, v.reason # "fallback", NEW names \in SUBSET {"hits"},
           Judge(r, b, v, names)
    PROVE  CountsInv'
  <1>1. CASE LooksFailed(v)
    BY <1>1, FallBackCounts DEF Judge
  <1>2. CASE ~LooksFailed(v)
    <2>1. Decide(r, v, names) /\ "fallbacks" \notin names
      BY <1>2 DEF Judge
    <2>2. QED
      BY <2>1, DecideCounts
  <1>3. QED
    BY <1>1, <1>2

\* Every step counts what it decides, and nothing else.
LEMMA CountsStep == TypeOK /\ VerdictInv /\ CountsInv /\ [Next]_vars => CountsInv'
  <1> SUFFICES ASSUME TypeOK, VerdictInv, CountsInv, [Next]_vars
               PROVE  CountsInv'
    OBVIOUS
  <1>a. ASSUME UNCHANGED <<pc, result>>,
               counts' = counts \/ counts' = Bump(counts, {"hits"}) \/ counts' = Bump(counts, {"misses"})
        PROVE  CountsInv'
    <2>1. \A n \in {"total", "fallbacks"} \cup Verdicts : counts'[n] = counts[n]
      BY <1>a DEF Bump, CountNames, Verdicts
    <2>2. \A q \in Requests : (Decided(q)' <=> Decided(q)) /\ result'[q] = result[q]
      BY <1>a DEF Decided
    <2>3. QED
      BY <2>1, <2>2, SameCounts
  <1>1. CASE Tick
    BY <1>1, <1>a DEF Tick
  <1>2. ASSUME NEW r \in Requests, ShortCircuit(r)
        PROVE  CountsInv'
    BY <1>2, FallBackCounts DEF ShortCircuit
  <1>3. ASSUME NEW r \in Requests, CacheHit(r)
        PROVE  CountsInv'
    <2> DEFINE v == cache.entry[CacheKey(session[r])]
    <2>1. v \in TrustVerdict /\ v.reason # "fallback"
      BY <1>3, KeyTyped, SaidSound DEF CacheHit, VerdictInv
    <2>2. pc[r] = "idle" /\ Judge(r, AfterAllow(cb), v, {"hits"})
      BY <1>3 DEF CacheHit
    <2>3. QED
      BY <2>1, <2>2, JudgeCounts
  <1>4. ASSUME NEW r \in Requests, StartCall(r)
        PROVE  CountsInv'
    <2>1. \A n \in {"total", "fallbacks"} \cup Verdicts : counts'[n] = counts[n]
      BY <1>4 DEF StartCall, Bump, CountNames, Verdicts
    <2>2. \A q \in Requests : (Decided(q)' <=> Decided(q)) /\ result'[q] = result[q]
      BY <1>4 DEF StartCall, TypeOK, Decided
    <2>3. QED
      BY <2>1, <2>2, SameCounts
  <1>5. ASSUME NEW r \in Requests, Publish(r)
        PROVE  CountsInv'
    <2>1. \A q \in Requests : (Decided(q)' <=> Decided(q)) /\ result'[q] = result[q]
      BY <1>5 DEF Publish, TypeOK, Decided
    <2>2. QED
      BY <1>5, <2>1, SameCounts DEF Publish
  <1>6. ASSUME NEW v \in Verifiers, VerifyFromCache(v)
        PROVE  CountsInv'
    BY <1>6, <1>a DEF VerifyFromCache
  <1>7. ASSUME NEW v \in Verifiers, NEW m \in Models, VerifyStart(v, m)
        PROVE  CountsInv'
    BY <1>7, <1>a DEF VerifyStart
  <1>8. ASSUME NEW c \in Callers, Retry(c)
        PROVE  CountsInv'
    BY <1>8, <1>a DEF Retry
  <1>9. ASSUME NEW r \in Requests, CallFails(r)
        PROVE  CountsInv'
    <2>1. OllamaError.reason # "fallback"
      BY DEF OllamaError
    <2>2. pc[r] = "asking" /\ Judge(r, cb, OllamaError, {})
      BY <1>9 DEF CallFails
    <2>3. QED
      BY <2>1, <2>2, ErrorTyped, JudgeCounts
  <1>10. ASSUME NEW r \in Requests, NEW raw \in RawAnswers, Answer(r, raw)
         PROVE  CountsInv'
    <2>1. Parse(raw) \in TrustVerdict /\ Parse(raw).reason # "fallback"
      BY SaidSound
    <2>2. pc[r] = "asking" /\ Judge(r, cb, Parse(raw), {})
      BY <1>10 DEF Answer
    <2>3. QED
      BY <2>1, <2>2, JudgeCounts
  <1>11. ASSUME NEW v \in Verifiers, NEW raw \in RawAnswers, VerifyAnswer(v, raw)
         PROVE  CountsInv'
    BY <1>11, <1>a DEF VerifyAnswer
  <1>12. ASSUME NEW v \in Verifiers, VerifyError(v)
         PROVE  CountsInv'
    BY <1>12, <1>a DEF VerifyError
  <1>13. CASE UNCHANGED vars
    BY <1>13, <1>a DEF vars
  <1>14. QED
    BY <1>1, <1>2, <1>3, <1>4, <1>5, <1>6, <1>7, <1>8, <1>9, <1>10, <1>11, <1>12, <1>13
    DEF Next, Outcome

\* The counters of the statistics are the numbers of the decided requests, of
\* those that were told each verdict, and of those the rules decided.
THEOREM CountsSafe == Spec => []CountsAgree
  <1>1. Init => CountsInv
    <2> SUFFICES ASSUME Init
                 PROVE  CountsInv
      OBVIOUS
    <2>1. DecidedOnes = {} /\ Ruled = {} /\ \A v \in Verdicts : Told(v) = {}
      BY DEF Init, DecidedOnes, Ruled, Told, Decided
    <2>2. QED
      BY <2>1, FS_EmptySet DEF Init, CountsInv, CountNames, Verdicts
  <1>2. Init => VerdictInv
    BY DEF Init, EmptyCache, VerdictInv, Cached, Decided
  <1>3. CountsInv => CountsAgree
    <2> SUFFICES ASSUME CountsInv
                 PROVE  CountsAgree
      OBVIOUS
    <2>1. {r \in Requests : Decided(r) /\ TRUE} = DecidedOnes
      BY DEF DecidedOnes
    <2>2. QED
      BY <2>1, Zenon DEF CountsInv, CountsAgree, Told, Ruled
  <1>4. QED
    BY <1>1, <1>2, <1>3, VerdictStep, CountsStep, TypeCorrect, PTL DEF Spec
=============================================================================
