---------------------------- MODULE TrustEngine ----------------------------
(***************************************************************************)
(* The trust engine of the v4 server: HybridTrustEngine.evaluate           *)
(* (kelan/ai/engine.py) called concurrently by the request handlers, over  *)
(* OllamaClient.evaluate (kelan/ai/ollama_client.py) with its cache and    *)
(* its two attempts, and the model check POST /api/config/verify-key       *)
(* (kelan/api/server.py), which borrows the same client.                   *)
(*                                                                         *)
(* All of this runs on one asyncio event loop.  An action is what runs     *)
(* between two awaits: from the arrival of a request to the await on the   *)
(* HTTP call, from the call's outcome to the await on the hooks, and the   *)
(* hooks.  Everything else interleaves.                                    *)
(***************************************************************************)
EXTENDS CircuitBreaker, OllamaClient, FiniteSets

CONSTANTS
    Requests,      \* evaluations requested of the engine
    Verifiers,     \* calls of /api/config/verify-key
    Models,        \* model names a verification may ask for
    DefaultModel,  \* cfg.ollama_model
    TestCtx,       \* the session context verify_key evaluates
    NonDict,       \* "anomalies" that is not a mapping
    Malformed,     \* a mapping in which some count is not a number
    Hung           \* requests and verifications whose HTTP call may never end

MaxAttempts == 2   \* stop_after_attempt(2)

ASSUME EngineAssumption ==
    /\ Requests \cap Verifiers = {}
    /\ DefaultModel \in Models
    /\ TestCtx \in Sessions
    /\ None \notin TrustVerdict
    /\ Hung \subseteq Requests \cup Verifiers

VARIABLES
    cb,        \* the circuit breaker
    cache,     \* the client's verdict cache
    model,     \* the client's current model
    attempt,   \* HTTP attempts made for the call each caller awaits, 0 for none
    pc,        \* where each evaluation is
    session,   \* the session each evaluation is about
    result,    \* the verdict each evaluation arrived at
    counts,    \* engine._counts and the client's hit and miss counters
    vpc,       \* where each verification is
    oldModel,  \* verify_key's local old_model
    overlapped \* history: two verifications were in flight at the same time

vars == <<cb, cache, model, attempt, pc, session, result, counts,
          vpc, oldModel, overlapped>>

Callers == Requests \cup Verifiers
CountNames == {"total", "ALLOW", "DENY", "MONITOR", "fallbacks", "hits", "misses"}

TypeOK ==
    /\ cb \in Breaker
    /\ cache \in Cache
    /\ model \in Models
    /\ attempt \in [Callers -> 0..MaxAttempts]
    /\ pc \in [Requests -> {"idle", "asking", "publishing", "returned", "raised"}]
    /\ session \in [Requests -> Sessions]
    /\ result \in [Requests -> TrustVerdict \cup {None}]
    /\ counts \in [CountNames -> Nat]
    /\ vpc \in [Verifiers -> {"idle", "asking", "verified", "failed"}]
    /\ oldModel \in [Verifiers -> Models]
    /\ overlapped \in BOOLEAN

Init ==
    /\ cb = NewBreaker
    /\ cache = EmptyCache
    /\ model = DefaultModel
    /\ attempt = [c \in Callers |-> 0]
    /\ pc = [r \in Requests |-> "idle"]
    /\ session \in [Requests -> Sessions]
    /\ result = [r \in Requests |-> None]
    /\ counts = [n \in CountNames |-> 0]
    /\ vpc = [v \in Verifiers |-> "idle"]
    /\ oldModel = [v \in Verifiers |-> DefaultModel]
    /\ overlapped = FALSE

-----------------------------------------------------------------------------
(***************************************************************************)
(* The fallback rules.  Anomalies are a set of <<name, count>> pairs; the  *)
(* list of checks is built eagerly, so one malformed count raises whatever *)
(* the others say.                                                         *)
(***************************************************************************)
Exceeds(anomalies, name, limit) == \E a \in anomalies : a[1] = name /\ a[2] > limit

FallbackRaises(s) == s.anomalies = Malformed

Fallback(s) ==
    LET a == s.anomalies
        Rule(v, c) == [verdict |-> v, confidence |-> c, reason |-> "fallback"]
    IN  IF a = NonDict THEN Rule("MONITOR", 50)
        ELSE IF \/ Exceeds(a, "syn_rate_per_second", 100)
                \/ Exceeds(a, "ports_probed", 500)
                \/ Exceeds(a, "enrollment_count_from_ip", 20)
                \/ Exceeds(a, "failed_auth_attempts", 50)
             THEN Rule("DENY", 85)
        ELSE IF a # {} THEN Rule("MONITOR", 85)
        ELSE Rule("ALLOW", 75)

\* counts after a list of increments by one.
Bump(c, names) == [n \in CountNames |-> IF n \in names THEN c[n] + 1 ELSE c[n]]

\* The tail of evaluate up to the await on the hooks: the counters, and the
\* payload that the hooks are about to be given.
Decide(r, v, names) ==
    /\ result' = [result EXCEPT ![r] = v]
    /\ pc' = [pc EXCEPT ![r] = "publishing"]
    /\ counts' = Bump(counts, names \cup {"total", v.verdict})

\* evaluate falls back; "names" are the other counters this step bumps.
FallBack(r, names) ==
    IF FallbackRaises(session[r])
    THEN /\ pc' = [pc EXCEPT ![r] = "raised"]
         /\ counts' = Bump(counts, names)
         /\ UNCHANGED result
    ELSE Decide(r, Fallback(session[r]), names \cup {"fallbacks"})

\* verdict.reason.startswith("ollama_error:"): all the engine knows of a failure.
LooksFailed(v) == v.reason = "ollama_error"

\* The client has returned v, and the breaker b hears of it.  When the rules raise
\* inside the try block, the except branch records the failure again and the
\* rules raise again.
Judge(r, b, v, names) ==
    \/ /\ ~LooksFailed(v)
       /\ cb' = Success(b)
       /\ Decide(r, v, names)
    \/ /\ LooksFailed(v)
       /\ cb' = IF FallbackRaises(session[r]) THEN Failure(Failure(b)) ELSE Failure(b)
       /\ FallBack(r, names)

-----------------------------------------------------------------------------
(***************************************************************************)
(* HybridTrustEngine.evaluate                                              *)
(***************************************************************************)

\* not self.cb.allow: the rules decide, Ollama is not asked.
ShortCircuit(r) ==
    /\ pc[r] = "idle"
    /\ ~Allows(cb)
    /\ FallBack(r, {})
    /\ UNCHANGED <<cb, cache, model, attempt, session, vpc, oldModel, overlapped>>

CacheHitM_IsASuccess(r) ==
    /\ pc[r] = "idle"
    /\ Allows(cb)
    /\ Cached(cache, CacheKey(session[r]))
    /\ cb' = Success(AfterAllow(cb))
    /\ Decide(r, cache.entry[CacheKey(session[r])], {"hits"})
    /\ UNCHANGED <<cache, model, attempt, session, vpc, oldModel, overlapped>>

\* The breaker lets the request through and the client answers from its cache.
CacheHit(r) ==
    /\ pc[r] = "idle"
    /\ Allows(cb)
    /\ Cached(cache, CacheKey(session[r]))
    /\ Judge(r, AfterAllow(cb), cache.entry[CacheKey(session[r])], {"hits"})
    /\ UNCHANGED <<cache, model, attempt, session, vpc, oldModel, overlapped>>

\* The breaker lets the request through and the client has to ask Ollama.
StartCall(r) ==
    /\ pc[r] = "idle"
    /\ Allows(cb)
    /\ ~Cached(cache, CacheKey(session[r]))
    /\ cb' = AfterAllow(cb)
    /\ pc' = [pc EXCEPT ![r] = "asking"]
    /\ attempt' = [attempt EXCEPT ![r] = 1]
    /\ counts' = Bump(counts, {"misses"})
    /\ UNCHANGED <<cache, model, session, result, vpc, oldModel, overlapped>>

\* Ollama's text arrives: it is parsed and cached, and the engine takes it for an
\* answer or, by the reason it gives, for a failure.
Answer(r, raw) ==
    /\ pc[r] = "asking"
    /\ cache' = Store(cache, CacheKey(session[r]), Parse(raw))
    /\ attempt' = [attempt EXCEPT ![r] = 0]
    /\ Judge(r, cb, Parse(raw), {})
    /\ UNCHANGED <<model, session, vpc, oldModel, overlapped>>

CallFailsM_CachesTheError(r) ==
    /\ pc[r] = "asking"
    /\ attempt' = [attempt EXCEPT ![r] = 0]
    /\ cache' = Store(cache, CacheKey(session[r]), OllamaError)
    /\ Judge(r, cb, OllamaError, {})
    /\ UNCHANGED <<model, session, vpc, oldModel, overlapped>>

CallFailsM_ForgetsFallbackCount(r) ==
    /\ pc[r] = "asking"
    /\ attempt' = [attempt EXCEPT ![r] = 0]
    /\ cb' = Failure(cb)
    /\ Decide(r, Fallback(session[r]), {})
    /\ UNCHANGED <<cache, model, session, vpc, oldModel, overlapped>>

\* The call is given up, after a transport error on the last attempt or any
\* other error on any attempt: the client returns an "ollama_error:" verdict,
\* which it does not cache.
CallFails(r) ==
    /\ pc[r] = "asking"
    /\ attempt' = [attempt EXCEPT ![r] = 0]
    /\ Judge(r, cb, OllamaError, {})
    /\ UNCHANGED <<cache, model, session, vpc, oldModel, overlapped>>

\* The hooks have run (what they raise is logged) and evaluate returns.
Publish(r) ==
    /\ pc[r] = "publishing"
    /\ pc' = [pc EXCEPT ![r] = "returned"]
    /\ UNCHANGED <<cb, cache, model, attempt, session, result, counts,
                   vpc, oldModel, overlapped>>

\* tenacity: a connection or protocol error before the last attempt.
Retry(c) ==
    /\ attempt[c] > 0
    /\ attempt[c] < MaxAttempts
    /\ attempt' = [attempt EXCEPT ![c] = @ + 1]
    /\ UNCHANGED <<cb, cache, model, pc, session, result, counts,
                   vpc, oldModel, overlapped>>

\* time.time() advances.
Tick ==
    /\ cb' = Elapse(cb)
    /\ UNCHANGED <<cache, model, attempt, pc, session, result, counts,
                   vpc, oldModel, overlapped>>

-----------------------------------------------------------------------------
(***************************************************************************)
(* POST /api/config/verify-key: swap the client's model, evaluate the test *)
(* context past the breaker, restore the model that was there before.      *)
(***************************************************************************)
TestKey == CacheKey(TestCtx)

\* What the verification makes of the client's verdict.
Verified(v) == IF LooksFailed(v) THEN "failed" ELSE "verified"

\* A cached test verdict: the model is swapped and restored within one step.
VerifyFromCache(v) ==
    /\ vpc[v] = "idle"
    /\ Cached(cache, TestKey)
    /\ vpc' = [vpc EXCEPT ![v] = Verified(cache.entry[TestKey])]
    /\ counts' = Bump(counts, {"hits"})
    /\ UNCHANGED <<cb, cache, model, attempt, pc, session, result, oldModel, overlapped>>

VerifyStart(v, m) ==
    /\ vpc[v] = "idle"
    /\ ~Cached(cache, TestKey)
    /\ oldModel' = [oldModel EXCEPT ![v] = model]
    /\ model' = m
    /\ vpc' = [vpc EXCEPT ![v] = "asking"]
    /\ attempt' = [attempt EXCEPT ![v] = 1]
    /\ counts' = Bump(counts, {"misses"})
    /\ overlapped' = (overlapped \/ \E w \in Verifiers : vpc[w] = "asking")
    /\ UNCHANGED <<cb, cache, pc, session, result>>

VerifyAnswer(v, raw) ==
    /\ vpc[v] = "asking"
    /\ cache' = Store(cache, TestKey, Parse(raw))
    /\ attempt' = [attempt EXCEPT ![v] = 0]
    /\ vpc' = [vpc EXCEPT ![v] = Verified(Parse(raw))]
    /\ model' = oldModel[v]
    /\ UNCHANGED <<cb, pc, session, result, counts, oldModel, overlapped>>

VerifyErrorM_NoFinally(v) ==
    /\ vpc[v] = "asking"
    /\ attempt' = [attempt EXCEPT ![v] = 0]
    /\ vpc' = [vpc EXCEPT ![v] = "failed"]
    /\ UNCHANGED <<cb, cache, model, pc, session, result, counts, oldModel, overlapped>>

VerifyError(v) ==
    /\ vpc[v] = "asking"
    /\ attempt' = [attempt EXCEPT ![v] = 0]
    /\ vpc' = [vpc EXCEPT ![v] = "failed"]
    /\ model' = oldModel[v]
    /\ UNCHANGED <<cb, cache, pc, session, result, counts, oldModel, overlapped>>

-----------------------------------------------------------------------------
\* What comes back from the HTTP call a caller awaits.
Outcome(c) ==
    \/ Retry(c)
    \/ c \in Requests /\ (CallFails(c) \/ \E raw \in RawAnswers : Answer(c, raw))
    \/ c \in Verifiers /\ (VerifyError(c) \/ \E raw \in RawAnswers : VerifyAnswer(c, raw))

Next ==
    \/ Tick
    \/ \E r \in Requests : ShortCircuit(r) \/ CacheHit(r) \/ StartCall(r) \/ Publish(r)
    \/ \E v \in Verifiers : VerifyFromCache(v) \/ \E m \in Models : VerifyStart(v, m)
    \/ \E c \in Callers : Outcome(c)

Spec == Init /\ [][Next]_vars

\* The event loop resumes a task whose HTTP call has ended.  The client sets no
\* timeout, so a call may never end: those in Hung need not, and of the others
\* nothing is assumed but that theirs do.  Neither new requests, verifications
\* and the clock nor the end of the hooks are forced to come.
Fairness == \A c \in Callers \ Hung : WF_vars(Outcome(c))

FairSpec == Spec /\ Fairness

-----------------------------------------------------------------------------
(***************************************************************************)
(* Safety                                                                  *)
(***************************************************************************)
Decided(r) == pc[r] \in {"publishing", "returned"}

\* The circuit is closed exactly when fewer than Threshold consecutive failures
\* are on record.  failure() has no branch for HALF_OPEN: that a failed probe
\* re-opens the circuit rests on this, since only then does the count it
\* increments reach the threshold at once.
BreakerCoherent == cb.state = "closed" <=> cb.failures < Threshold

\* A half-open circuit has a probe in flight whose outcome will move it: no
\* interleaving of late answers leaves the breaker half-open with nobody asking.
HalfOpenHasProbe == cb.state = "half_open" => \E r \in Requests : pc[r] = "asking"

\* Nothing that claims to be an error of the client leaves the engine, whether the
\* call failed or the model's own words begin like that, and whether they come
\* from Ollama or again from the cache; and the cache holds only what the model
\* said: an error of the client would be replayed as a failure on every later hit.
NoErrorVerdict ==
    /\ \A r \in Requests : Decided(r) => ~LooksFailed(result[r])
    /\ \A k \in Keys : Cached(cache, k) => cache.entry[k] \in {Parse(raw) : raw \in RawAnswers}

\* A verdict that acts (ALLOW or DENY) was held with confidence of at least a
\* half, whether the model said it, the cache repeated it or the rules made it.
ConfidentDecisions ==
    \A r \in Requests :
        Decided(r) /\ result[r].verdict # "MONITOR" => result[r].confidence >= 50

\* The cache never holds more than CacheLimit + 1 verdicts, however many calls
\* are in flight when it is full.
CacheBounded == Len(cache.order) <= CacheLimit + 1

\* The statistics agree with what the requests were told: every decided request
\* is in "total" and in one verdict counter, and "fallbacks" counts exactly the
\* verdicts the rules made.
CountsAgree ==
    LET Number(P(_)) == Cardinality({r \in Requests : Decided(r) /\ P(r)})
    IN  /\ counts["total"] = Number(LAMBDA r : TRUE)
        /\ \A v \in Verdicts : counts[v] = Number(LAMBDA r : result[r].verdict = v)
        /\ counts["fallbacks"] = Number(LAMBDA r : result[r].reason = "fallback")

\* Once no verification is in flight the client is back on the configured model,
\* provided no two verifications ever overlapped (overlapping ones restore each
\* other's model, and the precondition is needed).
ModelRestored ==
    ~overlapped /\ (\A v \in Verifiers : vpc[v] # "asking") => model = DefaultModel

(***************************************************************************)
(* What a step may never do                                                *)
(***************************************************************************)

\* While the circuit is half-open, the first outcome decides, whichever probe comes
\* first: an answer of the model closes it; a failed call, or an answer that the
\* engine takes for one, opens it.
ProbeOutcomeDecides ==
    [][cb.state = "half_open" =>
         \A r \in Requests : pc[r] = "asking" /\ pc'[r] # "asking" =>
            cb'.state = IF result'[r] # None /\ result'[r].reason = "model"
                        THEN "closed" ELSE "open"]_vars

\* As long as the circuit is open and the recovery time has not passed, a new
\* request neither asks Ollama nor is served from the cache; as soon as it has
\* passed, the next request that the cache cannot serve asks.
OpenCircuitRests ==
    [][cb.state = "open" =>
         \A r \in Requests : pc[r] = "idle" =>
            IF RecoveryElapsed(cb)
            THEN pc'[r] \in {"idle", "asking"} \/ Cached(cache, CacheKey(session[r]))
            ELSE /\ pc'[r] # "asking"
                 /\ result'[r] # None => result'[r].reason = "fallback"]_vars

(***************************************************************************)
(* Liveness, under FairSpec                                                *)
(***************************************************************************)

=============================================================================
