---------------------------- MODULE OllamaClient ----------------------------
(***************************************************************************)
(* The Ollama client (kelan/ai/ollama_client.py): what its parser makes of *)
(* the model's text, and its verdict cache.  The cache is a Python dict,   *)
(* which remembers insertion order: "entry" is the mapping, "order" the    *)
(* keys from the oldest to the newest.                                     *)
(***************************************************************************)
EXTENDS Integers, Sequences

CONSTANTS
    Sessions,     \* session contexts the server asks about
    RawAnswers,   \* texts the model may answer with
    CacheLimit,   \* 500 in the code
    None          \* no verdict

ASSUME CacheAssumption ==
    /\ CacheLimit \in Nat
    /\ \A raw \in RawAnswers :
         \/ raw \in [form : {"json"}, verdict : {"ALLOW", "DENY", "MONITOR", "other"},
                     confidence : Int, reason : {"model", "ollama_error"}]
         \/ raw \in [form : {"prose"}, words : SUBSET {"ALLOW", "DENY", "MONITOR"}]

Verdicts == {"ALLOW", "DENY", "MONITOR"}

\* Of "reason" only its prefix is told apart: "ollama_error:", which the client
\* writes and which the model's own text may begin with as well; "fallback:", which
\* the engine writes; or any other text of the model.  Confidence is a percentage.
TrustVerdict == [verdict : Verdicts, confidence : 0..100,
                 reason : {"model", "ollama_error", "fallback"}]

Answered(v, c, reason) == [verdict |-> v, confidence |-> c, reason |-> reason]

\* evaluate's except branch: MONITOR with confidence 0.0 and the error as reason.
OllamaError == [verdict |-> "MONITOR", confidence |-> 0, reason |-> "ollama_error"]

ClampM_LowerOnly(c) == IF c < 0 THEN 0 ELSE c

Clamp(c) == IF c < 0 THEN 0 ELSE IF c > 100 THEN 100 ELSE c

\* _parse: strategies 1 and 2 find a JSON object (as the whole text, in a code
\* fence or by a regular expression) and read it alike, with the reason it
\* gives; strategy 3 looks for keywords in the order DENY, ALLOW, MONITOR, and
\* its reasons are fixed.
Parse(raw) ==
    IF raw.form = "json"
    THEN Answered(IF raw.confidence >= 50 /\ raw.verdict \in Verdicts
                  THEN raw.verdict ELSE "MONITOR",
                  Clamp(raw.confidence), raw.reason)
    ELSE IF "DENY"    \in raw.words THEN Answered("DENY", 70, "model")
    ELSE IF "ALLOW"   \in raw.words THEN Answered("ALLOW", 70, "model")
    ELSE IF "MONITOR" \in raw.words THEN Answered("MONITOR", 60, "model")
    ELSE Answered("MONITOR", 50, "model")

(***************************************************************************)
(* The cache.                                                              *)
(***************************************************************************)
\* _cache_key: the digest leaves out the source address, the session id and
\* the model (SHA-256 is taken to be free of collisions).
CacheKey(s) == [entity |-> s.entity, anomalies |-> s.anomalies, intent |-> s.intent]

Keys == {CacheKey(s) : s \in Sessions}

Cache == [order : Seq(Keys), entry : [Keys -> TrustVerdict \cup {None}]]

EmptyCache == [order |-> << >>, entry |-> [k \in Keys |-> None]]

Cached(cache, k) == cache.entry[k] # None

\* self._cache.pop(next(iter(self._cache))): the key inserted first goes.
PopOldest(cache) ==
    [order |-> Tail(cache.order),
     entry |-> [cache.entry EXCEPT ![Head(cache.order)] = None]]

\* self._cache[ck] = verdict: a key that is already there keeps its place.
Put(cache, k, v) ==
    [order |-> IF Cached(cache, k) THEN cache.order ELSE Append(cache.order, k),
     entry |-> [cache.entry EXCEPT ![k] = v]]

StoreM_NoEviction(cache, k, v) == Put(cache, k, v)

\* What a successful evaluation does to the cache.
Store(cache, k, v) ==
    Put(IF Len(cache.order) > CacheLimit THEN PopOldest(cache) ELSE cache, k, v)
=============================================================================
