------------------------------ MODULE EngineV3 ------------------------------
(***************************************************************************)
(* The trust engine of version 3 (kelan-python/kelan/ai/engine.py) with    *)
(* the one callback its server registers, _broadcast_verdict               *)
(* (kelan-python/kelan/server/main.py), and the agents it sends to.        *)
(*                                                                         *)
(* The breaker is that of version 4 line by line, hence CircuitBreaker.    *)
(* Of a verdict only its author is kept: the model or the rules.  Sending  *)
(* to the agents one after another is one suspension, which may end at any *)
(* time: what raises in between raises at its end.                         *)
(***************************************************************************)
EXTENDS CircuitBreaker, FiniteSets

CONSTANTS
    Requests,   \* evaluations
    Simulated,  \* those of SimulationEngine: their anomalies are a list
    Clients     \* WebSocket connections

ASSUME EngineAssumption == Simulated \subseteq Requests /\ IsFiniteSet(Clients)

VARIABLES
    cb,         \* circuit
    listening,  \* the callback is in _callbacks
    agents,     \* ws_clients
    calls,      \* _total_evaluations, _ollama_calls and _fallback_calls
    pc,         \* where each evaluation is
    by,         \* whose verdict it has arrived at
    size,       \* the size of ws_clients its iteration started with
    outcome     \* history: what became of its call of Ollama

vars == <<cb, listening, agents, calls, pc, by, size, outcome>>

Under == {"calling", "sending"}

TypeOK ==
    /\ cb \in Breaker
    /\ listening \in BOOLEAN
    /\ agents \in SUBSET Clients
    /\ calls \in [total : Nat, ollama : Nat, fallback : Nat]
    /\ pc \in [Requests -> Under \cup {"idle", "returned", "raised", "cancelled"}]
    /\ by \in [Requests -> {"nobody", "model", "rules"}]
    /\ size \in [Requests -> 0..Cardinality(Clients)]
    /\ outcome \in [Requests -> {"none", "refused", "failed", "answered"}]

Init ==
    /\ cb = NewBreaker
    /\ listening = TRUE
    /\ agents = {}
    /\ calls = [total |-> 0, ollama |-> 0, fallback |-> 0]
    /\ pc = [r \in Requests |-> "idle"]
    /\ by = [r \in Requests |-> "nobody"]
    /\ size = [r \in Requests |-> 0]
    /\ outcome = [r \in Requests |-> "none"]

-----------------------------------------------------------------------------
\* _broadcast begins.  Without a callback, or without an agent to send to,
\* nothing is awaited and evaluate returns.
Broadcast(r, author) ==
    /\ by' = [by EXCEPT ![r] = author]
    /\ size' = [size EXCEPT ![r] = Cardinality(agents)]
    /\ pc' = [pc EXCEPT ![r] = IF listening /\ agents # {} THEN "sending" ELSE "returned"]

FallBackM_ReturnsNone(r) ==
    \/ /\ r \notin Simulated
       /\ Broadcast(r, "rules")
    \/ /\ r \in Simulated
       /\ Broadcast(r, "none")

\* fallback_rules: a list of anomalies has no "get", and evaluate raises.
FallBack(r) ==
    \/ /\ r \notin Simulated
       /\ Broadcast(r, "rules")
    \/ /\ r \in Simulated
       /\ pc' = [pc EXCEPT ![r] = "raised"]
       /\ by' = [by EXCEPT ![r] = "nobody"]
       /\ UNCHANGED size

\* SimulationEngine has one evaluation at a time (module Simulation).
MayBegin(r) ==
    /\ pc[r] = "idle"
    /\ r \in Simulated => \A s \in Simulated : pc[s] \notin Under

Evaluate(r) ==
    /\ MayBegin(r)
    /\ Allows(cb)
    /\ cb' = AfterAllow(cb)
    /\ calls' = [calls EXCEPT !.total = @ + 1]
    /\ pc' = [pc EXCEPT ![r] = "calling"]
    /\ UNCHANGED <<listening, agents, by, size, outcome>>

\* The circuit is open.
Refused(r) ==
    /\ MayBegin(r)
    /\ ~Allows(cb)
    /\ calls' = [calls EXCEPT !.total = @ + 1, !.fallback = @ + 1]
    /\ outcome' = [outcome EXCEPT ![r] = "refused"]
    /\ FallBack(r)
    /\ UNCHANGED <<cb, listening, agents>>

Answered(r) ==
    /\ pc[r] = "calling"
    /\ cb' = Success(cb)
    /\ calls' = [calls EXCEPT !.ollama = @ + 1]
    /\ outcome' = [outcome EXCEPT ![r] = "answered"]
    /\ Broadcast(r, "model")
    /\ UNCHANGED <<listening, agents>>

CallFailsM_NotCounted(r) ==
    /\ pc[r] = "calling"
    /\ cb' = Failure(cb)
    /\ outcome' = [outcome EXCEPT ![r] = "failed"]
    /\ FallBack(r)
    /\ UNCHANGED <<calls, listening, agents>>

\* Ollama failed, after the retries of its client.
CallFails(r) ==
    /\ pc[r] = "calling"
    /\ cb' = Failure(cb)
    /\ calls' = [calls EXCEPT !.fallback = @ + 1]
    /\ outcome' = [outcome EXCEPT ![r] = "failed"]
    /\ FallBack(r)
    /\ UNCHANGED <<listening, agents>>

-----------------------------------------------------------------------------
\* The callback returns, and has removed the agents it could not send to.
Delivered(r) ==
    /\ pc[r] = "sending"
    /\ Cardinality(agents) = size[r]
    /\ \E dead \in SUBSET agents : agents' = agents \ dead
    /\ pc' = [pc EXCEPT ![r] = "returned"]
    /\ UNCHANGED <<cb, listening, calls, by, size, outcome>>

\* ws_clients has another size: the iteration raises and the callback is
\* removed from the list.
Interrupted(r) ==
    /\ pc[r] = "sending"
    /\ Cardinality(agents) # size[r]
    /\ listening
    /\ listening' = FALSE
    /\ pc' = [pc EXCEPT ![r] = "returned"]
    /\ UNCHANGED <<cb, agents, calls, by, size, outcome>>

InterruptedAgainM_Raises(r) ==
    /\ pc[r] = "sending"
    /\ Cardinality(agents) # size[r]
    /\ ~listening
    /\ pc' = [pc EXCEPT ![r] = "raised"]
    /\ by' = [by EXCEPT ![r] = "nobody"]
    /\ UNCHANGED <<cb, listening, agents, calls, size, outcome>>

\* Another evaluation has removed it already, and so remove() raises.  Around
\* the broadcast of Ollama's verdict the exception is handled as a failure of
\* Ollama; around one of the rules nothing handles it.
InterruptedAgain(r) ==
    /\ pc[r] = "sending"
    /\ Cardinality(agents) # size[r]
    /\ ~listening
    /\ \/ /\ by[r] = "model"
          /\ cb' = Failure(cb)
          /\ calls' = [calls EXCEPT !.fallback = @ + 1]
          /\ FallBack(r)
       \/ /\ by[r] = "rules"
          /\ pc' = [pc EXCEPT ![r] = "raised"]
          /\ by' = [by EXCEPT ![r] = "nobody"]
          /\ UNCHANGED <<cb, calls, size>>
    /\ UNCHANGED <<listening, agents, outcome>>

\* SimulationEngine.stop cancels its task; CancelledError is not an Exception.
Cancel(r) ==
    /\ r \in Simulated
    /\ pc[r] \in Under
    /\ pc' = [pc EXCEPT ![r] = "cancelled"]
    /\ UNCHANGED <<cb, listening, agents, calls, by, size, outcome>>

\* ws_agent adds its connection and discards it.
Join(c) ==
    /\ agents' = agents \cup {c}
    /\ UNCHANGED <<cb, listening, calls, pc, by, size, outcome>>

Leave(c) ==
    /\ agents' = agents \ {c}
    /\ UNCHANGED <<cb, listening, calls, pc, by, size, outcome>>

\* time.monotonic()
Tick ==
    /\ cb' = Elapse(cb)
    /\ UNCHANGED <<listening, agents, calls, pc, by, size, outcome>>

-----------------------------------------------------------------------------
CallEnds(r) == Answered(r) \/ CallFails(r)
BroadcastEnds(r) == Delivered(r) \/ Interrupted(r) \/ InterruptedAgain(r)

Next ==
    \/ \E r \in Requests :
          Evaluate(r) \/ Refused(r) \/ CallEnds(r) \/ BroadcastEnds(r) \/ Cancel(r)
    \/ \E c \in Clients : Join(c) \/ Leave(c)
    \/ Tick

Spec == Init /\ [][Next]_vars

-----------------------------------------------------------------------------
Overruled(r) == outcome[r] = "answered" /\ by[r] # "model"

\* The statistics: an evaluation counts as one of Ollama's or one of the rules,
\* also when it is cancelled during its broadcast, and as both only when
\* Ollama's verdict was overruled.
OnlyOverruledCountTwice ==
    /\ calls.ollama = Cardinality({r \in Requests : outcome[r] = "answered"})
    /\ calls.fallback = Cardinality({r \in Requests : outcome[r] \in {"refused", "failed"}})
                        + Cardinality({r \in Requests : Overruled(r)})
    /\ calls.total = Cardinality({r \in Requests : pc[r] # "idle"})

\* evaluate raises on a session of an enrolment, whose anomalies are a
\* dictionary, only once the callback is lost.
EnrolmentsAreJudged ==
    \A r \in Requests \ Simulated :
        pc[r] = "raised" => ~listening /\ outcome[r] # "answered"

\* "Falls back to deterministic rules when Ollama is down": a verdict is by the
\* rules only if Ollama failed or was not asked.
RulesOnlyWhenDown == \A r \in Requests : by[r] = "rules" => outcome[r] # "answered"
=============================================================================
