--------------------------- MODULE CircuitBreaker ---------------------------
(***************************************************************************)
(* The circuit breaker of the trust engine (kelan/ai/engine.py, class      *)
(* CircuitBreaker) as operators on a breaker record.                       *)
(*                                                                         *)
(* Two data abstractions, both exact for what the code observes:           *)
(*   - "failures" is only ever compared with the threshold, so it          *)
(*     saturates there;                                                    *)
(*   - "opened_at" is only used in  time.time() - opened_at > recovery,    *)
(*     so the record keeps that age, saturated at Recovery + 1.            *)
(***************************************************************************)
EXTENDS Naturals

CONSTANTS
    Threshold,   \* consecutive failures that open the circuit
    Recovery     \* ticks after the last failure before a probe is let through

ASSUME BreakerAssumption ==
    /\ Threshold \in Nat \ {0}
    /\ Recovery \in Nat

CBState == {"closed", "open", "half_open"}

Breaker == [state : CBState, failures : 0..Threshold, age : 0..(Recovery + 1)]

Saturate(n, cap) == IF n > cap THEN cap ELSE n

\* __init__: opened_at = 0.0 is the epoch, long before any reading of the clock.
NewBreaker == [state |-> "closed", failures |-> 0, age |-> Recovery + 1]

Success(cb) == [state |-> "closed", failures |-> 0, age |-> cb.age]

FailureM_OffByOne(cb) ==
    LET n == Saturate(cb.failures + 1, Threshold)
    IN  [state |-> IF n > Threshold THEN "open" ELSE cb.state,
         failures |-> n,
         age |-> 0]


FailureM_ReopenStartsAfresh(cb) ==
    LET n == IF cb.state = "half_open" THEN 1 ELSE Saturate(cb.failures + 1, Threshold)
    IN  [state |-> IF n >= Threshold THEN "open" ELSE cb.state,
         failures |-> n,
         age |-> 0]

Failure(cb) ==
    LET n == Saturate(cb.failures + 1, Threshold)
    IN  [state |-> IF n >= Threshold THEN "open" ELSE cb.state,
         failures |-> n,
         age |-> 0]

RecoveryElapsed(cb) == cb.age > Recovery

AllowsM_AtTheLimit(cb) == cb.state = "open" => cb.age >= Recovery

\* The value of the property "allow" ...
Allows(cb) == cb.state = "open" => RecoveryElapsed(cb)

\* ... and its side effect: reading it moves an open circuit to half-open.
AfterAllow(cb) ==
    IF cb.state = "open" /\ RecoveryElapsed(cb)
    THEN [cb EXCEPT !.state = "half_open"]
    ELSE cb

\* One tick of time.time().
Elapse(cb) == [cb EXCEPT !.age = Saturate(cb.age + 1, Recovery + 1)]
=============================================================================
