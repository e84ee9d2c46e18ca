---------------------------- MODULE RateLimiter ----------------------------
(***************************************************************************)
(* enforce_rate_limit (kelan/api/server.py), called by signup and signin:  *)
(* a sliding log of accepted requests for each client address.  The        *)
(* endpoints never await between the check and the append, so that a       *)
(* request is one step.                                                    *)
(***************************************************************************)
EXTENDS SlidingWindow

CONSTANTS
    Addresses,
    Limit,       \* 50 in the code
    Window,      \* 60 s in the code
    LastTick,    \* bound on the clock
    MostCalls    \* bound on the requests of an address

VARIABLES
    now,       \* time.time()
    history,   \* _rate_limit_history
    granted,   \* history: when requests were let through, for each address
    refused    \* history: how many were refused

vars == <<now, history, granted, refused>>

Times == 0..LastTick

\* The log of an address never outgrows the limit.
TypeOK ==
    /\ now \in Times
    /\ history \in [Addresses -> UNION {[1..n -> Times] : n \in 0..Limit}]
    /\ granted \in [Addresses -> Seq(Times)]
    /\ refused \in [Addresses -> 0..MostCalls]

Init ==
    /\ now = 0
    /\ history = [a \in Addresses |-> << >>]
    /\ granted = [a \in Addresses |-> << >>]
    /\ refused = [a \in Addresses |-> 0]

Fresh(a) == Recent(history[a], now, Window)

MayCall(a) == Len(granted[a]) + refused[a] < MostCalls

AcceptM_LimitExceeded(a) ==
    /\ MayCall(a)
    /\ Len(Fresh(a)) <= Limit
    /\ history' = [history EXCEPT ![a] = Append(Fresh(a), now)]
    /\ granted' = [granted EXCEPT ![a] = Append(@, now)]
    /\ UNCHANGED <<now, refused>>

\* Fewer than the limit in the window: the request is logged and goes on.
Accept(a) ==
    /\ MayCall(a)
    /\ Len(Fresh(a)) < Limit
    /\ history' = [history EXCEPT ![a] = Append(Fresh(a), now)]
    /\ granted' = [granted EXCEPT ![a] = Append(@, now)]
    /\ UNCHANGED <<now, refused>>

\* 429: the log is trimmed and the request is not added to it.
Refuse(a) ==
    /\ MayCall(a)
    /\ Len(Fresh(a)) >= Limit
    /\ history' = [history EXCEPT ![a] = Fresh(a)]
    /\ refused' = [refused EXCEPT ![a] = @ + 1]
    /\ UNCHANGED <<now, granted>>

Tick == now < LastTick /\ now' = now + 1 /\ UNCHANGED <<history, granted, refused>>

Next == Tick \/ \E a \in Addresses : Accept(a) \/ Refuse(a)

Spec == Init /\ [][Next]_vars

-----------------------------------------------------------------------------
\* No window of the length of Window, wherever it begins, lets more than Limit
\* requests of an address through.
NeverOverLimit ==
    \A a \in Addresses, t \in Times :
        Cardinality({i \in DOMAIN granted[a] : granted[a][i] \in t..(t + Window - 1)}) <= Limit

\* Never over the limit, and never below it: a request is refused only if Limit
\* others were let through in the window that ends with it, so that who keeps
\* asking is let in as soon as one of them is old.
LimitIsExact ==
    [][/\ NeverOverLimit'
       /\ \A a \in Addresses :
             refused'[a] # refused[a] => InWindow(granted[a], now, Window) = Limit]_vars
=============================================================================
