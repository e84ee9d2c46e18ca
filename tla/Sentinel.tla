------------------------------ MODULE Sentinel ------------------------------
(***************************************************************************)
(* The sentinels: SentinelDetector of the v4 server                        *)
(* (kelan/sentinel/detector.py) and SentinelEngine of version 3            *)
(* (kelan-python/kelan/sentinel/anomaly.py).  analyze counts the events of *)
(* a key in the last seconds from queues of bounded length;                *)
(* record_port_probe reports how many ports a source has tried.  No method *)
(* awaits: each call is a step.  (Version 3 counts failed logins with a    *)
(* plain counter, record_failed_auth, that is left out.)                   *)
(***************************************************************************)
EXTENDS SlidingWindow

CONSTANTS
    Keys,           \* source addresses, or entity ids where there is none
    Kinds,          \* "connect" and "enroll", in version 4 also "auth"
    Rule,           \* for each kind: window, limit and length of the queue
    Ports,
    ScanThresholds, \* numbers of ports reported: 100, 500, 1000, 5000; 101 in version 3
    LastTick,       \* bound on the clock
    MostCalls       \* bound on the calls of analyze for a key

VARIABLES
    now,       \* the clock
    queue,     \* _enroll, _connect and _auth_fail
    ports,     \* _ports
    scans,     \* history: the thresholds reported for each key
    history,   \* history: when analyze saw each kind of event of each key
    report     \* history: the latest call of analyze and what it returned

windowVars == <<queue, history, report>>
scanVars == <<ports, scans>>
vars == <<now, windowVars, scanVars>>

Times == 0..LastTick

TypeOK ==
    /\ now \in Times
    /\ queue \in [Kinds \X Keys -> Seq(Times)]
    /\ \A k \in Kinds, s \in Keys : Len(queue[<<k, s>>]) <= Rule[k].keep
    /\ ports \in [Keys -> SUBSET Ports]
    /\ scans \in SUBSET (ScanThresholds \X Keys)
    /\ history \in [Kinds \X Keys -> Seq(Times)]
    /\ report \in [key : Keys, at : Times, kinds : SUBSET Kinds, counts : [Kinds -> Nat]]

Init ==
    /\ now = 0
    /\ queue = [x \in Kinds \X Keys |-> << >>]
    /\ ports = [s \in Keys |-> {}]
    /\ scans = {}
    /\ history = [x \in Kinds \X Keys |-> << >>]
    /\ report \in [key : Keys, at : {0}, kinds : {{}}, counts : {[k \in Kinds |-> 0]}]

\* analyze: the intent says which kinds of events the session is, besides a
\* connection.  A count is reported when it is over its limit.
Analyze(s, kinds) ==
    LET pushed == [x \in Kinds \X Keys |->
                     IF x[1] \in kinds /\ x[2] = s
                     THEN Push(queue[x], now, Rule[x[1]].keep) ELSE queue[x]]
        Count(k) == Len(Recent(pushed[<<k, s>>], now, Rule[k].window))
    IN  /\ "connect" \in kinds
        /\ Len(history[<<"connect", s>>]) < MostCalls
        /\ queue' = pushed
        /\ history' = [x \in Kinds \X Keys |->
                         IF x[1] \in kinds /\ x[2] = s THEN Append(history[x], now) ELSE history[x]]
        /\ report' = [key |-> s, at |-> now, kinds |-> kinds,
                      counts |-> [k \in Kinds |->
                         IF k \in kinds /\ Count(k) > Rule[k].limit THEN Count(k) ELSE 0]]
        /\ UNCHANGED <<now, scanVars>>

\* record_port_probe: a threshold is reported when the number of ports equals it.
Probe(s, p) ==
    LET n == Cardinality(ports[s] \cup {p})
    IN  /\ ports' = [ports EXCEPT ![s] = @ \cup {p}]
        /\ scans' = scans \cup {x \in ScanThresholds \X Keys : x = <<n, s>>}
        /\ UNCHANGED <<now, windowVars>>

Tick ==
    /\ now < LastTick
    /\ now' = now + 1
    /\ UNCHANGED <<windowVars, scanVars>>

Next ==
    \/ Tick
    \/ \E s \in Keys :
          \/ \E kinds \in SUBSET Kinds : Analyze(s, kinds)
          \/ \E p \in Ports : Probe(s, p)

Spec == Init /\ [][Next]_vars

-----------------------------------------------------------------------------
\* Bursts: the bounded queues hide nothing.  analyze reports one exactly when
\* more events than the limit are in the window, and counts them up to the
\* length of the queue.
BurstsAreExact ==
    \A k \in Kinds :
        LET n == InWindow(history[<<k, report.key>>], report.at, Rule[k].window)
        IN  report.counts[k] = IF k \in report.kinds /\ n > Rule[k].limit
                               THEN Least(n, Rule[k].keep) ELSE 0

\* Scans: equality with a threshold is enough, since no number is skipped.
ScansAreReported ==
    \A x \in ScanThresholds \X Keys : Cardinality(ports[x[2]]) >= x[1] => x \in scans

\* What the sentinels report is what happened, bursts and scans alike.
ReportsAreExact == BurstsAreExact /\ ScansAreReported
=============================================================================
