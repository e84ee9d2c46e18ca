------------------------------ MODULE Enrolment ------------------------------
(***************************************************************************)
(* Enrolment in version 3 (kelan-python/kelan/server/main.py, enroll) from *)
(* the sentinel to the session store and the block of a source, sent    *)
(* by the bridge (kelan-python/kelan/enforcement/ebpf_bridge.py).          *)
(*                                                                         *)
(* The trust engine, module EngineV3, is awaited in between; of it there   *)
(* is what its call may end with: a verdict of the model, as the parser    *)
(* reads it, one of the rules, or an exception.  Requests that the checks  *)
(* of signature and key refuse change nothing.                             *)
(***************************************************************************)
EXTENDS Integers, Sequences, FiniteSets

CONSTANTS
    Requests,   \* calls of enroll; each draws a session id of its own
    Keys,       \* source addresses, or entity ids where there is none
    Addressed,  \* those that are addresses
    Rule,       \* of the sentinel, for "enroll" and "connect"
    DenyAbove,  \* counts above which the rules deny: 20 and 100
    ModelVerdicts, \* what a call of Ollama may end with (module VerdictParserV3)
    Capacity,   \* of the session store
    LastTick    \* bound on the clock

VARIABLES
    now, queue, ports, scans, history, report,  \* module Sentinel
    sessions, order, stored,                    \* module SessionStore
    job,      \* where each request is, and what it has found
    block     \* the task that blocks the source of each request

sentinelVars == <<queue, ports, scans, history, report>>
storeVars == <<sessions, order, stored>>
vars == <<now, sentinelVars, storeVars, job, block>>

Kinds == {"enroll", "connect"}

Detector == INSTANCE Sentinel WITH
    Ports <- {}, ScanThresholds <- {}, MostCalls <- Cardinality(Requests)

Store == INSTANCE SessionStore WITH
    Ids <- Requests, MostStores <- Cardinality(Requests), history <- stored

Waiting == [pc |-> "idle", key |-> report.key, at |-> 0, kinds |-> {},
            counts |-> [k \in Kinds |-> 0], by |-> "nobody", verdict |-> "MONITOR"]

TypeOK ==
    /\ Detector!TypeOK
    /\ Store!TypeOK
    /\ \A r \in Requests :
          /\ job[r].pc \in {"idle", "judging", "answered", "refused", "raised"}
          /\ job[r].by \in {"nobody", "model", "rules"}
          /\ job[r].verdict \in Store!Verdicts
    /\ block \in [Requests -> {"none", "due", "sent", "lost"}]

Init ==
    /\ Detector!Init
    /\ Store!Init
    /\ job = [r \in Requests |-> Waiting]
    /\ block = [r \in Requests |-> "none"]

-----------------------------------------------------------------------------
\* enroll, up to where it awaits the engine.
Enroll(r, s, kinds) ==
    /\ job[r].pc = "idle"
    /\ Detector!Analyze(s, kinds)
    /\ job' = [job EXCEPT ![r] = [Waiting EXCEPT !.pc = "judging", !.key = s, !.at = now,
                                                 !.kinds = kinds, !.counts = report'.counts]]
    /\ UNCHANGED <<storeVars, block>>

\* The rest of it: only a source whose address is known is blocked, and only
\* then is the answer an error.
Verdict(r, v, author) ==
    LET refused == v = "DENY" /\ job[r].key \in Addressed
    IN  /\ job[r].pc = "judging"
        /\ Store!Store(r, v)
        /\ job' = [job EXCEPT ![r].pc = IF refused THEN "refused" ELSE "answered",
                              ![r].by = author,
                              ![r].verdict = v]
        /\ block' = [block EXCEPT ![r] = IF refused THEN "due" ELSE @]
        /\ UNCHANGED <<now, sentinelVars>>

RulesM_AllowUnlessDenied(counts) ==
    IF \E k \in Kinds : counts[k] > DenyAbove[k] THEN "DENY" ELSE "ALLOW"

\* fallback_rules; a count is there only when the sentinel reported it.
Rules(counts) ==
    CASE \E k \in Kinds : counts[k] > DenyAbove[k] -> "DENY"
      [] \A k \in Kinds : counts[k] = 0 -> "ALLOW"
      [] OTHER -> "MONITOR"

ByRules(r) == Verdict(r, Rules(job[r].counts), "rules")

ByModel(r) == \E v \in ModelVerdicts : Verdict(r, v, "model")

\* evaluate raised: status 500, and nothing is stored.
Raised(r) ==
    /\ job[r].pc = "judging"
    /\ job' = [job EXCEPT ![r].pc = "raised"]
    /\ UNCHANGED <<now, sentinelVars, storeVars, block>>

-----------------------------------------------------------------------------
\* The task of block_ip: without the socket the command is dropped, with it a
\* thread sends it, or fails to.
Block(r) ==
    /\ block[r] = "due"
    /\ block' \in {[block EXCEPT ![r] = end] : end \in {"sent", "lost"}}
    /\ UNCHANGED <<now, sentinelVars, storeVars, job>>

Tick == Detector!Tick /\ UNCHANGED <<storeVars, job, block>>

Next ==
    \/ \E r \in Requests :
          \/ \E s \in Keys, kinds \in SUBSET Kinds : Enroll(r, s, kinds)
          \/ ByRules(r) \/ ByModel(r) \/ Raised(r) \/ Block(r)
    \/ Tick

Spec == Init /\ [][Next]_vars

-----------------------------------------------------------------------------
\* Without the model, the enrolments of one key in any window that are allowed
\* are never more than what the sentinel takes for normal, and those that are
\* not denied never more than the rules tolerate.
RulesBoundBursts ==
    \A s \in Keys, k \in Kinds, t \in 0..now :
        LET judged == {r \in Requests : /\ job[r].by = "rules" /\ job[r].key = s
                                        /\ k \in job[r].kinds
                                        /\ job[r].at \in (t - Rule[k].window + 1)..t}
        IN  /\ Cardinality({r \in judged : job[r].verdict = "ALLOW"}) <= Rule[k].limit
            /\ Cardinality({r \in judged : job[r].verdict # "DENY"}) <= DenyAbove[k]

\* The store keeps the last verdicts, each as its request was answered; a
\* request that is refused leaves no token and a block.
StoreTellsTheAnswers ==
    /\ Store!StoreIsLatest
    /\ \A r \in DOMAIN sessions :
          /\ sessions[r].verdict = job[r].verdict
          /\ job[r].pc = "refused" => ~sessions[r].token /\ block[r] # "none"
    /\ \A r \in Requests : job[r].pc \in {"answered", "refused"} => \E i \in DOMAIN stored : stored[i].id = r

\* What an enrolment may lead to.
Admission == RulesBoundBursts /\ StoreTellsTheAnswers
=============================================================================
