----------------------------- MODULE MCServerV4 -----------------------------
(***************************************************************************)
(* Instances of the components of the v4 server that share no state with   *)
(* the others.  A behaviour is one of them while the others stay as they   *)
(* began: since they share nothing, interleaving them would show nothing   *)
(* more.                                                                   *)
(***************************************************************************)
EXTENDS Naturals, FiniteSets, TLC

CONSTANTS
    Addresses, Limit, Window, LimiterTicks, Calls,    \* the rate limiter
    Keys, Kinds, Rule, Ports, ScanThresholds, SentinelTicks, Analyses,
    Entities, Tests, Editors,
    Emails, Orgs, Lifetime, AccountTicks,
    Servers, Tables, Altered, Columns,
    None

\* Nothing is drawn that stands for "none"; a missing table is no set of columns.
ASSUME ServerAssumption ==
    /\ None \notin Entities \cup Emails \cup Orgs
    /\ \A C \in SUBSET Columns : C # None
    /\ Altered \subseteq Tables
    /\ IsFiniteSet(Tests)
    /\ Lifetime \in Nat /\ AccountTicks \in Nat

\* The window of the rate limiter is no moment; a queue of a sentinel has room for
\* more events than its limit; no number of ports is reported before there is one.
ASSUME WindowAssumption ==
    /\ Limit \in Nat /\ Window \in Nat \ {0} /\ LimiterTicks \in Nat /\ Calls \in Nat
    /\ \A k \in Kinds : /\ Rule[k].window \in Nat /\ Rule[k].limit \in Nat
                         /\ Rule[k].keep \in Nat /\ Rule[k].limit < Rule[k].keep
    /\ \A n \in ScanThresholds : n \in Nat \ {0}
    /\ SentinelTicks \in Nat

VARIABLES
    part,                                             \* which of them it is
    clock, grantLog, granted, refused,                \* the rate limiter
    now, window, ports, scans, events, report,        \* the sentinels
    row, recorded, filter, tpc, source, known, verdict,
    epc, target, edit, read, lost, overruled,         \* the registry
    day, organisations, tokens, rows, drawn, life,    \* the accounts
    schema, phase, todo, found, older, skipped        \* the database

Limiter == INSTANCE RateLimiter WITH
    now <- clock, history <- grantLog, LastTick <- LimiterTicks, MostCalls <- Calls

Detector == INSTANCE Sentinel WITH
    queue <- window, history <- events, LastTick <- SentinelTicks, MostCalls <- Analyses

Registry == INSTANCE EntityRegistry WITH task <- edit

Orgas == INSTANCE Accounts WITH now <- day, LastTick <- AccountTicks

Database == INSTANCE SchemaSetup WITH Missing <- None

limiterVars == <<clock, grantLog, granted, refused>>
detectorVars == <<now, window, ports, scans, events, report>>
registryVars == <<row, recorded, filter, tpc, source, known, verdict,
                  epc, target, edit, read, lost, overruled>>
orgVars == <<day, organisations, tokens, rows, drawn, life>>
schemaVars == <<schema, phase, todo, found, older, skipped>>
vars == <<part, limiterVars, detectorVars, registryVars, orgVars, schemaVars>>

\* Of the components that the behaviour is not, one initial state is enough.
Init ==
    /\ part \in {"limiter", "sentinel", "registry", "accounts", "database"}
    /\ Limiter!Init /\ Detector!Init /\ Registry!Init /\ Orgas!Init /\ Database!Init
    /\ part # "database" => \A t \in Tables : schema[t] = None

Rest(p, v) == part # p => UNCHANGED v

Next ==
    /\ \/ part = "limiter" /\ Limiter!Next
       \/ part = "sentinel" /\ Detector!Next
       \/ part = "registry" /\ Registry!Next
       \/ part = "accounts" /\ Orgas!Next
       \/ part = "database" /\ Database!Next
    /\ UNCHANGED part
    /\ Rest("limiter", limiterVars)
    /\ Rest("sentinel", detectorVars)
    /\ Rest("registry", registryVars)
    /\ Rest("accounts", orgVars)
    /\ Rest("database", schemaVars)

Spec == Init /\ [][Next]_vars

Symmetry == Permutations(Tests) \cup Permutations(Editors) \cup Permutations(Entities)

Of(length, limit, keep) == [window |-> length, limit |-> limit, keep |-> keep]

\* The rules of version 4, scaled down; failed logins are kept in a list
\* without a bound.  Those of version 3 are among them.
RuleV4 == [enroll |-> Of(3, 1, 2), connect |-> Of(1, 2, 4), auth |-> Of(4, 2, Analyses + 3)]

-----------------------------------------------------------------------------
\* The properties, which the modules of the components explain.

\* Every component's state keeps its type.
TypeOK ==
    /\ Limiter!TypeOK
    /\ Detector!TypeOK
    /\ Registry!TypeOK
    /\ Orgas!TypeOK
    /\ Database!TypeOK

\* The rate limiter: never more than the limit in any window, never less.
LimitIsExact == Limiter!LimitIsExact

\* The sentinels: bursts and scans are reported as they are.
ReportsAreExact == Detector!ReportsAreExact

\* The registry: counters agree with the recorded sessions, ...
CountsMatchSessions == Registry!CountsMatchSessions

\* ... a quarantine holds, ...
QuarantineHolds == Registry!QuarantineHolds

\* ... and revokes what was permitted, ...
QuarantineCutsOff == Registry!QuarantineCutsOff

\* ... and the deleted stay deleted.
DeletedForGood == Registry!DeletedForGood

\* The accounts: tokens name one organisation.
OneOrganisation == Orgas!OneOrganisation

\* The database: altered tables are complete, and those that were missing.
SchemaComplete == Database!SchemaComplete
=============================================================================
