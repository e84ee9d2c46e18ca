----------------------------- MODULE MCServerV3 -----------------------------
(***************************************************************************)
(* Instances of the components of the version 3 server: the trust engine,  *)
(* the simulation, enrolment and the statistics.  A behaviour is one of    *)
(* them; what enrolment sees of the engine is in its own module.           *)
(***************************************************************************)
EXTENDS EngineV3, VerdictParserV3, Integers, TLC

CONSTANTS
    Callers,                                          \* the simulation
    Keys, Addressed, Rule, DenyAbove, Capacity, EnrolTicks,
    Lifetime, StatsTicks, MostChanges, Counts,
    None

VARIABLES
    part,                                             \* which of them it is
    active, task, holder, queue, wish, at, loop,      \* the simulation
    now, window, ports, scans, events, report,        \* enrolment
    sessions, order, stored, job, block,
    clock, drops, cache, changes                      \* the statistics

Sim == INSTANCE Simulation WITH pc <- at

Enrol == INSTANCE Enrolment WITH
    Requests <- Requests \ Simulated, LastTick <- EnrolTicks, queue <- window, history <- events

Stats == INSTANCE StatsCache WITH now <- clock, LastTick <- StatsTicks

simVars == <<active, task, holder, queue, wish, at, loop>>
enrolVars == <<now, window, ports, scans, events, report, sessions, order, stored, job, block>>
statsVars == <<clock, drops, cache, changes>>
serverVars == <<part, vars, simVars, enrolVars, statsVars>>

ASSUME SimAssumption == None \notin Callers

ASSUME StatsAssumption ==
    /\ Lifetime \in Nat /\ StatsTicks \in Nat
    /\ \A n \in Counts : n \in Nat

\* The rules tolerate more than the sentinel takes for normal, and no more than its
\* queue can tell.
ASSUME EnrolAssumption ==
    /\ \A k \in {"enroll", "connect"} :
          /\ Rule[k].window \in Nat /\ Rule[k].limit \in Nat /\ Rule[k].keep \in Nat
          /\ DenyAbove[k] \in Rule[k].limit..(Rule[k].keep - 1)
    /\ Capacity \in Nat \ {0} /\ EnrolTicks \in Nat

ServerInit ==
    /\ part \in {"engine", "simulation", "enrolment", "statistics"}
    /\ Init /\ Sim!Init /\ Enrol!Init /\ Stats!Init

Rest(p, v) == part # p => UNCHANGED v

ServerNext ==
    /\ \/ part = "engine" /\ Next
       \/ part = "simulation" /\ Sim!Next
       \/ part = "enrolment" /\ Enrol!Next
       \/ part = "statistics" /\ Stats!Next
    /\ UNCHANGED part
    /\ Rest("engine", vars)
    /\ Rest("simulation", simVars)
    /\ Rest("enrolment", enrolVars)
    /\ Rest("statistics", statsVars)

ServerSpec == ServerInit /\ [][ServerNext]_serverVars

Symmetry == Permutations(Requests \ Simulated) \cup Permutations(Clients)

Of(length, limit, keep) == [window |-> length, limit |-> limit, keep |-> keep]

\* The rules for enrolments, such that three requests reach them.
SmallRule == [enroll |-> Of(2, 1, 3), connect |-> Of(1, 1, 3)]
SmallDeny == [enroll |-> 2, connect |-> 2]

-----------------------------------------------------------------------------
\* The properties, which the modules of the components explain.  The others of
\* the run are the engine's.

\* Every component's state keeps its type.
TypesOK == TypeOK /\ Sim!TypeOK /\ Enrol!TypeOK /\ Stats!TypeOK

\* The simulation: calls that return what they did, and a flag that says so.
ReturnsAreTrue == Sim!ReturnsAreTrue

\* Enrolment: what an answer of the model, or the rules, may lead to.
Admission == NoStrongerThanTheAnswer /\ Enrol!Admission

\* The statistics: fresh enough.
StatsAreFresh == Stats!StatsAreFresh
=============================================================================
