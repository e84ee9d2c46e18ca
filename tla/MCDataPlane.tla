---------------------------- MODULE MCDataPlane ----------------------------
(***************************************************************************)
(* Instances of the components in Rust and C: the sessions of the SDK, the *)
(* two packet filters, and the permits and the packets of the software     *)
(* enforcer.  A behaviour is one of them; they share no state.             *)
(***************************************************************************)
EXTENDS SdkSession, Integers, TLC

CONSTANTS
    Buckets, Sids, MaxUdp, MaxSyn, Window, FilterTicks,   \* the filter
    Cpus, Sources, Threshold, Modulus, MostPackets,       \* ... and the one in C
    Entities, Calls, Lifetimes, PermitTicks, None,        \* the permits
    Room, Batch, Arrivals                                 \* the packets

VARIABLES
    part,                                                 \* which of them it is
    now, udpRate, synRate, verdicts, through,             \* the filter
    blacklist, rate, cpu, drops, packets, admitted, laps,
    passed, aborted,                                      \* the filter in C
    clock, permits, sweep, fresh,                         \* the permits
    capture, queue, task, batch, total, dropped,
    bypassed, arrived                                     \* the packets

Filter == INSTANCE XdpFilter WITH
    Cpus <- {"cpu"}, Sessions <- Sids, LastTick <- FilterTicks,
    permits <- verdicts, passed <- through

FilterInC == INSTANCE CFilter

Permits == INSTANCE PermitTable WITH now <- clock, Sessions <- Sids, LastTick <- PermitTicks

Pipeline == INSTANCE SoftPipeline WITH MostPackets <- Arrivals

\* Windows are not empty, a rate in C admits the packet that makes its entry and its
\* counter can hold it, a permit is not "none", and the bounds are numbers.
ASSUME PlaneAssumption ==
    /\ {MaxUdp, MaxSyn, FilterTicks, Room, Batch, Arrivals, MostPackets} \subseteq Nat
    /\ {Window, Threshold, PermitTicks} \subseteq Nat \ {0}
    /\ Modulus \in Nat \ {0, 1}
    /\ IsFiniteSet(Cpus) /\ Cpus # {}
    /\ Lifetimes \subseteq Nat
    /\ None \notin Permits!Entry

filterVars == <<now, udpRate, synRate, verdicts, through>>
cVars == <<blacklist, rate, cpu, drops, packets, admitted, laps, passed, aborted>>
permitVars == <<clock, permits, sweep, fresh>>
pipelineVars == <<capture, queue, task, batch, total, dropped, bypassed, arrived>>
planeVars == <<part, vars, filterVars, cVars, permitVars, pipelineVars>>

\* Of the components that the behaviour is not, one initial state is enough.
PlaneInit ==
    /\ part \in {"sessions", "filter", "filter in C", "permits", "pipeline"}
    /\ Init /\ Filter!Init /\ FilterInC!Init /\ Permits!Init /\ Pipeline!Init
    /\ part # "pipeline" => capture = "ended"

Rest(p, v) == part # p => UNCHANGED v

PlaneNext ==
    /\ \/ part = "sessions" /\ Next
       \/ part = "filter" /\ Filter!Next
       \/ part = "filter in C" /\ FilterInC!Next
       \/ part = "permits" /\ Permits!Next
       \/ part = "pipeline" /\ Pipeline!Next
    /\ UNCHANGED part
    /\ Rest("sessions", vars)
    /\ Rest("filter", filterVars)
    /\ Rest("filter in C", cVars)
    /\ Rest("permits", permitVars)
    /\ Rest("pipeline", pipelineVars)

PlaneSpec == PlaneInit /\ [][PlaneNext]_planeVars

Symmetry == Permutations(Sessions)

-----------------------------------------------------------------------------
\* The properties, which the modules of the components explain.  The others of
\* the run are the sessions'.

\* Every component's state keeps its type.
TypesOK ==
    /\ TypeOK
    /\ Filter!TypeOK
    /\ FilterInC!TypeOK
    /\ Permits!TypeOK
    /\ Pipeline!TypeOK

\* The packet filters: bursts are bounded, and so is what gets past a rate in the
\* one in C, whatever its CPUs and the evictions do.
FloodIsBounded == Filter!FloodIsBounded /\ FilterInC!AdmittedAreBounded

\* The software enforcer: sweeps remove what they should, ...
SweepsAreExact == Permits!SweepsAreExact

\* ... and the statistics add up.
StatsReconcile == Pipeline!StatsReconcile
=============================================================================
