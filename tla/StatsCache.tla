----------------------------- MODULE StatsCache -----------------------------
(***************************************************************************)
(* The statistics of version 3 (kelan-python/kelan/server/main.py), which  *)
(* get_stats computes anew only when the last ones are old: the sessions   *)
(* that were stored and the drops that the loader has reported since.      *)
(***************************************************************************)
EXTENDS Integers, Sequences

CONSTANTS
    Lifetime,    \* STATS_TTL
    LastTick,    \* bound on the clock
    MostChanges, \* bound on the sessions and the reports
    Counts       \* drops in a report

VARIABLES
    now,      \* time.monotonic()
    drops,    \* _xdp_drops
    cache,    \* _stats_cache: when it was computed, from how many changes, the drops in it
    changes   \* history: when each change of the statistics was, and the drops it added

vars == <<now, drops, cache, changes>>

TypeOK ==
    /\ now \in 0..LastTick
    /\ drops \in Nat
    /\ changes \in Seq([at : 0..LastTick, drops : Counts \cup {0}])
    /\ cache.at <= now /\ cache.seen \in 0..Len(changes)

\* The cache is empty, which is as if it were out of date.
Init ==
    /\ now = 0
    /\ drops = 0
    /\ cache = [at |-> -Lifetime, seen |-> 0, drops |-> 0]
    /\ changes = << >>

Change(n) ==
    /\ Len(changes) < MostChanges
    /\ changes' = Append(changes, [at |-> now, drops |-> n])
    /\ drops' = drops + n
    /\ UNCHANGED <<now, cache>>

Stored == Change(0)

\* record_xdp_drop
XdpDrop == \E n \in Counts : Change(n)

GetStatsM_ProlongsTheCache ==
    /\ cache' = IF now - cache.at >= Lifetime
                THEN [at |-> now, seen |-> Len(changes), drops |-> drops]
                ELSE [cache EXCEPT !.at = now]
    /\ UNCHANGED <<now, drops, changes>>

\* A call that finds the cache out of date; any other returns what is in it.
GetStats ==
    /\ now - cache.at >= Lifetime
    /\ cache' = [at |-> now, seen |-> Len(changes), drops |-> drops]
    /\ UNCHANGED <<now, drops, changes>>

Tick == now < LastTick /\ now' = now + 1 /\ UNCHANGED <<drops, cache, changes>>

Next == Stored \/ XdpDrop \/ GetStats \/ Tick

Spec == Init /\ [][Next]_vars

-----------------------------------------------------------------------------
\* What may be returned from the cache lacks no change that is older than the
\* cache's lifetime, and no drop that was reported by then.
StatsAreFresh ==
    LET SumTo[i \in 0..Len(changes)] == IF i = 0 THEN 0 ELSE SumTo[i - 1] + changes[i].drops
    IN  /\ cache.drops = SumTo[cache.seen]
        /\ now - cache.at < Lifetime =>
              \A i \in DOMAIN changes : changes[i].at <= now - Lifetime => i <= cache.seen
=============================================================================
