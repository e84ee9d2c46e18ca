---------------------------- MODULE PermitTable ----------------------------
(***************************************************************************)
(* The permits of the software enforcer (kelan-ebpf-loader, userspace.rs): *)
(* a concurrent map that revoke_entity and cleanup_expired_sessions sweep  *)
(* entry by entry while other calls insert and remove.                     *)
(***************************************************************************)
EXTENDS Naturals

CONSTANTS
    Sessions,
    Entities,   \* source_entity_prefix
    Calls,      \* calls that sweep
    Lifetimes,  \* ttl_seconds; 0 is a permit that never expires
    LastTick,   \* bound on the clock
    None        \* no permit

VARIABLES
    now,      \* SystemTime::now(), in seconds
    permits,
    sweep,    \* what each call looks for, when it began, what it has yet to visit
    fresh     \* history: the sessions permitted since each call began

vars == <<now, permits, sweep, fresh>>

Entry == [entity : Entities, allow : BOOLEAN, expires : Nat]
Goals == Entities \cup {"expired", "nothing"}

TypeOK ==
    /\ now \in 1..LastTick
    /\ permits \in [Sessions -> Entry \cup {None}]
    /\ sweep \in [Calls -> [goal : Goals, at : 0..LastTick, todo : SUBSET Sessions]]
    /\ fresh \in [Calls -> SUBSET Sessions]

Init ==
    /\ now = 1
    /\ permits = [s \in Sessions |-> None]
    /\ sweep = [c \in Calls |-> [goal |-> "nothing", at |-> 0, todo |-> {}]]
    /\ fresh = [c \in Calls |-> {}]

ExpiredM_TakesZeroForATime(p, t) == p.expires <= t

Expired(p, t) == p.expires # 0 /\ p.expires <= t

\* is_permitted.
InForce(s) ==
    permits[s] # None /\ permits[s].allow /\ (permits[s].expires = 0 \/ now < permits[s].expires)

Permit(s, e, allow, life) ==
    /\ permits' = [permits EXCEPT ![s] =
           [entity |-> e, allow |-> allow, expires |-> IF life = 0 THEN 0 ELSE now + life]]
    /\ fresh' = [c \in Calls |-> fresh[c] \cup {s}]
    /\ UNCHANGED <<now, sweep>>

Revoke(s) ==
    /\ permits' = [permits EXCEPT ![s] = None]
    /\ UNCHANGED <<now, sweep, fresh>>

\* revoke_entity, or cleanup_expired_sessions, which reads the clock once.
Sweep(c, goal) ==
    /\ sweep[c].goal = "nothing"
    /\ sweep' = [sweep EXCEPT ![c] = [goal |-> goal, at |-> now, todo |-> Sessions]]
    /\ fresh' = [fresh EXCEPT ![c] = {}]
    /\ UNCHANGED <<now, permits>>

Wanted(c, p) == p.entity = sweep[c].goal \/ (sweep[c].goal = "expired" /\ Expired(p, sweep[c].at))

\* retain looks at one entry.
Visit(c, s) ==
    /\ s \in sweep[c].todo
    /\ sweep' = [sweep EXCEPT ![c].todo = @ \ {s}]
    /\ permits' = [permits EXCEPT ![s] = IF @ # None /\ Wanted(c, @) THEN None ELSE @]
    /\ UNCHANGED <<now, fresh>>

Tick == now < LastTick /\ now' = now + 1 /\ UNCHANGED <<permits, sweep, fresh>>

Next ==
    \/ Tick
    \/ \E s \in Sessions :
          \/ \E e \in Entities, allow \in BOOLEAN, life \in Lifetimes : Permit(s, e, allow, life)
          \/ Revoke(s)
          \/ \E c \in Calls : Visit(c, s)
    \/ \E c \in Calls, goal \in Entities \cup {"expired"} : Sweep(c, goal)

Spec == Init /\ [][Next]_vars

-----------------------------------------------------------------------------
Over(c) == sweep[c].goal \in Entities /\ sweep[c].todo = {}

\* When revoke_entity has returned, the entity has no permit but those given
\* since it was called, and a permit in force goes only by a call that is about
\* its session or its entity: sweeps neither miss nor hit one that changes hands
\* meanwhile.
SweepsAreExact ==
    [][/\ \A c \in Calls, s \in Sessions :
             ~Over(c) /\ Over(c)' /\ s \notin fresh'[c] /\ permits'[s] # None =>
                 permits'[s].entity # sweep'[c].goal
       /\ \A s \in Sessions :
             InForce(s) /\ permits'[s] = None =>
                 Revoke(s) \/ \E c \in Calls : sweep[c].goal = permits[s].entity]_vars
=============================================================================
