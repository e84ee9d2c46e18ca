----------------------------- MODULE Handshake -----------------------------
(***************************************************************************)
(* The AITP handshake of the v4 server: HandshakeManager                   *)
(* (kelan/protocol/handshake.py) and the handler of POST /api/handshake    *)
(* (kelan/api/server.py) that drives it.  A phase-3 request checks and     *)
(* advances its session without an await, then awaits the trust engine,    *)
(* whose hook records the verdict and writes the command for the packet    *)
(* filter, and only then completes the session.  In between, other         *)
(* requests about the same session arrive and the session grows old.       *)
(*                                                                         *)
(* The verdict is any verdict (module TrustEngine); cryptography is        *)
(* abstract: a phase-3 request carries a signature that verifies or not.   *)
(***************************************************************************)
EXTENDS Naturals, FiniteSets

CONSTANTS
    Sids,      \* session ids (uuid4: never drawn twice)
    Handlers,  \* phase-3 requests
    Ttl,       \* ticks a pending session stays valid (60 s)
    Purging    \* whether anybody calls purge_expired (the server does not)

ASSUME HandshakeAssumption == Ttl \in Nat /\ Purging \in BOOLEAN

VARIABLES
    pending,   \* manager._pending: the phase of each session in it, or "none"
    age,       \* time since created_at, saturated at Ttl + 1
    issued,    \* history: session ids handed out
    hpc,       \* where each phase-3 request is
    hsid,      \* the session it names
    verdict,   \* the verdict the engine returned to it
    reply,     \* what the client was told
    permits,   \* sessions for which PERMIT was written to the packet filter
    revokes    \* sessions for whose entity REVOKE was written on their account

vars == <<pending, age, issued, hpc, hsid, verdict, reply, permits, revokes>>
managerVars == <<pending, age, issued>>
kernelVars == <<permits, revokes>>

Verdicts == {"ALLOW", "DENY", "MONITOR"}
Refusals == {"unknown", "expired", "wrong_phase", "bad_signature"}
Replies == Refusals \cup {"none", "denied", "not_found", "permit"}

TypeOK ==
    /\ pending \in [Sids -> {"none", "SYN", "KEM_COMPLETE"}]
    /\ age \in [Sids -> 0..(Ttl + 1)]
    /\ issued \in SUBSET Sids
    /\ hpc \in [Handlers -> {"idle", "evaluating", "saving", "decided", "done"}]
    /\ hsid \in [Handlers -> Sids]
    /\ verdict \in [Handlers -> Verdicts \cup {"none"}]
    /\ reply \in [Handlers -> Replies]
    /\ permits \in SUBSET Sids
    /\ revokes \in SUBSET Sids

Init ==
    /\ pending = [s \in Sids |-> "none"]
    /\ age = [s \in Sids |-> 0]
    /\ issued = {}
    /\ hpc = [h \in Handlers |-> "idle"]
    /\ hsid \in [Handlers -> Sids]
    /\ verdict = [h \in Handlers |-> "none"]
    /\ reply = [h \in Handlers |-> "none"]
    /\ permits = {}
    /\ revokes = {}

-----------------------------------------------------------------------------
(***************************************************************************)
(* HandshakeManager                                                        *)
(***************************************************************************)
Expired(s) == age[s] > Ttl

\* Phase 1.  A SYN without the key that require_pq asks for, or with one that is
\* no hexadecimal, is refused before anything is stored.
ReceiveSyn(s) ==
    /\ s \notin issued
    /\ issued' = issued \cup {s}
    /\ pending' = [pending EXCEPT ![s] = "SYN"]
    /\ age' = [age EXCEPT ![s] = 0]
    /\ UNCHANGED <<hpc, hsid, verdict, reply, kernelVars>>

Refuse(h, why) ==
    /\ hpc' = [hpc EXCEPT ![h] = "done"]
    /\ reply' = [reply EXCEPT ![h] = why]
    /\ UNCHANGED <<age, issued, hsid, verdict, kernelVars>>

\* Phase 3, refused: in the order of the checks of receive_kem_complete.
KemRefused(h) ==
    LET s == hsid[h]
    IN  /\ hpc[h] = "idle"
        /\ \/ /\ pending[s] = "none"
              /\ Refuse(h, "unknown")
              /\ UNCHANGED pending
           \/ /\ pending[s] # "none" /\ Expired(s)
              /\ pending' = [pending EXCEPT ![s] = "none"]
              /\ Refuse(h, "expired")
           \/ /\ pending[s] = "KEM_COMPLETE" /\ ~Expired(s)
              /\ Refuse(h, "wrong_phase")
              /\ UNCHANGED pending
           \/ /\ pending[s] = "SYN" /\ ~Expired(s)
              /\ Refuse(h, "bad_signature")
              /\ UNCHANGED pending

KemAcceptedM_NoPhaseCheck(h) ==
    LET s == hsid[h]
    IN  /\ hpc[h] = "idle"
        /\ pending[s] # "none" /\ ~Expired(s)
        /\ pending' = [pending EXCEPT ![s] = "KEM_COMPLETE"]
        /\ hpc' = [hpc EXCEPT ![h] = "evaluating"]
        /\ UNCHANGED <<age, issued, hsid, verdict, reply, kernelVars>>

KemAcceptedM_PhaseNotAdvanced(h) ==
    LET s == hsid[h]
    IN  /\ hpc[h] = "idle"
        /\ pending[s] = "SYN" /\ ~Expired(s)
        /\ hpc' = [hpc EXCEPT ![h] = "evaluating"]
        /\ UNCHANGED <<pending, age, issued, hsid, verdict, reply, kernelVars>>

\* Phase 3, accepted: the signature over the session's transcript verifies, the
\* session key is derived, the phase advances; then the engine is awaited.
KemAccepted(h) ==
    LET s == hsid[h]
    IN  /\ hpc[h] = "idle"
        /\ pending[s] = "SYN" /\ ~Expired(s)
        /\ pending' = [pending EXCEPT ![s] = "KEM_COMPLETE"]
        /\ hpc' = [hpc EXCEPT ![h] = "evaluating"]
        /\ UNCHANGED <<age, issued, hsid, verdict, reply, kernelVars>>

\* time.time() advances.
Tick ==
    /\ age' = [s \in Sids |-> IF pending[s] # "none" /\ ~Expired(s) THEN age[s] + 1 ELSE age[s]]
    /\ UNCHANGED <<pending, issued, hpc, hsid, verdict, reply, kernelVars>>

PurgeExpired ==
    /\ Purging
    /\ pending' = [s \in Sids |-> IF Expired(s) THEN "none" ELSE pending[s]]
    /\ UNCHANGED <<age, issued, hpc, hsid, verdict, reply, kernelVars>>

-----------------------------------------------------------------------------
(***************************************************************************)
(* The rest of the phase-3 handler, from the engine's verdict on.          *)
(***************************************************************************)

\* The engine has decided; its hook awaits the insertion into the verdict log.
Decide(h, v) ==
    /\ hpc[h] = "evaluating"
    /\ hpc' = [hpc EXCEPT ![h] = "saving"]
    /\ verdict' = [verdict EXCEPT ![h] = v]
    /\ UNCHANGED <<managerVars, hsid, reply, kernelVars>>

Grant(s, v) == permits' = (IF v = "DENY" THEN permits ELSE permits \cup {s})

Revoke(s, v) == revokes' = (IF v = "DENY" THEN revokes \cup {s} ELSE revokes)

\* Saved: the hook writes REVOKE for a DENY and PERMIT for anything else.
Saved(h) ==
    /\ hpc[h] = "saving"
    /\ hpc' = [hpc EXCEPT ![h] = "decided"]
    /\ Grant(hsid[h], verdict[h])
    /\ Revoke(hsid[h], verdict[h])
    /\ UNCHANGED <<managerVars, hsid, verdict, reply>>

\* The insertion raises: the hook is left, no command is written, and the
\* engine swallows the exception and returns its verdict.
SaveFails(h) ==
    /\ hpc[h] = "saving"
    /\ hpc' = [hpc EXCEPT ![h] = "decided"]
    /\ UNCHANGED <<managerVars, hsid, verdict, reply, kernelVars>>

FinishM_PermitsInTheFilter(h) ==
    LET s == hsid[h]
    IN  /\ hpc[h] = "decided"
        /\ hpc' = [hpc EXCEPT ![h] = "done"]
        /\ reply' = [reply EXCEPT ![h] = IF verdict[h] = "DENY" THEN "denied" ELSE "permit"]
        /\ permits' = permits \cup {s}
        /\ pending' = [pending EXCEPT ![s] = "none"]
        /\ UNCHANGED <<age, issued, hsid, verdict, revokes>>

FinishM_RepliesTheVerdict(h) ==
    /\ hpc[h] = "decided"
    /\ hpc' = [hpc EXCEPT ![h] = "done"]
    /\ reply' = [reply EXCEPT ![h] = verdict[h]]
    /\ UNCHANGED <<managerVars, hsid, verdict, kernelVars>>

\* DENY: REVOKE once more if the source address is known, 403, and the session
\* stays in _pending.  Otherwise complete_session pops the session for a token,
\* or raises HandshakeError when it is not there any more.
Finish(h) ==
    LET s == hsid[h]
    IN  /\ hpc[h] = "decided"
        /\ hpc' = [hpc EXCEPT ![h] = "done"]
        /\ \/ /\ verdict[h] = "DENY"
              /\ reply' = [reply EXCEPT ![h] = "denied"]
              /\ revokes' \in {revokes, revokes \cup {s}}
              /\ UNCHANGED pending
           \/ /\ verdict[h] # "DENY" /\ pending[s] # "none"
              /\ reply' = [reply EXCEPT ![h] = "permit"]
              /\ pending' = [pending EXCEPT ![s] = "none"]
              /\ UNCHANGED revokes
           \/ /\ verdict[h] # "DENY" /\ pending[s] = "none"
              /\ reply' = [reply EXCEPT ![h] = "not_found"]
              /\ UNCHANGED <<pending, revokes>>
        /\ UNCHANGED <<age, issued, hsid, verdict, permits>>

-----------------------------------------------------------------------------
HandlerStep(h) ==
    \/ \E v \in Verdicts : Decide(h, v)
    \/ Saved(h)
    \/ SaveFails(h)
    \/ Finish(h)

Next ==
    \/ Tick
    \/ PurgeExpired
    \/ \E s \in Sids : ReceiveSyn(s)
    \/ \E h \in Handlers : KemRefused(h) \/ KemAccepted(h) \/ HandlerStep(h)

Spec == Init /\ [][Next]_vars

-----------------------------------------------------------------------------
(***************************************************************************)
(* Safety                                                                  *)
(***************************************************************************)
InFlight(h) == hpc[h] \in {"evaluating", "saving", "decided"}

\* h got past the checks of phase 3.
Admitted(h) == InFlight(h) \/ reply[h] \in {"denied", "not_found", "permit"}

\* A session is taken to the trust engine by at most one request, however often
\* the client repeats phase 3 while the first one is awaiting: the phase is
\* checked and advanced with no await in between.
JudgedOnce ==
    \A g, h \in Handlers : Admitted(g) /\ Admitted(h) /\ hsid[g] = hsid[h] => g = h

\* The packet filter is never told both to permit and to revoke on account of
\* one session, and is told to permit it only after a verdict that is no DENY.
CommandsAgree ==
    /\ permits \cap revokes = {}
    /\ \A s \in permits : \E h \in Handlers :
          hsid[h] = s /\ Admitted(h) /\ verdict[h] \in {"ALLOW", "MONITOR"}
    /\ \A s \in revokes : \E h \in Handlers :
          hsid[h] = s /\ Admitted(h) /\ verdict[h] = "DENY"

\* "Phase 5 - COMPLETE: permit_token + PERMIT_MAP write": a client whose request
\* is over has its session permitted in the filter only together with a token.
PermitMeansToken ==
    \A h \in Handlers :
        hpc[h] = "done" /\ Admitted(h) /\ hsid[h] \in permits => reply[h] = "permit"

(***************************************************************************)
(* The life of a session as module SessionLifecycle has it.                *)
(***************************************************************************)
Life(s) ==
    IF s \notin issued THEN "unborn"
    ELSE IF \E h \in Handlers : hsid[h] = s /\ InFlight(h) THEN "judging"
    ELSE IF \E h \in Handlers : hsid[h] = s /\ reply[h] = "permit" THEN "granted"
    ELSE IF \E h \in Handlers : hsid[h] = s /\ reply[h] \in {"denied", "not_found"} THEN "refused"
    ELSE IF pending[s] = "SYN" THEN "offered"
    ELSE "dropped"

Lifecycle == INSTANCE SessionLifecycle WITH life <- [s \in Sids |-> Life(s)]

\* The handshake implements the life cycle of a session: no interleaving of
\* repeated requests, expiry, cleaning and completion takes a session back.
ImplementsLifecycle == Lifecycle!Spec
=============================================================================
