-------------------------- MODULE HandshakeProofs --------------------------
(***************************************************************************)
(* Proofs about Handshake, for any sessions, any number of phase-3         *)
(* requests and any time to live, whether or not anybody purges: a session *)
(* is judged once, the commands for the packet filter agree, and the life  *)
(* of a session is that of SessionLifecycle.                               *)
(***************************************************************************)
EXTENDS Handshake, TLAPS

(***************************************************************************)
(* Types                                                                   *)
(***************************************************************************)
LEMMA TypeInit == Init => TypeOK
BY HandshakeAssumption DEF Init, TypeOK, Replies

\* Every step keeps the types; the age of a session saturates.
LEMMA TypeStep == TypeOK /\ [Next]_vars => TypeOK'
<1> SUFFICES ASSUME TypeOK, [Next]_vars
             PROVE  TypeOK'
  OBVIOUS
<1> USE HandshakeAssumption DEF TypeOK, Replies, Refusals, managerVars, kernelVars
<1>1. CASE Tick
  <2>1. age' \in [Sids -> 0..(Ttl + 1)]
    BY <1>1 DEF Tick, Expired
  <2>2. QED
    BY <1>1, <2>1 DEF Tick
<1>2. CASE PurgeExpired
  BY <1>2 DEF PurgeExpired
<1>3. ASSUME NEW s \in Sids, ReceiveSyn(s)
      PROVE  TypeOK'
  BY <1>3 DEF ReceiveSyn
<1>4. ASSUME NEW h \in Handlers, KemRefused(h)
      PROVE  TypeOK'
  BY <1>4 DEF KemRefused, Refuse
<1>5. ASSUME NEW h \in Handlers, KemAccepted(h)
      PROVE  TypeOK'
  BY <1>5 DEF KemAccepted
<1>6. ASSUME NEW h \in Handlers, NEW v \in Verdicts, Decide(h, v)
      PROVE  TypeOK'
  BY <1>6 DEF Decide
<1>7. ASSUME NEW h \in Handlers, Saved(h)
      PROVE  TypeOK'
  BY <1>7 DEF Saved, Grant, Revoke
<1>8. ASSUME NEW h \in Handlers, SaveFails(h)
      PROVE  TypeOK'
  BY <1>8 DEF SaveFails
<1>9. ASSUME NEW h \in Handlers, Finish(h)
      PROVE  TypeOK'
  BY <1>9 DEF Finish
<1>10. CASE UNCHANGED vars
  BY <1>10 DEF vars
<1> QED
  BY <1>1, <1>2, <1>3, <1>4, <1>5, <1>6, <1>7, <1>8, <1>9, <1>10 DEF Next, HandlerStep

\* Every variable of the handshake keeps its type.
THEOREM TypeCorrect == Spec => []TypeOK
BY TypeInit, TypeStep, PTL DEF Spec

(***************************************************************************)
(* What a request that got past the checks of phase 3 knows.               *)
(***************************************************************************)

\* A request that has not been admitted knows nothing, one that waits has no
\* answer, and the verdict comes after "evaluating".
RequestsInOrder ==
    \A h \in Handlers :
        /\ hpc[h] = "idle" => reply[h] = "none"
        /\ InFlight(h) => reply[h] = "none"
        /\ hpc[h] \in {"idle", "evaluating"} => verdict[h] = "none"
        /\ hpc[h] \in {"saving", "decided"} => verdict[h] # "none"

\* A session in _pending was handed out, and one that a request was admitted for
\* is past SYN for good: the phase never goes back, and the id is not drawn again.
PastSyn ==
    /\ \A s \in Sids : pending[s] # "none" => s \in issued
    /\ \A h \in Handlers : Admitted(h) => hsid[h] \in issued /\ pending[hsid[h]] # "SYN"

HandshakeInv == TypeOK /\ RequestsInOrder /\ PastSyn /\ JudgedOnce /\ CommandsAgree

\* Every session is unborn and every request idle.
LEMMA InvInit == Init => HandshakeInv
<1> SUFFICES ASSUME Init
             PROVE  HandshakeInv
  OBVIOUS
<1>1. TypeOK
  BY TypeInit
<1>2. \A h \in Handlers : ~Admitted(h)
  BY DEF Init, Admitted, InFlight
<1>3. RequestsInOrder /\ PastSyn
  BY <1>2 DEF Init, RequestsInOrder, PastSyn, InFlight
<1>4. JudgedOnce /\ CommandsAgree
  BY <1>2 DEF Init, JudgedOnce, CommandsAgree
<1> QED
  BY <1>1, <1>3, <1>4 DEF HandshakeInv

\* The phase is checked and advanced in one step, so that a second request about
\* a session is refused; only the one that was admitted gets to a verdict, and
\* to the command that follows from it.
LEMMA InvStep == HandshakeInv /\ [Next]_vars => HandshakeInv'
<1> SUFFICES ASSUME HandshakeInv, [Next]_vars
             PROVE  HandshakeInv'
  OBVIOUS
<1>0. TypeOK /\ TypeOK'
  BY TypeStep DEF HandshakeInv
<1> USE <1>0 DEF HandshakeInv, TypeOK, RequestsInOrder, PastSyn, InFlight, Admitted,
                 managerVars, kernelVars
<1>1. CASE Tick
  BY <1>1 DEF Tick, JudgedOnce, CommandsAgree
<1>2. CASE PurgeExpired
  BY <1>2 DEF PurgeExpired, JudgedOnce, CommandsAgree
<1>3. ASSUME NEW s \in Sids, ReceiveSyn(s)
      PROVE  HandshakeInv'
  <2>1. \A h \in Handlers : Admitted(h) => hsid[h] # s
    BY <1>3 DEF ReceiveSyn
  <2>2. PastSyn'
    BY <1>3, <2>1 DEF ReceiveSyn
  <2> QED
    BY <1>3, <2>2 DEF ReceiveSyn, JudgedOnce, CommandsAgree
<1>4. ASSUME NEW h \in Handlers, KemRefused(h)
      PROVE  HandshakeInv'
  <2>1. RequestsInOrder' /\ PastSyn'
    BY <1>4 DEF KemRefused, Refuse, Refusals
  <2>2. JudgedOnce' /\ CommandsAgree'
    BY <1>4 DEF KemRefused, Refuse, Refusals, JudgedOnce, CommandsAgree
  <2> QED
    BY <2>1, <2>2
<1>5. ASSUME NEW h \in Handlers, KemAccepted(h)
      PROVE  HandshakeInv'
  <2>1. \A g \in Handlers : Admitted(g) => hsid[g] # hsid[h]
    BY <1>5 DEF KemAccepted
  <2>2. RequestsInOrder' /\ PastSyn'
    BY <1>5 DEF KemAccepted
  <2>3. JudgedOnce'
    BY <1>5, <2>1 DEF KemAccepted, JudgedOnce
  <2>4. CommandsAgree'
    BY <1>5 DEF KemAccepted, CommandsAgree
  <2> QED
    BY <2>2, <2>3, <2>4
<1>6. ASSUME NEW h \in Handlers, NEW v \in Verdicts, Decide(h, v)
      PROVE  HandshakeInv'
  <2>1. RequestsInOrder' /\ PastSyn' /\ JudgedOnce'
    BY <1>6 DEF Decide, Verdicts, JudgedOnce
  <2>2. CommandsAgree'
    <3>1. hpc[h] = "evaluating" /\ verdict[h] = "none"
      BY <1>6 DEF Decide
    <3> QED
      BY <1>6, <3>1 DEF Decide, CommandsAgree
  <2> QED
    BY <2>1, <2>2
<1>7. ASSUME NEW h \in Handlers, Saved(h)
      PROVE  HandshakeInv'
  <2>1. RequestsInOrder' /\ PastSyn' /\ JudgedOnce'
    BY <1>7 DEF Saved, JudgedOnce
  <2>2. CommandsAgree'
    BY <1>7 DEF Saved, Grant, Revoke, Verdicts, JudgedOnce, CommandsAgree
  <2> QED
    BY <2>1, <2>2
<1>8. ASSUME NEW h \in Handlers, SaveFails(h)
      PROVE  HandshakeInv'
  BY <1>8 DEF SaveFails, JudgedOnce, CommandsAgree
<1>9. ASSUME NEW h \in Handlers, Finish(h)
      PROVE  HandshakeInv'
  <2>1. RequestsInOrder' /\ PastSyn' /\ JudgedOnce'
    BY <1>9 DEF Finish, JudgedOnce
  <2>2. CommandsAgree'
    BY <1>9 DEF Finish, Verdicts, JudgedOnce, CommandsAgree
  <2> QED
    BY <2>1, <2>2
<1>10. CASE UNCHANGED vars
  BY <1>10 DEF vars, JudgedOnce, CommandsAgree
<1> QED
  BY <1>1, <1>2, <1>3, <1>4, <1>5, <1>6, <1>7, <1>8, <1>9, <1>10 DEF Next, HandlerStep

\* The invariant holds at any time.
LEMMA Invariant == Spec => []HandshakeInv
BY InvInit, InvStep, PTL DEF Spec

\* A session is taken to the trust engine by at most one request, however often
\* phase 3 is repeated while the first one awaits.
THEOREM JudgedOnceSafe == Spec => []JudgedOnce
<1>1. HandshakeInv => JudgedOnce
  BY DEF HandshakeInv
<1> QED
  BY <1>1, Invariant, PTL

\* The packet filter is never told to permit and to revoke on account of one
\* session, and what it is told follows from the verdict of its one request.
THEOREM CommandsSafe == Spec => []CommandsAgree
<1>1. HandshakeInv => CommandsAgree
  BY DEF HandshakeInv
<1> QED
  BY <1>1, Invariant, PTL

(***************************************************************************)
(* The handshake implements SessionLifecycle.                              *)
(***************************************************************************)
lives == [s \in Sids |-> Life(s)]

Final == {"permit", "denied", "not_found"}

\* The life of a session is known from its one admitted request, or, without
\* one, from _pending.
LEMMA LifeOf ==
    ASSUME HandshakeInv, NEW s \in Sids
    PROVE  /\ \A h \in Handlers : hsid[h] = s =>
                 /\ InFlight(h) => Life(s) = "judging"
                 /\ reply[h] = "permit" => Life(s) = "granted"
                 /\ reply[h] \in {"denied", "not_found"} => Life(s) = "refused"
           /\ (\A h \in Handlers : hsid[h] = s => ~Admitted(h)) =>
                 Life(s) = IF s \notin issued THEN "unborn"
                           ELSE IF pending[s] = "SYN" THEN "offered" ELSE "dropped"
<1> USE DEF HandshakeInv, TypeOK, RequestsInOrder, PastSyn, JudgedOnce, Admitted, InFlight
<1>1. ASSUME NEW h \in Handlers, hsid[h] = s
      PROVE  /\ InFlight(h) => Life(s) = "judging"
             /\ reply[h] = "permit" => Life(s) = "granted"
             /\ reply[h] \in {"denied", "not_found"} => Life(s) = "refused"
  BY <1>1 DEF Life
<1>2. ASSUME \A h \in Handlers : hsid[h] = s => ~Admitted(h)
      PROVE  Life(s) = IF s \notin issued THEN "unborn"
                       ELSE IF pending[s] = "SYN" THEN "offered" ELSE "dropped"
  BY <1>2 DEF Life
<1> QED
  BY <1>1, <1>2

\* A step that neither admits nor answers a request about s, nor offers s or takes
\* the offer back, leaves its life alone.
LEMMA LifeKept ==
    ASSUME NEW s \in Sids, hsid' = hsid,
           s \in issued' <=> s \in issued,
           pending'[s] = "SYN" <=> pending[s] = "SYN",
           \A h \in Handlers : hsid[h] = s =>
              /\ InFlight(h)' <=> InFlight(h)
              /\ \A r \in Final : reply'[h] = r <=> reply[h] = r
    PROVE  Life(s)' = Life(s)
<1>1. (\E h \in Handlers : hsid[h] = s /\ InFlight(h))'
         <=> \E h \in Handlers : hsid[h] = s /\ InFlight(h)
  OBVIOUS
<1>2. (\E h \in Handlers : hsid[h] = s /\ reply[h] = "permit")'
         <=> \E h \in Handlers : hsid[h] = s /\ reply[h] = "permit"
  BY DEF Final
<1>3. (\E h \in Handlers : hsid[h] = s /\ reply[h] \in {"denied", "not_found"})'
         <=> \E h \in Handlers : hsid[h] = s /\ reply[h] \in {"denied", "not_found"}
  BY DEF Final
<1> QED
  BY <1>1, <1>2, <1>3 DEF Life

\* One life changes as SessionLifecycle moves it.
LEMMA OneMove ==
    ASSUME NEW s \in Sids, NEW to,
           Life(s)' = to,
           \A z \in Sids \ {s} : Life(z)' = Life(z)
    PROVE  Lifecycle!Move(s, Life(s), to)
BY DEF lives, Lifecycle!Move

\* The initial states are initial in the abstract specification.
LEMMA LifeInit == Init => Lifecycle!Init
BY DEF Init, Lifecycle!Init, Life

\* Every step of the handshake is one of the life cycle, or leaves all lives alone.
LEMMA LifeStep == HandshakeInv /\ HandshakeInv' /\ [Next]_vars => [Lifecycle!Next]_lives
<1> SUFFICES ASSUME HandshakeInv, HandshakeInv', [Next]_vars
             PROVE  [Lifecycle!Next]_lives
  OBVIOUS
<1> USE DEF HandshakeInv, TypeOK, managerVars, kernelVars
<1>a. (\A s \in Sids : Life(s)' = Life(s)) => lives' = lives
  BY DEF lives
<1>1. CASE Tick
  BY <1>1, <1>a, LifeKept DEF Tick, InFlight
<1>2. CASE PurgeExpired
  <2> DEFINE S == {s \in Sids : lives[s] = "offered" /\ Expired(s)}
  <2>1. ASSUME NEW s \in Sids
        PROVE  Life(s)' = IF s \in S THEN "dropped" ELSE Life(s)
    <3>1. CASE s \in S
      BY <1>2, <3>1 DEF PurgeExpired, Life, lives, InFlight
    <3>2. CASE s \notin S /\ Expired(s)
      BY <1>2, <3>2 DEF PurgeExpired, Life, lives, InFlight
    <3>3. CASE ~Expired(s)
      BY <1>2, <3>3, LifeKept DEF PurgeExpired, InFlight, lives
    <3> QED
      BY <3>1, <3>2, <3>3
  <2>2. lives' = [s \in Sids |-> IF s \in S THEN "dropped" ELSE lives[s]]
    BY <2>1 DEF lives
  <2>3. S \in SUBSET {s \in Sids : lives[s] = "offered"}
    OBVIOUS
  <2> QED
    BY <2>2, <2>3 DEF Lifecycle!Next, Lifecycle!Drop, lives
<1>3. ASSUME NEW s \in Sids, ReceiveSyn(s)
      PROVE  [Lifecycle!Next]_lives
  <2>1. \A h \in Handlers : hsid[h] = s => ~Admitted(h) /\ ~Admitted(h)'
    BY <1>3 DEF ReceiveSyn, PastSyn, Admitted, InFlight
  <2>2. Life(s) = "unborn" /\ Life(s)' = "offered"
    BY <1>3, <2>1 DEF ReceiveSyn, Life, Admitted
  <2>3. \A z \in Sids \ {s} : Life(z)' = Life(z)
    BY <1>3, LifeKept DEF ReceiveSyn, InFlight
  <2> QED
    BY <2>2, <2>3, OneMove DEF Lifecycle!Next
<1>4. ASSUME NEW h \in Handlers, KemRefused(h)
      PROVE  [Lifecycle!Next]_lives
  <2>0. PICK s \in Sids : s = hsid[h]
    OBVIOUS
  <2> USE <2>0
  <2>1. \A g \in Handlers : InFlight(g)' <=> InFlight(g)
    BY <1>4 DEF KemRefused, Refuse, InFlight
  <2>2. \A g \in Handlers, r \in Final : reply'[g] = r <=> reply[g] = r
    BY <1>4 DEF KemRefused, Refuse, RequestsInOrder, Final
  <2>3. \A z \in Sids \ {s} : Life(z)' = Life(z)
    BY <1>4, <2>1, <2>2, LifeKept DEF KemRefused, Refuse
  <2>4. CASE Life(s) = "offered" /\ pending'[s] = "none"
    <3>1. Life(s)' = "dropped"
      BY <1>4, <2>1, <2>2, <2>4 DEF KemRefused, Refuse, Life, Final
    <3>2. PICK S \in SUBSET Sids : S = {s}
      OBVIOUS
    <3>3. lives' = [z \in Sids |-> IF z \in S THEN "dropped" ELSE lives[z]]
      BY <2>3, <3>1, <3>2 DEF lives
    <3>4. S \in SUBSET {z \in Sids : lives[z] = "offered"}
      BY <2>4, <3>2 DEF lives
    <3> QED
      BY <3>3, <3>4 DEF Lifecycle!Next, Lifecycle!Drop, lives
  <2>5. CASE ~(Life(s) = "offered" /\ pending'[s] = "none")
    <3>1. Life(s)' = Life(s)
      BY <1>4, <2>1, <2>2, <2>5 DEF KemRefused, Refuse, Life, Final
    <3>2. \A z \in Sids : Life(z)' = Life(z)
      BY <2>3, <3>1
    <3> QED
      BY <3>2, <1>a
  <2> QED
    BY <2>4, <2>5
<1>5. ASSUME NEW h \in Handlers, KemAccepted(h)
      PROVE  [Lifecycle!Next]_lives
  <2>0. PICK s \in Sids : s = hsid[h]
    OBVIOUS
  <2> USE <2>0
  <2>1. \A g \in Handlers : hsid[g] = s => ~Admitted(g)
    BY <1>5 DEF KemAccepted, PastSyn
  <2>2. Life(s) = "offered"
    BY <1>5, <2>1, LifeOf DEF KemAccepted, PastSyn
  <2>3. Life(s)' = "judging"
    BY <1>5 DEF KemAccepted, PastSyn, Life, InFlight
  <2>4. \A z \in Sids \ {s} : Life(z)' = Life(z)
    BY <1>5, LifeKept DEF KemAccepted, InFlight
  <2> QED
    BY <2>2, <2>3, <2>4, OneMove DEF Lifecycle!Next
<1>6. ASSUME NEW h \in Handlers,
             (\E v \in Verdicts : Decide(h, v)) \/ Saved(h) \/ SaveFails(h)
      PROVE  [Lifecycle!Next]_lives
  BY <1>6, <1>a, LifeKept DEF Decide, Saved, SaveFails, InFlight
<1>7. ASSUME NEW h \in Handlers, Finish(h)
      PROVE  [Lifecycle!Next]_lives
  <2>0. PICK s \in Sids : s = hsid[h]
    OBVIOUS
  <2> USE <2>0
  <2>1. Life(s) = "judging"
    BY <1>7, LifeOf DEF Finish, InFlight
  <2>2. \A g \in Handlers \ {h} : hsid[g] = s => ~Admitted(g) /\ ~Admitted(g)'
    BY <1>7 DEF Finish, JudgedOnce, Admitted, InFlight
  <2>3. Life(s)' \in {"granted", "refused"}
    BY <1>7, <2>2 DEF Finish, PastSyn, Admitted, InFlight, Life
  <2>4. \A z \in Sids \ {s} : Life(z)' = Life(z)
    BY <1>7, LifeKept DEF Finish, InFlight
  <2> QED
    BY <2>1, <2>3, <2>4, OneMove DEF Lifecycle!Next
<1>8. CASE UNCHANGED vars
  BY <1>8 DEF vars, lives, Life, InFlight
<1> QED
  BY <1>1, <1>2, <1>3, <1>4, <1>5, <1>6, <1>7, <1>8 DEF Next, HandlerStep

\* No interleaving of repeated requests, expiry, cleaning and completion takes a
\* session back: it is offered, judged at most once, and granted or refused.
THEOREM Refinement == Spec => ImplementsLifecycle
BY LifeInit, LifeStep, Invariant, PTL DEF Spec, ImplementsLifecycle, Lifecycle!Spec, lives
=============================================================================
