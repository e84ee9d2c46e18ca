--------------------------- MODULE DataPlaneProofs ---------------------------
(***************************************************************************)
(* Proofs about the components in Rust and C that MCDataPlane brings       *)
(* together: the sessions of the SDK, the permits and the statistics of    *)
(* the software enforcer; module PacketFilterProofs has the two packet     *)
(* filters.                                                                *)
(***************************************************************************)
EXTENDS MCDataPlane, FiniteSetTheorems, TLAPS

(***************************************************************************)
(* A step of the data plane is, of each component, a step or none.         *)
(***************************************************************************)
LEMMA ComponentSteps ==
    ASSUME [PlaneNext]_planeVars
    PROVE  /\ Next \/ UNCHANGED vars
           /\ Filter!Next \/ UNCHANGED filterVars
           /\ FilterInC!Next \/ UNCHANGED cVars
           /\ Permits!Next \/ UNCHANGED permitVars
           /\ Pipeline!Next \/ UNCHANGED pipelineVars
BY DEF PlaneNext, Rest, planeVars, vars, filterVars, cVars, permitVars, pipelineVars,
       clientVars, serverVars

(***************************************************************************)
(* Sessions of the SDK                                                     *)
(***************************************************************************)

\* The tasks of a session that are in flight.
Flying(s) == deciding[s] + inserting[s]

FlyingBounded == \A s \in Sessions : Flying(s) <= MostTasks

\* SYN+ACK is sent of accepted sessions only, whatever the network keeps of it.
AnswersAreTrue == \A p \in net : p.kind = "SYN+ACK" => p.sid \in accepted

\* As long as no two tasks overlapped, whoever is in flight is alone, and found
\* room that nobody else has taken since.
RoomForOne ==
    ~overlapped =>
        \A s \in Sessions : Flying(s) > 0 =>
            /\ Flying(s) = 1
            /\ \A r \in Sessions \ {s} : Flying(r) = 0
            /\ Cardinality(sessions) < MaxSessions

SessionInv ==
    /\ TypeOK /\ FlyingBounded
    /\ AnswersAreTrue /\ EstablishedWasAccepted
    /\ IsFiniteSet(sessions) /\ RoomForOne /\ LimitHolds

ClientStates == {"idle", "waiting", "established", "closed", "dropped",
                 "refused", "failed", "timeout"}

\* No session is known to anybody at first.
LEMMA SessionInit == Init => SessionInv
<1> SUFFICES ASSUME Init
             PROVE  SessionInv
  OBVIOUS
<1> USE SdkAssumption DEF Init
<1>1. TypeOK
  <2>1. \A s \in Sessions : ~(inserting[s] > 0)
    OBVIOUS
  <2>2. deciding \in [Sessions -> 0..MostTasks] /\ inserting \in [Sessions -> 0..MostTasks]
    OBVIOUS
  <2> QED
    BY <2>1, <2>2 DEF TypeOK
<1>2. FlyingBounded /\ AnswersAreTrue /\ EstablishedWasAccepted
  BY DEF FlyingBounded, Flying, AnswersAreTrue, EstablishedWasAccepted
<1>3. IsFiniteSet(sessions) /\ RoomForOne /\ LimitHolds
  BY FS_EmptySet DEF RoomForOne, Flying, LimitHolds
<1> QED
  BY <1>1, <1>2, <1>3 DEF SessionInv

\* The packets of either direction.
LEMMA Packets ==
    ASSUME NEW s \in Sessions
    PROVE  /\ \A kind \in ToServer : Packet("server", kind, s) \in
                 [to : {"server"}, kind : ToServer, sid : Sessions]
           /\ \A kind \in ToClient : Packet("client", kind, s) \in
                 [to : {"client"}, kind : ToClient, sid : Sessions]
           /\ \A to, kind : /\ Packet(to, kind, s).kind = kind
                            /\ Packet(to, kind, s).sid = s
BY DEF Packet

\* What the client does: it sends no SYN+ACK, and has a session only after one.
LEMMA ClientStep ==
    ASSUME SessionInv, UNCHANGED serverVars, NEW s \in Sessions,
           \/ Connect(s) \/ TimesOut(s) \/ SendData(s) \/ Close(s) \/ DropSession(s)
           \/ PeerEnds(s)
           \/ \E p \in net : Answered(s, p) \/ ReadLoop(s, p)
    PROVE  TypeOK' /\ AnswersAreTrue' /\ EstablishedWasAccepted'
<1> USE Packets DEF SessionInv, TypeOK, ClientStates, AnswersAreTrue, EstablishedWasAccepted, serverVars,
                    ToServer, ToClient, Send, Receive
<1>1. CASE Connect(s)
  BY <1>1 DEF Connect
<1>2. CASE TimesOut(s)
  BY <1>2 DEF TimesOut
<1>3. CASE SendData(s)
  BY <1>3 DEF SendData, clientVars
<1>4. CASE Close(s)
  BY <1>4 DEF Close
<1>5. CASE DropSession(s)
  BY <1>5 DEF DropSession
<1>6. CASE PeerEnds(s)
  BY <1>6 DEF PeerEnds, clientVars
<1>7. ASSUME NEW p \in net, Answered(s, p)
      PROVE  TypeOK' /\ AnswersAreTrue' /\ EstablishedWasAccepted'
  <2>1. net' = net /\ client' \in [Sessions -> ClientStates] /\ loop' \in [Sessions -> BOOLEAN]
    <3>1. /\ net' = net
          /\ loop' = loop \/ loop' = [loop EXCEPT ![s] = TRUE]
          /\ \E c \in ClientStates : client' = [client EXCEPT ![s] = c]
      BY <1>7 DEF Answered
    <3>2. loop' \in [Sessions -> BOOLEAN]
      BY <3>1
    <3>3. client' \in [Sessions -> ClientStates]
      BY <3>1
    <3> QED
      BY <3>1, <3>2, <3>3
  <2>2. EstablishedWasAccepted'
    BY <1>7 DEF Answered
  <2> QED
    BY <1>7, <2>1, <2>2 DEF Answered
<1>8. ASSUME NEW p \in net, ReadLoop(s, p)
      PROVE  TypeOK' /\ AnswersAreTrue' /\ EstablishedWasAccepted'
  <2>1. /\ UNCHANGED <<net, client>>
        /\ loop' \in [Sessions -> BOOLEAN] /\ strayed' \in SUBSET Sessions
    BY <1>8 DEF ReadLoop
  <2> QED
    BY <2>1
<1> QED
  BY <1>1, <1>2, <1>3, <1>4, <1>5, <1>6, <1>7, <1>8

\* One element more, or less.
LEMMA OneMore ==
    ASSUME NEW S, NEW x, IsFiniteSet(S)
    PROVE  /\ Cardinality(S) \in Nat
           /\ IsFiniteSet(S \cup {x}) /\ IsFiniteSet(S \ {x})
           /\ Cardinality(S \cup {x}) \in Nat /\ Cardinality(S \ {x}) \in Nat
           /\ Cardinality(S \cup {x}) <= Cardinality(S) + 1
           /\ Cardinality(S \ {x}) <= Cardinality(S)
<1>1. Cardinality(S) \in Nat /\ IsFiniteSet(S \cup {x}) /\ IsFiniteSet(S \ {x})
  BY FS_CardinalityType, FS_AddElement, FS_RemoveElement
<1>2. Cardinality(S \cup {x}) \in Nat /\ Cardinality(S \ {x}) \in Nat
  BY <1>1, FS_CardinalityType
<1>3. Cardinality(S \cup {x}) = IF x \in S THEN Cardinality(S) ELSE Cardinality(S) + 1
  BY FS_AddElement
<1>4. Cardinality(S \ {x}) = IF x \in S THEN Cardinality(S) - 1 ELSE Cardinality(S)
  BY FS_RemoveElement
<1> QED
  BY <1>1, <1>2, <1>3, <1>4

\* Every step of the server but the table's count.
LEMMA ServerStep ==
    ASSUME SessionInv, UNCHANGED clientVars, NEW s \in Sessions,
           Syn(s) \/ Accept(s) \/ Reject(s) \/ Insert(s) \/ Data(s) \/ Fin(s)
    PROVE  TypeOK' /\ FlyingBounded' /\ AnswersAreTrue' /\ EstablishedWasAccepted'
<1> USE SdkAssumption, Packets
    DEF SessionInv, TypeOK, ClientStates, FlyingBounded, Flying, AnswersAreTrue,
        EstablishedWasAccepted, clientVars, ToServer, ToClient, Send, Receive, Exchange
<1>1. CASE Syn(s)
  <2>1. deciding' \in [Sessions -> 0..MostTasks]
    BY <1>1 DEF Syn
  <2>2. net' \in {net, net \cup {Packet("client", "REVOKE", s)}}
    BY <1>1 DEF Syn
  <2>3. net' \in SUBSET ([to : {"server"}, kind : ToServer, sid : Sessions] \cup
                         [to : {"client"}, kind : ToClient, sid : Sessions])
    BY <2>2
  <2>4. TypeOK'
    BY <1>1, <2>1, <2>3 DEF Syn
  <2>5. FlyingBounded'
    BY <1>1 DEF Syn
  <2>6. AnswersAreTrue' /\ EstablishedWasAccepted'
    BY <1>1, <2>2 DEF Syn
  <2> QED
    BY <2>4, <2>5, <2>6
<1>2. CASE Accept(s)
  <2>1. deciding' \in [Sessions -> 0..MostTasks] /\ inserting' \in [Sessions -> 0..MostTasks]
    BY <1>2 DEF Accept
  <2>2. FlyingBounded'
    BY <1>2 DEF Accept
  <2>3. TypeOK'
    <3>1. net' = net \cup {Packet("client", "SYN+ACK", s)}
      BY <1>2 DEF Accept
    <3>2. net' \in SUBSET ([to : {"server"}, kind : ToServer, sid : Sessions] \cup
                           [to : {"client"}, kind : ToClient, sid : Sessions])
      BY <3>1
    <3> QED
      BY <1>2, <2>1, <3>2 DEF Accept
  <2>4. AnswersAreTrue' /\ EstablishedWasAccepted'
    BY <1>2 DEF Accept
  <2> QED
    BY <2>2, <2>3, <2>4
<1>3. CASE Reject(s)
  <2>1. deciding' \in [Sessions -> 0..MostTasks]
    BY <1>3 DEF Reject
  <2> QED
    BY <1>3, <2>1 DEF Reject
<1>4. CASE Insert(s)
  <2>1. inserting' \in [Sessions -> 0..MostTasks]
    BY <1>4 DEF Insert
  <2> QED
    BY <1>4, <2>1 DEF Insert
<1>5. CASE Data(s)
  BY <1>5 DEF Data, serverVars
<1>6. CASE Fin(s)
  BY <1>6 DEF Fin
<1> QED
  BY <1>1, <1>2, <1>3, <1>4, <1>5, <1>6

\* The table has room for the one that is in flight, and so keeps its limit.
LEMMA TableStep ==
    ASSUME SessionInv, TypeOK', NEW s \in Sessions,
           Syn(s) \/ Accept(s) \/ Reject(s) \/ Insert(s) \/ Data(s) \/ Fin(s)
    PROVE  IsFiniteSet(sessions)' /\ RoomForOne' /\ LimitHolds'
<1> USE SdkAssumption DEF SessionInv, RoomForOne, LimitHolds
<1>1. Cardinality(sessions) \in Nat
  BY FS_CardinalityType
<1>2. \A r \in Sessions :
         /\ deciding[r] \in Nat /\ inserting[r] \in Nat
         /\ Flying(r) \in Nat /\ Flying(r)' \in Nat
  BY DEF TypeOK, Flying
<1>3. ASSUME UNCHANGED <<deciding, inserting>>
      PROVE  \A r \in Sessions : Flying(r)' = Flying(r)
  BY <1>3 DEF Flying
<1>4. CASE Syn(s)
  <2>1. UNCHANGED <<sessions, inserting>>
    BY <1>4 DEF Syn
  <2>2. CASE UNCHANGED <<deciding, overlapped>>
    BY <1>3, <2>1, <2>2
  <2>3. CASE ~UNCHANGED <<deciding, overlapped>>
    <3>1. /\ Cardinality(sessions) < MaxSessions
          /\ deciding' = [deciding EXCEPT ![s] = @ + 1]
          /\ ~overlapped' => ~overlapped /\ InFlight = {}
      BY <1>4, <2>3 DEF Syn
    <3>2. InFlight = {} => \A r \in Sessions : Flying(r) = 0
      BY <1>2 DEF InFlight, Flying
    <3>3. \A r \in Sessions : Flying(r)' = IF r = s THEN Flying(r) + 1 ELSE Flying(r)
      BY <1>2, <2>1, <3>1 DEF Flying, TypeOK
    <3> QED
      BY <1>1, <1>2, <2>1, <3>1, <3>2, <3>3
  <2> QED
    BY <2>2, <2>3
<1>5. CASE Accept(s) \/ Reject(s)
  <2>1. /\ UNCHANGED <<sessions, overlapped>>
        /\ \A r \in Sessions : Flying(r)' = Flying(r) \/ Flying(r)' = Flying(r) - 1
    BY <1>2, <1>5 DEF Accept, Reject, Flying, TypeOK
  <2> QED
    BY <1>2, <2>1
<1>6. CASE Insert(s)
  <2>1. /\ UNCHANGED <<deciding, overlapped>> /\ sessions' = sessions \cup {s}
        /\ inserting[s] > 0 /\ inserting' = [inserting EXCEPT ![s] = @ - 1]
    BY <1>6 DEF Insert
  <2>2. /\ IsFiniteSet(sessions') /\ Cardinality(sessions') \in Nat
        /\ Cardinality(sessions') <= Cardinality(sessions) + 1
    BY <2>1, OneMore
  <2>3. /\ Flying(s) > 0
        /\ \A r \in Sessions : Flying(r)' = IF r = s THEN Flying(r) - 1 ELSE Flying(r)
    BY <1>2, <2>1 DEF Flying, TypeOK
  <2>4. ~overlapped => /\ Cardinality(sessions) < MaxSessions
                       /\ \A r \in Sessions : Flying(r)' = 0
    BY <2>3
  <2> QED
    BY <1>1, <1>2, <2>1, <2>2, <2>4
<1>7. CASE Data(s)
  BY <1>3, <1>7 DEF Data, serverVars
<1>8. CASE Fin(s)
  <2>1. UNCHANGED <<deciding, inserting, overlapped>> /\ sessions' = sessions \ {s}
    BY <1>8 DEF Fin
  <2>2. /\ IsFiniteSet(sessions') /\ Cardinality(sessions') \in Nat
        /\ Cardinality(sessions') <= Cardinality(sessions)
    BY <2>1, OneMore
  <2> QED
    BY <1>1, <1>2, <1>3, <2>1, <2>2
<1> QED
  BY <1>4, <1>5, <1>6, <1>7, <1>8

\* Every packet, handler and read loop keeps the invariant of the sessions.
LEMMA SessionStep ==
    ASSUME SessionInv, Next \/ UNCHANGED vars
    PROVE  SessionInv'
<1>1. ASSUME NEW s \in Sessions,
             Syn(s) \/ Accept(s) \/ Reject(s) \/ Insert(s) \/ Data(s) \/ Fin(s)
      PROVE  SessionInv'
  <2>1. UNCHANGED clientVars
    BY <1>1 DEF Syn, Accept, Reject, Insert, Data, Fin
  <2> QED
    BY <1>1, <2>1, ServerStep, TableStep DEF SessionInv
<1>2. ASSUME UNCHANGED serverVars, TypeOK' /\ AnswersAreTrue' /\ EstablishedWasAccepted'
      PROVE  SessionInv'
  BY <1>2 DEF SessionInv, serverVars, FlyingBounded, Flying, RoomForOne, LimitHolds
<1>3. ASSUME NEW s \in Sessions,
             \/ Connect(s) \/ TimesOut(s) \/ SendData(s) \/ Close(s) \/ DropSession(s)
             \/ PeerEnds(s)
             \/ \E p \in net : Answered(s, p) \/ ReadLoop(s, p)
      PROVE  SessionInv'
  <2>1. UNCHANGED serverVars
    BY <1>3 DEF Connect, TimesOut, SendData, Close, DropSession, PeerEnds, Answered, ReadLoop
  <2> QED
    BY <1>2, <1>3, <2>1, ClientStep
<1>4. CASE UNCHANGED vars
  BY <1>2, <1>4
  DEF vars, clientVars, serverVars, SessionInv, TypeOK, AnswersAreTrue, EstablishedWasAccepted
<1> QED
  BY <1>1, <1>3, <1>4 DEF Next

\* What the theorems about the sessions rest on.
LEMMA SessionAlways == PlaneSpec => []SessionInv
<1>1. PlaneInit => SessionInv
  BY SessionInit DEF PlaneInit
<1>2. SessionInv /\ [PlaneNext]_planeVars => SessionInv'
  BY SessionStep, ComponentSteps
<1> QED
  BY <1>1, <1>2, PTL DEF PlaneSpec

\* Whoever has a session was accepted by the server's application, whatever the
\* network does to the answers and whoever else receives them.
THEOREM EstablishedSafe == PlaneSpec => []EstablishedWasAccepted
<1>1. SessionInv => EstablishedWasAccepted
  BY DEF SessionInv
<1> QED
  BY <1>1, SessionAlways, PTL

\* The table keeps its limit as long as no two handlers were in flight at once.
THEOREM LimitSafe == PlaneSpec => []LimitHolds
<1>1. SessionInv => LimitHolds
  BY DEF SessionInv
<1> QED
  BY <1>1, SessionAlways, PTL

(***************************************************************************)
(* The statistics of the software enforcer                                 *)
(***************************************************************************)

\* The counters are numbers within their bounds, and whoever processes has a packet to
\* process: without the last the batch might go below zero.
PipelineNumbers ==
    /\ capture \in {"reading", "queued", "ended"}
    /\ task \in {"filling", "processing"}
    /\ queue \in 0..Room /\ batch \in 0..Batch /\ arrived \in 0..Arrivals
    /\ total \in Nat /\ dropped \in Nat /\ bypassed \in Nat
    /\ task = "processing" => batch > 0

PipelineInv == PipelineNumbers /\ Pipeline!StatsReconcile

\* Nothing has been captured, and the counters are zero.
LEMMA PipelineInit == Pipeline!Init => PipelineInv
BY PlaneAssumption
DEF Pipeline!Init, PipelineInv, PipelineNumbers, Pipeline!StatsReconcile

\* No step of either thread loses a packet or counts one twice.
LEMMA PipelineStep ==
    ASSUME PipelineInv, Pipeline!Next \/ UNCHANGED pipelineVars
    PROVE  PipelineInv'
<1> USE PlaneAssumption DEF PipelineInv, PipelineNumbers, Pipeline!StatsReconcile
<1>1. CASE Pipeline!Packet
  BY <1>1 DEF Pipeline!Packet
<1>2. CASE Pipeline!Counted
  BY <1>2 DEF Pipeline!Counted
<1>3. CASE Pipeline!Quiet
  BY <1>3 DEF Pipeline!Quiet
<1>4. CASE Pipeline!Take
  BY <1>4 DEF Pipeline!Take, Pipeline!captureVars
<1>5. CASE Pipeline!Filled
  BY <1>5 DEF Pipeline!Filled, Pipeline!captureVars
<1>6. CASE Pipeline!Process
  BY <1>6 DEF Pipeline!Process, Pipeline!captureVars
<1>7. CASE UNCHANGED pipelineVars
  BY <1>7 DEF pipelineVars
<1> QED
  BY <1>1, <1>2, <1>3, <1>4, <1>5, <1>6, <1>7 DEF Pipeline!Next

\* The pipeline rests while another component is at work, and keeps its invariant.
LEMMA PipelineAlways == PlaneSpec => []PipelineInv
<1>1. PlaneInit => PipelineInv
  BY PipelineInit DEF PlaneInit
<1>2. PipelineInv /\ [PlaneNext]_planeVars => PipelineInv'
  BY PipelineStep, ComponentSteps
<1> QED
  BY <1>1, <1>2, PTL DEF PlaneSpec

\* The statistics add up, whatever the two threads are doing.
THEOREM StatsSafe == PlaneSpec => []StatsReconcile
<1>1. PipelineInv => StatsReconcile
  BY DEF PipelineInv, StatsReconcile
<1> QED
  BY <1>1, PipelineAlways, PTL

(***************************************************************************)
(* The permits of the software enforcer                                    *)
(***************************************************************************)

\* A sweep read the clock before now.
SweepsBegan == \A c \in Calls : sweep[c].at <= clock

\* What a sweep has visited holds no permit of its entity, but those given since.
SweptSoFar ==
    \A c \in Calls, s \in Sids :
        /\ sweep[c].goal \in Entities
        /\ s \notin sweep[c].todo /\ s \notin fresh[c] /\ permits[s] # None
        => permits[s].entity # sweep[c].goal

PermitInv == Permits!TypeOK /\ SweepsBegan /\ SweptSoFar

\* The map is empty and no sweep has begun.
LEMMA PermitInit == Permits!Init => PermitInv
BY PlaneAssumption
DEF Permits!Init, PermitInv, Permits!TypeOK, Permits!Goals, SweepsBegan, SweptSoFar

\* Insertions, revocations and the visits of a sweep keep the invariant of the map.
LEMMA PermitStep ==
    ASSUME PermitInv, Permits!Next \/ UNCHANGED permitVars
    PROVE  PermitInv'
<1> USE PlaneAssumption DEF PermitInv, Permits!TypeOK, Permits!Goals, SweepsBegan, SweptSoFar
<1>1. CASE Permits!Tick
  BY <1>1 DEF Permits!Tick
<1>2. ASSUME NEW s \in Sids, NEW e \in Entities, NEW allow \in BOOLEAN, NEW life \in Lifetimes,
             Permits!Permit(s, e, allow, life)
      PROVE  PermitInv'
  <2>1. PICK p \in Permits!Entry : permits' = [permits EXCEPT ![s] = p]
    <3>1. PICK x \in Nat : x = IF life = 0 THEN 0 ELSE clock + life
      OBVIOUS
    <3>2. [entity |-> e, allow |-> allow, expires |-> x] \in Permits!Entry
      BY DEF Permits!Entry
    <3> QED
      BY <1>2, <3>1, <3>2 DEF Permits!Permit
  <2> QED
    BY <1>2, <2>1 DEF Permits!Permit
<1>3. ASSUME NEW s \in Sids, Permits!Revoke(s)
      PROVE  PermitInv'
  BY <1>3 DEF Permits!Revoke
<1>4. ASSUME NEW c \in Calls, NEW s \in Sids, Permits!Visit(c, s)
      PROVE  PermitInv'
  <2>1. /\ UNCHANGED <<clock, fresh>>
        /\ sweep' = [sweep EXCEPT ![c].todo = @ \ {s}]
        /\ permits' \in [Sids -> Permits!Entry \cup {None}]
    BY <1>4 DEF Permits!Visit
  <2>2. /\ sweep' \in [Calls -> [goal : Permits!Goals, at : 0..PermitTicks, todo : SUBSET Sids]]
        /\ \A z \in Calls : sweep'[z].goal = sweep[z].goal /\ sweep'[z].at = sweep[z].at
        /\ \A z \in Calls \ {c} : sweep'[z].todo = sweep[z].todo
        /\ sweep'[c].todo = sweep[c].todo \ {s}
    BY <2>1
  <2>3. /\ \A z \in Sids \ {s} : permits'[z] = permits[z]
        /\ permits'[s] \in {None, permits[s]}
        /\ sweep[c].goal \in Entities /\ permits'[s] # None =>
              permits'[s].entity # sweep[c].goal
    BY <1>4 DEF Permits!Visit, Permits!Wanted
  <2>4. SweptSoFar'
    BY <2>1, <2>2, <2>3
  <2> QED
    BY <2>1, <2>2, <2>4
<1>5. ASSUME NEW c \in Calls, NEW goal \in Entities \cup {"expired"}, Permits!Sweep(c, goal)
      PROVE  PermitInv'
  BY <1>5 DEF Permits!Sweep
<1>6. CASE UNCHANGED permitVars
  BY <1>6 DEF permitVars
<1> QED
  BY <1>1, <1>2, <1>3, <1>4, <1>5, <1>6 DEF Permits!Next

\* A permit in force goes only by a call about its session or its entity.
LEMMA InForceStays ==
    ASSUME PermitInv, Permits!Next \/ UNCHANGED permitVars,
           NEW s \in Sids, Permits!InForce(s), permits'[s] = None
    PROVE  Permits!Revoke(s) \/ \E c \in Calls : sweep[c].goal = permits[s].entity
<1> USE PlaneAssumption DEF PermitInv, Permits!TypeOK, Permits!InForce
<1>1. permits[s] \in Permits!Entry /\ permits'[s] # permits[s]
  OBVIOUS
<1>2. ASSUME NEW z \in Sids, NEW e \in Entities, NEW allow \in BOOLEAN, NEW life \in Lifetimes,
             Permits!Permit(z, e, allow, life)
      PROVE  FALSE
  <2>1. PICK x \in Nat : x = IF life = 0 THEN 0 ELSE clock + life
    OBVIOUS
  <2>2. [entity |-> e, allow |-> allow, expires |-> x] \in Permits!Entry
    BY DEF Permits!Entry
  <2> QED
    BY <1>1, <1>2, <2>1, <2>2 DEF Permits!Permit
<1>3. ASSUME NEW z \in Sids, Permits!Revoke(z)
      PROVE  Permits!Revoke(s)
  BY <1>1, <1>3 DEF Permits!Revoke
<1>4. ASSUME NEW c \in Calls, NEW z \in Sids, Permits!Visit(c, z)
      PROVE  sweep[c].goal = permits[s].entity
  <2>1. Permits!Wanted(c, permits[s])
    BY <1>1, <1>4 DEF Permits!Visit
  <2>2. ~Permits!Expired(permits[s], sweep[c].at)
    BY <1>1 DEF Permits!Expired, Permits!Entry, SweepsBegan
  <2> QED
    BY <2>1, <2>2 DEF Permits!Wanted
<1> QED
  BY <1>1, <1>2, <1>3, <1>4
  DEF Permits!Next, Permits!Tick, Permits!Sweep, permitVars

\* The map rests while another component is at work, and keeps its invariant.
LEMMA PermitAlways == PlaneSpec => []PermitInv
<1>1. PlaneInit => PermitInv
  BY PermitInit DEF PlaneInit
<1>2. PermitInv /\ [PlaneNext]_planeVars => PermitInv'
  BY PermitStep, ComponentSteps
<1> QED
  BY <1>1, <1>2, PTL DEF PlaneSpec

\* When a sweep for an entity is over, the entity has no permit but those given
\* since it began, and a permit in force goes only by a call that is about its
\* session or its entity.
THEOREM SweepsSafe == PlaneSpec => SweepsAreExact
<1>1. PermitInv /\ PermitInv' /\ [PlaneNext]_planeVars =>
        [/\ \A c \in Calls, s \in Sids :
              ~Permits!Over(c) /\ Permits!Over(c)' /\ s \notin fresh'[c] /\ permits'[s] # None =>
                  permits'[s].entity # sweep'[c].goal
         /\ \A s \in Sids :
              Permits!InForce(s) /\ permits'[s] = None =>
                  Permits!Revoke(s) \/ \E c \in Calls : sweep[c].goal = permits[s].entity
        ]_(Permits!vars)
  <2> SUFFICES ASSUME PermitInv, PermitInv', [PlaneNext]_planeVars
               PROVE  /\ \A c \in Calls, s \in Sids :
                           /\ Permits!Over(c)' /\ s \notin fresh'[c] /\ permits'[s] # None
                           => permits'[s].entity # sweep'[c].goal
                      /\ \A s \in Sids :
                           Permits!InForce(s) /\ permits'[s] = None =>
                               \/ Permits!Revoke(s)
                               \/ \E c \in Calls : sweep[c].goal = permits[s].entity
    OBVIOUS
  <2>1. \A c \in Calls, s \in Sids :
           Permits!Over(c)' /\ s \notin fresh'[c] /\ permits'[s] # None
           => permits'[s].entity # sweep'[c].goal
    BY DEF PermitInv, SweptSoFar, Permits!Over
  <2> QED
    BY <2>1, InForceStays, ComponentSteps
<1> QED
  BY <1>1, PermitAlways, PTL DEF PlaneSpec, SweepsAreExact, Permits!SweepsAreExact
=============================================================================
