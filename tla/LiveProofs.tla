----------------------------- MODULE LiveProofs -----------------------------
(***************************************************************************)
(* Proofs about the components of module MCLive: the broadcasts of the     *)
(* delivery of verdicts reach every agent, the channels of an SDK session  *)
(* keep the payloads in order, and the types of both and of the bridge.    *)
(* That deliveries, callers of drain and payloads get to their end is left *)
(* to the model checker.                                                   *)
(***************************************************************************)
EXTENDS MCLive, Integers, FiniteSetTheorems, SequenceTheorems, TLAPS

(***************************************************************************)
(* The delivery of verdicts                                                *)
(***************************************************************************)

\* A client that is on the list, was found dead or has been sent to was connected
\* once, and so never will be again; one found dead is closed for good.
Acquainted ==
    /\ \A c \in clients \cup up : cpc[c] # "away"
    /\ \A d \in Deliveries :
          /\ \A c \in dead[d] : c \notin up /\ cpc[c] # "away"
          /\ \A c \in Members(tour[d]) : cpc[c] # "away"

\* A broadcast that nobody has disturbed yet goes through the list as it was when it
\* started.
ToursAgree ==
    \A d \in Deliveries :
        /\ dpc[d] \in {"idle", "saving", "draining"} => tour[d] = << >>
        /\ dpc[d] = "sending" => tour[d] # << >>
        /\ dpc[d] = "sending" /\ d \notin disturbed =>
              clients = audience[d] /\ Members(tour[d]) \subseteq clients

DeliveryInv == TypeOK /\ Acquainted /\ ToursAgree /\ AgentsAreReached

\* Nobody is connected, and no delivery has begun.
LEMMA DeliveryInit == Init => DeliveryInv
<1> SUFFICES ASSUME Init
             PROVE  DeliveryInv
  OBVIOUS
<1>1. << >> \in UNION {[1..n -> Deliveries] : n \in 0..MaxBuf}
  <2>1. << >> \in [1..0 -> Deliveries] /\ 0 \in 0..MaxBuf
    BY DeliveryAssumption
  <2> QED
    BY <2>1
<1>2. 0 \in 0..Cardinality(Clients)
  BY DeliveryAssumption, FS_CardinalityType
<1>3. TypeOK
  BY <1>1, <1>2 DEF Init, TypeOK, DeliveryState
<1>4. \A d \in Deliveries : Members(tour[d]) = {}
  BY DEF Init, Members
<1> QED
  BY <1>3, <1>4 DEF Init, DeliveryInv, Acquainted, ToursAgree, AgentsAreReached, LiveClientsStay,
                    BroadcastReachesAll

\* The ring buffer never holds more than its limit.
LEMMA KeepBounded ==
    ASSUME NEW b \in UNION {[1..n -> Deliveries] : n \in 0..MaxBuf}, NEW d \in Deliveries
    PROVE  Keep(b, d) \in UNION {[1..n -> Deliveries] : n \in 0..MaxBuf}
<1>1. PICK n \in 0..MaxBuf : b \in [1..n -> Deliveries]
  OBVIOUS
<1>2. b \in Seq(Deliveries) /\ Len(b) = n /\ n \in Nat
  BY <1>1, DeliveryAssumption
<1>3. /\ Append(b, d) \in Seq(Deliveries) /\ Len(Append(b, d)) = n + 1
      /\ Append(b, d) \in [1..(n + 1) -> Deliveries]
  <2>1. Append(b, d) \in Seq(Deliveries) /\ Len(Append(b, d)) = n + 1
    BY <1>2
  <2> QED
    BY <2>1, LenProperties
<1>4. Tail(Append(b, d)) \in [1..n -> Deliveries]
  <2>1. Append(b, d) # << >>
    BY <1>2, AppendProperties
  <2>2. Tail(Append(b, d)) \in Seq(Deliveries) /\ Len(Tail(Append(b, d))) = n
    BY <1>2, <1>3, <2>1
  <2> QED
    BY <2>2, LenProperties
<1>5. CASE n + 1 > MaxBuf
  BY <1>1, <1>3, <1>4, <1>5 DEF Keep
<1>6. CASE ~(n + 1 > MaxBuf)
  <2>1. n + 1 \in 0..MaxBuf
    BY <1>2, <1>6, DeliveryAssumption
  <2>2. Keep(b, d) = Append(b, d)
    BY <1>3, <1>6 DEF Keep
  <2> QED
    BY <1>3, <2>1, <2>2
<1> QED
  BY <1>5, <1>6

\* A tour that is extended by a client has come by that client as well.
LEMMA MembersAppended ==
    ASSUME NEW q \in Seq(Clients), NEW c \in Clients
    PROVE  /\ Append(q, c) \in Seq(Clients) /\ Append(q, c) # << >>
           /\ Members(Append(q, c)) = Members(q) \cup {c}
<1>1. /\ Append(q, c) \in Seq(Clients) /\ Len(Append(q, c)) = Len(q) + 1 /\ Len(q) \in Nat
      /\ DOMAIN q = 1..Len(q) /\ DOMAIN Append(q, c) = 1..(Len(q) + 1)
      /\ \A i \in 1..Len(q) : Append(q, c)[i] = q[i]
      /\ Append(q, c)[Len(q) + 1] = c
  OBVIOUS
<1>2. Append(q, c) # << >>
  BY <1>1
<1>3. 1..(Len(q) + 1) = (1..Len(q)) \cup {Len(q) + 1}
  BY <1>1
<1> QED
  BY <1>1, <1>2, <1>3 DEF Members

\* The steps before the broadcast leave the agents alone.
LEMMA BeforeBroadcast ==
    ASSUME DeliveryInv, NEW d \in Deliveries, Begin(d) \/ SaveFails(d) \/ Saved(d)
    PROVE  DeliveryInv'
<1> USE DEF DeliveryInv
<1>1. /\ UNCHANGED <<about, clients, cpc, up, size, tour, dead, audience, disturbed>>
      /\ \/ dpc[d] = "idle" /\ dpc' = [dpc EXCEPT ![d] = "saving"]
         \/ dpc[d] = "saving" /\ dpc' = [dpc EXCEPT ![d] = "raised"]
         \/ dpc[d] = "saving" /\ dpc' = [dpc EXCEPT ![d] = "draining"]
  BY DEF Begin, SaveFails, Saved, loopVars, hookVars
<1>2. /\ buf' \in UNION {[1..n -> Deliveries] : n \in 0..MaxBuf}
      /\ log' \in SUBSET Deliveries
      /\ commands' \in Seq(Deliveries) /\ decided' \in Seq(Deliveries)
  <2>1. CASE Begin(d)
    <3>1. buf' = Keep(buf, d) /\ buf \in UNION {[1..n -> Deliveries] : n \in 0..MaxBuf}
      BY <2>1 DEF Begin, TypeOK
    <3>2. buf' \in UNION {[1..n -> Deliveries] : n \in 0..MaxBuf}
      BY <3>1, KeepBounded, Zenon
    <3>3. /\ log' \in SUBSET Deliveries
          /\ commands' \in Seq(Deliveries) /\ decided' \in Seq(Deliveries)
      BY <2>1 DEF Begin, TypeOK
    <3> QED
      BY <3>2, <3>3
  <2>2. CASE SaveFails(d)
    BY <2>2 DEF SaveFails, hookVars, TypeOK
  <2>3. CASE Saved(d)
    BY <2>3 DEF Saved, TypeOK
  <2> QED
    BY <2>1, <2>2, <2>3
<1>3. TypeOK'
  BY <1>1, <1>2 DEF TypeOK, DeliveryState
<1>4. Acquainted' /\ LiveClientsStay'
  BY <1>1 DEF Acquainted, AgentsAreReached, LiveClientsStay
<1>5. ToursAgree' /\ BroadcastReachesAll'
  BY <1>1 DEF ToursAgree, AgentsAreReached, BroadcastReachesAll, TypeOK
<1> QED
  BY <1>3, <1>4, <1>5 DEF AgentsAreReached

\* One step of the broadcast of d, which has come by its tour and has lost "lost":
\* it disturbs every other one if it changes the list, and takes nobody off it who
\* can be reached.
LEMMA AdvanceStep ==
    ASSUME DeliveryInv, NEW d \in Deliveries, dpc[d] \in {"draining", "sending"},
           NEW n, NEW lost, Advance(d, n, tour[d], lost),
           \A c \in lost : c \notin up /\ cpc[c] # "away",
           UNCHANGED <<about, hookVars, cpc, up, decided>>,
           size' \in [Deliveries -> 0..Cardinality(Clients)],
           dead' \in [Deliveries -> SUBSET Clients],
           \A e \in Deliveries : \A c \in dead'[e] : c \notin up /\ cpc[c] # "away",
           audience' \in [Deliveries -> SUBSET Clients],
           \A e \in Deliveries \ {d} : audience'[e] = audience[e],
           d \notin disturbed => audience'[d] = clients /\ Members(tour[d]) \subseteq clients
    PROVE  DeliveryInv'
<1> USE DEF DeliveryInv
<1>1. /\ clients \in SUBSET Clients /\ disturbed \in SUBSET Deliveries
      /\ tour \in [Deliveries -> Seq(Clients)] /\ dpc \in [Deliveries -> DeliveryState]
      /\ cpc \in [Clients -> {"away", "greeting", "serving", "closed"}]
  BY DEF TypeOK
<1>2. \/ dpc' = [dpc EXCEPT ![d] = "raised"] /\ UNCHANGED <<clients, disturbed, tour>>
      \/ /\ \E c \in clients \ Members(tour[d]) : tour' = [tour EXCEPT ![d] = Append(tour[d], c)]
         /\ dpc' = [dpc EXCEPT ![d] = "sending"]
         /\ UNCHANGED <<clients, disturbed>>
      \/ /\ clients \subseteq Members(tour[d]) \/ d \in disturbed
         /\ ChangeClients(clients \ lost, Deliveries \ {d})
         /\ dpc' = [dpc EXCEPT ![d] = "returned"]
         /\ UNCHANGED tour
  BY DEF Advance
<1>3. clients' \subseteq clients /\ clients \ lost \subseteq clients'
  BY <1>2 DEF ChangeClients
<1>4. /\ disturbed \subseteq disturbed' /\ disturbed' \in SUBSET Deliveries
      /\ d \in disturbed' => d \in disturbed
      /\ \A e \in Deliveries \ {d} :
            dpc[e] = "sending" /\ e \notin disturbed' => clients' = clients
  BY <1>1, <1>2 DEF ChangeClients
<1>5. /\ tour' \in [Deliveries -> Seq(Clients)] /\ dpc' \in [Deliveries -> DeliveryState]
      /\ \A e \in Deliveries \ {d} : tour'[e] = tour[e] /\ dpc'[e] = dpc[e]
      /\ Members(tour'[d]) \subseteq Members(tour[d]) \cup clients
      /\ dpc'[d] = "sending" => tour'[d] # << >>
  <2>1. \A c \in clients : /\ Append(tour[d], c) \in Seq(Clients) /\ Append(tour[d], c) # << >>
                           /\ Members(Append(tour[d], c)) = Members(tour[d]) \cup {c}
    BY <1>1, MembersAppended
  <2>2. PICK t \in Seq(Clients) :
           /\ tour' = [tour EXCEPT ![d] = t] /\ Members(t) \subseteq Members(tour[d]) \cup clients
           /\ dpc'[d] = "sending" => t # << >>
    <3>1. tour = [tour EXCEPT ![d] = tour[d]] /\ tour[d] \in Seq(Clients)
      BY <1>1
    <3>2. CASE tour' = tour /\ dpc'[d] # "sending"
      BY <3>1, <3>2
    <3>3. ASSUME NEW c \in clients, tour' = [tour EXCEPT ![d] = Append(tour[d], c)]
          PROVE  \E t \in Seq(Clients) :
                     /\ tour' = [tour EXCEPT ![d] = t]
                     /\ Members(t) \subseteq Members(tour[d]) \cup clients
                     /\ dpc'[d] = "sending" => t # << >>
      BY <2>1, <3>3
    <3>4. \/ tour' = tour /\ dpc'[d] # "sending"
          \/ \E c \in clients : tour' = [tour EXCEPT ![d] = Append(tour[d], c)]
      BY <1>1, <1>2
    <3> QED
      BY <3>2, <3>3, <3>4
  <2>3. dpc' \in [Deliveries -> DeliveryState] /\ \A e \in Deliveries \ {d} : dpc'[e] = dpc[e]
    BY <1>1, <1>2 DEF DeliveryState
  <2> QED
    BY <1>1, <2>2, <2>3
<1>6. dpc'[d] \in {"sending", "returned", "raised"}
  BY <1>1, <1>2
<1>7. dpc'[d] = "sending" =>
         /\ tour'[d] # << >> /\ Members(tour'[d]) \subseteq Members(tour[d]) \cup clients
         /\ clients' = clients
  BY <1>1, <1>2, <1>5
<1>8. dpc'[d] = "returned" =>
         tour'[d] = tour[d] /\ (d \notin disturbed => clients \subseteq Members(tour[d]))
  BY <1>1, <1>2
<1>9. TypeOK'
  <2>1. clients' \in SUBSET Clients
    BY <1>1, <1>3
  <2> QED
    BY <1>4, <1>5, <2>1 DEF TypeOK, hookVars
<1>10. Acquainted'
  <2>1. \A e \in Deliveries : \A c \in Members(tour'[e]) : cpc[c] # "away"
    BY <1>5 DEF Acquainted
  <2> QED
    BY <1>3, <2>1 DEF Acquainted
<1>11. LiveClientsStay'
  BY <1>3 DEF AgentsAreReached, LiveClientsStay
<1>12. ToursAgree' /\ BroadcastReachesAll'
  <2>1. ASSUME NEW e \in Deliveries, e # d
        PROVE  /\ dpc'[e] \in {"idle", "saving", "draining"} => tour'[e] = << >>
               /\ dpc'[e] = "sending" => tour'[e] # << >>
               /\ dpc'[e] = "sending" /\ e \notin disturbed' =>
                     clients' = audience'[e] /\ Members(tour'[e]) \subseteq clients'
               /\ dpc'[e] = "returned" /\ e \notin disturbed' => Members(tour'[e]) = audience'[e]
    BY <1>4, <1>5, <2>1 DEF ToursAgree, AgentsAreReached, BroadcastReachesAll
  <2>2. /\ dpc'[d] \notin {"idle", "saving", "draining"}
        /\ dpc'[d] = "sending" => tour'[d] # << >>
        /\ dpc'[d] = "sending" /\ d \notin disturbed' =>
              clients' = audience'[d] /\ Members(tour'[d]) \subseteq clients'
    BY <1>4, <1>6, <1>7
  <2>3. dpc'[d] = "returned" /\ d \notin disturbed' => Members(tour'[d]) = audience'[d]
    <3>1. d \notin disturbed' => d \notin disturbed
      BY <1>2 DEF ChangeClients
    <3> QED
      BY <1>8, <3>1
  <2> QED
    BY <2>1, <2>2, <2>3 DEF ToursAgree, BroadcastReachesAll
<1> QED
  BY <1>9, <1>10, <1>11, <1>12 DEF AgentsAreReached

\* Drained begins a broadcast and Sent goes on with it: both advance the iteration.
LEMMA BroadcastStep ==
    ASSUME DeliveryInv, NEW d \in Deliveries, Drained(d) \/ Sent(d)
    PROVE  DeliveryInv'
<1>1. /\ IsFiniteSet(Clients)
      /\ \A S \in SUBSET Clients : Cardinality(S) \in 0..Cardinality(Clients)
  BY DeliveryAssumption, FS_Subset, FS_CardinalityType
<1>2. CASE Drained(d)
  <2>1. /\ dpc[d] = "draining" /\ tour[d] = << >> /\ Members(tour[d]) = {}
        /\ Advance(d, Cardinality(clients), tour[d], {})
        /\ size' = [size EXCEPT ![d] = Cardinality(clients)]
        /\ audience' = [audience EXCEPT ![d] = clients]
        /\ UNCHANGED <<about, hookVars, cpc, up, decided, dead>>
    BY <1>2 DEF Drained, DeliveryInv, ToursAgree, Members
  <2>2. /\ size' \in [Deliveries -> 0..Cardinality(Clients)]
        /\ dead' \in [Deliveries -> SUBSET Clients]
        /\ audience' \in [Deliveries -> SUBSET Clients]
        /\ audience'[d] = clients
        /\ \A e \in Deliveries \ {d} : audience'[e] = audience[e]
    BY <1>1, <2>1 DEF DeliveryInv, TypeOK
  <2>3. \A e \in Deliveries : \A c \in dead'[e] : c \notin up /\ cpc[c] # "away"
    BY <2>1 DEF DeliveryInv, Acquainted
  <2> QED
    BY <2>1, <2>2, <2>3, AdvanceStep
<1>3. CASE Sent(d)
  <2>1. PICK c \in Members(tour[d]) : c = tour[d][Len(tour[d])]
    <3>1. tour[d] \in Seq(Clients) /\ tour[d] # << >>
      BY <1>3 DEF Sent, DeliveryInv, ToursAgree, TypeOK
    <3>2. Len(tour[d]) \in DOMAIN tour[d]
      BY <3>1
    <3> QED
      BY <3>2 DEF Members
  <2>2. PICK lost \in SUBSET Clients :
           /\ lost = IF c \in up THEN dead[d] ELSE dead[d] \cup {c}
    <3>1. c \in Clients
      <4>1. tour[d] \in Seq(Clients)
        BY DEF DeliveryInv, TypeOK
      <4> QED
        BY <2>1, <4>1 DEF Members
    <3> QED
      BY <3>1 DEF DeliveryInv, TypeOK
  <2>3. /\ dpc[d] = "sending" /\ dead' = [dead EXCEPT ![d] = lost]
        /\ Advance(d, size[d], tour[d], lost)
        /\ UNCHANGED <<about, hookVars, cpc, up, size, audience, decided>>
    BY <1>3, <2>1, <2>2 DEF Sent, Facing
  <2>4. \A x \in lost : x \notin up /\ cpc[x] # "away"
    BY <2>1, <2>2 DEF DeliveryInv, Acquainted
  <2>5. /\ dead' \in [Deliveries -> SUBSET Clients]
        /\ \A e \in Deliveries : \A x \in dead'[e] : x \notin up /\ cpc[x] # "away"
    BY <2>3, <2>4 DEF DeliveryInv, Acquainted, TypeOK
  <2>6. /\ size' \in [Deliveries -> 0..Cardinality(Clients)]
        /\ audience' \in [Deliveries -> SUBSET Clients]
        /\ d \notin disturbed => audience'[d] = clients /\ Members(tour[d]) \subseteq clients
    BY <2>3 DEF DeliveryInv, TypeOK, ToursAgree
  <2> QED
    BY <2>3, <2>4, <2>5, <2>6, AdvanceStep
<1> QED
  BY <1>2, <1>3

\* A client comes or goes: whoever joins or leaves the list disturbs every broadcast.
LEMMA AgentStep ==
    ASSUME DeliveryInv, NEW c \in Clients,
           Connect(c) \/ Greeted(c) \/ GreetingFails(c) \/ Close(c) \/ Disconnect(c)
    PROVE  DeliveryInv'
<1> USE DEF DeliveryInv
<1>1. /\ UNCHANGED <<about, hookVars, dpc, loopVars, decided>>
      /\ clients \in SUBSET Clients /\ up \in SUBSET Clients /\ disturbed \in SUBSET Deliveries
      /\ cpc \in [Clients -> {"away", "greeting", "serving", "closed"}]
  BY DEF Connect, Greeted, GreetingFails, Close, Disconnect, TypeOK
<1>2. /\ clients' \in SUBSET Clients /\ disturbed' \in SUBSET Deliveries
      /\ disturbed \subseteq disturbed'
      /\ \A e \in Deliveries : dpc[e] = "sending" /\ e \notin disturbed' => clients' = clients
  BY <1>1 DEF Connect, Greeted, GreetingFails, Close, Disconnect, ChangeClients
<1>3. \/ /\ cpc[c] = "away" /\ cpc' = [cpc EXCEPT ![c] = "greeting"]
         /\ up' = up \cup {c} /\ clients' = clients \cup {c}
      \/ /\ \/ c \in up /\ cpc' = [cpc EXCEPT ![c] = "serving"]
            \/ c \notin up /\ cpc' = [cpc EXCEPT ![c] = "closed"]
         /\ cpc[c] # "away" /\ UNCHANGED <<clients, up>>
         /\ cpc[c] = "greeting"
      \/ c \in up /\ up' = up \ {c} /\ UNCHANGED <<clients, cpc>>
      \/ /\ c \notin up /\ cpc[c] = "serving" /\ cpc' = [cpc EXCEPT ![c] = "closed"]
         /\ clients' = clients \ {c} /\ up' = up
  BY DEF Connect, Greeted, GreetingFails, Close, Disconnect, ChangeClients
<1>4. TypeOK'
  <2>1. cpc' \in [Clients -> {"away", "greeting", "serving", "closed"}] /\ up' \in SUBSET Clients
    BY <1>1, <1>3
  <2> QED
    BY <1>1, <1>2, <2>1 DEF TypeOK, hookVars, loopVars
<1>5. Acquainted'
  <2>1. \A x \in Clients : cpc[x] # "away" => cpc'[x] # "away"
    BY <1>1, <1>3
  <2>2. \A e \in Deliveries : dead[e] \subseteq Clients /\ Members(tour[e]) \subseteq Clients
    <3>1. \A e \in Deliveries : tour[e] \in Seq(Clients)
      BY DEF TypeOK
    <3>2. \A e \in Deliveries : Members(tour[e]) \subseteq Clients
      BY <3>1 DEF Members
    <3> QED
      BY <3>2 DEF TypeOK
  <2>3. \A x \in clients' \cup up' : cpc'[x] # "away"
    BY <1>1, <1>3 DEF Acquainted
  <2>4. \A e \in Deliveries : \A x \in dead[e] : x \notin up'
    BY <1>3 DEF Acquainted
  <2> QED
    BY <1>1, <2>1, <2>2, <2>3, <2>4 DEF Acquainted, loopVars
<1>6. LiveClientsStay'
  BY <1>1, <1>3 DEF AgentsAreReached, LiveClientsStay
<1>7. ToursAgree' /\ BroadcastReachesAll'
  BY <1>1, <1>2 DEF ToursAgree, AgentsAreReached, BroadcastReachesAll, loopVars
<1> QED
  BY <1>4, <1>5, <1>6, <1>7 DEF AgentsAreReached

\* Every step of the hook and of the connections keeps the invariant.
LEMMA DeliveryStep ==
    ASSUME DeliveryInv, Next \/ UNCHANGED vars
    PROVE  DeliveryInv'
<1>1. CASE UNCHANGED vars
  BY <1>1 DEF DeliveryInv, vars, hookVars, loopVars, TypeOK, Acquainted, ToursAgree, AgentsAreReached,
              LiveClientsStay, BroadcastReachesAll
<1> QED
  BY <1>1, BeforeBroadcast, BroadcastStep, AgentStep DEF Next, HookStep

\* Deliveries rest while another component is at work, and keep their invariant.
LEMMA DeliveryAlways == LiveSpec => []DeliveryInv
<1>1. LiveInit => DeliveryInv
  BY DeliveryInit DEF LiveInit
<1>2. DeliveryInv /\ [LiveNext]_liveVars => DeliveryInv'
  BY DeliveryStep DEF LiveNext, liveVars
<1> QED
  BY <1>1, <1>2, PTL DEF LiveSpec

\* A broadcast that no one disturbed has been sent to every agent on the list when it
\* started, whoever of them failed, and an agent that is connected and served is on
\* the list, whatever broadcasts strike off meanwhile.
THEOREM AgentsSafe == LiveSpec => []AgentsAreReached
<1>1. DeliveryInv => AgentsAreReached
  BY DEF DeliveryInv
<1> QED
  BY <1>1, DeliveryAlways, PTL

(***************************************************************************)
(* The bridge to the packet filter                                         *)
(***************************************************************************)
LEMMA BridgeAlways == LiveSpec => []Bridge!TypeOK
<1>1. LiveInit => Bridge!TypeOK
  <2>1. Bridge!Init => Bridge!TypeOK
    <3>1. << >> \in Seq(Commands)
      BY EmptySeq
    <3>2. FALSE \in BOOLEAN
      OBVIOUS
    <3>3. Bridge!Init => paused \in BOOLEAN
      BY <3>2, Zenon DEF Bridge!Init
    <3>4. Bridge!Init => input \in Seq(Commands) /\ errLines \in 0..ErrCap
      BY <3>1, BridgeAssumption DEF Bridge!Init
    <3> QED
      BY <3>3, <3>4 DEF Bridge!Init, Bridge!TypeOK
  <2> QED
    BY <2>1 DEF LiveInit
<1>2. Bridge!TypeOK /\ [LiveNext]_liveVars => Bridge!TypeOK'
  <2> SUFFICES ASSUME Bridge!TypeOK, Bridge!Next \/ UNCHANGED bridgeVars
               PROVE  Bridge!TypeOK'
    BY DEF LiveNext, liveVars
  <2> USE BridgeAssumption DEF Bridge!TypeOK
  <2>1. CASE UNCHANGED bridgeVars
    BY <2>1 DEF bridgeVars
  <2>2. ASSUME NEW c \in Commands, Bridge!CmdIgnored(c) \/ Bridge!Drain(c)
        PROVE  Bridge!TypeOK'
    BY <2>2 DEF Bridge!CmdIgnored, Bridge!Drain
  <2>5. ASSUME NEW c \in Commands, Bridge!Cmd(c)
        PROVE  Bridge!TypeOK'
    <3>1. paused' \in BOOLEAN
      BY <2>5, Zenon DEF Bridge!Cmd
    <3> QED
      BY <2>5, <3>1 DEF Bridge!Cmd
  <2>3. CASE Bridge!Stop \/ Bridge!StopRaises \/ Bridge!Waited
    BY <2>3 DEF Bridge!Stop, Bridge!StopRaises, Bridge!Waited
  <2>4. CASE Bridge!Report \/ Bridge!Crash
    BY <2>4 DEF Bridge!Report, Bridge!Crash
  <2>6. CASE Bridge!Read
    <3>1. paused' \in BOOLEAN
      BY <2>6, Zenon DEF Bridge!Read
    <3> QED
      BY <2>6, <3>1 DEF Bridge!Read
  <2> QED
    BY <2>1, <2>2, <2>3, <2>4, <2>5, <2>6 DEF Bridge!Next
<1> QED
  BY <1>1, <1>2, PTL DEF LiveSpec

(***************************************************************************)
(* The channels of a session                                               *)
(***************************************************************************)
Payloads == Senders \X (1..MostSends)
Arrivals == 1..MostArrivals

\* The payloads that left their senders, wherever they are; how many a sender has
\* put there or given up; those that left the network.
Line == sent \o sending \o out
Begun(s) == IF sender[s] \in {"waiting", "granted"} THEN count[s] - 1 ELSE count[s]
Granted == {s \in Senders : sender[s] = "granted"}
Read == taken \o inbox \o readLoop.held

SendTypes ==
    /\ sender \in [Senders -> {"idle", "waiting", "granted", "refused"}]
    /\ waiting \in Seq(Senders)
    /\ out \in Seq(Payloads) /\ sent \in Seq(Payloads)
    /\ sending \in Seq(Payloads) /\ Len(sending) <= 1
    /\ count \in [Senders -> 0..MostSends]

\* Who waits is in the queue once.
QueueHolds ==
    /\ \A i \in DOMAIN waiting : sender[waiting[i]] = "waiting"
    /\ \A i, j \in DOMAIN waiting : waiting[i] = waiting[j] => i = j

\* Whoever has been given room fits in.
RoomHolds ==
    /\ Len(out) + Cardinality(Granted) <= Room
    /\ \A s \in Senders : sender[s] \in {"waiting", "granted"} => count[s] > 0

\* A sender's payloads in a line, of which it has begun b: all that it has not given
\* up, in order; and it has given up none it has not begun.
InOrder(line, s, b, gone) ==
    /\ {line[i][2] : i \in {j \in DOMAIN line : line[j][1] = s}} =
           {n \in 1..b : <<s, n>> \notin gone}
    /\ \A i, j \in DOMAIN line :
          line[i][1] = s /\ line[j][1] = s /\ i < j => line[i][2] < line[j][2]
    /\ \A n \in Nat : <<s, n>> \in gone => n <= b

LineHolds == \A s \in Senders : InOrder(Line, s, Begun(s), given)

SendInv == SendTypes /\ QueueHolds /\ RoomHolds /\ LineHolds

ReadTypes ==
    /\ readLoop \in [at : {"reading", "ended"}, held : Seq(Arrivals)]
    /\ Len(readLoop.held) <= 1
    /\ inbox \in Seq(Arrivals) /\ taken \in Seq(Arrivals) /\ Len(inbox) <= Room
    /\ reader \in [Readers -> {"idle", "waiting", "closed"}]
    /\ arrived \in 0..MostArrivals

ReadHolds == ~dropped => Read = [n \in 1..arrived |-> n]

ReadInv == ReadTypes /\ ReadHolds

\* Both ends start empty.
LEMMA SendInit == Channel!Init => SendInv
<1> SUFFICES ASSUME Channel!Init
             PROVE  SendInv
  OBVIOUS
<1>1. SendTypes
  <2>1. << >> \in Seq(Payloads) /\ << >> \in Seq(Senders) /\ Len(<< >>) = 0
    BY EmptySeq
  <2>2. /\ sender \in [Senders -> {"idle", "waiting", "granted", "refused"}]
        /\ count \in [Senders -> 0..MostSends]
        /\ waiting = << >> /\ out = << >> /\ sending = << >> /\ sent = << >>
    BY ChannelAssumption DEF Channel!Init
  <2> QED
    BY <2>1, <2>2 DEF SendTypes
<1>2. QueueHolds
  BY DEF Channel!Init, QueueHolds
<1>3. RoomHolds
  <2>1. Granted = {}
    BY DEF Granted, Channel!Init
  <2>2. \A s \in Senders : sender[s] = "idle"
    BY DEF Channel!Init
  <2>3. Len(out) = 0
    BY DEF Channel!Init
  <2>4. Cardinality(Granted) = 0
    BY <2>1, FS_EmptySet
  <2> QED
    BY <2>2, <2>3, <2>4, ChannelAssumption DEF RoomHolds
<1>4. LineHolds
  <2>1. Line = << >>
    BY DEF Line, Channel!Init
  <2>2. \A s \in Senders : Begun(s) = 0
    BY DEF Begun, Channel!Init
  <2>3. given = {}
    BY DEF Channel!Init
  <2> QED
    BY <2>1, <2>2, <2>3 DEF LineHolds, InOrder
<1> QED
  BY <1>1, <1>2, <1>3, <1>4 DEF SendInv

\* Nothing has arrived.
LEMMA ReadInit == Channel!Init => ReadInv
<1> SUFFICES ASSUME Channel!Init
             PROVE  ReadInv
  OBVIOUS
<1>1. PICK h \in Seq(Arrivals) : h = << >> /\ Len(h) = 0
  BY EmptySeq
<1>2. /\ readLoop = [at |-> "reading", held |-> h] \/ readLoop = [at |-> "ended", held |-> h]
      /\ inbox = h /\ taken = h /\ arrived = 0
      /\ reader \in [Readers -> {"idle", "waiting", "closed"}]
  BY <1>1 DEF Channel!Init, Channel!Idle
<1>3. readLoop \in [at : {"reading", "ended"}, held : Seq(Arrivals)] /\ readLoop.held = h
  BY <1>2
<1>4. ReadTypes
  BY <1>1, <1>2, <1>3, ChannelAssumption DEF ReadTypes
<1>5. Read = << >>
  <2>1. taken = << >> /\ inbox = << >> /\ readLoop.held = << >>
    BY <1>1, <1>2, <1>3
  <2> QED
    BY <2>1 DEF Read
<1>6. ReadHolds
  BY <1>2, <1>5 DEF ReadHolds
<1> QED
  BY <1>4, <1>6 DEF ReadInv

\* How the number of those who have room changes.
LEMMA Grants ==
    ASSUME NEW S \in SUBSET Senders, NEW T \in SUBSET Senders
    PROVE  /\ Cardinality(S) \in Nat /\ Cardinality(T) \in Nat
           /\ T \subseteq S => Cardinality(T) <= Cardinality(S)
           /\ \A x : T \subseteq S \cup {x} => Cardinality(T) <= Cardinality(S) + 1
           /\ \A s \in S : T \subseteq S \ {s} => Cardinality(T) + 1 <= Cardinality(S)
           /\ \A s \in S : \A x : T \subseteq (S \ {s}) \cup {x} => Cardinality(T) <= Cardinality(S)
<1>1. \A U \in SUBSET Senders : IsFiniteSet(U) /\ Cardinality(U) \in Nat
  BY ChannelAssumption, FS_Subset, FS_CardinalityType
<1>2. \A U, V \in SUBSET Senders : U \subseteq V => Cardinality(U) <= Cardinality(V)
  BY <1>1, FS_Subset
<1>3. ASSUME NEW U \in SUBSET Senders, NEW V \in SUBSET Senders, NEW x, V \subseteq U \cup {x}
      PROVE  Cardinality(V) <= Cardinality(U) + 1
  <2>1. Cardinality(V \ {x}) <= Cardinality(U) /\ Cardinality(V \ {x}) \in Nat
    BY <1>1, <1>2, <1>3
  <2>2. Cardinality(V) <= Cardinality(V \ {x}) + 1
    <3>1. CASE x \in V
      BY <1>1, <2>1, <3>1, FS_RemoveElement
    <3>2. CASE x \notin V
      <4>1. V \ {x} = V
        BY <3>2
      <4> QED
        BY <1>1, <4>1
    <3> QED
      BY <3>1, <3>2
  <2> QED
    BY <1>1, <2>1, <2>2
<1>4. ASSUME NEW s \in S
      PROVE  Cardinality(S \ {s}) + 1 = Cardinality(S) /\ Cardinality(S \ {s}) \in Nat
  BY <1>1, FS_RemoveElement
<1>5. ASSUME NEW s \in S, T \subseteq S \ {s}
      PROVE  Cardinality(T) + 1 <= Cardinality(S)
  <2>1. Cardinality(T) <= Cardinality(S \ {s})
    BY <1>2, <1>5
  <2> QED
    BY <1>1, <1>4, <2>1
<1>6. ASSUME NEW s \in S, NEW x, T \subseteq (S \ {s}) \cup {x}
      PROVE  Cardinality(T) <= Cardinality(S)
  <2>1. Cardinality(T) <= Cardinality(S \ {s}) + 1
    BY <1>3, <1>6
  <2> QED
    BY <1>1, <1>4, <2>1
<1> QED
  BY <1>1, <1>2, <1>3, <1>5, <1>6

\* What is left of a queue without one of its places.
LEMMA WithoutIs ==
    ASSUME NEW S, NEW queue \in Seq(S), NEW i \in DOMAIN queue
    PROVE  /\ Channel!Without(queue, i) \in Seq(S)
           /\ Len(Channel!Without(queue, i)) = Len(queue) - 1
           /\ DOMAIN Channel!Without(queue, i) = 1..(Len(queue) - 1)
           /\ \A j \in 1..(Len(queue) - 1) :
                 Channel!Without(queue, i)[j] = queue[IF j < i THEN j ELSE j + 1]
<1>1. Len(queue) \in Nat /\ DOMAIN queue = 1..Len(queue) /\ Len(queue) - 1 \in Nat
  <2>1. Len(queue) \in Nat /\ DOMAIN queue = 1..Len(queue)
    OBVIOUS
  <2> QED
    BY <2>1
<1>2. \A j \in 1..(Len(queue) - 1) : queue[IF j < i THEN j ELSE j + 1] \in S
  BY <1>1
<1> DEFINE rest == [j \in 1..(Len(queue) - 1) |-> queue[IF j < i THEN j ELSE j + 1]]
<1>3. rest \in [1..(Len(queue) - 1) -> S]
  BY <1>2
<1>4. rest \in Seq(S) /\ Len(rest) = Len(queue) - 1
  BY <1>1, <1>3
<1>5. Channel!Without(queue, i) = rest
  BY DEF Channel!Without
<1> QED
  BY <1>4, <1>5

\* A payload moves along the line; the line stays.
LEMMA LineMoves ==
    ASSUME NEW a \in Seq(Payloads), NEW c \in Seq(Payloads), NEW b \in Seq(Payloads)
    PROVE  /\ a \o c \o b \in Seq(Payloads)
           /\ c = << >> /\ b # << >> => a \o <<Head(b)>> \o Tail(b) = a \o c \o b
           /\ \A i \in DOMAIN c : Len(c) <= 1 =>
                 /\ Append(a, c[i]) \o Channel!Without(c, i) \o b = a \o c \o b
                 /\ Channel!Without(c, i) = << >>
           /\ \A x \in Payloads : a \o c \o Append(b, x) = Append(a \o c \o b, x)
<1>1. a \o c \o b \in Seq(Payloads)
  BY ConcatProperties
<1>2. ASSUME c = << >>, b # << >>
      PROVE  a \o <<Head(b)>> \o Tail(b) = a \o c \o b
  <2>1. <<Head(b)>> \in Seq(Payloads) /\ Tail(b) \in Seq(Payloads)
    BY <1>2, HeadTailProperties
  <2>2. <<Head(b)>> \o Tail(b) = b
    <3>1. b = <<Head(b)>> \o Tail(b)
      BY <1>2, <2>1, SMTT(30)
    <3> QED
      BY <3>1
  <2>3. (a \o <<Head(b)>>) \o Tail(b) = a \o (<<Head(b)>> \o Tail(b))
    BY <2>1, ConcatAssociative
  <2>4. a \o c = a
    BY <1>2, ConcatEmptySeq
  <2> QED
    BY <2>2, <2>3, <2>4
<1>3. ASSUME NEW i \in DOMAIN c, Len(c) <= 1
      PROVE  /\ Append(a, c[i]) \o Channel!Without(c, i) \o b = a \o c \o b
             /\ Channel!Without(c, i) = << >>
  <2>1. Len(c) = 1 /\ i = 1 /\ c[1] \in Payloads
    <3>1. Len(c) \in Nat /\ DOMAIN c = 1..Len(c)
      OBVIOUS
    <3> QED
      BY <1>3, <3>1
  <2>2. Channel!Without(c, i) = << >>
    <3>1. Channel!Without(c, i) \in Seq(Payloads) /\ Len(Channel!Without(c, i)) = Len(c) - 1
      BY WithoutIs
    <3>2. Len(Channel!Without(c, i)) = 0
      BY <2>1, <3>1
    <3> QED
      BY <3>1, <3>2, EmptySeq
  <2>3. c = <<c[1]>>
    BY <2>1
  <2>4. Append(a, c[1]) = a \o <<c[1]>>
    BY <2>1, AppendIsConcat
  <2>5. Append(a, c[1]) \in Seq(Payloads)
    BY <2>1
  <2>6. Append(a, c[i]) \o Channel!Without(c, i) = a \o c
    <3>1. Append(a, c[1]) \o << >> = Append(a, c[1])
      BY <2>5, ConcatEmptySeq
    <3> QED
      BY <2>1, <2>2, <2>3, <2>4, <3>1
  <2> QED
    BY <2>2, <2>6
<1>4. ASSUME NEW x \in Payloads
      PROVE  a \o c \o Append(b, x) = Append(a \o c \o b, x)
  <2>1. <<x>> \in Seq(Payloads) /\ a \o c \in Seq(Payloads)
    BY ConcatProperties
  <2>2. Append(b, x) = b \o <<x>> /\ Append((a \o c) \o b, x) = ((a \o c) \o b) \o <<x>>
    BY <1>1, AppendIsConcat
  <2>3. (a \o c) \o (b \o <<x>>) = ((a \o c) \o b) \o <<x>>
    BY <2>1, ConcatAssociative
  <2> QED
    BY <2>2, <2>3
<1> QED
  BY <1>1, <1>2, <1>3, <1>4

\* A sender puts its next payload at the end of the line.
LEMMA InOrderPushed ==
    ASSUME NEW line \in Seq(Payloads), NEW s \in Senders, NEW n \in 1..MostSends, NEW gone,
           NEW t \in Senders, NEW b \in Int, InOrder(line, t, b, gone),
           t = s => n = b + 1
    PROVE  InOrder(Append(line, <<s, n>>), t, IF t = s THEN b + 1 ELSE b, gone)
<1> DEFINE longer == Append(line, <<s, n>>)
           mine == {j \in DOMAIN line : line[j][1] = t}
           mineNow == {j \in DOMAIN longer : longer[j][1] = t}
<1>1. /\ Len(line) \in Nat /\ DOMAIN line = 1..Len(line)
      /\ \A i \in DOMAIN line : line[i] \in Payloads
  OBVIOUS
<1>2. /\ DOMAIN longer = 1..(Len(line) + 1)
      /\ \A i \in DOMAIN line : longer[i] = line[i]
      /\ longer[Len(line) + 1] = <<s, n>>
  BY <1>1, AppendProperties DEF Payloads
<1>3. mineNow = IF t = s THEN mine \cup {Len(line) + 1} ELSE mine
  BY <1>1, <1>2
<1>4. \A i \in mine : line[i][2] \in 1..b
  BY DEF InOrder
<1>5. {line[i][2] : i \in mine} = {m \in 1..b : <<t, m>> \notin gone}
  BY DEF InOrder
<1>6. {longer[i][2] : i \in mineNow} = IF t = s THEN {line[i][2] : i \in mine} \cup {n}
                                                ELSE {line[i][2] : i \in mine}
  <2>1. \A i \in mine : longer[i][2] = line[i][2]
    BY <1>2
  <2>2. longer[Len(line) + 1][2] = n
    BY <1>2
  <2> HIDE DEF longer, mine, mineNow
  <2>3. CASE t = s
    <3>1. mineNow = mine \cup {Len(line) + 1}
      BY <1>3, <2>3
    <3> QED
      BY <2>1, <2>2, <2>3, <3>1
  <2>4. CASE t # s
    BY <1>3, <2>1, <2>4
  <2> QED
    BY <2>3, <2>4
<1>7. CASE t = s
  <2>1. \A m \in Nat : <<t, m>> \in gone => m <= b
    BY DEF InOrder
  <2>2. <<t, n>> \notin gone
    BY <1>7, <2>1
  <2>3. {longer[i][2] : i \in mineNow} = {m \in 1..(b + 1) : <<t, m>> \notin gone}
    <3> HIDE DEF longer, mine, mineNow
    <3>1. {longer[i][2] : i \in mineNow} = {m \in 1..b : <<t, m>> \notin gone} \cup {n}
      BY <1>5, <1>6, <1>7
    <3>2. 1..(b + 1) = 1..b \cup {n}
      BY <1>7
    <3> QED
      BY <2>2, <3>1, <3>2
  <2>4. \A i, j \in mineNow : i < j => longer[i][2] < longer[j][2]
    <3> SUFFICES ASSUME NEW i \in mineNow, NEW j \in mineNow, i < j
                 PROVE  longer[i][2] < longer[j][2]
      OBVIOUS
    <3>1. i \in mine
      BY <1>1, <1>2, <1>3, <1>7
    <3>2. CASE j = Len(line) + 1
      <4>1. longer[j][2] = n /\ longer[i][2] = line[i][2]
        BY <1>2, <3>1, <3>2
      <4> QED
        BY <1>4, <1>7, <3>1, <4>1
    <3>3. CASE j # Len(line) + 1
      <4>1. j \in mine
        BY <1>3, <1>7, <3>3
      <4> QED
        BY <1>2, <3>1, <4>1 DEF InOrder
    <3> QED
      BY <3>2, <3>3
  <2> QED
    BY <1>7, <2>1, <2>3, <2>4 DEF InOrder
<1>8. CASE t # s
  <2>1. mineNow = mine
    BY <1>3, <1>8
  <2>2. \A i \in mine : longer[i] = line[i]
    BY <1>2
  <2>3. {longer[i][2] : i \in mineNow} = {m \in 1..b : <<t, m>> \notin gone}
    BY <1>5, <1>6, <1>8
  <2>4. \A i, j \in mineNow : i < j => longer[i][2] < longer[j][2]
    BY <2>1, <2>2 DEF InOrder
  <2> QED
    BY <1>8, <2>3, <2>4 DEF InOrder
<1> QED
  BY <1>7, <1>8

\* A sender gives up its next payload.
LEMMA InOrderGivenUp ==
    ASSUME NEW line \in Seq(Payloads), NEW s \in Senders, NEW n \in Nat \ {0}, NEW gone,
           NEW t \in Senders, NEW b \in Int, InOrder(line, t, b, gone),
           t = s => n = b + 1
    PROVE  InOrder(line, t, IF t = s THEN b + 1 ELSE b, gone \cup {<<s, n>>})
<1>1. CASE t = s
  <2>1. {m \in 1..(b + 1) : <<t, m>> \notin gone \cup {<<s, n>>}} = {m \in 1..b : <<t, m>> \notin gone}
    BY <1>1
  <2>2. \A m \in Nat : <<t, m>> \in gone \cup {<<s, n>>} => m <= b + 1
    BY <1>1 DEF InOrder
  <2> QED
    BY <1>1, <2>1, <2>2 DEF InOrder
<1>2. CASE t # s
  <2>1. \A m : <<t, m>> \in gone \cup {<<s, n>>} <=> <<t, m>> \in gone
    BY <1>2
  <2>2. {m \in 1..b : <<t, m>> \notin gone \cup {<<s, n>>}} = {m \in 1..b : <<t, m>> \notin gone}
    BY <2>1
  <2> QED
    BY <1>2, <2>1, <2>2 DEF InOrder
<1> QED
  BY <1>1, <1>2

\* Room becomes free: the first who waits has it, and nobody else is told anything.
LEMMA ReleaseStep ==
    ASSUME SendInv, NEW released \in SUBSET Granted, Channel!Release(waiting, released)
    PROVE  /\ sender' \in [Senders -> {"idle", "waiting", "granted", "refused"}]
           /\ waiting' \in Seq(Senders)
           /\ QueueHolds'
           /\ \A s \in released : sender'[s] = "idle"
           /\ \A s \in Senders \ released :
                 sender'[s] \in {"waiting", "granted"} <=> sender[s] \in {"waiting", "granted"}
           /\ \E x : Granted' \subseteq (Granted \ released) \cup {x}
<1> DEFINE next == IF waiting = << >> THEN {} ELSE {Head(waiting)}
<1>1. /\ sender' = [s \in Senders |-> IF s \in next THEN "granted"
                                      ELSE IF s \in released THEN "idle" ELSE sender[s]]
      /\ waiting' = IF waiting = << >> THEN waiting ELSE Tail(waiting)
  BY DEF Channel!Release
<1>2. /\ sender \in [Senders -> {"idle", "waiting", "granted", "refused"}]
      /\ waiting \in Seq(Senders)
      /\ \A i \in DOMAIN waiting : sender[waiting[i]] = "waiting"
      /\ \A i, j \in DOMAIN waiting : waiting[i] = waiting[j] => i = j
  BY DEF SendInv, SendTypes, QueueHolds
<1>3. \A s \in next : s \in Senders /\ sender[s] = "waiting"
  <2>1. waiting # << >> => Head(waiting) = waiting[1] /\ 1 \in DOMAIN waiting
    BY <1>2
  <2> QED
    BY <1>2, <2>1
<1>4. \A s \in released : s \in Senders /\ sender[s] = "granted" /\ s \notin next
  BY <1>3 DEF Granted
<1>5. sender' \in [Senders -> {"idle", "waiting", "granted", "refused"}]
  BY <1>1, <1>2
<1>6. /\ \A s \in released : sender'[s] = "idle"
      /\ \A s \in next : sender'[s] = "granted"
      /\ \A s \in Senders \ (released \cup next) : sender'[s] = sender[s]
  BY <1>1, <1>3, <1>4
<1>7. \E x : Granted' \subseteq (Granted \ released) \cup {x}
  <2>1. Granted' \subseteq (Granted \ released) \cup next
    BY <1>6 DEF Granted
  <2>2. \E x : next \subseteq {x}
    BY <1>2
  <2> QED
    BY <2>1, <2>2
<1>8. waiting' \in Seq(Senders) /\ QueueHolds'
  <2>1. CASE waiting = << >>
    BY <1>1, <1>2, <2>1 DEF QueueHolds
  <2>2. CASE waiting # << >>
    <3>1. /\ waiting' \in Seq(Senders) /\ Len(waiting) \in Nat \ {0}
          /\ DOMAIN waiting = 1..Len(waiting)
          /\ DOMAIN waiting' = 1..(Len(waiting) - 1)
          /\ \A i \in 1..(Len(waiting) - 1) : waiting'[i] = waiting[i + 1]
      BY <1>1, <1>2, <2>2, HeadTailProperties
    <3>2. \A i \in DOMAIN waiting' : i + 1 \in DOMAIN waiting /\ i + 1 # 1
      BY <3>1
    <3>3. next = {waiting[1]} /\ 1 \in DOMAIN waiting
      BY <1>2, <2>2, <3>1
    <3>4. \A i \in DOMAIN waiting' : sender'[waiting'[i]] = "waiting"
      <4> SUFFICES ASSUME NEW i \in DOMAIN waiting'
                   PROVE  sender'[waiting'[i]] = "waiting"
        OBVIOUS
      <4>1. waiting'[i] = waiting[i + 1] /\ waiting'[i] \in Senders
        BY <1>2, <3>1, <3>2
      <4>2. waiting'[i] \notin next
        BY <1>2, <3>2, <3>3, <4>1
      <4>3. sender[waiting'[i]] = "waiting"
        BY <1>2, <3>2, <4>1
      <4> QED
        BY <1>4, <1>6, <4>1, <4>2, <4>3
    <3>5. \A i, j \in DOMAIN waiting' : waiting'[i] = waiting'[j] => i = j
      <4> SUFFICES ASSUME NEW i \in DOMAIN waiting', NEW j \in DOMAIN waiting',
                          waiting'[i] = waiting'[j]
                   PROVE  i = j
        OBVIOUS
      <4>1. i + 1 = j + 1
        BY <1>2, <3>1, <3>2
      <4> QED
        BY <3>1, <4>1
    <3> QED
      BY <3>1, <3>4, <3>5 DEF QueueHolds
  <2> QED
    BY <2>1, <2>2
<1> QED
  BY <1>3, <1>5, <1>6, <1>7, <1>8

\* Whoever is begun the same has the same line.
LEMMA LineStays ==
    ASSUME SendInv, Line' = Line, given' = given,
           \A s \in Senders : Begun(s)' = Begun(s)
    PROVE  LineHolds'
BY DEF SendInv, LineHolds, InOrder

\* A caller joins the queue for room, or takes what is free.
LEMMA SendStep ==
    ASSUME SendInv, NEW s \in Senders, Channel!Send(s)
    PROVE  SendInv'
<1>1. /\ UNCHANGED <<out, sending, sent, given>> /\ sender[s] = "idle"
      /\ sender \in [Senders -> {"idle", "waiting", "granted", "refused"}]
      /\ waiting \in Seq(Senders) /\ count \in [Senders -> 0..MostSends]
  BY DEF Channel!Send, SendInv, SendTypes
<1>2. \A i \in DOMAIN waiting : waiting[i] \in Senders /\ waiting[i] # s /\ sender[waiting[i]] = "waiting"
  BY <1>1 DEF SendInv, QueueHolds
<1>3. Cardinality(Granted) \in Nat /\ Len(out) \in Nat
  <2>1. Granted \in SUBSET Senders
    BY DEF Granted
  <2> QED
    BY <2>1, Grants DEF SendInv, SendTypes
<1>4. Line' = Line
  BY <1>1 DEF Line
<1>5. CASE sender' = [sender EXCEPT ![s] = "refused"] /\ UNCHANGED <<waiting, count>>
  <2>1. SendTypes'
    BY <1>1, <1>5 DEF SendInv, SendTypes
  <2>2. QueueHolds'
    BY <1>1, <1>2, <1>5 DEF SendInv, QueueHolds
  <2>3. Granted' = Granted
    BY <1>1, <1>5 DEF Granted
  <2>4. RoomHolds'
    BY <1>1, <1>5, <2>3 DEF SendInv, RoomHolds
  <2>5. \A t \in Senders : Begun(t)' = Begun(t)
    BY <1>1, <1>5 DEF Begun
  <2> QED
    BY <1>1, <1>4, <2>1, <2>2, <2>4, <2>5, LineStays DEF SendInv
<1>6. ASSUME count' = [count EXCEPT ![s] = @ + 1], count[s] < MostSends,
             NEW st \in {"waiting", "granted"}, sender' = [sender EXCEPT ![s] = st]
      PROVE  /\ count' \in [Senders -> 0..MostSends]
             /\ sender' \in [Senders -> {"idle", "waiting", "granted", "refused"}]
             /\ LineHolds'
             /\ \A t \in Senders : sender'[t] \in {"waiting", "granted"} => count'[t] > 0
  <2>1. count'[s] = count[s] + 1 /\ count[s] + 1 \in 0..MostSends
    BY <1>1, <1>6, ChannelAssumption
  <2>2. \A t \in Senders : Begun(t)' = Begun(t)
    <3>1. Begun(s)' = count[s] /\ Begun(s) = count[s]
      <4>1. Begun(s)' = count'[s] - 1
        BY <1>1, <1>6 DEF Begun
      <4> QED
        BY <1>1, <2>1, <4>1 DEF Begun
    <3>2. \A t \in Senders \ {s} : Begun(t)' = Begun(t)
      BY <1>1, <1>6 DEF Begun
    <3> QED
      BY <3>1, <3>2
  <2>3. LineHolds'
    BY <1>1, <1>4, <2>2, LineStays
  <2>4. \A t \in Senders : sender'[t] \in {"waiting", "granted"} => count'[t] > 0
    BY <1>1, <1>6, <2>1 DEF SendInv, RoomHolds
  <2>5. /\ count' \in [Senders -> 0..MostSends]
        /\ sender' \in [Senders -> {"idle", "waiting", "granted", "refused"}]
    BY <1>1, <1>6, <2>1
  <2> QED
    BY <2>3, <2>4, <2>5
<1>7. CASE /\ count[s] < MostSends /\ count' = [count EXCEPT ![s] = @ + 1]
           /\ Channel!Free > 0 /\ sender' = [sender EXCEPT ![s] = "granted"]
           /\ UNCHANGED waiting
  <2>1. Granted' \subseteq Granted \cup {s} /\ Granted' \in SUBSET Senders /\ Granted \in SUBSET Senders
    BY <1>1, <1>7 DEF Granted
  <2>2. Cardinality(Granted') <= Cardinality(Granted) + 1 /\ Cardinality(Granted') \in Nat
    BY <2>1, Grants
  <2>3. Room - Len(out) - Cardinality(Granted) > 0
    BY <1>7 DEF Channel!Free, Granted, Channel!Cardinality, Cardinality
  <2>4. Len(out') + Cardinality(Granted') <= Room
    BY <1>1, <1>3, <2>2, <2>3, ChannelAssumption
  <2>5. QueueHolds'
    BY <1>1, <1>2, <1>7 DEF SendInv, QueueHolds
  <2>6. SendTypes'
    BY <1>1, <1>6, <1>7 DEF SendInv, SendTypes
  <2>7. RoomHolds'
    BY <1>6, <1>7, <2>4 DEF RoomHolds, Granted
  <2> QED
    BY <1>6, <1>7, <2>5, <2>6, <2>7 DEF SendInv
<1>8. CASE /\ count[s] < MostSends /\ count' = [count EXCEPT ![s] = @ + 1]
           /\ sender' = [sender EXCEPT ![s] = "waiting"]
           /\ waiting' = Append(waiting, s)
  <2>1. Granted' = Granted
    BY <1>1, <1>8 DEF Granted
  <2>2. QueueHolds'
    <3>1. /\ Len(waiting) \in Nat /\ DOMAIN waiting = 1..Len(waiting)
          /\ DOMAIN waiting' = 1..(Len(waiting) + 1)
          /\ \A i \in DOMAIN waiting : waiting'[i] = waiting[i]
          /\ waiting'[Len(waiting) + 1] = s
      BY <1>1, <1>8, AppendProperties
    <3>2. \A i \in DOMAIN waiting' : i \in DOMAIN waiting \/ i = Len(waiting) + 1
      BY <3>1
    <3>3. \A i \in DOMAIN waiting' : sender'[waiting'[i]] = "waiting"
      BY <1>1, <1>2, <1>8, <3>1, <3>2
    <3>4. \A i, j \in DOMAIN waiting' : waiting'[i] = waiting'[j] => i = j
      BY <1>2, <3>1, <3>2 DEF SendInv, QueueHolds
    <3> QED
      BY <3>3, <3>4 DEF QueueHolds
  <2>3. waiting' \in Seq(Senders)
    BY <1>1, <1>8
  <2>4. SendTypes'
    BY <1>1, <1>6, <1>8, <2>3 DEF SendInv, SendTypes
  <2>5. Len(out') + Cardinality(Granted') <= Room
    BY <1>1, <2>1 DEF SendInv, RoomHolds
  <2>6. RoomHolds'
    BY <1>6, <1>8, <2>5 DEF RoomHolds, Granted
  <2> QED
    BY <1>6, <1>8, <2>2, <2>4, <2>6 DEF SendInv
<1> QED
  BY <1>5, <1>7, <1>8 DEF Channel!Send

\* A sender that has room has begun its last payload but one, and its last is next.
LEMMA NextPayload ==
    ASSUME SendInv, NEW s \in Senders, sender[s] \in {"waiting", "granted"}
    PROVE  /\ count[s] \in 1..MostSends /\ Begun(s) \in Int /\ count[s] = Begun(s) + 1
           /\ <<s, count[s]>> \in Payloads
<1>1. count[s] \in 0..MostSends /\ count[s] > 0
  BY DEF SendInv, SendTypes, RoomHolds
<1>2. Begun(s) = count[s] - 1
  BY DEF Begun
<1> QED
  BY <1>1, <1>2, ChannelAssumption DEF Payloads

\* A caller who has room puts the payload into the channel.
LEMMA PushStep ==
    ASSUME SendInv, NEW s \in Senders, Channel!Push(s)
    PROVE  SendInv'
<1>1. /\ UNCHANGED <<waiting, sending, sent, count, given>> /\ sender[s] = "granted"
      /\ out' = Append(out, <<s, count[s]>>) /\ sender' = [sender EXCEPT ![s] = "idle"]
  BY DEF Channel!Push
<1>2. /\ sender \in [Senders -> {"idle", "waiting", "granted", "refused"}]
      /\ waiting \in Seq(Senders) /\ count \in [Senders -> 0..MostSends]
      /\ out \in Seq(Payloads) /\ sent \in Seq(Payloads) /\ sending \in Seq(Payloads)
  BY DEF SendInv, SendTypes
<1>3. /\ count[s] \in 1..MostSends /\ Begun(s) \in Int /\ count[s] = Begun(s) + 1
      /\ <<s, count[s]>> \in Payloads
  BY <1>1, NextPayload
<1>4. SendTypes'
  <2>1. out' \in Seq(Payloads)
    BY <1>1, <1>2, <1>3
  <2>2. sender' \in [Senders -> {"idle", "waiting", "granted", "refused"}]
    BY <1>1, <1>2
  <2> QED
    BY <1>1, <2>1, <2>2 DEF SendInv, SendTypes
<1>5. QueueHolds'
  BY <1>1, <1>2 DEF SendInv, QueueHolds
<1>6. RoomHolds'
  <2>1. Granted \in SUBSET Senders /\ Granted' \in SUBSET Senders /\ s \in Granted
        /\ Granted' \subseteq Granted \ {s}
    BY <1>1, <1>2 DEF Granted
  <2>2. Cardinality(Granted') + 1 <= Cardinality(Granted)
        /\ Cardinality(Granted') \in Nat /\ Cardinality(Granted) \in Nat
    BY <2>1, Grants
  <2>3. Len(out') = Len(out) + 1 /\ Len(out) \in Nat
    BY <1>1, <1>2, <1>3
  <2>4. Len(out') + Cardinality(Granted') <= Room
    BY <2>2, <2>3, ChannelAssumption DEF SendInv, RoomHolds
  <2>5. \A t \in Senders : sender'[t] \in {"waiting", "granted"} => count'[t] > 0
    BY <1>1, <1>2 DEF SendInv, RoomHolds
  <2> QED
    BY <2>4, <2>5 DEF RoomHolds, Granted
<1>7. LineHolds'
  <2>1. Line \in Seq(Payloads) /\ Line' = Append(Line, <<s, count[s]>>)
    <3>1. Line \in Seq(Payloads)
      BY <1>2, LineMoves DEF Line
    <3>2. \A x \in Payloads : sent \o sending \o Append(out, x) = Append(sent \o sending \o out, x)
      BY <1>2, LineMoves
    <3>3. sent \o sending \o Append(out, <<s, count[s]>>) = Append(sent \o sending \o out, <<s, count[s]>>)
      BY <1>3, <3>2, Zenon
    <3>4. Line' = sent \o sending \o Append(out, <<s, count[s]>>)
      BY <1>1, Zenon DEF Line
    <3> QED
      BY <3>1, <3>3, <3>4, Zenon DEF Line
  <2>2. ASSUME NEW t \in Senders
        PROVE  InOrder(Line', t, Begun(t)', given')
    <3>1. InOrder(Line, t, Begun(t), given) /\ Begun(t) \in Int
      BY <1>2 DEF SendInv, LineHolds, Begun
    <3>2. Begun(t)' = IF t = s THEN Begun(t) + 1 ELSE Begun(t)
      <4>1. Begun(s)' = count[s]
        BY <1>1, <1>2 DEF Begun
      <4>2. t # s => Begun(t)' = Begun(t)
        BY <1>1, <1>2 DEF Begun
      <4> QED
        BY <1>3, <4>1, <4>2
    <3>3. t = s => count[s] = Begun(t) + 1
      BY <1>3
    <3>4. InOrder(Append(Line, <<s, count[s]>>), t, IF t = s THEN Begun(t) + 1 ELSE Begun(t), given)
      BY <1>3, <2>1, <3>1, <3>3, InOrderPushed
    <3> QED
      BY <1>1, <2>1, <3>2, <3>4
  <2> QED
    BY <2>2 DEF LineHolds
<1> QED
  BY <1>4, <1>5, <1>6, <1>7 DEF SendInv

\* A caller leaves the queue, and its room goes to the next.
LEMMA GiveUpStep ==
    ASSUME SendInv, NEW s \in Senders, Channel!GiveUp(s)
    PROVE  SendInv'
<1>1. /\ UNCHANGED <<out, sending, sent, count>>
      /\ given' = given \cup {<<s, count[s]>>} /\ sender[s] \in {"waiting", "granted"}
  BY DEF Channel!GiveUp
<1>2. /\ sender \in [Senders -> {"idle", "waiting", "granted", "refused"}]
      /\ waiting \in Seq(Senders) /\ count \in [Senders -> 0..MostSends]
      /\ out \in Seq(Payloads) /\ sent \in Seq(Payloads) /\ sending \in Seq(Payloads)
  BY DEF SendInv, SendTypes
<1>3. /\ count[s] \in 1..MostSends /\ Begun(s) \in Int /\ count[s] = Begun(s) + 1
  BY <1>1, NextPayload
<1>4. Granted \in SUBSET Senders /\ Granted' \in SUBSET Senders /\ Len(out) \in Nat
  <2>1. \A t \in Senders : t \in Granted <=> sender[t] = "granted"
    BY DEF Granted
  <2> QED
    BY <1>2 DEF Granted
<1>5. /\ sender' \in [Senders -> {"idle", "waiting", "granted", "refused"}]
      /\ waiting' \in Seq(Senders)
      /\ QueueHolds'
      /\ sender'[s] = "idle"
      /\ \A t \in Senders \ {s} :
            sender'[t] \in {"waiting", "granted"} <=> sender[t] \in {"waiting", "granted"}
      /\ Cardinality(Granted') <= Cardinality(Granted)
  <2>1. CASE sender[s] = "granted" /\ Channel!Release(waiting, {s})
    <3>1. {s} \in SUBSET Granted /\ s \in Granted
      BY <2>1 DEF Granted
    <3>2. PICK x : Granted' \subseteq (Granted \ {s}) \cup {x}
      BY <2>1, <3>1, ReleaseStep
    <3>3. Cardinality(Granted') <= Cardinality(Granted)
      BY <1>4, <3>1, <3>2, Grants
    <3> QED
      BY <2>1, <3>1, <3>3, ReleaseStep
  <2>2. CASE /\ sender[s] = "waiting" /\ sender' = [sender EXCEPT ![s] = "idle"]
             /\ \E i \in DOMAIN waiting : waiting[i] = s /\ waiting' = Channel!Without(waiting, i)
    <3>1. PICK i \in DOMAIN waiting : waiting[i] = s /\ waiting' = Channel!Without(waiting, i)
      BY <2>2
    <3>2. /\ waiting' \in Seq(Senders) /\ DOMAIN waiting' = 1..(Len(waiting) - 1)
          /\ \A j \in 1..(Len(waiting) - 1) : waiting'[j] = waiting[IF j < i THEN j ELSE j + 1]
      BY <1>2, <3>1, WithoutIs
    <3>3. Len(waiting) \in Nat /\ DOMAIN waiting = 1..Len(waiting)
      BY <1>2
    <3>4. ASSUME NEW j \in DOMAIN waiting'
          PROVE  /\ (IF j < i THEN j ELSE j + 1) \in DOMAIN waiting
                 /\ (IF j < i THEN j ELSE j + 1) # i
                 /\ waiting'[j] = waiting[IF j < i THEN j ELSE j + 1]
      BY <3>2, <3>3
    <3>5. \A j \in DOMAIN waiting' : sender'[waiting'[j]] = "waiting"
      <4> SUFFICES ASSUME NEW j \in DOMAIN waiting'
                   PROVE  sender'[waiting'[j]] = "waiting"
        OBVIOUS
      <4>1. PICK k \in DOMAIN waiting : k # i /\ waiting'[j] = waiting[k]
        BY <3>4
      <4>2. waiting[k] # s /\ sender[waiting[k]] = "waiting" /\ waiting[k] \in Senders
        BY <1>2, <3>1, <4>1 DEF SendInv, QueueHolds
      <4> QED
        BY <1>2, <2>2, <4>1, <4>2
    <3>6. \A j, k \in DOMAIN waiting' : waiting'[j] = waiting'[k] => j = k
      <4> SUFFICES ASSUME NEW j \in DOMAIN waiting', NEW k \in DOMAIN waiting',
                          waiting'[j] = waiting'[k]
                   PROVE  j = k
        OBVIOUS
      <4>1. (IF j < i THEN j ELSE j + 1) = (IF k < i THEN k ELSE k + 1)
        BY <3>4 DEF SendInv, QueueHolds
      <4> QED
        BY <3>2, <3>3, <4>1
    <3>7. Granted' \subseteq Granted
      BY <1>2, <2>2 DEF Granted
    <3>8. Cardinality(Granted') <= Cardinality(Granted)
      BY <1>4, <3>7, Grants
    <3> QED
      BY <1>2, <2>2, <3>2, <3>5, <3>6, <3>8 DEF QueueHolds
  <2> QED
    BY <2>1, <2>2 DEF Channel!GiveUp
<1>6. SendTypes'
  BY <1>1, <1>5 DEF SendInv, SendTypes
<1>7. RoomHolds'
  <2>1. Cardinality(Granted) \in Nat /\ Cardinality(Granted') \in Nat
    BY <1>4, Grants
  <2>2. Len(out') + Cardinality(Granted') <= Room
    BY <1>1, <1>4, <1>5, <2>1, ChannelAssumption DEF SendInv, RoomHolds
  <2>3. \A t \in Senders : sender'[t] \in {"waiting", "granted"} => count'[t] > 0
    BY <1>1, <1>2, <1>5 DEF SendInv, RoomHolds
  <2> QED
    BY <2>2, <2>3 DEF RoomHolds, Granted
<1>8. LineHolds'
  <2>1. Line \in Seq(Payloads) /\ Line' = Line
    BY <1>1, <1>2, LineMoves DEF Line
  <2>2. ASSUME NEW t \in Senders
        PROVE  InOrder(Line', t, Begun(t)', given')
    <3>1. InOrder(Line, t, Begun(t), given) /\ Begun(t) \in Int
      BY <1>2 DEF SendInv, LineHolds, Begun
    <3>2. Begun(t)' = IF t = s THEN Begun(t) + 1 ELSE Begun(t)
      <4>1. Begun(s)' = count[s]
        BY <1>1, <1>5 DEF Begun
      <4>2. t # s => Begun(t)' = Begun(t)
        BY <1>1, <1>5 DEF Begun
      <4> QED
        BY <1>3, <4>1, <4>2
    <3>3. (t = s => count[s] = Begun(t) + 1) /\ count[s] \in Nat \ {0}
      BY <1>3
    <3>4. InOrder(Line, t, IF t = s THEN Begun(t) + 1 ELSE Begun(t), given \cup {<<s, count[s]>>})
      BY <2>1, <3>1, <3>3, InOrderGivenUp
    <3> QED
      BY <1>1, <2>1, <3>2, <3>4
  <2> QED
    BY <2>2 DEF LineHolds
<1> QED
  BY <1>5, <1>6, <1>7, <1>8 DEF SendInv

\* The send loop takes a payload, or is done with one.
LEMMA LoopStep ==
    ASSUME SendInv, Channel!Take \/ Channel!Transmits
    PROVE  SendInv'
<1>1. /\ sender \in [Senders -> {"idle", "waiting", "granted", "refused"}]
      /\ waiting \in Seq(Senders) /\ count \in [Senders -> 0..MostSends]
      /\ out \in Seq(Payloads) /\ sent \in Seq(Payloads) /\ sending \in Seq(Payloads)
      /\ Len(sending) <= 1
  BY DEF SendInv, SendTypes
<1>2. CASE Channel!Take
  <2>1. /\ out # << >> /\ sending = << >> /\ sending' = <<Head(out)>> /\ out' = Tail(out)
        /\ Channel!Release(waiting, {}) /\ UNCHANGED <<sent, count, given>>
    BY <1>2 DEF Channel!Take
  <2>2. /\ sender' \in [Senders -> {"idle", "waiting", "granted", "refused"}]
        /\ waiting' \in Seq(Senders)
        /\ QueueHolds'
        /\ \A s \in Senders :
              sender'[s] \in {"waiting", "granted"} <=> sender[s] \in {"waiting", "granted"}
        /\ \E x : Granted' \subseteq Granted \cup {x}
    <3>1. {} \in SUBSET Granted /\ \A x : (Granted \ {}) \cup {x} = Granted \cup {x}
      OBVIOUS
    <3> QED
      BY <2>1, <3>1, ReleaseStep
  <2>3. /\ Head(out) \in Payloads /\ out' \in Seq(Payloads)
        /\ Len(out') = Len(out) - 1 /\ Len(out) \in Nat
        /\ sending' \in Seq(Payloads) /\ Len(sending') = 1
    BY <1>1, <2>1, HeadTailProperties
  <2>4. SendTypes'
    BY <2>1, <2>2, <2>3 DEF SendInv, SendTypes
  <2>5. Len(out') + Cardinality(Granted') <= Room
    <3>1. Granted \in SUBSET Senders /\ Granted' \in SUBSET Senders
      BY DEF Granted
    <3>2. /\ Cardinality(Granted') <= Cardinality(Granted) + 1
          /\ Cardinality(Granted') \in Nat /\ Cardinality(Granted) \in Nat
      BY <2>2, <3>1, Grants
    <3> QED
      BY <2>3, <3>2, ChannelAssumption DEF SendInv, RoomHolds
  <2>6. RoomHolds'
    BY <2>1, <2>2, <2>5 DEF SendInv, RoomHolds, Granted
  <2>7. Line' = Line
    BY <1>1, <2>1, LineMoves DEF Line
  <2>8. \A s \in Senders : Begun(s)' = Begun(s)
    BY <2>1, <2>2 DEF Begun
  <2> QED
    BY <2>1, <2>2, <2>4, <2>6, <2>7, <2>8, LineStays DEF SendInv
<1>3. CASE Channel!Transmits
  <2>1. PICK i \in DOMAIN sending :
           /\ sent' = Append(sent, sending[i]) /\ sending' = Channel!Without(sending, i)
           /\ UNCHANGED <<sender, waiting, out, count, given>>
    BY <1>3 DEF Channel!Transmits, Channel!Transmit
  <2>2. Line' = Line /\ sending' = << >>
    <3>1. /\ Append(sent, sending[i]) \o Channel!Without(sending, i) \o out = sent \o sending \o out
          /\ Channel!Without(sending, i) = << >>
      <4>1. \A j \in DOMAIN sending : Len(sending) <= 1 =>
               /\ Append(sent, sending[j]) \o Channel!Without(sending, j) \o out = sent \o sending \o out
               /\ Channel!Without(sending, j) = << >>
        BY <1>1, LineMoves, Zenon
      <4> QED
        BY <1>1, <4>1, Zenon
    <3> QED
      BY <2>1, <3>1, Zenon DEF Line
  <2>3. sending[i] \in Payloads
    BY <1>1
  <2>4. sent' \in Seq(Payloads)
    BY <1>1, <2>1, <2>3
  <2>5. sending' \in Seq(Payloads) /\ Len(sending') <= 1
    <3>1. << >> \in Seq(Payloads) /\ Len(<< >>) = 0
      BY EmptySeq
    <3> QED
      BY <2>2, <3>1
  <2>6. SendTypes'
    BY <2>1, <2>4, <2>5 DEF SendInv, SendTypes
  <2>7. QueueHolds' /\ RoomHolds'
    BY <2>1 DEF SendInv, QueueHolds, RoomHolds, Granted
  <2>8. \A s \in Senders : Begun(s)' = Begun(s)
    BY <2>1 DEF Begun
  <2> QED
    BY <2>1, <2>2, <2>6, <2>7, <2>8, LineStays DEF SendInv
<1> QED
  BY <1>2, <1>3

\* What arrives goes from the network to the channel to whoever receives, in its place.
LEMMA ReadMoves ==
    ASSUME NEW S, NEW a \in Seq(S), NEW b \in Seq(S), NEW c \in Seq(S)
    PROVE  /\ a \o (b \o c) \o << >> = a \o b \o c
           /\ b # << >> => Append(a, Head(b)) \o Tail(b) \o c = a \o b \o c
<1>1. a \o (b \o c) \o << >> = a \o b \o c
  <2>1. a \o (b \o c) = (a \o b) \o c
    BY ConcatAssociative
  <2>2. a \o (b \o c) \in Seq(S)
    BY ConcatProperties
  <2>3. (a \o (b \o c)) \o << >> = a \o (b \o c)
    BY <2>2, ConcatEmptySeq
  <2> QED
    BY <2>1, <2>3, Zenon
<1>2. ASSUME b # << >>
      PROVE  Append(a, Head(b)) \o Tail(b) = a \o b
  <2>1. <<Head(b)>> \in Seq(S) /\ Tail(b) \in Seq(S) /\ Head(b) \in S
    BY <1>2, HeadTailProperties
  <2>2. <<Head(b)>> \o Tail(b) = b
    BY <1>2, <2>1, SMTT(30)
  <2>3. (a \o <<Head(b)>>) \o Tail(b) = a \o (<<Head(b)>> \o Tail(b))
    BY <2>1, ConcatAssociative
  <2>4. Append(a, Head(b)) = a \o <<Head(b)>>
    BY <2>1, AppendIsConcat
  <2> QED
    BY <2>2, <2>3, <2>4, Zenon
<1> QED
  BY <1>1, <1>2, Zenon

\* The numbers of the payloads that arrived, and the next.
LEMMA NextArrival ==
    ASSUME NEW k \in Nat
    PROVE  Append([n \in 1..k |-> n], k + 1) = [n \in 1..(k + 1) |-> n]
<1> DEFINE f == [n \in 1..k |-> n]
<1>1. f \in Seq(Nat) /\ Len(f) = k
  OBVIOUS
<1>2. /\ Append(f, k + 1) \in Seq(Nat) /\ Len(Append(f, k + 1)) = k + 1
      /\ \A n \in 1..k : Append(f, k + 1)[n] = f[n]
      /\ Append(f, k + 1)[k + 1] = k + 1
  BY <1>1, AppendProperties
<1>3. /\ [n \in 1..(k + 1) |-> n] \in Seq(Nat) /\ Len([n \in 1..(k + 1) |-> n]) = k + 1
  OBVIOUS
<1>4. \A n \in 1..(k + 1) : Append(f, k + 1)[n] = n
  <2>1. \A n \in 1..k : f[n] = n
    OBVIOUS
  <2>2. \A n \in 1..(k + 1) : n \in 1..k \/ n = k + 1
    OBVIOUS
  <2> HIDE DEF f
  <2> QED
    BY <1>2, <2>1, <2>2
<1> HIDE DEF f
<1>5. \A n \in 1..(k + 1) : Append(f, k + 1)[n] = [m \in 1..(k + 1) |-> m][n]
  BY <1>4
<1>6. Append(f, k + 1) = [n \in 1..(k + 1) |-> n]
  BY <1>2, <1>3, <1>5, SeqEqual
<1> QED
  BY <1>6 DEF f

\* A datagram is handed to the reader, or waits in the line behind it.
LEMMA ArriveStep ==
    ASSUME ReadInv, Channel!Arrive
    PROVE  ReadInv'
<1>1. /\ UNCHANGED <<dropped, inbox, reader, taken>>
      /\ readLoop = Channel!Idle /\ arrived < MostArrivals /\ arrived' = arrived + 1
      /\ readLoop' = [readLoop EXCEPT !.held = <<arrived + 1>>]
  BY DEF Channel!Arrive
<1>2. /\ arrived \in Nat /\ arrived + 1 \in Arrivals /\ inbox \in Seq(Arrivals) /\ taken \in Seq(Arrivals)
  BY <1>1, ChannelAssumption DEF ReadInv, ReadTypes, Arrivals
<1>3. PICK h \in Seq(Arrivals) : h = <<arrived + 1>> /\ Len(h) = 1
  <2>1. <<arrived + 1>> \in Seq(Arrivals) /\ Len(<<arrived + 1>>) = 1
    BY <1>2
  <2> QED
    BY <2>1
<1>4. PICK e \in Seq(Arrivals) : e = << >>
  BY EmptySeq
<1>5. readLoop = [at |-> "reading", held |-> e]
  BY <1>1, <1>4 DEF Channel!Idle
<1>6. readLoop' = [at |-> "reading", held |-> h]
  BY <1>1, <1>3, <1>5
<1>7. ReadTypes'
  <2>1. readLoop' \in [at : {"reading", "ended"}, held : Seq(Arrivals)] /\ readLoop'.held = h
    BY <1>6
  <2>2. arrived' \in 0..MostArrivals
    BY <1>1, <1>2, ChannelAssumption
  <2> QED
    BY <1>1, <1>3, <2>1, <2>2 DEF ReadInv, ReadTypes
<1>8. ReadHolds'
  <2> SUFFICES ASSUME ~dropped
               PROVE  Read' = [n \in 1..arrived' |-> n]
    BY <1>1 DEF ReadHolds
  <2>1. readLoop.held = << >> /\ readLoop'.held = <<arrived + 1>>
    BY <1>3, <1>4, <1>5, <1>6
  <2>2. taken \o inbox \in Seq(Arrivals)
    BY <1>2, ConcatProperties
  <2>3. taken \o inbox = [n \in 1..arrived |-> n]
    <3>1. (taken \o inbox) \o << >> = taken \o inbox
      BY <2>2, ConcatEmptySeq
    <3>2. Read = [n \in 1..arrived |-> n]
      BY DEF ReadInv, ReadHolds
    <3> QED
      BY <2>1, <3>1, <3>2, Zenon DEF Read
  <2>4. (taken \o inbox) \o <<arrived + 1>> = Append(taken \o inbox, arrived + 1)
    BY <1>2, <2>2, AppendIsConcat
  <2>5. Read' = Append([n \in 1..arrived |-> n], arrived + 1)
    BY <1>1, <2>1, <2>3, <2>4, Zenon DEF Read
  <2> QED
    BY <1>1, <1>2, <2>5, NextArrival
<1> QED
  BY <1>7, <1>8 DEF ReadInv

\* The read loop hands over what it holds, or ends.
LEMMA ReadLoopStep ==
    ASSUME ReadInv, Channel!Deliver \/ Channel!ReadFails
    PROVE  ReadInv'
<1>1. UNCHANGED <<dropped, reader, taken, arrived>>
  BY DEF Channel!Deliver, Channel!ReadFails
<1>2. /\ inbox \in Seq(Arrivals) /\ taken \in Seq(Arrivals) /\ Len(inbox) <= Room
      /\ readLoop \in [at : {"reading", "ended"}, held : Seq(Arrivals)] /\ Len(readLoop.held) <= 1
  BY DEF ReadInv, ReadTypes
<1>3. PICK e \in Seq(Arrivals) : e = << >> /\ Len(e) = 0
  BY EmptySeq
<1>4. PICK h \in Seq(Arrivals) : h = readLoop.held /\ Len(h) \in Nat /\ Len(h) <= 1
  BY <1>2
<1>5. CASE Channel!Deliver /\ ~dropped
  <2>1. /\ Len(inbox) < Room /\ inbox' = inbox \o h /\ readLoop' = [at |-> "reading", held |-> e]
    BY <1>3, <1>4, <1>5 DEF Channel!Deliver, Channel!Idle
  <2>2. inbox' \in Seq(Arrivals) /\ Len(inbox') = Len(inbox) + Len(h) /\ Len(inbox) \in Nat
    BY <1>2, <2>1, ConcatProperties
  <2>3. readLoop' \in [at : {"reading", "ended"}, held : Seq(Arrivals)] /\ readLoop'.held = e
    BY <2>1
  <2>4. ReadTypes'
    BY <1>1, <1>3, <1>4, <2>1, <2>2, <2>3, ChannelAssumption DEF ReadInv, ReadTypes
  <2>5. Read' = Read
    <3>1. taken \o (inbox \o h) \o << >> = taken \o inbox \o h
      BY <1>2, ReadMoves
    <3> QED
      BY <1>1, <1>3, <1>4, <2>1, <2>3, <3>1, Zenon DEF Read
  <2> QED
    BY <1>1, <2>4, <2>5 DEF ReadInv, ReadHolds
<1>6. CASE Channel!Deliver /\ dropped
  <2>1. UNCHANGED inbox /\ readLoop' = [readLoop EXCEPT !.at = "ended", !.held = e]
    BY <1>3, <1>6 DEF Channel!Deliver
  <2>2. readLoop' \in [at : {"reading", "ended"}, held : Seq(Arrivals)] /\ readLoop'.held = e
    BY <1>2, <2>1
  <2> QED
    BY <1>1, <1>3, <1>6, <2>1, <2>2 DEF ReadInv, ReadTypes, ReadHolds
<1>7. CASE Channel!ReadFails
  <2>1. UNCHANGED inbox /\ readLoop' = [readLoop EXCEPT !.at = "ended"]
    BY <1>7 DEF Channel!ReadFails
  <2>2. /\ readLoop' \in [at : {"reading", "ended"}, held : Seq(Arrivals)]
        /\ readLoop'.held = readLoop.held
    BY <1>2, <2>1
  <2>3. Read' = Read
    BY <1>1, <2>1, <2>2 DEF Read
  <2> QED
    BY <1>1, <2>1, <2>2, <2>3 DEF ReadInv, ReadTypes, ReadHolds
<1> QED
  BY <1>5, <1>6, <1>7

\* A reader asks, gets a payload, or learns that there is none to come.
LEMMA ReaderStep ==
    ASSUME ReadInv, NEW r \in Readers,
           Channel!Recv(r) \/ Channel!Received(r) \/ Channel!EndOfData(r)
    PROVE  ReadInv'
<1>1. UNCHANGED <<dropped, readLoop, arrived>>
  BY DEF Channel!Recv, Channel!Received, Channel!EndOfData
<1>2. reader' \in [Readers -> {"idle", "waiting", "closed"}]
  BY DEF Channel!Recv, Channel!Received, Channel!EndOfData, ReadInv, ReadTypes
<1>3. CASE UNCHANGED <<inbox, taken>>
  <2>1. Read' = Read
    BY <1>1, <1>3 DEF Read
  <2> QED
    BY <1>1, <1>2, <1>3, <2>1 DEF ReadInv, ReadTypes, ReadHolds
<1>4. CASE inbox # << >> /\ taken' = Append(taken, Head(inbox)) /\ inbox' = Tail(inbox)
  <2>1. inbox \in Seq(Arrivals) /\ taken \in Seq(Arrivals) /\ readLoop.held \in Seq(Arrivals)
    BY DEF ReadInv, ReadTypes
  <2>2. /\ inbox' \in Seq(Arrivals) /\ taken' \in Seq(Arrivals)
        /\ Len(inbox') = Len(inbox) - 1 /\ Len(inbox) \in Nat
    BY <1>4, <2>1, HeadTailProperties, AppendProperties
  <2>3. ReadTypes'
    BY <1>1, <1>2, <2>2, ChannelAssumption DEF ReadInv, ReadTypes
  <2>4. Read' = Read
    <3>1. \A a, b, c \in Seq(Arrivals) : b # << >> => Append(a, Head(b)) \o Tail(b) \o c = a \o b \o c
      BY ReadMoves
    <3>2. Append(taken, Head(inbox)) \o Tail(inbox) \o readLoop.held = taken \o inbox \o readLoop.held
      BY <1>4, <2>1, <3>1, Zenon
    <3> QED
      BY <1>1, <1>4, <3>2, Zenon DEF Read
  <2> QED
    BY <1>1, <2>3, <2>4 DEF ReadInv, ReadHolds
<1> QED
  BY <1>3, <1>4 DEF Channel!Recv, Channel!Received, Channel!EndOfData

\* Every step of the channels keeps both ends' invariants.
LEMMA ChannelStep ==
    ASSUME SendInv, ReadInv, Channel!Next \/ UNCHANGED channelVars
    PROVE  SendInv' /\ ReadInv'
<1>1. ASSUME UNCHANGED Channel!sendVars
      PROVE  SendInv'
  <2>1. Line' = Line /\ Granted' = Granted /\ \A s \in Senders : Begun(s)' = Begun(s)
    BY <1>1 DEF Channel!sendVars, Line, Granted, Begun
  <2>2. LineHolds'
    BY <1>1, <2>1, LineStays DEF Channel!sendVars
  <2> QED
    BY <1>1, <2>1, <2>2 DEF Channel!sendVars, SendInv, SendTypes, QueueHolds, RoomHolds
<1>2. ASSUME UNCHANGED Channel!readVars, UNCHANGED dropped
      PROVE  ReadInv'
  BY <1>2 DEF Channel!readVars, ReadInv, ReadTypes, ReadHolds, Read
<1>3. ASSUME NEW s \in Senders, Channel!Send(s) \/ Channel!Push(s) \/ Channel!GiveUp(s)
      PROVE  SendInv' /\ ReadInv'
  <2>1. UNCHANGED Channel!readVars /\ UNCHANGED dropped
    BY <1>3 DEF Channel!Send, Channel!Push, Channel!GiveUp
  <2> QED
    BY <1>2, <1>3, <2>1, SendStep, PushStep, GiveUpStep
<1>4. CASE Channel!Take \/ Channel!Transmits
  <2>1. UNCHANGED Channel!readVars /\ UNCHANGED dropped
    BY <1>4 DEF Channel!Take, Channel!Transmits, Channel!Transmit
  <2> QED
    BY <1>2, <1>4, <2>1, LoopStep
<1>5. CASE Channel!Arrive \/ Channel!Deliver \/ Channel!ReadFails
  <2>1. UNCHANGED Channel!sendVars
    BY <1>5 DEF Channel!Arrive, Channel!Deliver, Channel!ReadFails
  <2> QED
    BY <1>1, <1>5, <2>1, ArriveStep, ReadLoopStep
<1>6. ASSUME NEW r \in Readers, Channel!Recv(r) \/ Channel!Received(r) \/ Channel!EndOfData(r)
      PROVE  SendInv' /\ ReadInv'
  <2>1. UNCHANGED Channel!sendVars
    BY <1>6 DEF Channel!Recv, Channel!Received, Channel!EndOfData
  <2> QED
    BY <1>1, <1>6, <2>1, ReaderStep
<1>7. CASE Channel!Close
  BY <1>1, <1>2, <1>7 DEF Channel!Close
<1>8. CASE Channel!Drop
  <2>1. UNCHANGED Channel!sendVars /\ dropped' = TRUE /\ inbox' = << >>
        /\ UNCHANGED <<readLoop, reader, taken, arrived>>
    BY <1>8 DEF Channel!Drop
  <2>2. inbox' \in Seq(Arrivals) /\ Len(inbox') <= Room
    <3>1. << >> \in Seq(Arrivals) /\ Len(<< >>) = 0
      BY EmptySeq
    <3> QED
      BY <2>1, <3>1, ChannelAssumption
  <2> QED
    BY <1>1, <2>1, <2>2 DEF ReadInv, ReadTypes, ReadHolds
<1>9. CASE UNCHANGED channelVars
  BY <1>1, <1>2, <1>9 DEF channelVars, Channel!sendVars, Channel!readVars
<1> QED
  BY <1>3, <1>4, <1>5, <1>6, <1>7, <1>8, <1>9 DEF Channel!Next

\* The channels rest while another component is at work, and keep both invariants.
LEMMA ChannelAlways == LiveSpec => [](SendInv /\ ReadInv)
<1>1. LiveInit => SendInv /\ ReadInv
  BY SendInit, ReadInit DEF LiveInit
<1>2. SendInv /\ ReadInv /\ [LiveNext]_liveVars => (SendInv /\ ReadInv)'
  BY ChannelStep DEF LiveNext, liveVars
<1> QED
  BY <1>1, <1>2, PTL DEF LiveSpec

\* The payloads of a sender reach the socket in the order they were sent, each once and
\* none lost but those it gave up, whoever waits for room or gives up meanwhile; and
\* what recv returns is what arrived, in order.
THEOREM OrderSafe == LiveSpec => []PayloadsInOrder
<1>1. ASSUME SendInv, NEW s \in Senders
      PROVE  LET line == sent \o sending \o out
                 mine == {i \in DOMAIN line : line[i][1] = s}
                 begun == IF sender[s] \in {"waiting", "granted"} THEN count[s] - 1 ELSE count[s]
             IN  /\ {line[i][2] : i \in mine} = {n \in 1..begun : <<s, n>> \notin given}
                 /\ \A i, j \in mine : i < j => line[i][2] < line[j][2]
  <2>1. InOrder(Line, s, Begun(s), given)
    BY <1>1 DEF SendInv, LineHolds
  <2> QED
    BY <2>1 DEF InOrder, Line, Begun
<1>2. SendInv /\ ReadInv => PayloadsInOrder
  BY <1>1 DEF PayloadsInOrder, Channel!PayloadsInOrder, ReadInv, ReadHolds, Read
<1> QED
  BY <1>2, ChannelAlways, PTL

\* Every component's state keeps its type; for the channels that includes their room:
\* whoever has been given room finds it.
THEOREM TypesSafe == LiveSpec => []TypesOK
<1>1. DeliveryInv /\ Bridge!TypeOK /\ SendInv /\ ReadInv => TypesOK
  <2> SUFFICES ASSUME SendInv, ReadInv
               PROVE  Channel!TypeOK
    BY DEF DeliveryInv, TypesOK
  <2>1. Len(out) + Channel!Cardinality({s \in Senders : sender[s] = "granted"}) <= Room
    BY DEF SendInv, RoomHolds, Granted, Channel!Cardinality, Cardinality
  <2>2. readLoop \in [at : {"reading", "ended"}, held : Seq(1..MostArrivals)]
    BY DEF ReadInv, ReadTypes, Arrivals
  <2> QED
    BY <2>1, <2>2 DEF SendInv, SendTypes, QueueHolds, ReadInv, ReadTypes, Channel!TypeOK
<1> QED
  BY <1>1, DeliveryAlways, BridgeAlways, ChannelAlways, PTL

=============================================================================
