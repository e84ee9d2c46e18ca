--------------------------- MODULE ServerV4Proofs ---------------------------
(***************************************************************************)
(* Proofs about the components of the v4 server that MCServerV4 brings     *)
(* together: the rate limiter, the sentinels, the accounts, the set-up of  *)
(* the database and the registry of entities, for any addresses, sources,  *)
(* entities, callers, accounts, servers and columns, and any limits and    *)
(* lengths of windows and queues.                                          *)
(*                                                                         *)
(* For each component: the invariant, that it holds at first, that a step  *)
(* of the component keeps it, and the theorem about the whole server.      *)
(***************************************************************************)
EXTENDS MCServerV4, SlidingWindowProofs

(***************************************************************************)
(* A step of the server is, of each component, a step or none.             *)
(***************************************************************************)
LEMMA ComponentSteps ==
    ASSUME [Next]_vars
    PROVE  /\ Limiter!Next \/ UNCHANGED limiterVars
           /\ Detector!Next \/ UNCHANGED detectorVars
           /\ Orgas!Next \/ UNCHANGED orgVars
           /\ Database!Next \/ UNCHANGED schemaVars
           /\ Registry!Next \/ UNCHANGED registryVars
BY DEF Next, Rest, vars, limiterVars, detectorVars, orgVars, schemaVars, registryVars

(***************************************************************************)
(* The rate limiter                                                        *)
(***************************************************************************)

\* The window of the limiter and of the sentinels is that of SlidingWindow.
LEMMA WindowOps ==
    /\ \A q, n, w : /\ Limiter!Recent(q, n, w) = Recent(q, n, w)
                    /\ Limiter!InWindow(q, n, w) = InWindow(q, n, w)
    /\ \A q, n, w : /\ Detector!Recent(q, n, w) = Recent(q, n, w)
                    /\ Detector!InWindow(q, n, w) = InWindow(q, n, w)
                    /\ Detector!Push(q, n, w) = Push(q, n, w)
                    /\ Detector!Least(n, w) = Least(n, w)
<1>1. \A q, n, w : Limiter!Recent(q, n, w) = Recent(q, n, w)
  BY Zenon DEF Limiter!Recent, Limiter!Within, Recent, Within
<1>2. \A q, n, w : Limiter!InWindow(q, n, w) = InWindow(q, n, w)
  BY Zenon DEF Limiter!InWindow, Limiter!Within, Limiter!Cardinality, Cardinality, InWindow, Within
<1>3. \A q, n, w : Detector!Recent(q, n, w) = Recent(q, n, w)
  BY Zenon DEF Detector!Recent, Detector!Within, Recent, Within
<1>4. \A q, n, w : Detector!InWindow(q, n, w) = InWindow(q, n, w)
  BY Zenon DEF Detector!InWindow, Detector!Within, Detector!Cardinality, Cardinality, InWindow, Within
<1>5. \A q, n, w : Detector!Push(q, n, w) = Push(q, n, w) /\ Detector!Least(n, w) = Least(n, w)
  BY Zenon DEF Detector!Push, Push, Detector!Least, Least
<1> QED
  BY <1>1, <1>2, <1>3, <1>4, <1>5

\* The log of an address forgets old requests; in any set of times that are young
\* now it has as many as were let through.
Agree(log, all, n) ==
    \A D \in SUBSET Int : D \subseteq Young(n, Window) => HowMany(log, D) = HowMany(all, D)

\* No window, wherever it begins, has more than the limit.
Bounded(all) == \A t \in Int : HowMany(all, t..(t + Window - 1)) <= Limit

\* A request that is let through is in the log and in the history, and the bound
\* holds since the log had room.
LEMMA Accepted ==
    ASSUME NEW log \in Seq(Int), NEW all \in Seq(Int), NEW n \in Int, Agree(log, all, n)
    PROVE  /\ Agree(Append(Recent(log, n, Window), n), Append(all, n), n)
           /\ Bounded(all) /\ Len(Recent(log, n, Window)) < Limit => Bounded(Append(all, n))
<1> DEFINE fresh == Recent(log, n, Window)
<1>1. Window \in Int /\ Limit \in Int
  BY WindowAssumption
<1>2. /\ fresh \in Seq(Int) /\ Len(fresh) = HowMany(log, Young(n, Window))
      /\ \A D : HowMany(fresh, D) = HowMany(log, D \cap Young(n, Window))
  <2>1. \A S \in SUBSET Int : log \in Seq(S) =>
           /\ fresh \in Seq(S)
           /\ \A D : HowMany(fresh, D) = HowMany(log, D \cap Young(n, Window))
    BY <1>1, RecentHolds
  <2>2. Len(fresh) = HowMany(log, Young(n, Window))
    BY <1>1, RecentCounts
  <2> HIDE DEF fresh
  <2> QED
    BY <2>1, <2>2
<1> HIDE DEF fresh
<1>3. Agree(Append(fresh, n), Append(all, n), n)
  <2> SUFFICES ASSUME NEW D \in SUBSET Int, D \subseteq Young(n, Window)
               PROVE  HowMany(Append(fresh, n), D) = HowMany(Append(all, n), D)
    BY DEF Agree
  <2>1. D \cap Young(n, Window) = D
    OBVIOUS
  <2>2. HowMany(fresh, D) = HowMany(all, D)
    BY <1>2, <2>1 DEF Agree
  <2> QED
    BY <1>2, <2>2, HowManyAppended
<1>4. ASSUME Bounded(all), Len(fresh) < Limit
      PROVE  Bounded(Append(all, n))
  <2> SUFFICES ASSUME NEW t \in Int
               PROVE  HowMany(Append(all, n), t..(t + Window - 1)) <= Limit
    BY DEF Bounded
  <2> DEFINE D == t..(t + Window - 1)
  <2>1. HowMany(Append(all, n), D) = HowMany(all, D) + (IF n \in D THEN 1 ELSE 0)
    BY HowManyAppended
  <2>2. HowMany(all, D) <= Limit /\ HowMany(all, D) \in Nat
    BY <1>4, HowManyAre DEF Bounded
  <2>3. CASE n \in D
    <3>1. Those(all, D) \subseteq Those(all, Young(n, Window))
      BY <1>1, <2>3 DEF Those, Young, Within
    <3>2. HowMany(all, D) <= HowMany(all, Young(n, Window)) /\ HowMany(all, Young(n, Window)) \in Nat
      BY <3>1, HowManyAre
    <3>3. HowMany(all, Young(n, Window)) < Limit
      BY <1>2, <1>4 DEF Agree, Young
    <3> HIDE DEF D
    <3> QED
      BY <1>1, <2>1, <2>2, <2>3, <3>2, <3>3 DEF D
  <2>4. CASE n \notin D
    BY <2>1, <2>2, <2>4
  <2> QED
    BY <2>3, <2>4
<1> QED
  BY <1>3, <1>4 DEF fresh

\* Trimming the log, and the clock, leave the agreement.
LEMMA Trimmed ==
    ASSUME NEW log \in Seq(Int), NEW all \in Seq(Int), NEW n \in Int, Agree(log, all, n)
    PROVE  Agree(Recent(log, n, Window), all, n) /\ Agree(log, all, n + 1)
<1>1. Window \in Int
  BY WindowAssumption
<1>2. \A D : HowMany(Recent(log, n, Window), D) = HowMany(log, D \cap Young(n, Window))
  BY <1>1, RecentHolds
<1>3. \A D \in SUBSET Int : D \subseteq Young(n, Window) => D \cap Young(n, Window) = D
  OBVIOUS
<1>4. Young(n + 1, Window) \subseteq Young(n, Window)
  BY <1>1 DEF Young, Within
<1> QED
  BY <1>2, <1>3, <1>4 DEF Agree

LimiterTypes ==
    /\ clock \in Limiter!Times
    /\ grantLog \in [Addresses -> Seq(Limiter!Times)]
    /\ granted \in [Addresses -> Seq(Limiter!Times)]
    /\ refused \in [Addresses -> 0..Calls]

LimiterInv ==
    /\ LimiterTypes
    /\ \A a \in Addresses :
          /\ Len(grantLog[a]) <= Limit
          /\ \A i \in DOMAIN granted[a] : granted[a][i] <= clock
          /\ Agree(grantLog[a], granted[a], clock)
          /\ Bounded(granted[a])

\* Nothing is in a log or a history.
LEMMA LimiterInit == Limiter!Init => LimiterInv
<1> SUFFICES ASSUME Limiter!Init
             PROVE  LimiterInv
  OBVIOUS
<1>1. << >> \in Seq(Int) /\ << >> \in Seq(Limiter!Times) /\ Len(<< >>) = 0 /\ DOMAIN << >> = {}
  BY EmptySeq
<1>2. \A D : HowMany(<< >>, D) = 0
  <2>1. \A D : Those(<< >>, D) = {}
    BY DEF Those
  <2> QED
    BY <2>1, FS_EmptySet DEF HowMany
<1>3. Agree(<< >>, << >>, clock) /\ Bounded(<< >>)
  BY <1>2, WindowAssumption DEF Agree, Bounded
<1>4. LimiterTypes
  BY <1>1, WindowAssumption DEF Limiter!Init, LimiterTypes, Limiter!Times
<1> QED
  BY <1>1, <1>3, <1>4, WindowAssumption DEF Limiter!Init, LimiterInv

\* What the invariant says of an address.
LEMMA LimiterAt ==
    ASSUME LimiterInv, NEW a \in Addresses
    PROVE  /\ clock \in Int /\ clock \in Limiter!Times /\ Window \in Int /\ Limit \in Nat
           /\ grantLog[a] \in Seq(Limiter!Times) /\ grantLog[a] \in Seq(Int)
           /\ granted[a] \in Seq(Limiter!Times) /\ granted[a] \in Seq(Int)
           /\ Limiter!Fresh(a) = Recent(grantLog[a], clock, Window)
           /\ Limiter!Fresh(a) \in Seq(Limiter!Times)
           /\ Len(Limiter!Fresh(a)) \in Nat /\ Len(Limiter!Fresh(a)) <= Limit
<1>1. Limiter!Times \in SUBSET Int /\ clock \in Limiter!Times /\ clock \in Int
      /\ Window \in Int /\ Limit \in Nat
  BY WindowAssumption DEF LimiterInv, LimiterTypes, Limiter!Times
<1>2. grantLog[a] \in Seq(Limiter!Times) /\ granted[a] \in Seq(Limiter!Times)
  BY DEF LimiterInv, LimiterTypes
<1>3. grantLog[a] \in Seq(Int) /\ granted[a] \in Seq(Int)
  BY <1>1, <1>2, SeqMonotonic
<1>4. Limiter!Fresh(a) = Recent(grantLog[a], clock, Window)
  BY WindowOps, Zenon DEF Limiter!Fresh
<1>5. Recent(grantLog[a], clock, Window) \in Seq(Limiter!Times)
  BY <1>1, <1>2, RecentHolds
<1>6. Len(Recent(grantLog[a], clock, Window)) <= Len(grantLog[a])
  BY <1>1, <1>3, RecentCounts
<1>7. Len(Recent(grantLog[a], clock, Window)) \in Nat /\ Len(grantLog[a]) \in Nat
  BY <1>2, <1>5, LenProperties
<1>8. Len(grantLog[a]) <= Limit
  BY DEF LimiterInv
<1> QED
  BY <1>1, <1>2, <1>3, <1>4, <1>5, <1>6, <1>7, <1>8

\* A request that is let through.
LEMMA AcceptStep ==
    ASSUME LimiterInv, NEW a \in Addresses, Limiter!Accept(a)
    PROVE  LimiterInv'
<1> DEFINE fresh == Limiter!Fresh(a)
<1>1. /\ Len(fresh) < Limit
      /\ grantLog' = [grantLog EXCEPT ![a] = Append(fresh, clock)]
      /\ granted' = [granted EXCEPT ![a] = Append(granted[a], clock)]
      /\ UNCHANGED <<clock, refused>>
  BY DEF Limiter!Accept
<1>2. /\ clock \in Int /\ clock \in Limiter!Times
      /\ granted[a] \in Seq(Limiter!Times) /\ granted[a] \in Seq(Int) /\ grantLog[a] \in Seq(Int)
      /\ fresh = Recent(grantLog[a], clock, Window) /\ fresh \in Seq(Limiter!Times)
      /\ Len(fresh) \in Nat /\ Limit \in Nat
  BY LimiterAt
<1> HIDE DEF fresh
<1>3. /\ Append(fresh, clock) \in Seq(Limiter!Times) /\ Len(Append(fresh, clock)) = Len(fresh) + 1
      /\ Append(granted[a], clock) \in Seq(Limiter!Times)
  BY <1>2, AppendProperties
<1>4. /\ Agree(Append(fresh, clock), Append(granted[a], clock), clock)
      /\ Bounded(Append(granted[a], clock))
  BY <1>1, <1>2, Accepted DEF LimiterInv
<1>5. \A i \in DOMAIN Append(granted[a], clock) : Append(granted[a], clock)[i] <= clock
  <2>1. \A i \in DOMAIN granted[a] : granted[a][i] <= clock
    BY DEF LimiterInv
  <2>2. PICK g : g = granted[a]
    OBVIOUS
  <2>3. \A i \in DOMAIN Append(g, clock) :
           Append(g, clock)[i] = clock \/ (i \in DOMAIN g /\ Append(g, clock)[i] = g[i])
    BY <1>2, <2>2
  <2> QED
    BY <1>2, <2>1, <2>2, <2>3
<1>6. LimiterTypes'
  BY <1>1, <1>3 DEF LimiterInv, LimiterTypes, Limiter!Times
<1>7. ASSUME NEW b \in Addresses
      PROVE  /\ Len(grantLog'[b]) <= Limit
             /\ \A i \in DOMAIN granted'[b] : granted'[b][i] <= clock'
             /\ Agree(grantLog'[b], granted'[b], clock')
             /\ Bounded(granted'[b])
  <2>1. CASE b = a
    <3>1. grantLog'[b] = Append(fresh, clock) /\ granted'[b] = Append(granted[a], clock)
      BY <1>1, <2>1 DEF LimiterInv, LimiterTypes
    <3>2. Len(Append(fresh, clock)) <= Limit
      BY <1>1, <1>2, <1>3
    <3> QED
      BY <1>1, <1>4, <1>5, <3>1, <3>2
  <2>2. CASE b # a
    <3>1. grantLog'[b] = grantLog[b] /\ granted'[b] = granted[b]
      BY <1>1, <2>2 DEF LimiterInv, LimiterTypes
    <3> QED
      BY <1>1, <3>1 DEF LimiterInv
  <2> QED
    BY <2>1, <2>2
<1> QED
  BY <1>6, <1>7 DEF LimiterInv, Agree, Bounded

\* A request that is refused.
LEMMA RefuseStep ==
    ASSUME LimiterInv, NEW a \in Addresses, Limiter!Refuse(a)
    PROVE  LimiterInv'
<1> DEFINE fresh == Limiter!Fresh(a)
<1>1. /\ grantLog' = [grantLog EXCEPT ![a] = fresh]
      /\ refused' = [refused EXCEPT ![a] = refused[a] + 1]
      /\ Len(granted[a]) + refused[a] < Calls
      /\ UNCHANGED <<clock, granted>>
  BY DEF Limiter!Refuse, Limiter!MayCall
<1>2. /\ clock \in Int /\ granted[a] \in Seq(Int) /\ grantLog[a] \in Seq(Int)
      /\ fresh = Recent(grantLog[a], clock, Window) /\ fresh \in Seq(Limiter!Times)
      /\ Len(fresh) <= Limit
  BY LimiterAt
<1> HIDE DEF fresh
<1>3. Agree(fresh, granted[a], clock)
  BY <1>2, Trimmed DEF LimiterInv
<1>4. LimiterTypes'
  <2>1. refused[a] + 1 \in 0..Calls
    <3>1. Len(granted[a]) \in Nat /\ refused[a] \in 0..Calls
      BY <1>2 DEF LimiterInv, LimiterTypes
    <3> QED
      BY <1>1, <3>1, WindowAssumption
  <2> QED
    BY <1>1, <1>2, <2>1 DEF LimiterInv, LimiterTypes, Limiter!Times
<1>5. ASSUME NEW b \in Addresses
      PROVE  /\ Len(grantLog'[b]) <= Limit
             /\ \A i \in DOMAIN granted'[b] : granted'[b][i] <= clock'
             /\ Agree(grantLog'[b], granted'[b], clock')
             /\ Bounded(granted'[b])
  <2>1. grantLog'[b] = IF b = a THEN fresh ELSE grantLog[b]
    BY <1>1 DEF LimiterInv, LimiterTypes
  <2> QED
    BY <1>1, <1>2, <1>3, <2>1 DEF LimiterInv
<1> QED
  BY <1>4, <1>5 DEF LimiterInv, Agree, Bounded

\* Every step of the rate limiter keeps its invariant.
LEMMA LimiterStep ==
    ASSUME LimiterInv, Limiter!Next \/ UNCHANGED limiterVars
    PROVE  LimiterInv'
<1>1. CASE Limiter!Tick
  <2>1. /\ clock < LimiterTicks /\ clock' = clock + 1
        /\ UNCHANGED <<grantLog, granted, refused>>
    BY <1>1 DEF Limiter!Tick
  <2>2. LimiterTypes'
    BY <2>1, WindowAssumption DEF LimiterInv, LimiterTypes, Limiter!Times
  <2>3. ASSUME NEW a \in Addresses
        PROVE  /\ Agree(grantLog[a], granted[a], clock + 1)
               /\ \A i \in DOMAIN granted[a] : granted[a][i] <= clock + 1
    <3>1. clock \in Int /\ granted[a] \in Seq(Int) /\ grantLog[a] \in Seq(Int)
      BY LimiterAt
    <3>2. Agree(grantLog[a], granted[a], clock + 1)
      BY <3>1, Trimmed DEF LimiterInv
    <3>3. \A i \in DOMAIN granted[a] : granted[a][i] \in Int /\ granted[a][i] <= clock
      BY <3>1 DEF LimiterInv
    <3> QED
      BY <3>1, <3>2, <3>3
  <2> QED
    BY <2>1, <2>2, <2>3 DEF LimiterInv, Agree, Bounded
<1>2. CASE \E a \in Addresses : Limiter!Accept(a) \/ Limiter!Refuse(a)
  BY <1>2, AcceptStep, RefuseStep
<1>3. CASE UNCHANGED limiterVars
  BY <1>3 DEF limiterVars, LimiterInv, LimiterTypes, Limiter!Times, Agree, Bounded
<1> QED
  BY <1>1, <1>2, <1>3 DEF Limiter!Next

\* The rate limiter rests while another component is at work, and keeps its invariant.
LEMMA LimiterAlways == Spec => []LimiterInv
<1>1. Init => LimiterInv
  BY LimiterInit DEF Init
<1>2. LimiterInv /\ [Next]_vars => LimiterInv'
  BY LimiterStep, ComponentSteps
<1> QED
  BY <1>1, <1>2, PTL DEF Spec

\* No window of the limiter's length lets more than the limit through, wherever it
\* begins; and who is refused has the limit in the window that ends then.
THEOREM LimitSafe == Spec => LimitIsExact
<1> DEFINE Exact == /\ Limiter!NeverOverLimit'
                    /\ \A a \in Addresses :
                          refused'[a] # refused[a] =>
                              Limiter!InWindow(granted[a], clock, Window) = Limit
<1>1. LimiterInv => Limiter!NeverOverLimit
  <2> SUFFICES ASSUME LimiterInv, NEW a \in Addresses, NEW t \in Limiter!Times
               PROVE  Limiter!Cardinality({i \in DOMAIN granted[a] :
                                             granted[a][i] \in t..(t + Window - 1)}) <= Limit
    BY DEF Limiter!NeverOverLimit
  <2>1. t \in Int
    BY WindowAssumption DEF Limiter!Times
  <2>2. HowMany(granted[a], t..(t + Window - 1)) <= Limit
    BY <2>1 DEF LimiterInv, Bounded
  <2> QED
    BY <2>2, Zenon DEF HowMany, Those, Limiter!Cardinality, Cardinality
<1>2. LimiterInv /\ Limiter!Next =>
         \A a \in Addresses : refused'[a] # refused[a] =>
             Limiter!InWindow(granted[a], clock, Window) = Limit
  <2> SUFFICES ASSUME LimiterInv, Limiter!Next, NEW a \in Addresses, refused'[a] # refused[a]
               PROVE  Limiter!InWindow(granted[a], clock, Window) = Limit
    OBVIOUS
  <2>1. Limiter!Refuse(a)
    BY DEF Limiter!Next, Limiter!Tick, Limiter!Accept, Limiter!Refuse, LimiterInv, LimiterTypes
  <2>2. /\ clock \in Int /\ Window \in Int /\ Limit \in Nat /\ granted[a] \in Seq(Int)
        /\ grantLog[a] \in Seq(Int)
        /\ Limiter!Fresh(a) = Recent(grantLog[a], clock, Window) /\ Len(Limiter!Fresh(a)) >= Limit
    BY <2>1, LimiterAt DEF Limiter!Refuse
  <2>3. /\ Len(Recent(grantLog[a], clock, Window)) = HowMany(grantLog[a], Young(clock, Window))
        /\ InWindow(granted[a], clock, Window) = HowMany(granted[a], Young(clock, Window))
    BY <2>2, RecentCounts
  <2>4. HowMany(grantLog[a], Young(clock, Window)) = HowMany(granted[a], Young(clock, Window))
    BY DEF LimiterInv, Agree, Young
  <2>5. HowMany(granted[a], Young(clock, Window)) <= Limit
    <3> DEFINE t == clock - Window + 1
    <3>1. t \in Int /\ t + Window - 1 = clock
      BY <2>2
    <3>2. \A i \in DOMAIN granted[a] : granted[a][i] \in Int /\ granted[a][i] <= clock
      BY <2>2 DEF LimiterInv
    <3>3. Those(granted[a], Young(clock, Window)) \subseteq Those(granted[a], t..(t + Window - 1))
      BY <2>2, <3>1, <3>2 DEF Those, Young, Within
    <3>4. HowMany(granted[a], t..(t + Window - 1)) <= Limit
      BY <3>1 DEF LimiterInv, Bounded
    <3> HIDE DEF t
    <3>5. /\ HowMany(granted[a], Young(clock, Window)) <= HowMany(granted[a], t..(t + Window - 1))
          /\ HowMany(granted[a], Young(clock, Window)) \in Nat
          /\ HowMany(granted[a], t..(t + Window - 1)) \in Nat
      BY <2>2, <3>3, HowManyAre
    <3> QED
      BY <2>2, <3>4, <3>5
  <2>6. HowMany(granted[a], Young(clock, Window)) \in Nat
    BY <2>2, HowManyAre
  <2>7. InWindow(granted[a], clock, Window) = Limit
    BY <2>2, <2>3, <2>4, <2>5, <2>6
  <2> QED
    BY <2>7, WindowOps
<1>3. LimiterInv /\ LimiterInv' /\ [Next]_vars => [Exact]_(Limiter!vars)
  <2>1. LimiterInv' => Limiter!NeverOverLimit'
    BY <1>1, PTL
  <2>2. UNCHANGED limiterVars => UNCHANGED Limiter!vars
    BY DEF limiterVars, Limiter!vars
  <2> QED
    BY <1>2, <2>1, <2>2, ComponentSteps
<1> QED
  BY <1>3, LimiterAlways, PTL DEF Spec, LimitIsExact, Limiter!LimitIsExact

(***************************************************************************)
(* The sentinels                                                           *)
(***************************************************************************)
Seen == Kinds \X Keys

DetectorTypes ==
    /\ now \in Detector!Times
    /\ window \in [Seen -> Seq(Detector!Times)]
    /\ events \in [Seen -> Seq(Detector!Times)]
    /\ report \in [key : Keys, at : Detector!Times, kinds : SUBSET Kinds, counts : [Kinds -> Nat]]
    /\ ports \in [Keys -> SUBSET Ports]
    /\ scans \in SUBSET (ScanThresholds \X Keys)

\* A queue is the end of what was seen, in the order of the clock.
QueuesAreEnds ==
    \A x \in Seen : IsEnd(window[x], events[x], Rule[x[1]].keep) /\ Ordered(events[x], now)

ScansInv ==
    /\ \A s \in Keys : IsFiniteSet(ports[s])
    /\ \A n \in ScanThresholds, s \in Keys : Cardinality(ports[s]) >= n => <<n, s>> \in scans

DetectorInv == DetectorTypes /\ QueuesAreEnds /\ Detector!BurstsAreExact /\ ScansInv

\* Nothing was seen, and nothing reported.
LEMMA DetectorInit == Detector!Init => DetectorInv
<1> SUFFICES ASSUME Detector!Init
             PROVE  DetectorInv
  OBVIOUS
<1>1. /\ << >> \in Seq(Detector!Times) /\ Len(<< >>) = 0 /\ DOMAIN << >> = {}
  BY EmptySeq
<1>2. /\ now = 0 /\ window = [x \in Seen |-> << >>] /\ events = [x \in Seen |-> << >>]
      /\ ports = [s \in Keys |-> {}] /\ scans = {}
      /\ report \in [key : Keys, at : {0}, kinds : {{}}, counts : {[k \in Kinds |-> 0]}]
  BY DEF Detector!Init, Seen
<1>3. 0 \in Detector!Times
  BY WindowAssumption DEF Detector!Times
<1>4. report \in [key : Keys, at : Detector!Times, kinds : SUBSET Kinds, counts : [Kinds -> Nat]]
  <2>1. [k \in Kinds |-> 0] \in [Kinds -> Nat] /\ {} \in SUBSET Kinds
    OBVIOUS
  <2> QED
    BY <1>2, <1>3, <2>1
<1>5. DetectorTypes
  BY <1>1, <1>2, <1>3, <1>4 DEF DetectorTypes
<1>6. QueuesAreEnds
  BY <1>1, <1>2, WindowAssumption DEF QueuesAreEnds, IsEnd, Ordered, Least, Seen
<1>7. Detector!BurstsAreExact
  <2>1. report.kinds = {} /\ report.counts = [k \in Kinds |-> 0]
    BY <1>2
  <2> QED
    BY <2>1 DEF Detector!BurstsAreExact
<1>8. ScansInv
  <2>1. IsFiniteSet({}) /\ Cardinality({}) = 0
    BY FS_EmptySet
  <2> QED
    BY <1>2, <2>1, WindowAssumption DEF ScansInv
<1> QED
  BY <1>5, <1>6, <1>7, <1>8 DEF DetectorInv

\* What the invariant says of one queue, and what is counted when it is pushed.
LEMMA DetectorAt ==
    ASSUME DetectorInv, NEW k \in Kinds, NEW s \in Keys
    PROVE  LET q == window[<<k, s>>]
               h == events[<<k, s>>]
               r == Rule[k]
               p == Push(q, now, r.keep)
               g == Append(h, now)
               n == InWindow(g, now, r.window)
           IN  /\ p \in Seq(Detector!Times) /\ g \in Seq(Detector!Times)
               /\ IsEnd(p, g, r.keep) /\ Ordered(g, now)
               /\ Len(Recent(p, now, r.window)) \in Nat
               /\ (IF Len(Recent(p, now, r.window)) > r.limit THEN Len(Recent(p, now, r.window)) ELSE 0)
                    = IF n > r.limit THEN Least(n, r.keep) ELSE 0
<1> DEFINE q == window[<<k, s>>]
           h == events[<<k, s>>]
           r == Rule[k]
           p == Push(q, now, r.keep)
           g == Append(h, now)
           n == InWindow(g, now, r.window)
<1>1. /\ Detector!Times \in SUBSET Int /\ now \in Detector!Times
      /\ r.keep \in Nat /\ r.window \in Int /\ r.limit \in Nat /\ r.limit < r.keep
  BY WindowAssumption DEF DetectorInv, DetectorTypes, Detector!Times
<1>2. /\ <<k, s>> \in Seen
      /\ q \in Seq(Detector!Times) /\ h \in Seq(Detector!Times)
      /\ IsEnd(q, h, r.keep) /\ Ordered(h, now)
  BY DEF DetectorInv, DetectorTypes, QueuesAreEnds, Seen
<1>3. h \in Seq(Int) /\ g \in Seq(Detector!Times)
  BY <1>1, <1>2, SeqMonotonic, AppendProperties
<1> HIDE DEF q, h, r
<1>4. /\ p \in Seq(Detector!Times) /\ IsEnd(p, g, r.keep) /\ Ordered(g, now)
      /\ Len(Recent(p, now, r.window)) = Least(n, r.keep)
      /\ n \in Nat
  BY <1>1, <1>2, <1>3, BurstCounted
<1> HIDE DEF p, g, n
<1>5. Least(n, r.keep) \in Nat
  BY <1>1, <1>4 DEF Least
<1>6. Least(n, r.keep) > r.limit <=> n > r.limit
  BY <1>1, <1>4 DEF Least
<1> QED
  BY <1>3, <1>4, <1>5, <1>6 DEF q, h, r, p, g, n

\* A session is analyzed.
LEMMA AnalyzeStep ==
    ASSUME DetectorInv, NEW s \in Keys, NEW kinds \in SUBSET Kinds, Detector!Analyze(s, kinds)
    PROVE  DetectorInv'
<1> DEFINE Mine(x) == x[1] \in kinds /\ x[2] = s
           Then(x) == Push(window[x], now, Rule[x[1]].keep)
           Size(k) == Len(Recent(window'[<<k, s>>], now, Rule[k].window))
<1>1. /\ window' = [x \in Seen |-> IF Mine(x) THEN Then(x) ELSE window[x]]
      /\ events' = [x \in Seen |-> IF Mine(x) THEN Append(events[x], now) ELSE events[x]]
      /\ report' = [key |-> s, at |-> now, kinds |-> kinds,
                    counts |-> [k \in Kinds |->
                       IF k \in kinds /\ Size(k) > Rule[k].limit THEN Size(k) ELSE 0]]
      /\ UNCHANGED <<now, ports, scans>>
  <2>1. window' = [x \in Seen |-> IF Mine(x) THEN Then(x) ELSE window[x]]
    BY WindowOps, Zenon DEF Detector!Analyze, Seen
  <2>2. \A q, n, w : Detector!Recent(q, n, w) = Recent(q, n, w)
    BY WindowOps
  <2>3. /\ events' = [x \in Seen |-> IF Mine(x) THEN Append(events[x], now) ELSE events[x]]
        /\ UNCHANGED <<now, ports, scans>>
    BY DEF Detector!Analyze, Detector!scanVars, Seen
  <2>4. report' = [key |-> s, at |-> now, kinds |-> kinds,
                    counts |-> [k \in Kinds |->
                       IF k \in kinds /\ Size(k) > Rule[k].limit THEN Size(k) ELSE 0]]
    BY <2>2, Zenon DEF Detector!Analyze
  <2> QED
    BY <2>1, <2>3, <2>4
<1> HIDE DEF Size
<1>2. \A k \in kinds : <<k, s>> \in Seen /\ Mine(<<k, s>>) /\ k \in Kinds
  BY DEF Seen
<1>3. \A k \in kinds : /\ window'[<<k, s>>] = Push(window[<<k, s>>], now, Rule[k].keep)
                       /\ events'[<<k, s>>] = Append(events[<<k, s>>], now)
  BY <1>1, <1>2
<1>4. \A x \in Seen : Mine(x) => x = <<x[1], s>> /\ x[1] \in kinds
  BY DEF Seen
<1>5. ASSUME NEW x \in Seen
      PROVE  /\ window'[x] \in Seq(Detector!Times) /\ events'[x] \in Seq(Detector!Times)
             /\ IsEnd(window'[x], events'[x], Rule[x[1]].keep) /\ Ordered(events'[x], now)
  <2>1. CASE Mine(x)
    <3>1. PICK k \in kinds : x = <<k, s>> /\ x[1] = k
      BY <1>4, <2>1
    <3> QED
      BY <1>2, <1>3, <3>1, DetectorAt
  <2>2. CASE ~Mine(x)
    <3>1. window'[x] = window[x] /\ events'[x] = events[x]
      BY <1>1, <2>2
    <3> QED
      BY <3>1 DEF DetectorInv, DetectorTypes, QueuesAreEnds
  <2> QED
    BY <2>1, <2>2
<1>6. \A k \in kinds : Size(k) \in Nat
  BY <1>2, <1>3, DetectorAt DEF Size
<1>7. DetectorTypes'
  <2>1. /\ window' \in [Seen -> Seq(Detector!Times)] /\ events' \in [Seen -> Seq(Detector!Times)]
    BY <1>1, <1>5
  <2>2. now \in Detector!Times
    BY DEF DetectorInv, DetectorTypes
  <2>3. [k \in Kinds |-> IF k \in kinds /\ Size(k) > Rule[k].limit THEN Size(k) ELSE 0]
           \in [Kinds -> Nat]
    BY <1>6
  <2>4. report' \in [key : Keys, at : Detector!Times, kinds : SUBSET Kinds, counts : [Kinds -> Nat]]
    BY <1>1, <2>2, <2>3
  <2> QED
    BY <1>1, <2>1, <2>2, <2>4 DEF DetectorInv, DetectorTypes, Detector!Times
<1>8. Detector!BurstsAreExact'
  <2> SUFFICES ASSUME NEW k \in Kinds
               PROVE  LET n == InWindow(events'[<<k, s>>], now, Rule[k].window)
                      IN  report'.counts[k] = IF k \in kinds /\ n > Rule[k].limit
                                              THEN Least(n, Rule[k].keep) ELSE 0
    <3>1. report'.key = s /\ report'.at = now /\ report'.kinds = kinds
      BY <1>1
    <3> QED
      BY <3>1, WindowOps DEF Detector!BurstsAreExact
  <2>1. report'.counts[k] = IF k \in kinds /\ Size(k) > Rule[k].limit THEN Size(k) ELSE 0
    BY <1>1
  <2>2. CASE k \in kinds
    BY <1>3, <2>1, <2>2, DetectorAt DEF Size
  <2>3. CASE k \notin kinds
    BY <2>1, <2>3
  <2> QED
    BY <2>2, <2>3
<1> QED
  BY <1>1, <1>5, <1>7, <1>8 DEF DetectorInv, QueuesAreEnds, ScansInv

\* A port is probed: the number of ports grows by one at most, so that no threshold
\* is passed over.
LEMMA ProbeStep ==
    ASSUME DetectorInv, NEW s \in Keys, NEW p \in Ports, Detector!Probe(s, p)
    PROVE  DetectorInv'
<1> DEFINE tried == ports[s] \cup {p}
           n == Cardinality(tried)
<1>1. /\ ports' = [ports EXCEPT ![s] = tried]
      /\ scans' = scans \cup {x \in ScanThresholds \X Keys : x = <<n, s>>}
      /\ UNCHANGED <<now, window, events, report>>
  BY Zenon DEF Detector!Probe, Detector!windowVars, Detector!Cardinality, Cardinality
<1>2. /\ IsFiniteSet(tried) /\ Cardinality(ports[s]) \in Nat
      /\ n = Cardinality(ports[s]) \/ n = Cardinality(ports[s]) + 1
  <2>1. IsFiniteSet(ports[s])
    BY DEF DetectorInv, ScansInv
  <2> QED
    BY <2>1, FS_AddElement, FS_CardinalityType
<1> HIDE DEF n
<1>3. DetectorTypes'
  BY <1>1 DEF DetectorInv, DetectorTypes, Detector!Times
<1>4. ScansInv'
  <2>1. ASSUME NEW u \in Keys
        PROVE  IsFiniteSet(ports'[u])
    BY <1>1, <1>2 DEF DetectorInv, DetectorTypes, ScansInv
  <2>2. ASSUME NEW m \in ScanThresholds, NEW u \in Keys, Cardinality(ports'[u]) >= m
        PROVE  <<m, u>> \in scans'
    <3>1. CASE u = s
      <4>1. Cardinality(ports'[u]) = n /\ m \in Nat
        BY <1>1, <3>1, WindowAssumption DEF DetectorInv, DetectorTypes, n
      <4>2. CASE m = n
        BY <1>1, <3>1, <4>2
      <4>3. CASE m # n
        <5>1. Cardinality(ports[s]) >= m
          BY <1>2, <2>2, <4>1, <4>3
        <5> QED
          BY <1>1, <3>1, <5>1 DEF DetectorInv, ScansInv
      <4> QED
        BY <4>2, <4>3
    <3>2. CASE u # s
      BY <1>1, <2>2, <3>2 DEF DetectorInv, DetectorTypes, ScansInv
    <3> QED
      BY <3>1, <3>2
  <2> QED
    BY <2>1, <2>2 DEF ScansInv
<1> QED
  BY <1>1, <1>3, <1>4 DEF DetectorInv, QueuesAreEnds, Detector!BurstsAreExact

\* Every call and the clock keep the invariant of the sentinels.
LEMMA DetectorStep ==
    ASSUME DetectorInv, Detector!Next \/ UNCHANGED detectorVars
    PROVE  DetectorInv'
<1>1. CASE Detector!Tick
  <2>1. /\ now < SentinelTicks /\ now' = now + 1
        /\ UNCHANGED <<window, ports, scans, events, report>>
    BY <1>1 DEF Detector!Tick, Detector!windowVars, Detector!scanVars
  <2>2. DetectorTypes'
    BY <2>1, WindowAssumption DEF DetectorInv, DetectorTypes, Detector!Times
  <2>3. ASSUME NEW x \in Seen
        PROVE  Ordered(events[x], now + 1)
    <3>1. events[x] \in Seq(Int) /\ now \in Int
      <4>1. Detector!Times \in SUBSET Int
        BY WindowAssumption DEF Detector!Times
      <4> QED
        BY <4>1, SeqMonotonic DEF DetectorInv, DetectorTypes
    <3>2. \A i \in DOMAIN events[x] : events[x][i] \in Int /\ events[x][i] <= now
      BY <3>1 DEF DetectorInv, QueuesAreEnds, Ordered
    <3>3. \A i \in DOMAIN events[x] : events[x][i] <= now + 1
      BY <3>1, <3>2
    <3> QED
      BY <3>3 DEF DetectorInv, QueuesAreEnds, Ordered
  <2> QED
    BY <2>1, <2>2, <2>3 DEF DetectorInv, QueuesAreEnds, ScansInv, Detector!BurstsAreExact
<1>2. CASE UNCHANGED detectorVars
  BY <1>2 DEF detectorVars, DetectorInv, DetectorTypes, Detector!Times, QueuesAreEnds, ScansInv,
              Detector!BurstsAreExact
<1> QED
  BY <1>1, <1>2, AnalyzeStep, ProbeStep DEF Detector!Next

\* The sentinels rest while another component is at work, and keep their invariant.
LEMMA DetectorAlways == Spec => []DetectorInv
<1>1. Init => DetectorInv
  BY DetectorInit DEF Init
<1>2. DetectorInv /\ [Next]_vars => DetectorInv'
  BY DetectorStep, ComponentSteps
<1> QED
  BY <1>1, <1>2, PTL DEF Spec

\* What the sentinels report is what happened: a burst exactly if there was one, as
\* large as the queue has room for, and every threshold of a scan that was reached.
THEOREM ReportsSafe == Spec => []ReportsAreExact
<1>1. DetectorInv => ReportsAreExact
  <2> SUFFICES ASSUME DetectorInv
               PROVE  Detector!BurstsAreExact /\ Detector!ScansAreReported
    BY DEF ReportsAreExact, Detector!ReportsAreExact
  <2>1. \A S : Detector!Cardinality(S) = Cardinality(S)
    BY DEF Detector!Cardinality, Cardinality
  <2>2. \A x \in ScanThresholds \X Keys : x = <<x[1], x[2]>> /\ x[1] \in ScanThresholds /\ x[2] \in Keys
    OBVIOUS
  <2> QED
    BY <2>1, <2>2 DEF DetectorInv, ScansInv, Detector!ScansAreReported
<1> QED
  BY <1>1, DetectorAlways, PTL

(***************************************************************************)
(* Accounts                                                                *)
(***************************************************************************)
AccountTypes ==
    /\ organisations \in [Emails -> Orgs \cup {None}]
    /\ drawn \in [Orgs -> Emails \cup {None}]
    /\ life \in Nat
    /\ \A t \in tokens : t.email \in Emails /\ t.org \in Orgs /\ t.life \in 0..life

\* An id belongs, for good, to the email it was drawn for: so says whatever still
\* names it, a registered organisation or a token of any life of the server.
DrawnFor ==
    /\ \A e \in Emails : organisations[e] # None => drawn[organisations[e]] = e
    /\ \A t \in tokens : drawn[t.org] = t.email

\* A token of this life names the organisation that is registered now.
ThisLife == \A t \in tokens : t.life = life => t.org = organisations[t.email]

AccountInv == AccountTypes /\ DrawnFor /\ ThisLife

\* No token was issued, and no entity created.
LEMMA AccountInit == Orgas!Init => AccountInv
BY DEF Orgas!Init, AccountInv, AccountTypes, DrawnFor, ThisLife

\* Signing up and in, entities, the clock and restarts keep the invariant of the accounts.
LEMMA AccountStep ==
    ASSUME AccountInv, Orgas!Next \/ UNCHANGED orgVars
    PROVE  AccountInv'
<1> USE ServerAssumption DEF AccountInv, AccountTypes, DrawnFor, ThisLife
<1>1. ASSUME NEW e \in Emails, NEW o \in Orgs, Orgas!Signup(e, o)
      PROVE  AccountInv'
  \* None of this life's tokens is for e: it would name e's organisation, and e
  \* has none.
  <2>1. \A t \in tokens : t.org # o /\ (t.life = life => t.email # e)
    BY <1>1 DEF Orgas!Signup
  <2>2. \A t \in tokens' : t \in tokens \/ (t.email = e /\ t.org = o /\ t.life = life)
    BY <1>1 DEF Orgas!Signup, Orgas!Issue
  <2>3. AccountTypes'
    BY <1>1, <2>2 DEF Orgas!Signup
  <2>4. DrawnFor'
    BY <1>1, <2>1, <2>2 DEF Orgas!Signup
  <2>5. ThisLife'
    BY <1>1, <2>1, <2>2 DEF Orgas!Signup
  <2> QED
    BY <2>3, <2>4, <2>5
<1>2. ASSUME NEW e \in Emails, Orgas!Signin(e)
      PROVE  AccountInv'
  <2>1. \A t \in tokens' :
           t \in tokens \/ (t.email = e /\ t.org = organisations[e] /\ t.life = life)
    BY <1>2 DEF Orgas!Signin, Orgas!Issue
  <2> QED
    BY <1>2, <2>1 DEF Orgas!Signin
<1>3. ASSUME NEW t \in tokens, NEW x \in Entities, Orgas!CreateEntity(t, x)
      PROVE  AccountInv'
  BY <1>3 DEF Orgas!CreateEntity
<1>4. CASE Orgas!Restart
  BY <1>4 DEF Orgas!Restart
<1>5. CASE Orgas!Tick
  BY <1>5 DEF Orgas!Tick
<1>6. CASE UNCHANGED orgVars
  BY <1>6 DEF orgVars
<1> QED
  BY <1>1, <1>2, <1>3, <1>4, <1>5, <1>6 DEF Orgas!Next

\* A token names the organisation registered under its email, and tokens of
\* different emails list no entity in common, whatever restarts forget.
THEOREM AccountsSafe == Spec => []OneOrganisation
<1>1. AccountInv => OneOrganisation
  BY DEF AccountInv, DrawnFor, ThisLife, OneOrganisation, Orgas!OneOrganisation, Orgas!Listed
<1>2. Init => AccountInv
  BY AccountInit DEF Init
<1>3. AccountInv /\ [Next]_vars => AccountInv'
  BY AccountStep, ComponentSteps
<1> QED
  BY <1>1, <1>2, <1>3, PTL DEF Spec

(***************************************************************************)
(* The set-up of the database                                              *)
(***************************************************************************)
TableExists(t) == schema[t] # None

\* What a server has done with table t, and has yet to do: it has not looked at
\* it, or found it missing, or the table is there; then it creates it or the table
\* is there; then every column of an altered table is to be added, or there, or was
\* skipped.
Progress(s, t) ==
    /\ phase[s] = "looking" => t \in todo[s] \/ t \in found[s] \/ TableExists(t)
    /\ phase[s] = "creating" => t \in todo[s] \/ TableExists(t)
    /\ phase[s] \in {"altering", "ready"} => TableExists(t)
    /\ phase[s] = "altering" =>
          \A c \in Columns :
             t \in Altered => <<t, c>> \in todo[s] \/ c \in schema[t] \/ skipped[s]
    /\ phase[s] = "ready" =>
          \A c \in Columns : t \in Altered => c \in schema[t] \/ skipped[s]

\* A table that is not altered is as it came, or was missing and is not or complete.
AsItCame(t) ==
    t \notin Altered => schema[t] = older[t] \/ (older[t] = None /\ schema[t] = Columns)

\* One that was missing and is there is complete.
MadeWhole(t) == older[t] = None => schema[t] = None \/ schema[t] = Columns

SchemaTypes ==
    /\ schema \in [Tables -> (SUBSET Columns) \cup {None}]
    /\ phase \in [Servers -> Database!Phases]
    /\ DOMAIN todo = Servers
    /\ found \in [Servers -> SUBSET Tables]
    /\ older \in [Tables -> (SUBSET Columns) \cup {None}]
    /\ skipped \in [Servers -> BOOLEAN]

\* What a server has yet to add is columns of altered tables.
ColumnsToAdd == \A s \in Servers : phase[s] = "altering" => todo[s] \subseteq Altered \X Columns

SchemaInv ==
    /\ SchemaTypes /\ ColumnsToAdd
    /\ \A s \in Servers, t \in Tables : Progress(s, t)
    /\ \A t \in Tables : AsItCame(t) /\ MadeWhole(t)

\* No server has begun.
LEMMA SchemaInit == Database!Init => SchemaInv
BY DEF Database!Init, SchemaInv, SchemaTypes, ColumnsToAdd, Progress, AsItCame, MadeWhole,
       Database!Phases

\* What others do to the file does no harm: tables and columns are only added.
Grows == \A t \in Tables : TableExists(t) => TableExists(t)' /\ schema[t] \subseteq schema'[t]

\* What a server has done stays done while others add tables and columns.
LEMMA ProgressKept ==
    ASSUME Grows, NEW s \in Servers, NEW t \in Tables, Progress(s, t),
           phase'[s] = phase[s], todo'[s] = todo[s],
           found'[s] = found[s], skipped'[s] = skipped[s]
    PROVE  Progress(s, t)'
BY DEF Grows, Progress

\* What is to be added is taken from all columns of the altered tables.
LEMMA ColumnsToAddStep ==
    ASSUME SchemaInv, Database!Next \/ UNCHANGED schemaVars
    PROVE  ColumnsToAdd'
<1> USE DEF SchemaInv, SchemaTypes, ColumnsToAdd, Database!Enter
<1>1. ASSUME NEW s \in Servers, Database!Created(s)
      PROVE  ColumnsToAdd'
  BY <1>1 DEF Database!Created
<1>2. ASSUME NEW s \in Servers, NEW t \in Tables, NEW c \in Columns, Database!Alter(s, t, c)
      PROVE  ColumnsToAdd'
  BY <1>2 DEF Database!Alter
<1>3. ASSUME NEW s \in Servers,
             \/ Database!Start(s) \/ Database!CreateFails(s)
             \/ Database!Ready(s) \/ Database!Crash(s)
      PROVE  ColumnsToAdd'
  BY <1>3 DEF Database!Start, Database!CreateFails, Database!Ready, Database!Crash
<1>4. ASSUME NEW s \in Servers, NEW t \in Tables, Database!Look(s, t) \/ Database!Create(s, t)
      PROVE  ColumnsToAdd'
  BY <1>4 DEF Database!Look, Database!Create
<1>5. CASE UNCHANGED schemaVars
  BY <1>5 DEF schemaVars
<1> QED
  BY <1>1, <1>2, <1>3, <1>4, <1>5 DEF Database!Next

\* A table changes by its creation, with every column, or, if it is altered, by one
\* column more.
LEMMA TablesStep ==
    ASSUME SchemaInv, Database!Next \/ UNCHANGED schemaVars, NEW t \in Tables
    PROVE  AsItCame(t)' /\ MadeWhole(t)'
<1> USE DEF SchemaInv, SchemaTypes, AsItCame, MadeWhole
<1>1. \/ UNCHANGED <<schema, older>>
      \/ \E s \in Servers, u \in Tables :
            Database!Create(s, u) \/ \E c \in Columns : Database!Alter(s, u, c)
  BY DEF Database!Next, Database!Start, Database!Look, Database!CreateFails, Database!Created,
         Database!Ready, Database!Crash, schemaVars
<1>2. ASSUME NEW s \in Servers, NEW u \in Tables, Database!Create(s, u)
      PROVE  AsItCame(t)' /\ MadeWhole(t)'
  BY <1>2 DEF Database!Create
<1>3. ASSUME NEW s \in Servers, NEW u \in Tables, NEW c \in Columns, Database!Alter(s, u, c)
      PROVE  AsItCame(t)' /\ MadeWhole(t)'
  <2>1. u \in Altered /\ schema[u] # None
    BY <1>3 DEF Database!Alter, ColumnsToAdd, Progress, TableExists
  <2>2. /\ older' = older
        /\ schema'[t] = schema[t] \/ (t = u /\ schema'[t] = schema[t] \cup {c})
    BY <1>3 DEF Database!Alter
  <2>3. schema[t] = Columns => schema[t] \cup {c} = Columns
    OBVIOUS
  <2> QED
    BY <2>1, <2>2, <2>3
<1> QED
  BY <1>1, <1>2, <1>3

\* The types, and the progress of every server with every table.
Advanced == SchemaTypes /\ \A s \in Servers, t \in Tables : Progress(s, t)

\* Every statement of every server, a failed or interrupted one too, keeps what is done.
LEMMA ProgressStep ==
    ASSUME SchemaInv, Database!Next \/ UNCHANGED schemaVars
    PROVE  Advanced'
<1> USE ServerAssumption DEF SchemaInv, SchemaTypes, Advanced, Database!Phases, Database!Enter
<1>1. ASSUME NEW s \in Servers, Grows, SchemaTypes',
             \A t \in Tables : Progress(s, t)',
             \A z \in Servers \ {s} :
                /\ phase'[z] = phase[z] /\ todo'[z] = todo[z]
                /\ found'[z] = found[z] /\ skipped'[z] = skipped[z]
      PROVE  Advanced'
  BY <1>1, ProgressKept
<1>2. (\A t \in Tables : schema'[t] = schema[t]) => Grows
  BY DEF Grows, TableExists
<1>3. ASSUME NEW s \in Servers, Database!Start(s)
      PROVE  Advanced'
  <2>1. \A t \in Tables : Progress(s, t)'
    BY <1>3 DEF Database!Start, Progress
  <2> QED
    BY <1>1, <1>2, <1>3, <2>1 DEF Database!Start
<1>4. ASSUME NEW s \in Servers, NEW t \in Tables, Database!Look(s, t)
      PROVE  Advanced'
  <2>1. \A u \in Tables : Progress(s, u)'
    BY <1>4 DEF Database!Look, Progress, TableExists
  <2>2. SchemaTypes'
    BY <1>4 DEF Database!Look
  <2> QED
    BY <1>1, <1>2, <1>4, <2>1, <2>2 DEF Database!Look
<1>5. ASSUME NEW s \in Servers,
             \/ Database!CreateFails(s) \/ Database!Created(s)
             \/ Database!Ready(s) \/ Database!Crash(s)
      PROVE  Advanced'
  <2>1. ASSUME NEW t \in Tables
        PROVE  Progress(s, t)'
    <3>1. CASE Database!CreateFails(s) \/ Database!Crash(s)
      BY <3>1 DEF Database!CreateFails, Database!Crash, Progress
    <3>2. CASE Database!Created(s)
      BY <3>2 DEF Database!Created, Progress, TableExists
    <3>3. CASE Database!Ready(s)
      BY <3>3 DEF Database!Ready, Progress, TableExists
    <3> QED
      BY <1>5, <3>1, <3>2, <3>3
  <2> QED
    BY <1>1, <1>2, <1>5, <2>1
    DEF Database!CreateFails, Database!Created, Database!Ready, Database!Crash
<1>6. ASSUME NEW s \in Servers, NEW t \in Tables, Database!Create(s, t)
      PROVE  Advanced'
  <2>1. Grows
    BY <1>6 DEF Database!Create, Grows, TableExists
  <2>2. \A u \in Tables : Progress(s, u)'
    BY <1>6 DEF Database!Create, Progress, TableExists
  <2> QED
    BY <1>1, <1>6, <2>1, <2>2 DEF Database!Create
<1>7. ASSUME NEW s \in Servers, NEW t \in Tables, NEW c \in Columns, Database!Alter(s, t, c)
      PROVE  Advanced'
  <2>1. TableExists(t) /\ schema[t] \in SUBSET Columns
    <3>1. phase[s] = "altering" /\ Progress(s, t)
      BY <1>7 DEF Database!Alter
    <3> QED
      BY <3>1 DEF Progress, TableExists
  <2>2. Grows
    BY <1>7, <2>1 DEF Database!Alter, Grows, TableExists
  <2>3. \A u \in Tables : Progress(s, u)'
    BY <1>7, <2>1, <2>2 DEF Database!Alter, Progress, TableExists, Grows
  <2>4. SchemaTypes'
    <3>1. (schema[t] \cup {c}) \in SUBSET Columns
      BY <2>1
    <3>2. schema' \in [Tables -> (SUBSET Columns) \cup {None}]
      BY <1>7, <3>1 DEF Database!Alter
    <3> QED
      BY <1>7, <3>2 DEF Database!Alter
  <2> QED
    BY <1>1, <1>7, <2>2, <2>3, <2>4 DEF Database!Alter
<1>8. CASE UNCHANGED schemaVars
  BY <1>8 DEF schemaVars, Progress, TableExists
<1> QED
  BY <1>3, <1>4, <1>5, <1>6, <1>7, <1>8 DEF Database!Next

\* A step of the set-up keeps its invariant.
LEMMA SchemaStep ==
    ASSUME SchemaInv, Database!Next \/ UNCHANGED schemaVars
    PROVE  SchemaInv'
BY ProgressStep, ColumnsToAddStep, TablesStep DEF SchemaInv, Advanced

\* What the theorems about the set-up rest on.
LEMMA SchemaAlways == Spec => []SchemaInv
<1>1. Init => SchemaInv
  BY SchemaInit DEF Init
<1>2. SchemaInv /\ [Next]_vars => SchemaInv'
  BY SchemaStep, ComponentSteps
<1> QED
  BY <1>1, <1>2, PTL DEF Spec

\* A server that is ready finds the altered tables, and those the file did not
\* have, with every column and the others as they came, however many start on one
\* file and crash, unless a lock made it skip a column.
THEOREM SchemaSafe == Spec => []SchemaComplete
<1>1. SchemaInv => SchemaComplete
  <2> SUFFICES ASSUME SchemaInv, NEW s \in Servers, phase[s] = "ready", ~skipped[s],
                      NEW t \in Tables
               PROVE  schema[t] = Database!Owed(t)
    BY DEF SchemaComplete, Database!SchemaComplete
  <2>1. TableExists(t) /\ schema[t] \in SUBSET Columns /\ AsItCame(t) /\ MadeWhole(t)
    BY DEF SchemaInv, SchemaTypes, Progress, TableExists
  <2>2. t \in Altered => \A c \in Columns : c \in schema[t]
    BY DEF SchemaInv, Progress
  <2> QED
    BY <2>1, <2>2 DEF AsItCame, MadeWhole, TableExists, Database!Owed
<1> QED
  BY <1>1, SchemaAlways, PTL

(***************************************************************************)
(* The registry of entities                                                *)
(***************************************************************************)
Rows == [quarantined : BOOLEAN, session_count : Nat, blocked_count : Nat]

RegistryTypes ==
    /\ row \in [Entities -> Rows \cup {Registry!Unborn, Registry!Deleted}]
    /\ recorded \in [Tests -> Registry!Verdicts \cup {"none"}]
    /\ filter \in [Entities -> {"none", "PERMIT", "REVOKE"}]
    /\ tpc \in [Tests -> {"idle", "evaluating", "recording", "done", "refused", "raised"}]
    /\ source \in [Tests -> Entities \cup {None}]
    /\ verdict \in [Tests -> Registry!Verdicts \cup {"none"}]
    /\ epc \in [Editors -> {"idle", "writing", "revoking", "done", "refused", "raised"}]
    /\ target \in [Editors -> Entities \cup {None}]
    /\ edit \in [Editors -> Registry!Tasks \cup {"none"}]
    /\ read \in [Editors -> BOOLEAN]
    /\ lost \subseteq Editors /\ overruled \subseteq Editors

\* What a row may become: it is none of the two that stand for no row, neither
\* when it is counted up nor when its flag is set.
LEMMA RowOps ==
    /\ Registry!NewRow \in Rows /\ ~Registry!NewRow.quarantined
    /\ Registry!NewRow.session_count = 0 /\ Registry!NewRow.blocked_count = 0
    /\ Registry!Unborn # Registry!Deleted
    /\ Registry!Unborn \notin Rows /\ Registry!Deleted \notin Rows
    /\ \A r \in Rows, v \in Registry!Verdicts :
          /\ Registry!Counted(r, v) \in Rows
          /\ Registry!Counted(r, v).quarantined = r.quarantined
          /\ Registry!Counted(r, v).session_count = r.session_count + 1
          /\ Registry!Counted(r, v).blocked_count =
                IF v = "DENY" THEN r.blocked_count + 1 ELSE r.blocked_count
    /\ \A r \in Rows, b \in BOOLEAN :
          LET s == [r EXCEPT !.quarantined = b]
          IN  /\ s \in Rows /\ s.quarantined = b
              /\ s.session_count = r.session_count /\ s.blocked_count = r.blocked_count
<1>1. /\ Registry!NewRow \in Rows /\ ~Registry!NewRow.quarantined
      /\ Registry!NewRow.session_count = 0 /\ Registry!NewRow.blocked_count = 0
  BY DEF Registry!NewRow, Rows
<1>2. Registry!Unborn # Registry!Deleted
  BY DEF Registry!Unborn, Registry!Deleted
<1>3. Registry!Unborn \notin Rows /\ Registry!Deleted \notin Rows
  BY DEF Registry!Unborn, Registry!Deleted, Rows
<1>4. \A r \in Rows, v \in Registry!Verdicts :
          /\ Registry!Counted(r, v) \in Rows
          /\ Registry!Counted(r, v).quarantined = r.quarantined
          /\ Registry!Counted(r, v).session_count = r.session_count + 1
          /\ Registry!Counted(r, v).blocked_count =
                IF v = "DENY" THEN r.blocked_count + 1 ELSE r.blocked_count
  <2> SUFFICES ASSUME NEW r \in Rows, NEW v \in Registry!Verdicts
               PROVE  LET c == Registry!Counted(r, v)
                      IN  /\ c \in Rows
                          /\ c.quarantined = r.quarantined
                          /\ c.session_count = r.session_count + 1
                          /\ c.blocked_count =
                                IF v = "DENY" THEN r.blocked_count + 1 ELSE r.blocked_count
    OBVIOUS
  <2>1. PICK once : once = [r EXCEPT !.session_count = r.session_count + 1]
    OBVIOUS
  <2>2. PICK n : n = IF v = "DENY" THEN r.blocked_count + 1 ELSE r.blocked_count
    OBVIOUS
  <2>3. once.blocked_count = r.blocked_count
    BY <2>1 DEF Rows
  <2>4. Registry!Counted(r, v) = [once EXCEPT !.blocked_count = n]
    BY <2>1, <2>2, <2>3, Zenon DEF Registry!Counted
  <2>5. once \in Rows /\ n \in Nat
    BY <2>1, <2>2 DEF Rows
  <2> QED
    BY <2>1, <2>2, <2>4, <2>5 DEF Rows
<1>5. \A r \in Rows, b \in BOOLEAN :
          LET s == [r EXCEPT !.quarantined = b]
          IN  /\ s \in Rows /\ s.quarantined = b
              /\ s.session_count = r.session_count /\ s.blocked_count = r.blocked_count
  BY DEF Rows
<1> QED
  BY <1>1, <1>2, <1>3, <1>4, <1>5

\* A test that has begun knows its source, and one that has read it read a row
\* that was there once; it records its verdict at its end.
TestsInOrder ==
    \A t \in Tests :
        /\ tpc[t] = "idle" => source[t] = None
        /\ tpc[t] \in {"evaluating", "recording", "done", "raised"} =>
              source[t] \in Entities /\ row[source[t]] # Registry!Unborn
        /\ tpc[t] = "recording" => verdict[t] \in Registry!Verdicts
        /\ recorded[t] # "none" <=> tpc[t] = "done"

\* The same of an editor.
EditorsInOrder ==
    \A x \in Editors :
        /\ epc[x] = "idle" => target[x] = None /\ edit[x] = "none"
        /\ epc[x] # "idle" => target[x] \in Entities /\ edit[x] \in Registry!Tasks
        /\ epc[x] \in {"writing", "revoking", "done", "raised"} =>
              row[target[x]] # Registry!Unborn
        /\ epc[x] = "revoking" => edit[x] = "quarantine"

\* QuarantineHolds speaks of a quarantine that was committed.  One that read the
\* entity quarantined sends no UPDATE and relies on what it read.
QuarantineKept ==
    \A x \in Editors :
        /\ edit[x] = "quarantine"
        /\ epc[x] \in {"revoking", "done"} \/ (epc[x] = "writing" /\ read[x])
        /\ \A y \in Editors : target[y] = target[x] => edit[y] # "release"
        => LET e == target[x] IN Registry!Exists(e) => row[e].quarantined

RegistryInv ==
    /\ RegistryTypes /\ TestsInOrder /\ EditorsInOrder
    /\ QuarantineKept /\ QuarantineCutsOff

\* The tables are empty.
LEMMA RegistryInit == Registry!Init => RegistryInv
<1> SUFFICES ASSUME Registry!Init
             PROVE  RegistryInv
  OBVIOUS
<1> USE DEF Registry!Init
<1>1. RegistryTypes
  BY DEF RegistryTypes
<1>2. TestsInOrder /\ EditorsInOrder
  BY DEF TestsInOrder, EditorsInOrder
<1>3. QuarantineKept /\ QuarantineCutsOff
  BY DEF QuarantineKept, QuarantineCutsOff, Registry!QuarantineCutsOff
<1> QED
  BY <1>1, <1>2, <1>3 DEF RegistryInv

\* A row once drawn is never undrawn, and one that is deleted stays deleted; this
\* is what makes a stale row harmless.
RowsAge ==
    \A e \in Entities :
        /\ row[e] # Registry!Unborn => row'[e] # Registry!Unborn
        /\ row[e] = Registry!Deleted => row'[e] = Registry!Deleted

\* Types, and the age of rows, over a step.
LEMMA RegistryTypeStep ==
    ASSUME RegistryInv, Registry!Next \/ UNCHANGED registryVars
    PROVE  RegistryTypes' /\ RowsAge
<1> USE RowOps DEF RegistryInv, RegistryTypes, RowsAge, Registry!Exists,
                   Registry!testVars, Registry!editVars, Registry!filterVars
<1>1. ASSUME NEW e \in Entities, Registry!Create(e)
      PROVE  RegistryTypes' /\ RowsAge
  BY <1>1 DEF Registry!Create
<1>2. ASSUME NEW t \in Tests, NEW e \in Entities, Registry!TestRead(t, e)
      PROVE  RegistryTypes' /\ RowsAge
  BY <1>2 DEF Registry!TestRead
<1>3. ASSUME NEW t \in Tests, NEW v \in Registry!Verdicts, Registry!TestVerdict(t, v)
      PROVE  RegistryTypes' /\ RowsAge
  <2>1. /\ filter' \in [Entities -> {"none", "PERMIT", "REVOKE"}]
        /\ lost' \subseteq Editors /\ overruled' \subseteq Editors
    BY <1>3 DEF Registry!TestVerdict, Registry!Command
  <2>2. /\ verdict' \in [Tests -> Registry!Verdicts \cup {"none"}]
        /\ tpc' \in [Tests -> {"idle", "evaluating", "recording", "done", "refused", "raised"}]
    BY <1>3 DEF Registry!TestVerdict
  <2> QED
    BY <1>3, <2>1, <2>2 DEF Registry!TestVerdict
<1>4. ASSUME NEW t \in Tests, Registry!TestRecord(t)
      PROVE  RegistryTypes' /\ RowsAge
  <2>1. source[t] \in Entities /\ verdict[t] \in Registry!Verdicts
    BY <1>4 DEF Registry!TestRecord, TestsInOrder
  <2> QED
    BY <1>4, <2>1 DEF Registry!TestRecord
<1>5. ASSUME NEW t \in Tests, Registry!TestRecordFails(t)
      PROVE  RegistryTypes' /\ RowsAge
  BY <1>5 DEF Registry!TestRecordFails
<1>6. ASSUME NEW x \in Editors, NEW e \in Entities, NEW what \in Registry!Tasks,
             Registry!EditRead(x, e, what)
      PROVE  RegistryTypes' /\ RowsAge
  <2>1. Registry!Exists(e) => row[e].quarantined \in BOOLEAN
    BY DEF Rows
  <2>2. /\ epc' \in [Editors -> {"idle", "writing", "revoking", "done", "refused", "raised"}]
        /\ target' \in [Editors -> Entities \cup {None}]
        /\ edit' \in [Editors -> Registry!Tasks \cup {"none"}]
    BY <1>6 DEF Registry!EditRead
  <2>3. read' \in [Editors -> BOOLEAN]
    BY <1>6, <2>1 DEF Registry!EditRead
  <2> QED
    BY <1>6, <2>2, <2>3 DEF Registry!EditRead
<1>7. ASSUME NEW x \in Editors, Registry!DeleteWrite(x)
      PROVE  RegistryTypes' /\ RowsAge
  <2>1. target[x] \in Entities /\ row[target[x]] # Registry!Unborn
    BY <1>7 DEF Registry!DeleteWrite, EditorsInOrder
  <2> QED
    BY <1>7, <2>1 DEF Registry!DeleteWrite
<1>8. ASSUME NEW x \in Editors, Registry!FlagWrite(x)
      PROVE  RegistryTypes' /\ RowsAge
  <2>1. PICK e \in Entities, flag \in BOOLEAN :
           e = target[x] /\ flag = (edit[x] = "quarantine")
    BY <1>8 DEF Registry!FlagWrite, EditorsInOrder
  <2>2. CASE row' = row
    BY <1>8, <2>2 DEF Registry!FlagWrite
  <2>3. CASE row' # row
    <3>1. /\ row[e] \in Rows
          /\ row' = [row EXCEPT ![e] = [row[e] EXCEPT !.quarantined = flag]]
      BY <1>8, <2>1, <2>3 DEF Registry!FlagWrite
    <3>2. row'[e] \in Rows /\ \A z \in Entities \ {e} : row'[z] = row[z]
      BY <3>1
    <3>3. row' \in [Entities -> Rows \cup {Registry!Unborn, Registry!Deleted}]
      BY <3>1
    <3>4. /\ epc' \in [Editors -> {"idle", "writing", "revoking", "done", "refused", "raised"}]
          /\ UNCHANGED <<recorded, Registry!filterVars, Registry!testVars, target, edit, read>>
      BY <1>8 DEF Registry!FlagWrite
    <3>5. RegistryTypes'
      BY <3>3, <3>4
    <3> QED
      BY <3>1, <3>2, <3>5
  <2> QED
    BY <2>2, <2>3
<1>9. ASSUME NEW x \in Editors, Registry!EditFails(x)
      PROVE  RegistryTypes' /\ RowsAge
  BY <1>9 DEF Registry!EditFails
<1>10. ASSUME NEW x \in Editors, Registry!QuarantineRevoke(x)
       PROVE  RegistryTypes' /\ RowsAge
  <2>1. /\ filter' \in [Entities -> {"none", "PERMIT", "REVOKE"}]
        /\ lost' \subseteq Editors /\ overruled' \subseteq Editors
    BY <1>10 DEF Registry!QuarantineRevoke, Registry!Command
  <2>2. epc' \in [Editors -> {"idle", "writing", "revoking", "done", "refused", "raised"}]
    BY <1>10 DEF Registry!QuarantineRevoke
  <2> QED
    BY <1>10, <2>1, <2>2 DEF Registry!QuarantineRevoke
<1>11. CASE UNCHANGED registryVars
  BY <1>11 DEF registryVars
<1> QED
  BY <1>1, <1>2, <1>3, <1>4, <1>5, <1>6, <1>7, <1>8, <1>9, <1>10, <1>11 DEF Registry!Next

\* The order of the steps of a test and of an editor.
LEMMA OrderStep ==
    ASSUME RegistryInv, Registry!Next \/ UNCHANGED registryVars
    PROVE  TestsInOrder' /\ EditorsInOrder'
<1>0. RegistryTypes /\ RowsAge
  BY RegistryTypeStep DEF RegistryInv
<1> USE <1>0 DEF RegistryInv, TestsInOrder, EditorsInOrder, RowsAge,
                 Registry!testVars, Registry!editVars
<1>1. ASSUME UNCHANGED <<recorded, Registry!testVars>>
      PROVE  TestsInOrder'
  BY <1>1 DEF RegistryTypes
<1>2. ASSUME UNCHANGED Registry!editVars
      PROVE  EditorsInOrder'
  BY <1>2 DEF RegistryTypes
<1>3. ASSUME NEW e \in Entities, Registry!Create(e)
      PROVE  TestsInOrder' /\ EditorsInOrder'
  BY <1>1, <1>2, <1>3 DEF Registry!Create
<1>4. ASSUME NEW t \in Tests, NEW e \in Entities, Registry!TestRead(t, e)
      PROVE  TestsInOrder' /\ EditorsInOrder'
  <2>1. TestsInOrder'
    BY <1>4 DEF Registry!TestRead, Registry!Exists, RegistryTypes
  <2> QED
    BY <1>2, <1>4, <2>1 DEF Registry!TestRead
<1>5. ASSUME NEW t \in Tests, NEW v \in Registry!Verdicts, Registry!TestVerdict(t, v)
      PROVE  TestsInOrder' /\ EditorsInOrder'
  <2>1. TestsInOrder'
    BY <1>5 DEF Registry!TestVerdict, RegistryTypes
  <2> QED
    BY <1>2, <1>5, <2>1 DEF Registry!TestVerdict
<1>6. ASSUME NEW t \in Tests, Registry!TestRecord(t)
      PROVE  TestsInOrder' /\ EditorsInOrder'
  <2>1. TestsInOrder'
    BY <1>6 DEF Registry!TestRecord, Registry!Verdicts, RegistryTypes
  <2> QED
    BY <1>2, <1>6, <2>1 DEF Registry!TestRecord
<1>7. ASSUME NEW t \in Tests, Registry!TestRecordFails(t)
      PROVE  TestsInOrder' /\ EditorsInOrder'
  <2>1. TestsInOrder'
    BY <1>7 DEF Registry!TestRecordFails, RegistryTypes
  <2> QED
    BY <1>2, <1>7, <2>1 DEF Registry!TestRecordFails
<1>8. ASSUME NEW x \in Editors, NEW e \in Entities, NEW what \in Registry!Tasks,
             Registry!EditRead(x, e, what)
      PROVE  TestsInOrder' /\ EditorsInOrder'
  <2>1. EditorsInOrder'
    BY <1>8 DEF Registry!EditRead, Registry!Exists, RegistryTypes
  <2> QED
    BY <1>1, <1>8, <2>1 DEF Registry!EditRead
<1>9. ASSUME NEW x \in Editors,
             \/ Registry!DeleteWrite(x) \/ Registry!FlagWrite(x)
             \/ Registry!EditFails(x) \/ Registry!QuarantineRevoke(x)
      PROVE  TestsInOrder' /\ EditorsInOrder'
  <2>1. EditorsInOrder'
    BY <1>9 DEF Registry!DeleteWrite, Registry!FlagWrite, Registry!EditFails,
                Registry!QuarantineRevoke, RegistryTypes
  <2> QED
    BY <1>1, <1>9, <2>1
    DEF Registry!DeleteWrite, Registry!FlagWrite, Registry!EditFails, Registry!QuarantineRevoke
<1>10. CASE UNCHANGED registryVars
  BY <1>1, <1>2, <1>10 DEF registryVars
<1> QED
  BY <1>3, <1>4, <1>5, <1>6, <1>7, <1>8, <1>9, <1>10 DEF Registry!Next

\* A row keeps its flag unless an editor that is about it writes it, and a row that
\* is new comes without.
LEMMA FlagChanges ==
    ASSUME RegistryInv, Registry!Next \/ UNCHANGED registryVars,
           NEW e \in Entities, row[e] # Registry!Unborn, Registry!Exists(e)'
    PROVE  /\ Registry!Exists(e)
           /\ \/ row'[e].quarantined = row[e].quarantined
              \/ \E x \in Editors :
                    /\ target[x] = e /\ epc[x] = "writing"
                    /\ edit[x] # "delete"
                    /\ row'[e].quarantined = (edit[x] = "quarantine")
<1> USE RowOps DEF RegistryInv, RegistryTypes, Registry!Exists
<1>1. Registry!Exists(e)
  BY RegistryTypeStep DEF RowsAge
<1>2. CASE row'[e] = row[e]
  BY <1>1, <1>2
<1>3. ASSUME NEW t \in Tests, Registry!TestRecord(t), row'[e] # row[e]
      PROVE  row'[e].quarantined = row[e].quarantined
  <2>1. row[e] \in Rows /\ verdict[t] \in Registry!Verdicts
    BY <1>1, <1>3 DEF Registry!TestRecord, TestsInOrder
  <2>2. row'[e] = Registry!Counted(row[e], verdict[t])
    BY <1>3 DEF Registry!TestRecord
  <2> QED
    BY <2>1, <2>2
<1>4. ASSUME NEW x \in Editors, Registry!FlagWrite(x), row'[e] # row[e]
      PROVE  /\ target[x] = e /\ epc[x] = "writing" /\ edit[x] # "delete"
             /\ row'[e].quarantined = (edit[x] = "quarantine")
  <2>1. PICK flag \in BOOLEAN : flag = (edit[x] = "quarantine")
    OBVIOUS
  <2>2. target[x] = e /\ row'[e] = [row[e] EXCEPT !.quarantined = flag]
    BY <1>4, <2>1 DEF Registry!FlagWrite
  <2>3. row'[e].quarantined = flag
    BY <1>1, <2>2
  <2> QED
    BY <1>4, <2>1, <2>2, <2>3 DEF Registry!FlagWrite
<1>5. CASE \E x \in Editors : Registry!DeleteWrite(x)
  BY <1>2, <1>5 DEF Registry!DeleteWrite
<1>6. \/ row' = row
      \/ \E z \in Entities : Registry!Create(z)
      \/ \E t \in Tests : Registry!TestRecord(t)
      \/ \E x \in Editors : Registry!DeleteWrite(x) \/ Registry!FlagWrite(x)
  BY DEF Registry!Next, registryVars, Registry!TestRead, Registry!TestVerdict,
         Registry!TestRecordFails, Registry!EditRead, Registry!EditFails,
         Registry!QuarantineRevoke
<1>7. CASE \E z \in Entities : Registry!Create(z)
  BY <1>2, <1>7 DEF Registry!Create
<1> QED
  BY <1>1, <1>2, <1>3, <1>4, <1>5, <1>6, <1>7

\* What a step does to an editor: once begun it is about the same entity for good,
\* and where it is comes of where it was.
LEMMA EditorMoves ==
    ASSUME RegistryInv, Registry!Next \/ UNCHANGED registryVars, NEW x \in Editors
    PROVE  /\ epc[x] # "idle" =>
                 target'[x] = target[x] /\ edit'[x] = edit[x] /\ read'[x] = read[x]
           /\ \/ epc'[x] = epc[x]
              \/ epc[x] = "idle" /\ \E e \in Entities, what \in Registry!Tasks :
                                       Registry!EditRead(x, e, what)
              \/ /\ epc[x] = "writing"
                 /\ Registry!FlagWrite(x) \/ Registry!DeleteWrite(x) \/ epc'[x] = "raised"
              \/ epc[x] = "revoking" /\ Registry!QuarantineRevoke(x)
<1> USE DEF RegistryInv
<1>1. epc[x] # "idle" =>
         target'[x] = target[x] /\ edit'[x] = edit[x] /\ read'[x] = read[x]
  <2>1. \/ UNCHANGED Registry!editVars
        \/ \E y \in Editors, e \in Entities, what \in Registry!Tasks : Registry!EditRead(y, e, what)
        \/ UNCHANGED <<target, edit, read>>
    BY DEF Registry!Next, Registry!Create, Registry!TestRead, Registry!TestVerdict,
           Registry!TestRecord, Registry!TestRecordFails, Registry!DeleteWrite,
           Registry!FlagWrite, Registry!EditFails, Registry!QuarantineRevoke, registryVars
  <2> QED
    BY <2>1 DEF Registry!EditRead, Registry!editVars, RegistryTypes
<1>2. \/ epc'[x] = epc[x]
      \/ epc[x] = "idle" /\ \E e \in Entities, what \in Registry!Tasks :
                               Registry!EditRead(x, e, what)
      \/ /\ epc[x] = "writing"
         /\ Registry!FlagWrite(x) \/ Registry!DeleteWrite(x) \/ epc'[x] = "raised"
      \/ epc[x] = "revoking" /\ Registry!QuarantineRevoke(x)
  <2>1. ASSUME NEW y \in Editors, NEW e \in Entities, NEW what \in Registry!Tasks,
               Registry!EditRead(y, e, what), y # x
        PROVE  epc'[x] = epc[x]
    BY <2>1 DEF Registry!EditRead, RegistryTypes
  <2>2. ASSUME NEW y \in Editors, y # x,
               \/ Registry!DeleteWrite(y) \/ Registry!FlagWrite(y)
               \/ Registry!EditFails(y) \/ Registry!QuarantineRevoke(y)
        PROVE  epc'[x] = epc[x]
    BY <2>2 DEF Registry!DeleteWrite, Registry!FlagWrite, Registry!EditFails,
                Registry!QuarantineRevoke, RegistryTypes
  <2>3. ASSUME NEW e \in Entities, NEW what \in Registry!Tasks, Registry!EditRead(x, e, what)
        PROVE  epc[x] = "idle"
    BY <2>3 DEF Registry!EditRead
  <2>4. Registry!EditFails(x) => epc[x] = "writing" /\ epc'[x] = "raised"
    BY DEF Registry!EditFails, RegistryTypes
  <2>5. /\ Registry!FlagWrite(x) \/ Registry!DeleteWrite(x) => epc[x] = "writing"
        /\ Registry!QuarantineRevoke(x) => epc[x] = "revoking"
    BY DEF Registry!FlagWrite, Registry!DeleteWrite, Registry!QuarantineRevoke
  <2>6. \/ epc' = epc
        \/ \E y \in Editors :
              \/ \E e \in Entities, what \in Registry!Tasks : Registry!EditRead(y, e, what)
              \/ Registry!DeleteWrite(y) \/ Registry!FlagWrite(y)
              \/ Registry!EditFails(y) \/ Registry!QuarantineRevoke(y)
    BY DEF Registry!Next, Registry!Create, Registry!TestRead, Registry!TestVerdict,
           Registry!TestRecord, Registry!TestRecordFails, Registry!editVars, registryVars
  <2> QED
    BY <2>1, <2>2, <2>3, <2>4, <2>5, <2>6
<1> QED
  BY <1>1, <1>2

\* What a step does to a test: its source is drawn at its first step, where it may
\* be refused, and its verdict is recorded at its last.
LEMMA TestMoves ==
    ASSUME RegistryInv, Registry!Next \/ UNCHANGED registryVars, NEW t \in Tests
    PROVE  /\ tpc[t] # "idle" =>
                 /\ source'[t] = source[t]
                 /\ tpc'[t] = "refused" => tpc[t] = "refused"
           /\ recorded'[t] = recorded[t] \/ Registry!TestRecord(t)
<1> USE DEF RegistryInv, RegistryTypes
<1>1. ASSUME NEW s \in Tests, NEW e \in Entities, Registry!TestRead(s, e)
      PROVE  /\ tpc[t] # "idle" => source'[t] = source[t] /\ tpc'[t] = tpc[t]
             /\ recorded' = recorded
  BY <1>1 DEF Registry!TestRead
<1>2. ASSUME NEW s \in Tests, NEW v \in Registry!Verdicts, Registry!TestVerdict(s, v)
      PROVE  /\ source' = source /\ recorded' = recorded
             /\ tpc'[t] = tpc[t] \/ tpc'[t] = "recording"
  BY <1>2 DEF Registry!TestVerdict
<1>3. ASSUME NEW s \in Tests, Registry!TestRecord(s)
      PROVE  /\ source' = source /\ (s # t => recorded'[t] = recorded[t])
             /\ tpc'[t] = tpc[t] \/ tpc'[t] = "done"
  BY <1>3 DEF Registry!TestRecord
<1>4. ASSUME NEW s \in Tests, Registry!TestRecordFails(s)
      PROVE  /\ source' = source /\ recorded' = recorded
             /\ tpc'[t] = tpc[t] \/ tpc'[t] = "raised"
  BY <1>4 DEF Registry!TestRecordFails
<1>5. \/ source' = source /\ tpc' = tpc /\ recorded' = recorded
      \/ \E s \in Tests :
            \/ \E e \in Entities : Registry!TestRead(s, e)
            \/ \E v \in Registry!Verdicts : Registry!TestVerdict(s, v)
            \/ Registry!TestRecord(s) \/ Registry!TestRecordFails(s)
  BY DEF Registry!Next, Registry!Create, Registry!EditRead, Registry!DeleteWrite,
         Registry!FlagWrite, Registry!EditFails, Registry!QuarantineRevoke,
         Registry!testVars, registryVars
<1> QED
  BY <1>1, <1>2, <1>3, <1>4, <1>5

\* A quarantine keeps: whoever writes the flag of its entity meanwhile and does not
\* release it sets it.
LEMMA QuarantineStep ==
    ASSUME RegistryInv, Registry!Next \/ UNCHANGED registryVars
    PROVE  QuarantineKept'
<1> SUFFICES ASSUME NEW x \in Editors,
                    edit'[x] = "quarantine",
                    epc'[x] \in {"revoking", "done"} \/ (epc'[x] = "writing" /\ read'[x]),
                    \A y \in Editors : target'[y] = target'[x] => edit'[y] # "release",
                    Registry!Exists(target[x])'
             PROVE  row'[target'[x]].quarantined
  BY DEF QuarantineKept
<1> USE DEF RegistryInv
<1>1. \A y \in Editors : epc[y] # "idle" =>
         target'[y] = target[y] /\ edit'[y] = edit[y] /\ read'[y] = read[y]
  BY EditorMoves
<1>2. \/ epc'[x] = epc[x]
      \/ epc[x] = "idle" /\ \E e \in Entities, what \in Registry!Tasks : Registry!EditRead(x, e, what)
      \/ epc[x] = "writing" /\ (Registry!FlagWrite(x) \/ Registry!DeleteWrite(x) \/ epc'[x] = "raised")
      \/ epc[x] = "revoking"
  BY EditorMoves
<1>3. CASE epc[x] = "idle"
  <2>1. PICK e \in Entities, what \in Registry!Tasks : Registry!EditRead(x, e, what)
    BY <1>2, <1>3
  <2> QED
    BY <1>3, <2>1 DEF Registry!EditRead, RegistryTypes
<1>4. CASE epc[x] # "idle"
  <2>1. PICK e \in Entities : e = target[x] /\ e = target'[x]
    BY <1>1, <1>4 DEF EditorsInOrder
  <2>2. edit[x] = "quarantine" /\ read'[x] = read[x]
    BY <1>1, <1>4
  <2>3. \A y \in Editors : target[y] = e => edit[y] # "release"
    BY <1>1, <2>1 DEF EditorsInOrder
  <2>4. CASE epc[x] \in {"revoking", "done"} \/ (epc[x] = "writing" /\ read[x])
    <3>1. row[e] # Registry!Unborn
      BY <2>1, <2>4 DEF EditorsInOrder
    <3>2. Registry!Exists(e)' /\ Registry!Exists(e)
      BY <2>1, <3>1, FlagChanges
    <3>3. row[e].quarantined
      BY <2>1, <2>2, <2>3, <2>4, <3>2 DEF QuarantineKept
    <3>4. ASSUME NEW y \in Editors, target[y] = e, epc[y] = "writing", edit[y] # "delete"
          PROVE  edit[y] = "quarantine"
      BY <2>3, <3>4 DEF EditorsInOrder, Registry!Tasks
    <3>5. row'[e].quarantined
      BY <3>1, <3>2, <3>3, <3>4, FlagChanges
    <3> QED
      BY <2>1, <3>5
  <2>5. CASE ~(epc[x] \in {"revoking", "done"} \/ (epc[x] = "writing" /\ read[x]))
    <3>1. epc[x] = "writing" /\ ~read[x] /\ Registry!FlagWrite(x)
      BY <1>2, <1>4, <2>2, <2>5 DEF Registry!DeleteWrite
    <3>2. PICK flag \in BOOLEAN : flag = (edit[x] = "quarantine")
      OBVIOUS
    <3>3. epc'[x] # "raised"
      BY <2>2, <1>4, <2>5
    <3>4. /\ Registry!Exists(e)
          /\ row' = [row EXCEPT ![e] = [row[e] EXCEPT !.quarantined = flag]]
      BY <2>1, <2>2, <3>1, <3>2, <3>3 DEF Registry!FlagWrite, RegistryTypes
    <3>5. row[e] \in Rows /\ row'[e] = [row[e] EXCEPT !.quarantined = flag]
      BY <3>4 DEF RegistryTypes, Registry!Exists
    <3>6. row'[e].quarantined = flag
      BY <3>5, RowOps
    <3> QED
      BY <2>1, <2>2, <3>2, <3>6
  <2> QED
    BY <2>4, <2>5
<1> QED
  BY <1>3, <1>4

\* What a quarantine revoked stays so: a verdict that permits overrules it, and no
\* other command opens the filter.
LEMMA CutOffStep ==
    ASSUME RegistryInv, Registry!Next \/ UNCHANGED registryVars
    PROVE  QuarantineCutsOff'
<1> SUFFICES ASSUME NEW x \in Editors, x \notin lost', x \notin overruled',
                    edit'[x] = "quarantine", epc'[x] = "done"
             PROVE  filter'[target'[x]] = "REVOKE"
  BY DEF QuarantineCutsOff, Registry!QuarantineCutsOff
<1> USE ServerAssumption DEF RegistryInv
<1>1. PICK e \in Entities : e = target[x] /\ e = target'[x] /\ edit[x] = "quarantine"
  <2>1. epc[x] # "idle"
    <3>1. \A f \in Entities, what \in Registry!Tasks : ~Registry!EditRead(x, f, what)
      BY DEF Registry!EditRead, RegistryTypes
    <3> QED
      BY <3>1, EditorMoves
  <2> QED
    BY <2>1, EditorMoves DEF EditorsInOrder
<1>2. /\ \/ UNCHANGED <<filter, lost, overruled>>
         \/ \E t \in Tests, v \in Registry!Verdicts :
               Registry!Command(source[t], IF v = "DENY" THEN "REVOKE" ELSE "PERMIT")
         \/ \E y \in Editors : Registry!Command(target[y], "REVOKE")
         \/ lost \subseteq lost' /\ UNCHANGED <<filter, overruled>>
  BY DEF Registry!Next, Registry!Create, Registry!TestRead, Registry!TestVerdict,
         Registry!TestRecord, Registry!TestRecordFails, Registry!EditRead,
         Registry!DeleteWrite, Registry!FlagWrite, Registry!EditFails,
         Registry!QuarantineRevoke, Registry!filterVars, registryVars
<1>3. CASE epc[x] = "done"
  <2>1. x \notin lost /\ x \notin overruled
    BY <1>2 DEF Registry!Command
  <2>2. filter[e] = "REVOKE"
    BY <1>1, <1>3, <2>1 DEF QuarantineCutsOff, Registry!QuarantineCutsOff
  <2>3. ASSUME NEW f, NEW action, Registry!Command(f, action), action = "PERMIT" \/ action = "REVOKE"
        PROVE  filter'[e] = "REVOKE"
    <3>1. f = e => action # "PERMIT"
      BY <1>1, <1>3, <2>3 DEF Registry!Command
    <3> QED
      BY <2>2, <2>3, <3>1 DEF Registry!Command, RegistryTypes
  <2> QED
    BY <1>1, <1>2, <2>2, <2>3
<1>4. CASE epc[x] # "done"
  <2>1. Registry!QuarantineRevoke(x)
    <3>1. ~Registry!FlagWrite(x) /\ ~Registry!DeleteWrite(x)
      BY <1>1 DEF Registry!FlagWrite, Registry!DeleteWrite, RegistryTypes
    <3>2. \A f \in Entities, what \in Registry!Tasks : ~Registry!EditRead(x, f, what)
      BY DEF Registry!EditRead, RegistryTypes
    <3> QED
      BY <1>4, <3>1, <3>2, EditorMoves
  <2>2. Registry!Command(e, "REVOKE")
    BY <1>1, <2>1 DEF Registry!QuarantineRevoke
  <2> QED
    BY <1>1, <2>2 DEF Registry!Command, RegistryTypes
<1> QED
  BY <1>3, <1>4

\* Every transaction of every endpoint keeps the invariant of the registry.
LEMMA RegistryStep ==
    ASSUME RegistryInv, Registry!Next \/ UNCHANGED registryVars
    PROVE  RegistryInv'
BY RegistryTypeStep, OrderStep, QuarantineStep, CutOffStep DEF RegistryInv

\* The recorded sessions of e with a verdict of V.
Sessions(e, V) == {t \in Tests : source[t] = e /\ recorded[t] \in V}

\* The row of e counts the sessions that are recorded.
RowCounts(e) ==
    Registry!Exists(e) =>
        /\ row[e].session_count = Cardinality(Sessions(e, Registry!Verdicts))
        /\ row[e].blocked_count = Cardinality(Sessions(e, {"DENY"}))

\* A step that records nothing leaves the sessions as they are; the one that
\* records t adds it, to those of its source, if its verdict is among them.
LEMMA SessionsGrow ==
    ASSUME RegistryInv, Registry!Next \/ UNCHANGED registryVars,
           NEW e \in Entities, NEW V \in SUBSET Registry!Verdicts
    PROVE  /\ IsFiniteSet(Sessions(e, V))
           /\ \A t \in Tests : Registry!TestRecord(t) =>
                 /\ t \notin Sessions(e, V)
                 /\ Sessions(e, V)' = IF source[t] = e /\ verdict[t] \in V
                                      THEN Sessions(e, V) \cup {t} ELSE Sessions(e, V)
           /\ (\A t \in Tests : ~Registry!TestRecord(t)) => Sessions(e, V)' = Sessions(e, V)
<1> USE DEF RegistryInv
<1>1. IsFiniteSet(Sessions(e, V))
  BY ServerAssumption, FS_Subset DEF Sessions
<1>2. "none" \notin V
  BY DEF Registry!Verdicts
<1>3. \A t \in Tests : recorded[t] # "none" => source'[t] = source[t]
  BY TestMoves DEF TestsInOrder
<1>4. \A t \in Tests : recorded'[t] = recorded[t] \/ Registry!TestRecord(t)
  BY TestMoves
<1>5. ASSUME NEW t \in Tests, Registry!TestRecord(t)
      PROVE  /\ recorded[t] = "none" /\ source' = source /\ recorded'[t] = verdict[t]
             /\ \A s \in Tests \ {t} : recorded'[s] = recorded[s]
  BY <1>5 DEF Registry!TestRecord, TestsInOrder, RegistryTypes
<1>6. ASSUME NEW t \in Tests, Registry!TestRecord(t)
      PROVE  /\ t \notin Sessions(e, V)
             /\ Sessions(e, V)' = IF source[t] = e /\ verdict[t] \in V
                                  THEN Sessions(e, V) \cup {t} ELSE Sessions(e, V)
  BY <1>2, <1>5, <1>6 DEF Sessions
<1>7. ASSUME \A t \in Tests : ~Registry!TestRecord(t)
      PROVE  Sessions(e, V)' = Sessions(e, V)
  BY <1>2, <1>3, <1>4, <1>7 DEF Sessions, TestsInOrder
<1> QED
  BY <1>1, <1>6, <1>7

\* The counters of a row that stays change when a test about it is recorded, and
\* then by one; that of the denials only if it was denied.
LEMMA CountsGrow ==
    ASSUME RegistryInv, Registry!Next \/ UNCHANGED registryVars,
           NEW e \in Entities, Registry!Exists(e), Registry!Exists(e)'
    PROVE  \/ /\ \A t \in Tests : ~(Registry!TestRecord(t) /\ source[t] = e)
              /\ row'[e].session_count = row[e].session_count
              /\ row'[e].blocked_count = row[e].blocked_count
           \/ \E t \in Tests :
                 /\ Registry!TestRecord(t) /\ source[t] = e /\ verdict[t] \in Registry!Verdicts
                 /\ row'[e].session_count = row[e].session_count + 1
                 /\ row'[e].blocked_count =
                       IF verdict[t] = "DENY"
                       THEN row[e].blocked_count + 1 ELSE row[e].blocked_count
<1> USE RowOps DEF RegistryInv, RegistryTypes, Registry!Exists
<1>1. row[e] \in Rows
  OBVIOUS
<1>2. ASSUME NEW t \in Tests, Registry!TestRecord(t), source[t] = e
      PROVE  /\ verdict[t] \in Registry!Verdicts
             /\ row'[e] = Registry!Counted(row[e], verdict[t])
  BY <1>2 DEF Registry!TestRecord, TestsInOrder
<1>3. ASSUME NEW t \in Tests, Registry!TestRecord(t), source[t] # e
      PROVE  row'[e] = row[e] /\ \A s \in Tests : Registry!TestRecord(s) => s = t
  BY <1>3 DEF Registry!TestRecord
<1>4. ASSUME NEW x \in Editors, Registry!FlagWrite(x) \/ Registry!DeleteWrite(x)
      PROVE  /\ row'[e].session_count = row[e].session_count
             /\ row'[e].blocked_count = row[e].blocked_count
             /\ \A t \in Tests : ~Registry!TestRecord(t)
  <2>1. \A t \in Tests : ~Registry!TestRecord(t)
    BY <1>4 DEF Registry!FlagWrite, Registry!DeleteWrite, Registry!TestRecord,
                Registry!testVars, TestsInOrder
  <2>2. PICK flag \in BOOLEAN : flag = (edit[x] = "quarantine")
    OBVIOUS
  <2>3. row'[e] = row[e] \/ row'[e] = [row[e] EXCEPT !.quarantined = flag]
    BY <1>4, <2>2 DEF Registry!FlagWrite, Registry!DeleteWrite
  <2>4. CASE row'[e] = [row[e] EXCEPT !.quarantined = flag]
    BY <1>1, <2>1, <2>4
  <2> QED
    BY <2>1, <2>3, <2>4
<1>5. ASSUME \A t \in Tests : ~Registry!TestRecord(t),
             \A x \in Editors : ~Registry!FlagWrite(x) /\ ~Registry!DeleteWrite(x)
      PROVE  row'[e] = row[e]
  <2>1. row' = row \/ \E z \in Entities : Registry!Create(z)
    BY <1>5
    DEF Registry!Next, registryVars, Registry!TestRead, Registry!TestVerdict,
        Registry!TestRecordFails, Registry!EditRead, Registry!EditFails,
        Registry!QuarantineRevoke
  <2> QED
    BY <2>1 DEF Registry!Create
<1> QED
  BY <1>1, <1>2, <1>3, <1>4, <1>5

\* The counters of an entity follow its sessions, whatever is done to other entities.
LEMMA RowCountsStep ==
    ASSUME RegistryInv, Registry!Next \/ UNCHANGED registryVars,
           NEW e \in Entities, RowCounts(e)
    PROVE  RowCounts(e)'
<1> SUFFICES ASSUME Registry!Exists(e)'
             PROVE  /\ row'[e].session_count = Cardinality(Sessions(e, Registry!Verdicts)')
                    /\ row'[e].blocked_count = Cardinality(Sessions(e, {"DENY"})')
  BY DEF RowCounts
<1> USE DEF RegistryInv
<1>1. {"DENY"} \in SUBSET Registry!Verdicts /\ Registry!Verdicts \in SUBSET Registry!Verdicts
  BY DEF Registry!Verdicts
\* A row that is new counts nothing, and no test is about it.
<1>2. CASE ~Registry!Exists(e)
  <2>1. row[e] = Registry!Unborn /\ row'[e] = Registry!NewRow
    <3>1. row[e] # row'[e] /\ row[e] # Registry!Deleted
      BY <1>2, RegistryTypeStep DEF RowsAge, Registry!Exists
    <3>2. /\ \A t \in Tests : ~Registry!TestRecord(t)
          /\ \A x \in Editors : ~Registry!FlagWrite(x) /\ ~Registry!DeleteWrite(x)
      <4>1. ASSUME NEW t \in Tests, Registry!TestRecord(t)
            PROVE  FALSE
        BY <1>2, <3>1, <4>1 DEF Registry!TestRecord, RegistryTypes
      <4>2. ASSUME NEW x \in Editors, Registry!FlagWrite(x)
            PROVE  FALSE
        <5>1. PICK flag \in BOOLEAN : flag = (edit[x] = "quarantine")
          OBVIOUS
        <5> QED
          BY <1>2, <3>1, <4>2, <5>1 DEF Registry!FlagWrite, RegistryTypes
      <4>3. ASSUME NEW x \in Editors, Registry!DeleteWrite(x)
            PROVE  FALSE
        BY <3>1, <4>3 DEF Registry!DeleteWrite, Registry!Exists, RegistryTypes
      <4> QED
        BY <4>1, <4>2, <4>3
    <3>3. PICK z \in Entities : Registry!Create(z)
      BY <3>1, <3>2
      DEF Registry!Next, registryVars, Registry!TestRead, Registry!TestVerdict,
          Registry!TestRecordFails, Registry!EditRead, Registry!EditFails,
          Registry!QuarantineRevoke
    <3> QED
      BY <3>1, <3>3 DEF Registry!Create, RegistryTypes
  <2>2. ASSUME NEW V \in SUBSET Registry!Verdicts
        PROVE  Cardinality(Sessions(e, V)') = 0
    <3>1. Sessions(e, V) = {}
      BY <2>1 DEF Sessions, Registry!Verdicts, TestsInOrder
    <3>2. \A t \in Tests : ~(Registry!TestRecord(t) /\ source[t] = e)
      BY <2>1 DEF Registry!TestRecord, TestsInOrder
    <3> QED
      BY <3>1, <3>2, SessionsGrow, FS_EmptySet
  <2> QED
    BY <1>1, <2>1, <2>2, RowOps
<1>3. CASE Registry!Exists(e)
  <2>1. \A V \in SUBSET Registry!Verdicts :
           /\ IsFiniteSet(Sessions(e, V)) /\ Cardinality(Sessions(e, V)) \in Nat
           /\ \A t \in Tests : Cardinality(Sessions(e, V) \cup {t}) =
                 IF t \in Sessions(e, V) THEN Cardinality(Sessions(e, V))
                                         ELSE Cardinality(Sessions(e, V)) + 1
    BY SessionsGrow, FS_CardinalityType, FS_AddElement
  <2>2. CASE \A t \in Tests : ~(Registry!TestRecord(t) /\ source[t] = e)
    <3>1. /\ row'[e].session_count = row[e].session_count
          /\ row'[e].blocked_count = row[e].blocked_count
      BY <1>3, <2>2, CountsGrow
    <3>2. \A V \in SUBSET Registry!Verdicts : Sessions(e, V)' = Sessions(e, V)
      BY <2>2, SessionsGrow
    <3> QED
      BY <1>1, <1>3, <3>1, <3>2 DEF RowCounts
  <2>3. ASSUME NEW t \in Tests, Registry!TestRecord(t), source[t] = e
        PROVE  /\ row'[e].session_count = Cardinality(Sessions(e, Registry!Verdicts)')
               /\ row'[e].blocked_count = Cardinality(Sessions(e, {"DENY"})')
    <3>1. \A s \in Tests : Registry!TestRecord(s) => s = t
      BY <2>3 DEF Registry!TestRecord, TestsInOrder, RegistryTypes
    <3>2. /\ verdict[t] \in Registry!Verdicts
          /\ row'[e].session_count = row[e].session_count + 1
          /\ row'[e].blocked_count =
                IF verdict[t] = "DENY" THEN row[e].blocked_count + 1 ELSE row[e].blocked_count
      BY <1>3, <2>3, <3>1, CountsGrow
    <3>3. ASSUME NEW V \in SUBSET Registry!Verdicts
          PROVE  Cardinality(Sessions(e, V)') =
                    IF verdict[t] \in V THEN Cardinality(Sessions(e, V)) + 1
                                        ELSE Cardinality(Sessions(e, V))
      BY <2>1, <2>3, <3>1, SessionsGrow
    <3> QED
      BY <1>1, <1>3, <3>2, <3>3 DEF RowCounts
  <2> QED
    BY <2>2, <2>3
<1> QED
  BY <1>2, <1>3

\* What the theorems about the registry rest on.
LEMMA RegistryAlways == Spec => []RegistryInv
<1>1. Init => RegistryInv
  BY RegistryInit DEF Init
<1>2. RegistryInv /\ [Next]_vars => RegistryInv'
  BY RegistryStep, ComponentSteps
<1> QED
  BY <1>1, <1>2, PTL DEF Spec

\* A committed quarantine holds until somebody asks for a release, whatever the
\* other handlers had read before it and write after.
THEOREM QuarantineSafe == Spec => []QuarantineHolds
<1>1. RegistryInv => QuarantineHolds
  BY DEF RegistryInv, QuarantineKept, QuarantineHolds, Registry!QuarantineHolds
<1> QED
  BY <1>1, RegistryAlways, PTL

\* A quarantine whose REVOKE was written has cut the entity off in the packet
\* filter, whatever was permitted before, until a verdict permits it again.
THEOREM CutOffSafe == Spec => []QuarantineCutsOff
<1>1. RegistryInv => QuarantineCutsOff
  BY DEF RegistryInv
<1> QED
  BY <1>1, RegistryAlways, PTL

\* A deleted entity does not come back, whoever still holds its row.
THEOREM DeletedSafe == Spec => DeletedForGood
<1>1. RegistryInv /\ [Next]_vars =>
         [\A e \in Entities :
             row[e] = Registry!Deleted => row'[e] = Registry!Deleted]_(Registry!vars)
  BY RegistryTypeStep, ComponentSteps DEF RowsAge
<1> QED
  BY <1>1, RegistryAlways, PTL DEF Spec, DeletedForGood, Registry!DeletedForGood

\* The counters of an entity are those of its recorded sessions, however many
\* tests, edits and failed transactions run at once.
THEOREM CountsSafe == Spec => []CountsMatchSessions
<1> DEFINE Counts == \A e \in Entities : RowCounts(e)
<1>1. Counts => CountsMatchSessions
  <2>1. \A S : Registry!Cardinality(S) = Cardinality(S)
    BY DEF Registry!Cardinality, Cardinality
  <2>2. Counts => \A e \in Entities : Registry!Exists(e) =>
           /\ row[e].session_count =
                 Cardinality({t \in Tests : source[t] = e /\ recorded[t] \in Registry!Verdicts})
           /\ row[e].blocked_count =
                 Cardinality({t \in Tests : source[t] = e /\ recorded[t] \in {"DENY"}})
    BY DEF RowCounts, Sessions
  <2> QED
    BY <2>1, <2>2 DEF CountsMatchSessions, Registry!CountsMatchSessions
<1>2. Init => Counts
  BY DEF Init, Registry!Init, RowCounts, Registry!Exists
<1>3. RegistryInv /\ Counts /\ [Next]_vars => Counts'
  BY RowCountsStep, ComponentSteps
<1> QED
  BY <1>1, <1>2, <1>3, RegistryAlways, PTL DEF Spec

(***************************************************************************)
(* Types                                                                   *)
(***************************************************************************)

\* The log of the rate limiter never outgrows the limit, nor a queue its room.
LEMMA WindowTypes ==
    /\ LimiterInv => Limiter!TypeOK
    /\ DetectorInv => Detector!TypeOK
<1>1. ASSUME LimiterInv
      PROVE  Limiter!TypeOK
  <2>1. ASSUME NEW a \in Addresses
        PROVE  grantLog[a] \in UNION {[1..n -> Limiter!Times] : n \in 0..Limit}
    <3>1. grantLog[a] \in Seq(Limiter!Times) /\ Len(grantLog[a]) <= Limit
      BY <1>1 DEF LimiterInv, LimiterTypes
    <3>2. PICK n \in Nat : n = Len(grantLog[a])
      BY <3>1, LenProperties
    <3>3. grantLog[a] \in [1..n -> Limiter!Times]
      BY <3>1, <3>2, LenProperties
    <3>4. n \in 0..Limit
      BY <3>1, <3>2, WindowAssumption
    <3> QED
      BY <3>3, <3>4
  <2> QED
    BY <1>1, <2>1 DEF LimiterInv, LimiterTypes, Limiter!TypeOK
<1>2. ASSUME DetectorInv
      PROVE  Detector!TypeOK
  <2>1. ASSUME NEW k \in Kinds, NEW s \in Keys
        PROVE  Len(window[<<k, s>>]) <= Rule[k].keep
    <3>1. /\ window[<<k, s>>] \in Seq(Detector!Times) /\ events[<<k, s>>] \in Seq(Detector!Times)
          /\ IsEnd(window[<<k, s>>], events[<<k, s>>], Rule[k].keep)
      BY <1>2 DEF DetectorInv, DetectorTypes, QueuesAreEnds, Seen
    <3>2. Len(events[<<k, s>>]) \in Nat /\ Rule[k].keep \in Nat
      BY <3>1, LenProperties, WindowAssumption
    <3> QED
      BY <3>1, <3>2 DEF IsEnd, Least
  <2> QED
    BY <1>2, <2>1 DEF DetectorInv, DetectorTypes, Detector!TypeOK, Seen
<1> QED
  BY <1>1, <1>2

\* The types of the accounts are kept as they are.
LEMMA AccountTypeStep ==
    ASSUME Orgas!TypeOK, Orgas!Next \/ UNCHANGED orgVars
    PROVE  Orgas!TypeOK'
<1> USE ServerAssumption DEF Orgas!TypeOK
<1>1. ASSUME NEW e \in Emails, NEW o \in Orgs, Orgas!Issue(e, o)
      PROVE  tokens' \subseteq [email : Emails, org : Orgs, exp : Nat, life : Nat]
  BY <1>1 DEF Orgas!Issue
<1>2. ASSUME NEW e \in Emails, NEW o \in Orgs, Orgas!Signup(e, o)
      PROVE  Orgas!TypeOK'
  BY <1>1, <1>2 DEF Orgas!Signup
<1>3. ASSUME NEW e \in Emails, Orgas!Signin(e)
      PROVE  Orgas!TypeOK'
  BY <1>1, <1>3 DEF Orgas!Signin
<1>4. ASSUME NEW t \in tokens, NEW x \in Entities, Orgas!CreateEntity(t, x)
      PROVE  Orgas!TypeOK'
  BY <1>4 DEF Orgas!CreateEntity
<1>5. CASE Orgas!Restart
  BY <1>5 DEF Orgas!Restart
<1>6. CASE Orgas!Tick
  BY <1>6 DEF Orgas!Tick
<1>7. CASE UNCHANGED orgVars
  BY <1>7 DEF orgVars
<1> QED
  BY <1>2, <1>3, <1>4, <1>5, <1>6, <1>7 DEF Orgas!Next

\* A row counts no more sessions than there are tests.
LEMMA RowsAreBounded ==
    ASSUME RegistryInv, NEW e \in Entities, RowCounts(e), Registry!Exists(e)
    PROVE  row[e] \in Registry!Row
<1>1. row[e] \in Rows
  BY DEF RegistryInv, RegistryTypes, Registry!Exists
<1>2. ASSUME NEW V
      PROVE  /\ Cardinality(Sessions(e, V)) \in Nat /\ Cardinality(Tests) \in Nat
             /\ Cardinality(Sessions(e, V)) <= Cardinality(Tests)
  <2>1. Sessions(e, V) \subseteq Tests
    BY DEF Sessions
  <2> QED
    BY <2>1, ServerAssumption, FS_Subset, FS_CardinalityType
<1>3. row[e].session_count \in 0..Cardinality(Tests) /\ row[e].blocked_count \in 0..Cardinality(Tests)
  BY <1>2 DEF RowCounts
<1>4. Registry!Counts = 0..Cardinality(Tests)
  BY DEF Registry!Counts, Registry!Cardinality, Cardinality
<1> QED
  BY <1>1, <1>3, <1>4 DEF Rows, Registry!Row

\* What a test has read of a row is what the row once was.
LEMMA KnownStep ==
    ASSUME RegistryInv, \A e \in Entities : RowCounts(e), known \in [Tests -> Registry!Row],
           Registry!Next \/ UNCHANGED registryVars
    PROVE  known' \in [Tests -> Registry!Row]
<1>1. ASSUME NEW t \in Tests, NEW e \in Entities, Registry!TestRead(t, e)
      PROVE  known' \in [Tests -> Registry!Row]
  BY <1>1, RowsAreBounded DEF Registry!TestRead
<1>2. known' = known \/ \E t \in Tests, e \in Entities : Registry!TestRead(t, e)
  BY DEF Registry!Next, registryVars, Registry!testVars, Registry!Create, Registry!TestVerdict,
         Registry!TestRecord, Registry!TestRecordFails, Registry!EditRead, Registry!DeleteWrite,
         Registry!FlagWrite, Registry!EditFails, Registry!QuarantineRevoke
<1> QED
  BY <1>1, <1>2

\* The types of every component, at every time.
THEOREM TypesSafe == Spec => []TypeOK
<1> DEFINE Counts == \A e \in Entities : RowCounts(e)
           Known == known \in [Tests -> Registry!Row]
<1>1. Init => Counts /\ Known /\ Orgas!TypeOK
  <2> SUFFICES ASSUME Init
               PROVE  Counts /\ Known /\ Orgas!TypeOK
    OBVIOUS
  <2>1. Counts
    BY DEF Init, Registry!Init, RowCounts, Registry!Exists
  <2>2. Known
    <3>1. Registry!NewRow \in Registry!Row
      <4>1. Cardinality(Tests) \in Nat
        BY ServerAssumption, FS_CardinalityType
      <4>2. Registry!Counts = 0..Cardinality(Tests)
        BY DEF Registry!Counts, Registry!Cardinality, Cardinality
      <4> QED
        BY <4>1, <4>2 DEF Registry!NewRow, Registry!Row
    <3> QED
      BY <3>1 DEF Init, Registry!Init
  <2>3. Orgas!TypeOK
    BY ServerAssumption DEF Init, Orgas!Init, Orgas!TypeOK
  <2> QED
    BY <2>1, <2>2, <2>3
<1>2. RegistryInv /\ Counts /\ Known /\ Orgas!TypeOK /\ [Next]_vars
         => (Counts /\ Known /\ Orgas!TypeOK)'
  BY RowCountsStep, KnownStep, AccountTypeStep, ComponentSteps
<1>3. RegistryInv /\ SchemaInv /\ LimiterInv /\ DetectorInv
         /\ Counts /\ Known /\ Orgas!TypeOK => TypeOK
  <2> SUFFICES ASSUME RegistryInv, SchemaInv, LimiterInv, DetectorInv,
                      Counts, Known, Orgas!TypeOK
               PROVE  TypeOK
    OBVIOUS
  <2>1. Registry!TypeOK
    <3>1. row \in [Entities -> Registry!Row \cup {Registry!Unborn, Registry!Deleted}]
      BY RowsAreBounded DEF RegistryInv, RegistryTypes, Registry!Exists
    <3> QED
      BY <3>1 DEF RegistryInv, RegistryTypes, Registry!TypeOK
  <2>2. Database!TypeOK
    BY DEF SchemaInv, SchemaTypes, ColumnsToAdd, Database!TypeOK
  <2> QED
    BY <2>1, <2>2, WindowTypes DEF TypeOK
<1> HIDE DEF Counts, Known
<1> QED
  BY <1>1, <1>2, <1>3, RegistryAlways, SchemaAlways, LimiterAlways, DetectorAlways, PTL DEF Spec
=============================================================================
