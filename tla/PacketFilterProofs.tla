------------------------- MODULE PacketFilterProofs -------------------------
(***************************************************************************)
(* Proofs about the two packet filters: however packets fall, and whatever *)
(* the CPUs and the kernel do in between, a flood is bounded.              *)
(***************************************************************************)
EXTENDS DataPlaneProofs, Integers, Sequences

(***************************************************************************)
(* The filter in C                                                         *)
(***************************************************************************)
Steps == {"idle", "found", "missing", "evicted", "permit"}
At == [src : Sources, at : Steps]

\* How many CPUs are at one of the places of K.
N(K) == Cardinality({c \in Cpus : cpu[c] \in K})

\* A packet of any source is under way; one of source a has yet to be counted; has
\* yet to get past the rate without being counted by the entry there is.
Busy == [src : Sources, at : Steps \ {"idle"}]
Pending(a) == [src : {a}, at : {"found", "missing", "evicted"}]
Late(a) == [src : {a}, at : {"missing", "evicted"}]

Least(m, n) == IF m <= n THEN m ELSE n

CTypes ==
    /\ blacklist \in SUBSET Sources
    /\ rate \in [Sources -> {-1} \cup 0..(Modulus - 1)]
    /\ cpu \in [Cpus -> At]
    /\ drops \in Nat /\ passed \in Nat /\ aborted \in Nat
    /\ packets \in 0..MostPackets
    /\ admitted \in [Sources -> Nat]
    /\ laps \in [Sources -> Nat]

\* Every packet that arrived is accounted for or under way at a CPU, and a packet
\* gets past a rate, or makes it wrap, once.
Accounted ==
    /\ drops + passed + aborted + N(Busy) = packets
    /\ \A a \in Sources : /\ admitted[a] + N(Pending(a)) <= packets
                          /\ laps[a] + N(Pending(a)) <= packets

\* While a source has an entry, whoever is late for it gets past the rate uncounted;
\* all others that got past it were counted by it, but for the one that made it.
EntryBounds ==
    \A a \in Sources : rate[a] # -1 =>
        admitted[a] + N(Late(a)) + 1 <=
            Threshold * laps[a] + Least(rate[a], Threshold) + Cardinality(Cpus)

\* A CPU that has found an entry still has it: an eviction tells those that do.
EntryIsThere == \A c \in Cpus : cpu[c].at = "found" => rate[cpu[c].src] # -1

CInv == CTypes /\ Accounted /\ EntryBounds /\ EntryIsThere

\* A number of CPUs is one, before a step and after it.
LEMMA CountOfCpus ==
    ASSUME NEW K
    PROVE  /\ N(K) \in Nat /\ N(K) <= Cardinality(Cpus) /\ Cardinality(Cpus) \in Nat
           /\ N(K)' \in Nat /\ N(K)' <= Cardinality(Cpus)
<1>1. \A S \in SUBSET Cpus : Cardinality(S) \in Nat /\ Cardinality(S) <= Cardinality(Cpus)
  BY PlaneAssumption, FS_Subset, FS_CardinalityType
<1>2. {c \in Cpus : cpu[c] \in K} \in SUBSET Cpus /\ {c \in Cpus : cpu'[c] \in K} \in SUBSET Cpus
  OBVIOUS
<1> QED
  BY <1>1, <1>2, PlaneAssumption, FS_CardinalityType DEF N

\* What moves no CPU changes no number of CPUs.
LEMMA CpusStay ==
    ASSUME UNCHANGED cpu
    PROVE  \A K : N(K)' = N(K) /\ N(K) \in Nat
BY CountOfCpus DEF N

\* One CPU goes from one place to another.
LEMMA CpuMoves ==
    ASSUME cpu \in [Cpus -> At], NEW c \in Cpus, NEW x \in At, cpu' = [cpu EXCEPT ![c] = x],
           NEW K
    PROVE  N(K)' = N(K) + (IF x \in K THEN 1 ELSE 0) - (IF cpu[c] \in K THEN 1 ELSE 0)
<1> DEFINE S == {z \in Cpus : cpu[z] \in K}
           T == {z \in Cpus : cpu'[z] \in K}
<1>1. IsFiniteSet(S) /\ IsFiniteSet(T)
  BY PlaneAssumption, FS_Subset
<1>2. S \ {c} = T \ {c}
  OBVIOUS
<1>3. /\ c \in S <=> cpu[c] \in K
      /\ c \in T <=> x \in K
  OBVIOUS
<1>4. /\ Cardinality(S) \in Nat /\ Cardinality(T) \in Nat
      /\ Cardinality(S \ {c}) = IF c \in S THEN Cardinality(S) - 1 ELSE Cardinality(S)
      /\ Cardinality(T \ {c}) = IF c \in T THEN Cardinality(T) - 1 ELSE Cardinality(T)
  BY <1>1, FS_CardinalityType, FS_RemoveElement
<1>5. N(K) = Cardinality(S) /\ N(K)' = Cardinality(T)
  BY DEF N
<1>6. Cardinality(T) = Cardinality(S) + (IF c \in T THEN 1 ELSE 0) - (IF c \in S THEN 1 ELSE 0)
  <2> HIDE DEF S, T
  <2>1. PICK m \in Nat, n \in Nat : m = Cardinality(S) /\ n = Cardinality(T)
    BY <1>4
  <2>2. IF c \in S THEN Cardinality(S \ {c}) = m - 1 ELSE Cardinality(S \ {c}) = m
    BY <1>4, <2>1
  <2>3. IF c \in T THEN Cardinality(S \ {c}) = n - 1 ELSE Cardinality(S \ {c}) = n
    BY <1>2, <1>4, <2>1
  <2> QED
    BY <2>1, <2>2, <2>3
<1> QED
  BY <1>3, <1>5, <1>6

\* No CPU has a packet, and no source an entry.
LEMMA CInit == FilterInC!Init => CInv
<1> SUFFICES ASSUME FilterInC!Init
             PROVE  CInv
  OBVIOUS
<1> USE PlaneAssumption DEF FilterInC!Init, FilterInC!Absent
<1>1. cpu \in [Cpus -> At] /\ \A c \in Cpus : cpu[c].at = "idle"
  BY DEF At, Steps
<1>2. CTypes
  BY <1>1 DEF CTypes
<1>3. ASSUME NEW K, \A x \in K : x.at # "idle"
      PROVE  N(K) = 0
  <2>1. {c \in Cpus : cpu[c] \in K} = {}
    BY <1>1, <1>3
  <2> QED
    BY <2>1, FS_EmptySet DEF N
<1>4. N(Busy) = 0 /\ \A a \in Sources : N(Pending(a)) = 0
  BY <1>3 DEF Busy, Pending
<1> QED
  BY <1>1, <1>2, <1>4 DEF CInv, Accounted, EntryBounds, EntryIsThere

\* What is known of a CPU that goes to another step of its packet.
LEMMA CpuGoes ==
    ASSUME CInv, NEW c \in Cpus, NEW step \in Steps, cpu' = [cpu EXCEPT ![c].at = step]
    PROVE  /\ cpu' \in [Cpus -> At] /\ cpu[c].src \in Sources
           /\ N(Busy)' = N(Busy) + (IF step = "idle" THEN 0 ELSE 1)
                                 - (IF cpu[c].at = "idle" THEN 0 ELSE 1)
           /\ step \in {"permit", "idle"} => \A a \in Sources :
                 /\ N(Pending(a))' = N(Pending(a)) -
                       (IF cpu[c].src = a /\ cpu[c].at \in {"found", "missing", "evicted"} THEN 1 ELSE 0)
                 /\ N(Late(a))' = N(Late(a)) -
                       (IF cpu[c].src = a /\ cpu[c].at \in {"missing", "evicted"} THEN 1 ELSE 0)
           /\ \A K : N(K) \in Nat /\ N(K)' \in Nat
<1> USE DEF CInv, CTypes
<1>1. PICK x \in At : x = [cpu[c] EXCEPT !.at = step] /\ x.src = cpu[c].src /\ x.at = step
  BY DEF At
<1>2. cpu' = [cpu EXCEPT ![c] = x]
  BY <1>1
<1>3. /\ x \in Busy <=> step # "idle"
      /\ cpu[c] \in Busy <=> cpu[c].at # "idle"
  BY <1>1 DEF At, Busy
<1>4. \A a \in Sources :
         /\ cpu[c] \in Pending(a) <=>
               cpu[c].src = a /\ cpu[c].at \in {"found", "missing", "evicted"}
         /\ cpu[c] \in Late(a) <=> cpu[c].src = a /\ cpu[c].at \in {"missing", "evicted"}
         /\ step \in {"permit", "idle"} => x \notin Pending(a) /\ x \notin Late(a)
  BY <1>1 DEF At, Pending, Late
<1>5. \A K : N(K)' = N(K) + (IF x \in K THEN 1 ELSE 0) - (IF cpu[c] \in K THEN 1 ELSE 0)
  BY <1>2, CpuMoves
<1>6. \A K : N(K) \in Nat
  BY CountOfCpus
<1>7. \A K : N(K)' \in Nat
  BY CountOfCpus
<1>8. cpu' \in [Cpus -> At] /\ cpu[c].src \in Sources
  BY <1>2 DEF At
<1> QED
  BY <1>3, <1>4, <1>5, <1>6, <1>7, <1>8

\* A packet arrives: it is blacklisted, meets an entry, or misses one.
LEMMA ArriveStep ==
    ASSUME CInv, NEW c \in Cpus, NEW a \in Sources, FilterInC!Arrive(c, a)
    PROVE  CInv'
<1> USE PlaneAssumption DEF CInv, FilterInC!maps
<1>1. CASE a \in blacklist
  <2>1. /\ packets' = packets + 1 /\ packets < MostPackets /\ drops' = drops + 1
        /\ UNCHANGED <<blacklist, rate, cpu, admitted, laps, passed, aborted>>
    BY <1>1 DEF FilterInC!Arrive
  <2>2. CTypes' /\ EntryIsThere'
    BY <2>1 DEF CTypes, EntryIsThere
  <2>3. Accounted' /\ EntryBounds'
    BY <2>1, CpusStay DEF CTypes, Accounted, EntryBounds
  <2> QED
    BY <2>2, <2>3
<1>2. CASE a \notin blacklist
  <2>1. PICK x \in At :
           /\ x.src = a /\ x.at = IF rate[a] = -1 THEN "missing" ELSE "found"
           /\ cpu' = [cpu EXCEPT ![c] = x]
    BY <1>2 DEF FilterInC!Arrive, FilterInC!Absent, At, Steps
  <2>2. \A K : /\ N(K)' = N(K) + (IF x \in K THEN 1 ELSE 0) - (IF cpu[c] \in K THEN 1 ELSE 0)
               /\ N(K) \in Nat
    BY <2>1, CpuMoves, CountOfCpus DEF CTypes
  <2>3. cpu[c] \in At /\ cpu[c].at = "idle" /\ x.at # "idle"
    BY <1>2, <2>1 DEF FilterInC!Arrive, CTypes
  <2>4. N(Busy)' = N(Busy) + 1
    <3>1. x \in Busy /\ cpu[c] \notin Busy
      BY <2>3 DEF Busy, At
    <3> QED
      BY <2>2, <3>1
  <2>5. ASSUME NEW z \in Sources
        PROVE  N(Pending(z))' = N(Pending(z)) \/ N(Pending(z))' = N(Pending(z)) + 1
    <3>1. cpu[c] \notin Pending(z)
      BY <2>3 DEF Pending
    <3> QED
      BY <2>2, <3>1
  <2>6. ASSUME NEW z \in Sources, rate[z] # -1
        PROVE  N(Late(z))' = N(Late(z))
    <3>1. cpu[c] \notin Late(z) /\ x \notin Late(z)
      BY <2>1, <2>3, <2>6 DEF Late
    <3> QED
      BY <2>2, <3>1
  <2>7. /\ packets' = packets + 1 /\ packets' \in 0..MostPackets
        /\ UNCHANGED <<blacklist, rate, drops, admitted, laps, passed, aborted>>
    BY <1>2 DEF FilterInC!Arrive, CTypes
  <2>8. CTypes'
    BY <2>1, <2>7 DEF CTypes
  <2>9. Accounted'
    BY <2>2, <2>4, <2>5, <2>7 DEF Accounted, CTypes
  <2>10. EntryBounds'
    BY <2>6, <2>7 DEF EntryBounds
  <2>11. EntryIsThere'
    BY <2>1, <2>7 DEF EntryIsThere, CTypes
  <2> QED
    BY <2>8, <2>9, <2>10, <2>11
<1> QED
  BY <1>1, <1>2

\* The atomic addition: one more is counted, up to the threshold, and each lap of
\* the counter begins anew.
LEMMA CountStep ==
    ASSUME CInv, NEW c \in Cpus, FilterInC!Count(c)
    PROVE  CInv'
<1> USE PlaneAssumption DEF CInv
<1>1. PICK a \in Sources : a = cpu[c].src
  BY DEF CTypes, At
<1>2. PICK step \in {"permit", "idle"} :
         /\ cpu' = [cpu EXCEPT ![c].at = step]
         /\ step = "permit" => /\ rate[a] < Threshold /\ drops' = drops
                               /\ admitted' = [admitted EXCEPT ![a] = @ + 1]
         /\ step = "idle" => /\ rate[a] >= Threshold /\ drops' = drops + 1
                             /\ admitted' = admitted
  BY <1>1 DEF FilterInC!Count, FilterInC!Admit, FilterInC!Goto
<1>3. /\ cpu[c].at = "found"
      /\ rate' = [rate EXCEPT ![a] = (@ + 1) % Modulus]
      /\ laps' = [laps EXCEPT ![a] = IF rate[a] + 1 = Modulus THEN @ + 1 ELSE @]
      /\ UNCHANGED <<blacklist, packets, passed, aborted>>
  BY <1>1 DEF FilterInC!Count
<1>4. /\ cpu' \in [Cpus -> At]
      /\ N(Busy)' = N(Busy) + (IF step = "idle" THEN 0 ELSE 1) - 1
      /\ \A z \in Sources : /\ N(Pending(z))' = N(Pending(z)) - (IF z = a THEN 1 ELSE 0)
                            /\ N(Late(z))' = N(Late(z))
      /\ \A K : N(K) \in Nat /\ N(K)' \in Nat
  <2>1. step \in Steps
    BY DEF Steps
  <2>2. \A K : N(K) \in Nat /\ N(K)' \in Nat
    BY CountOfCpus
  <2>3. \A z \in Sources :
           /\ N(Pending(z))' = N(Pending(z)) - (IF z = a THEN 1 ELSE 0)
           /\ N(Late(z))' = N(Late(z)) - 0
    BY <1>1, <1>2, <1>3, <2>1, CpuGoes
  <2>4. /\ cpu' \in [Cpus -> At]
        /\ N(Busy)' = N(Busy) + (IF step = "idle" THEN 0 ELSE 1) - 1
    BY <1>2, <1>3, <2>1, CpuGoes
  <2> QED
    BY <2>2, <2>3, <2>4
<1>5. rate[a] # -1
  BY <1>1, <1>3 DEF EntryIsThere
<1>6. CTypes'
  <2>1. (rate[a] + 1) % Modulus \in 0..(Modulus - 1)
    BY DEF CTypes
  <2> QED
    BY <1>2, <1>3, <1>4, <2>1 DEF CTypes
<1>7. Accounted'
  BY <1>2, <1>3, <1>4 DEF Accounted, CTypes
<1>8. EntryBounds'
  <2> SUFFICES ASSUME NEW z \in Sources, rate'[z] # -1
               PROVE  admitted'[z] + N(Late(z))' + 1 <=
                          Threshold * laps'[z] + Least(rate'[z], Threshold) + Cardinality(Cpus)
    BY DEF EntryBounds
  <2>1. CASE z # a
    BY <1>2, <1>3, <1>4, <2>1 DEF EntryBounds, CTypes
  <2>2. CASE z = a
    <3>1. PICK r \in 0..(Modulus - 1), l \in Nat, k \in Nat, n \in Nat, u \in Nat :
             /\ r = rate[a] /\ l = laps[a] /\ k = Cardinality(Cpus)
             /\ n = N(Late(a)) /\ u = admitted[a]
      BY <1>5, CountOfCpus DEF CTypes
    <3>2. u + n + 1 <= Threshold * l + Least(r, Threshold) + k
      BY <1>5, <3>1 DEF EntryBounds
    <3>3. CASE r + 1 = Modulus
      <4>1. rate'[a] = 0 /\ laps'[a] = l + 1
        BY <1>3, <3>1, <3>3 DEF CTypes
      <4>2. admitted'[a] <= u + (IF r < Threshold THEN 1 ELSE 0)
        BY <1>2, <3>1 DEF CTypes
      <4>3. Threshold * (l + 1) = Threshold * l + Threshold
        OBVIOUS
      <4> QED
        BY <1>2, <1>4, <2>2, <3>1, <3>2, <4>1, <4>2, <4>3 DEF Least, CTypes
    <3>4. CASE r + 1 # Modulus
      <4>1. rate'[a] = r + 1 /\ laps'[a] = l
        BY <1>3, <3>1, <3>4 DEF CTypes
      <4>2. admitted'[a] = u + (IF r < Threshold THEN 1 ELSE 0)
        BY <1>2, <3>1 DEF CTypes
      <4>3. Threshold * l \in Nat
        OBVIOUS
      <4> QED
        BY <1>4, <2>2, <3>1, <3>2, <4>1, <4>2, <4>3 DEF Least
    <3> QED
      BY <3>3, <3>4
  <2> QED
    BY <2>1, <2>2
<1>9. EntryIsThere'
  BY <1>2, <1>3, <1>6 DEF EntryIsThere, CTypes
<1> QED
  BY <1>6, <1>7, <1>8, <1>9

\* An addition to an entry that is gone is seen by nobody.
LEMMA CountEvictedStep ==
    ASSUME CInv, NEW c \in Cpus, FilterInC!CountEvicted(c)
    PROVE  CInv'
<1> USE DEF CInv
<1>1. PICK a \in Sources : a = cpu[c].src
  BY DEF CTypes, At
<1>2. PICK step \in {"permit", "idle"} :
         /\ cpu' = [cpu EXCEPT ![c].at = step]
         /\ step = "permit" => /\ drops' = drops
                               /\ admitted' = [admitted EXCEPT ![a] = @ + 1]
         /\ step = "idle" => drops' = drops + 1 /\ admitted' = admitted
  BY <1>1 DEF FilterInC!CountEvicted, FilterInC!Admit, FilterInC!Goto
<1>3. /\ cpu[c].at = "evicted"
      /\ UNCHANGED <<blacklist, rate, packets, laps, passed, aborted>>
  BY DEF FilterInC!CountEvicted, FilterInC!maps
<1>4. step \in Steps
  BY DEF Steps
<1>5. \A K : N(K) \in Nat /\ N(K)' \in Nat
  BY CountOfCpus
<1>6. \A z \in Sources :
         /\ N(Pending(z))' = N(Pending(z)) - (IF z = a THEN 1 ELSE 0)
         /\ N(Late(z))' = N(Late(z)) - (IF z = a THEN 1 ELSE 0)
  BY <1>1, <1>2, <1>3, <1>4, CpuGoes
<1>7. /\ cpu' \in [Cpus -> At]
      /\ N(Busy)' = N(Busy) + (IF step = "idle" THEN 0 ELSE 1) - 1
  BY <1>2, <1>3, <1>4, CpuGoes
<1>8. CTypes' /\ EntryIsThere'
  BY <1>2, <1>3, <1>7 DEF CTypes, EntryIsThere
<1>9. Accounted'
  BY <1>2, <1>3, <1>5, <1>6, <1>7 DEF Accounted, CTypes
<1>10. EntryBounds'
  <2> SUFFICES ASSUME NEW z \in Sources, rate[z] # -1
               PROVE  admitted'[z] + N(Late(z))' + 1 <=
                          Threshold * laps[z] + Least(rate[z], Threshold) + Cardinality(Cpus)
    BY <1>3 DEF EntryBounds
  <2>1. admitted'[z] + N(Late(z))' <= admitted[z] + N(Late(z))
    BY <1>2, <1>5, <1>6 DEF CTypes
  <2>2. /\ admitted[z] + N(Late(z)) \in Nat /\ admitted'[z] + N(Late(z))' \in Nat
        /\ Threshold * laps[z] + Least(rate[z], Threshold) + Cardinality(Cpus) \in Int
    BY <1>5, <1>8, CountOfCpus, PlaneAssumption DEF CTypes, Least
  <2> QED
    BY <2>1, <2>2 DEF EntryBounds
<1> QED
  BY <1>8, <1>9, <1>10

\* The packet that makes the entry is the first that gets past its rate, and every
\* other CPU may be late for it.
LEMMA InsertStep ==
    ASSUME CInv, NEW c \in Cpus, FilterInC!Insert(c)
    PROVE  CInv'
<1> USE DEF CInv
<1>1. PICK a \in Sources : a = cpu[c].src
  BY DEF CTypes, At
<1>2. /\ cpu[c].at = "missing" /\ cpu' = [cpu EXCEPT ![c].at = "permit"]
      /\ UNCHANGED <<blacklist, drops, packets, passed, aborted>>
  BY DEF FilterInC!Insert, FilterInC!Admit, FilterInC!Goto
<1>3. \/ /\ rate[a] = -1 /\ rate' = [rate EXCEPT ![a] = 1]
         /\ admitted' = [admitted EXCEPT ![a] = 1]
         /\ laps' = [laps EXCEPT ![a] = 0]
      \/ /\ rate[a] # -1 /\ UNCHANGED <<rate, laps>>
         /\ admitted' = [admitted EXCEPT ![a] = @ + 1]
  BY <1>1 DEF FilterInC!Insert, FilterInC!Admit, FilterInC!Goto, FilterInC!Absent
<1>4. "permit" \in Steps
  BY DEF Steps
<1>5. \A K : N(K) \in Nat /\ N(K)' \in Nat /\ N(K) <= Cardinality(Cpus)
  BY CountOfCpus
<1>6. \A z \in Sources :
         /\ N(Pending(z))' = N(Pending(z)) - (IF z = a THEN 1 ELSE 0)
         /\ N(Late(z))' = N(Late(z)) - (IF z = a THEN 1 ELSE 0)
  BY <1>1, <1>2, <1>4, CpuGoes
<1>7. cpu' \in [Cpus -> At] /\ N(Busy)' = N(Busy) + 1 - 1
  BY <1>2, <1>4, CpuGoes
<1>8. CTypes' /\ EntryIsThere'
  <2>1. 1 \in 0..(Modulus - 1)
    BY PlaneAssumption
  <2>2. rate' \in [Sources -> {-1} \cup 0..(Modulus - 1)]
    BY <1>3, <2>1 DEF CTypes
  <2>3. CTypes'
    BY <1>2, <1>3, <1>7, <2>2 DEF CTypes
  <2>4. EntryIsThere'
    <3>1. \A z \in Cpus : cpu'[z].at = "found" => cpu'[z] = cpu[z]
      BY <1>2 DEF CTypes, At
    <3>2. \A z \in Sources : rate[z] # -1 => rate'[z] # -1
      BY <1>3 DEF CTypes
    <3> QED
      BY <3>1, <3>2 DEF EntryIsThere, CTypes, At
  <2> QED
    BY <2>3, <2>4
<1>9. Accounted'
  BY <1>2, <1>3, <1>5, <1>6, <1>7 DEF Accounted, CTypes
<1>10. EntryBounds'
  <2> SUFFICES ASSUME NEW z \in Sources, rate'[z] # -1
               PROVE  admitted'[z] + N(Late(z))' + 1 <=
                          Threshold * laps'[z] + Least(rate'[z], Threshold) + Cardinality(Cpus)
    BY DEF EntryBounds
  <2>1. CASE z = a /\ rate[a] = -1
    <3>1. admitted'[z] = 1 /\ laps'[z] = 0 /\ rate'[z] = 1
      BY <1>3, <2>1 DEF CTypes
    <3>2. N(Late(z))' + 1 <= Cardinality(Cpus) /\ Cardinality(Cpus) \in Nat
      BY <1>5, <1>6, <2>1, CountOfCpus
    <3>3. Threshold * 0 = 0 /\ Least(1, Threshold) = 1
      BY PlaneAssumption DEF Least
    <3> QED
      BY <1>5, <3>1, <3>2, <3>3
  <2>2. CASE z # a \/ rate[a] # -1
    <3>1. /\ rate'[z] = rate[z] /\ laps'[z] = laps[z] /\ rate[z] # -1
          /\ admitted'[z] + N(Late(z))' <= admitted[z] + N(Late(z))
      BY <1>3, <1>5, <1>6, <2>2 DEF CTypes
    <3>2. admitted[z] + N(Late(z)) \in Nat /\ admitted'[z] + N(Late(z))' \in Nat
      BY <1>5, <1>8 DEF CTypes
    <3>3. Threshold * laps[z] \in Nat /\ Least(rate[z], Threshold) \in Int
      BY PlaneAssumption DEF CTypes, Least
    <3>4. Threshold * laps[z] + Least(rate[z], Threshold) + Cardinality(Cpus) \in Int
      BY <3>3, PlaneAssumption, FS_CardinalityType
    <3> QED
      BY <3>1, <3>2, <3>4 DEF EntryBounds
  <2> QED
    BY <2>1, <2>2
<1> QED
  BY <1>8, <1>9, <1>10

\* A packet is dropped for its rate, or goes on to the permits.
LEMMA DecideStep ==
    ASSUME CInv, NEW c \in Cpus, FilterInC!Decide(c)
    PROVE  CInv'
<1> USE DEF CInv
<1>1. /\ cpu[c].at = "permit" /\ cpu' = [cpu EXCEPT ![c].at = "idle"]
      /\ UNCHANGED <<blacklist, rate, packets, admitted, laps>>
      /\ \/ passed' = passed + 1 /\ UNCHANGED <<drops, aborted>>
         \/ drops' = drops + 1 /\ UNCHANGED <<passed, aborted>>
         \/ aborted' = aborted + 1 /\ UNCHANGED <<drops, passed>>
  BY DEF FilterInC!Decide, FilterInC!Goto, FilterInC!maps
<1>2. "idle" \in Steps
  BY DEF Steps
<1>3. \A K : N(K) \in Nat /\ N(K)' \in Nat
  BY CountOfCpus
<1>4. \A z \in Sources : N(Pending(z))' = N(Pending(z)) - 0 /\ N(Late(z))' = N(Late(z)) - 0
  BY <1>1, <1>2, CpuGoes
<1>5. cpu' \in [Cpus -> At] /\ N(Busy)' = N(Busy) + 0 - 1
  BY <1>1, <1>2, CpuGoes
<1>6. CTypes' /\ EntryIsThere'
  BY <1>1, <1>5 DEF CTypes, EntryIsThere
<1>7. Accounted' /\ EntryBounds'
  BY <1>1, <1>3, <1>4, <1>5 DEF Accounted, EntryBounds, CTypes
<1> QED
  BY <1>6, <1>7

\* The kernel evicts the entry: who had found it counts nowhere.
LEMMA EvictStep ==
    ASSUME CInv, NEW a \in Sources, FilterInC!Evict(a)
    PROVE  CInv'
<1> USE DEF CInv
<1>1. /\ rate' = [rate EXCEPT ![a] = -1]
      /\ UNCHANGED <<blacklist, drops, packets, admitted, laps, passed, aborted>>
  BY DEF FilterInC!Evict, FilterInC!counters, FilterInC!Absent
<1>2. \A c \in Cpus : cpu'[c] = IF cpu[c].src = a /\ cpu[c].at = "found"
                                THEN [src |-> a, at |-> "evicted"] ELSE cpu[c]
  BY DEF FilterInC!Evict, CTypes, At
<1>3. cpu' \in [Cpus -> At]
  <2>1. [src |-> a, at |-> "evicted"] \in At
    BY DEF At, Steps
  <2> QED
    BY <1>2, <2>1 DEF FilterInC!Evict, CTypes
<1>4. ASSUME NEW K, \A c \in Cpus : cpu'[c] \in K <=> cpu[c] \in K
      PROVE  N(K)' = N(K)
  <2>1. {c \in Cpus : cpu'[c] \in K} = {c \in Cpus : cpu[c] \in K}
    BY <1>4
  <2> QED
    BY <2>1 DEF N
<1>5. N(Busy)' = N(Busy)
  <2>1. \A c \in Cpus : cpu'[c] \in Busy <=> cpu[c] \in Busy
    BY <1>2 DEF Busy, CTypes, At, Steps
  <2> QED
    BY <1>4, <2>1
<1>6. ASSUME NEW z \in Sources
      PROVE  /\ N(Pending(z))' = N(Pending(z))
             /\ z # a => N(Late(z))' = N(Late(z))
  <2>1. \A c \in Cpus : /\ cpu'[c] \in Pending(z) <=> cpu[c] \in Pending(z)
                        /\ z # a => (cpu'[c] \in Late(z) <=> cpu[c] \in Late(z))
    BY <1>2 DEF Pending, Late, CTypes, At, Steps
  <2> QED
    BY <1>4, <2>1
<1>7. CTypes' /\ EntryIsThere'
  BY <1>1, <1>2, <1>3 DEF CTypes, EntryIsThere, At
<1>8. Accounted' /\ EntryBounds'
  BY <1>1, <1>5, <1>6 DEF Accounted, EntryBounds, CTypes
<1> QED
  BY <1>7, <1>8

\* Every step of a CPU keeps the accounts of the filter in C.
LEMMA CStep ==
    ASSUME CInv, FilterInC!Next \/ UNCHANGED cVars
    PROVE  CInv'
<1>1. ASSUME UNCHANGED <<rate, cpu, drops, packets, admitted, laps, passed, aborted>>,
             blacklist' \in SUBSET Sources
      PROVE  CInv'
  BY <1>1, CpusStay DEF CInv, CTypes, Accounted, EntryBounds, EntryIsThere
<1>2. ASSUME NEW a \in Sources, FilterInC!Blacklist(a)
      PROVE  CInv'
  BY <1>1, <1>2 DEF FilterInC!Blacklist, FilterInC!counters, CInv, CTypes
<1>3. CASE UNCHANGED cVars
  BY <1>1, <1>3 DEF cVars, CInv, CTypes
<1> QED
  BY <1>2, <1>3, ArriveStep, CountStep, CountEvictedStep, InsertStep, DecideStep, EvictStep
  DEF FilterInC!Next

\* While a source has an entry, the packets that get past its rate are the threshold
\* for each lap of the counter and one for every other CPU; once no packet is under
\* way each is accounted for.
LEMMA CBounded == CInv => FilterInC!AdmittedAreBounded
<1> SUFFICES ASSUME CInv
             PROVE  FilterInC!AdmittedAreBounded
  OBVIOUS
<1> USE DEF CInv
<1>1. \A K : N(K) \in Nat /\ Cardinality(Cpus) \in Nat
  BY CountOfCpus
<1>2. FilterInC!Cardinality(Cpus) = Cardinality(Cpus)
  BY DEF FilterInC!Cardinality, Cardinality
<1>3. ASSUME NEW a \in Sources, rate[a] # -1
      PROVE  admitted[a] <= Threshold * (laps[a] + 1) + Cardinality(Cpus) - 1
  <2>1. PICK l \in Nat, k \in Nat, n \in Nat, u \in Nat :
           l = laps[a] /\ k = Cardinality(Cpus) /\ n = N(Late(a)) /\ u = admitted[a]
    BY <1>1 DEF CTypes
  <2>2. u + n + 1 <= Threshold * l + Least(rate[a], Threshold) + k
    BY <1>3, <2>1 DEF EntryBounds
  <2>3. Least(rate[a], Threshold) \in Int /\ Least(rate[a], Threshold) <= Threshold
    BY <1>3, PlaneAssumption DEF Least, CTypes
  <2>4. Threshold * (l + 1) = Threshold * l + Threshold /\ Threshold * l \in Nat
    BY PlaneAssumption
  <2> QED
    BY <2>1, <2>2, <2>3, <2>4, PlaneAssumption
<1>4. (\A c \in Cpus : cpu[c].at = "idle") => drops + passed + aborted = packets
  <2> SUFFICES ASSUME \A c \in Cpus : cpu[c].at = "idle"
               PROVE  drops + passed + aborted = packets
    OBVIOUS
  <2>1. {c \in Cpus : cpu[c] \in Busy} = {}
    BY DEF Busy
  <2>2. N(Busy) = 0
    BY <2>1, FS_EmptySet DEF N
  <2> QED
    BY <2>2 DEF Accounted, CTypes
<1> QED
  BY <1>2, <1>3, <1>4 DEF FilterInC!AdmittedAreBounded, FilterInC!Absent

(***************************************************************************)
(* The filter of the XDP program                                           *)
(*                                                                         *)
(* First what one rate does, to the packets that one slot lets through: p  *)
(* is their sequence, c the count, l when it was reset, n the time.        *)
(***************************************************************************)
Passes == [at : Nat, syn : BOOLEAN]

\* The packets of p, or the SYNs only, with a time from a to b.
From(p, a, b, only) == {i \in DOMAIN p : p[i].at \in a..b /\ (only => p[i].syn)}
Many(p, a, b, only) == Cardinality(From(p, a, b, only))

\* In this window the rate let through no more than it counted or its limit, in the
\* Window before it no more than its limit, and in no Window more than twice that.
Held(p, c, l, n, most, only) ==
    /\ l <= n
    /\ \A i \in DOMAIN p : p[i].at <= n /\ ((only => p[i].syn) => p[i].at < l + Window)
    /\ Many(p, l, n, only) <= c /\ Many(p, l, n, only) <= most
    /\ Many(p, l - Window, l - 1, only) <= most
    /\ \A t \in Nat : Many(p, t, t + Window - 1, only) <= 2 * most

\* Numbers of packets are finite, grow with the interval, and add up at most.
LEMMA ManyIs ==
    ASSUME NEW p \in Seq(Passes), NEW only \in BOOLEAN
    PROVE  /\ \A a, b \in Int : /\ IsFiniteSet(From(p, a, b, only))
                                /\ Many(p, a, b, only) \in Nat
           /\ \A a, b, c, d \in Int :
                 From(p, a, b, only) \subseteq From(p, c, d, only) =>
                     Many(p, a, b, only) <= Many(p, c, d, only)
           /\ \A a, b, c, d, e, f \in Int :
                 From(p, a, b, only) \subseteq From(p, c, d, only) \cup From(p, e, f, only) =>
                     Many(p, a, b, only) <= Many(p, c, d, only) + Many(p, e, f, only)
<1>1. ASSUME NEW a \in Int, NEW b \in Int
      PROVE  IsFiniteSet(From(p, a, b, only)) /\ Many(p, a, b, only) \in Nat
  <2>1. IsFiniteSet(1..Len(p))
    BY FS_Interval
  <2>2. From(p, a, b, only) \in SUBSET (1..Len(p))
    BY DEF From
  <2> QED
    BY <2>1, <2>2, FS_Subset, FS_CardinalityType DEF Many
<1>2. ASSUME NEW a \in Int, NEW b \in Int, NEW c \in Int, NEW d \in Int,
             From(p, a, b, only) \subseteq From(p, c, d, only)
      PROVE  Many(p, a, b, only) <= Many(p, c, d, only)
  BY <1>1, <1>2, FS_Subset DEF Many
<1>3. ASSUME NEW a \in Int, NEW b \in Int, NEW c \in Int, NEW d \in Int, NEW e \in Int, NEW f \in Int,
             From(p, a, b, only) \subseteq From(p, c, d, only) \cup From(p, e, f, only)
      PROVE  Many(p, a, b, only) <= Many(p, c, d, only) + Many(p, e, f, only)
  <2> DEFINE S == From(p, c, d, only)
             T == From(p, e, f, only)
  <2>1. IsFiniteSet(S) /\ IsFiniteSet(T)
    BY <1>1
  <2>2. /\ IsFiniteSet(S \cup T)
        /\ Cardinality(S \cup T) = Cardinality(S) + Cardinality(T) - Cardinality(S \cap T)
    BY <2>1, FS_Union
  <2>3. IsFiniteSet(S \cap T)
    BY <2>1, FS_Subset
  <2>4. /\ Cardinality(S) \in Nat /\ Cardinality(T) \in Nat
        /\ Cardinality(S \cap T) \in Nat /\ Cardinality(S \cup T) \in Nat
    BY <2>1, <2>2, <2>3, FS_CardinalityType
  <2>5. Cardinality(From(p, a, b, only)) <= Cardinality(S \cup T)
    BY <1>3, <2>2, FS_Subset
  <2>6. Many(p, a, b, only) \in Nat
    BY <1>1
  <2> HIDE DEF S, T
  <2>7. Many(p, a, b, only) <= Cardinality(S) + Cardinality(T)
    BY <2>2, <2>4, <2>5, <2>6 DEF Many
  <2> QED
    BY <2>7 DEF Many, S, T
<1> QED
  BY <1>1, <1>2, <1>3

\* One more packet is let through: it counts in the windows it falls in.
LEMMA ManyAppended ==
    ASSUME NEW p \in Seq(Passes), NEW r \in Passes, NEW only \in BOOLEAN,
           NEW a \in Int, NEW b \in Int
    PROVE  Many(Append(p, r), a, b, only) =
               Many(p, a, b, only) + (IF r.at \in a..b /\ (only => r.syn) THEN 1 ELSE 0)
<1> DEFINE q == Append(p, r)
<1>1. /\ q \in Seq(Passes) /\ Len(q) = Len(p) + 1 /\ q[Len(p) + 1] = r
      /\ \A i \in 1..Len(p) : q[i] = p[i]
  OBVIOUS
<1>2. DOMAIN p = 1..Len(p) /\ DOMAIN q = 1..(Len(p) + 1) /\ Len(p) \in Nat
  BY <1>1
<1>3. From(q, a, b, only) = IF r.at \in a..b /\ (only => r.syn)
                            THEN From(p, a, b, only) \cup {Len(p) + 1} ELSE From(p, a, b, only)
  <2> HIDE DEF q
  <2> QED
    BY <1>1, <1>2 DEF From
<1>4. Len(p) + 1 \notin From(p, a, b, only)
  BY <1>2 DEF From
<1>5. IsFiniteSet(From(p, a, b, only)) /\ Many(p, a, b, only) \in Nat
  BY ManyIs
<1>6. Cardinality(From(p, a, b, only) \cup {Len(p) + 1}) = Many(p, a, b, only) + 1
  BY <1>4, <1>5, FS_AddElement DEF Many
<1>7. Many(q, a, b, only) =
         IF r.at \in a..b /\ (only => r.syn)
         THEN Many(p, a, b, only) + 1 ELSE Many(p, a, b, only)
  BY <1>3, <1>6 DEF Many
<1> QED
  BY <1>5, <1>7

\* check_rate, on the count and the time of its last reset.
NewCount(c, l, n, most) == IF n - l >= Window THEN 1 ELSE IF c > most THEN c ELSE c + 1
NewReset(l, n) == IF n - l >= Window THEN n ELSE l

\* The fields of what was let through have their types.
LEMMA SeqOfPasses ==
    ASSUME NEW p \in Seq(Passes)
    PROVE  \A i \in DOMAIN p : p[i].at \in Nat /\ p[i].syn \in BOOLEAN
<1>1. \A i \in DOMAIN p : p[i] \in Passes
  OBVIOUS
<1> QED
  BY <1>1 DEF Passes

\* A packet is counted: it has not been let through yet, and when the window is
\* reset, the one that ends was the only one in the Window before.
LEMMA PacketCounted ==
    ASSUME NEW p \in Seq(Passes), NEW c \in Nat, NEW l \in Nat, NEW n \in Nat,
           NEW most \in Nat, NEW only \in BOOLEAN, Held(p, c, l, n, most, only)
    PROVE  /\ Held(p, NewCount(c, l, n, most), NewReset(l, n), n, most, only)
           /\ n < NewReset(l, n) + Window
           /\ NewCount(c, l, n, most) <= most =>
                 Many(p, NewReset(l, n), n, only) + 1 <= NewCount(c, l, n, most)
<1>0. Window \in Nat /\ Window > 0
  BY PlaneAssumption
<1>1. \A a, b \in Int : Many(p, a, b, only) \in Nat
  BY ManyIs
<1>2. /\ l <= n
      /\ \A i \in DOMAIN p : p[i].at <= n /\ ((only => p[i].syn) => p[i].at < l + Window)
      /\ Many(p, l, n, only) <= c /\ Many(p, l, n, only) <= most
      /\ Many(p, l - Window, l - 1, only) <= most
      /\ \A t \in Nat : Many(p, t, t + Window - 1, only) <= 2 * most
  BY DEF Held
<1>3. CASE n - l >= Window
  <2>1. Many(p, n, n, only) = 0
    <3>1. \A i \in DOMAIN p : (only => p[i].syn) => p[i].at < n
      <4>1. l + Window <= n
        BY <1>0, <1>3
      <4>2. \A i \in DOMAIN p : (only => p[i].syn) => p[i].at < l + Window
        BY <1>2
      <4>3. \A x \in Nat : x < l + Window => x < n
        BY <1>0, <4>1
      <4> QED
        BY <4>2, <4>3, SeqOfPasses
    <3>2. From(p, n, n, only) = {}
      BY <3>1, SeqOfPasses DEF From
    <3> QED
      BY <3>2, FS_EmptySet DEF Many
  <2>2. From(p, n - Window, n - 1, only) \subseteq From(p, l, n, only)
    <3>1. \A x \in Nat : x \in (n - Window)..(n - 1) => x \in l..n
      BY <1>0, <1>3
    <3> QED
      BY <3>1, SeqOfPasses DEF From
  <2>3. Many(p, n - Window, n - 1, only) <= Many(p, l, n, only)
    <3>1. n - Window \in Int /\ n - 1 \in Int
      BY <1>0
    <3> QED
      BY <2>2, <3>1, ManyIs
  <2>4. Many(p, n - Window, n - 1, only) <= most
    <3>0. n - Window \in Int /\ n - 1 \in Int /\ l \in Int /\ n \in Int
      BY <1>0
    <3>1. Many(p, n - Window, n - 1, only) \in Nat /\ Many(p, l, n, only) \in Nat
      BY <1>1, <3>0, Zenon
    <3> QED
      BY <1>2, <2>3, <3>1
  <2>5. \A i \in DOMAIN p : p[i].at <= n /\ ((only => p[i].syn) => p[i].at < n + Window)
    <3>1. \A x \in Nat : x <= n => x < n + Window
      BY <1>0
    <3>2. \A i \in DOMAIN p : p[i].at <= n
      BY <1>2
    <3> QED
      BY <3>1, <3>2, SeqOfPasses
  <2>6. NewCount(c, l, n, most) = 1 /\ NewReset(l, n) = n
    BY <1>3 DEF NewCount, NewReset
  <2>7. most = 0 => ~(1 <= most)
    OBVIOUS
  <2>8. Held(p, 1, n, n, most, only)
    BY <1>2, <2>1, <2>4, <2>5 DEF Held
  <2> QED
    BY <1>0, <2>1, <2>6, <2>8
<1>4. CASE ~(n - l >= Window)
  <2>1. NewReset(l, n) = l /\ n < l + Window
    BY <1>0, <1>4 DEF NewReset
  <2>2. /\ NewCount(c, l, n, most) \in Nat /\ c <= NewCount(c, l, n, most)
        /\ NewCount(c, l, n, most) <= most => NewCount(c, l, n, most) = c + 1
    BY <1>4 DEF NewCount
  <2>3. Many(p, l, n, only) \in Nat
    BY <1>1
  <2>4. Many(p, l, n, only) <= NewCount(c, l, n, most)
    BY <1>2, <2>2, <2>3
  <2>5. Held(p, NewCount(c, l, n, most), l, n, most, only)
    BY <1>2, <2>4 DEF Held
  <2> QED
    BY <1>2, <2>1, <2>2, <2>3, <2>5
<1> QED
  BY <1>3, <1>4

\* What is in an extended history was there before, or is the new packet.
LEMMA Appended ==
    ASSUME NEW p \in Seq(Passes), NEW r \in Passes
    PROVE  /\ Append(p, r) \in Seq(Passes)
           /\ \A i \in DOMAIN Append(p, r) :
                 Append(p, r)[i] = r \/ (i \in DOMAIN p /\ Append(p, r)[i] = p[i])
OBVIOUS

\* ... and is let through.
LEMMA PacketPassed ==
    ASSUME NEW p \in Seq(Passes), NEW c \in Nat, NEW l \in Nat, NEW n \in Nat,
           NEW most \in Nat, NEW only \in BOOLEAN, Held(p, c, l, n, most, only),
           n < l + Window, c <= most, Many(p, l, n, only) + 1 <= c,
           NEW r \in Passes, r.at = n
    PROVE  Held(Append(p, r), c, l, n, most, only)
<1>0. Window \in Nat /\ Window > 0
  BY PlaneAssumption
<1>1. PICK q \in Seq(Passes) : q = Append(p, r)
  BY Appended
<1>2. /\ l <= n
      /\ \A i \in DOMAIN p : p[i].at <= n /\ ((only => p[i].syn) => p[i].at < l + Window)
      /\ Many(p, l, n, only) <= c /\ Many(p, l, n, only) <= most
      /\ Many(p, l - Window, l - 1, only) <= most
      /\ \A t \in Nat : Many(p, t, t + Window - 1, only) <= 2 * most
  BY DEF Held
<1>3. \A a, b \in Int :
         /\ Many(p, a, b, only) \in Nat /\ Many(q, a, b, only) \in Nat
         /\ Many(q, a, b, only) <= Many(p, a, b, only) + 1
         /\ n \notin a..b => Many(q, a, b, only) = Many(p, a, b, only)
  <2>1. ASSUME NEW a \in Int, NEW b \in Int
        PROVE  /\ Many(p, a, b, only) \in Nat /\ Many(q, a, b, only) \in Nat
               /\ Many(q, a, b, only) <= Many(p, a, b, only) + 1
               /\ n \notin a..b => Many(q, a, b, only) = Many(p, a, b, only)
    <3>1. Many(p, a, b, only) \in Nat /\ Many(q, a, b, only) \in Nat
      BY ManyIs
    <3>2. Many(q, a, b, only) =
             Many(p, a, b, only) + (IF n \in a..b /\ (only => r.syn) THEN 1 ELSE 0)
      BY <1>1, ManyAppended
    <3> QED
      BY <3>1, <3>2
  <2> QED
    BY <2>1
<1>4. \A i \in DOMAIN q : q[i].at <= n /\ ((only => q[i].syn) => q[i].at < l + Window)
  <2>1. \A i \in DOMAIN q : q[i] = r \/ (i \in DOMAIN p /\ q[i] = p[i])
    BY <1>1, Appended
  <2> QED
    BY <1>2, <2>1
<1>5. Many(q, l, n, only) <= c /\ Many(q, l, n, only) <= most
  <2>1. Many(q, l, n, only) <= Many(p, l, n, only) + 1 /\ Many(p, l, n, only) \in Nat
        /\ Many(q, l, n, only) \in Nat
    BY <1>3
  <2> QED
    BY <2>1
<1>6. Many(q, l - Window, l - 1, only) <= most
  <2>0. l <= n
    BY <1>2
  <2>1. n \notin (l - Window)..(l - 1) /\ l - Window \in Int /\ l - 1 \in Int
    BY <1>0, <2>0
  <2> QED
    BY <1>2, <1>3, <2>1
<1>7. ASSUME NEW t \in Nat
      PROVE  Many(q, t, t + Window - 1, only) <= 2 * most
  <2>0. /\ t \in Int /\ t + Window - 1 \in Int /\ n \in Int
        /\ l \in Int /\ l - Window \in Int /\ l - 1 \in Int
    BY <1>0
  <2>1. CASE n \notin t..(t + Window - 1)
    <3>1. Many(q, t, t + Window - 1, only) = Many(p, t, t + Window - 1, only)
      BY <1>3, <2>0, <2>1, Zenon
    <3> QED
      BY <1>2, <3>1
  \* No time is later than now, and none of this Window earlier than the one before.
  <2>2. CASE n \in t..(t + Window - 1)
    <3>1. From(q, t, t + Window - 1, only) \subseteq
              From(q, l - Window, l - 1, only) \cup From(q, l, n, only)
      <4>1. \A x \in Nat : x \in t..(t + Window - 1) /\ x <= n =>
               x \in (l - Window)..(l - 1) \/ x \in l..n
        <5>1. n \in Nat /\ l \in Nat /\ n <= t + Window - 1 /\ l <= n /\ n < l + Window
          BY <1>2, <2>2
        <5>2. l - Window <= t
          BY <1>0, <5>1
        <5> QED
          BY <1>0, <5>1, <5>2
      <4> QED
        BY <1>4, <4>1, SeqOfPasses DEF From
    <3>2. Many(q, t, t + Window - 1, only) <=
              Many(q, l - Window, l - 1, only) + Many(q, l, n, only)
      BY <2>0, <3>1, ManyIs
    <3>3. /\ Many(q, t, t + Window - 1, only) \in Nat
          /\ Many(q, l - Window, l - 1, only) \in Nat /\ Many(q, l, n, only) \in Nat
      <4>1. \A a, b \in Int : Many(q, a, b, only) \in Nat
        BY <1>3
      <4> QED
        BY <2>0, <4>1, Zenon
    <3> QED
      BY <1>5, <1>6, <3>2, <3>3
  <2> QED
    BY <2>1, <2>2
<1> QED
  BY <1>1, <1>2, <1>4, <1>5, <1>6, <1>7 DEF Held

\* A packet that the rate is not about is let through.
LEMMA OtherPassed ==
    ASSUME NEW p \in Seq(Passes), NEW c \in Nat, NEW l \in Nat, NEW n \in Nat,
           NEW most \in Nat, Held(p, c, l, n, most, TRUE),
           NEW r \in Passes, r.at = n, ~r.syn
    PROVE  Held(Append(p, r), c, l, n, most, TRUE)
<1>1. PICK q \in Seq(Passes) : q = Append(p, r)
  BY Appended
<1>2. \A a, b \in Int : Many(q, a, b, TRUE) = Many(p, a, b, TRUE)
  <2>1. ASSUME NEW a \in Int, NEW b \in Int
        PROVE  Many(q, a, b, TRUE) = Many(p, a, b, TRUE)
    <3>1. Many(p, a, b, TRUE) \in Nat
      BY ManyIs
    <3>2. Many(q, a, b, TRUE) =
             Many(p, a, b, TRUE) + (IF r.at \in a..b /\ (TRUE => r.syn) THEN 1 ELSE 0)
      BY <1>1, ManyAppended
    <3>3. ~(r.at \in a..b /\ (TRUE => r.syn))
      BY Zenon
    <3>4. Many(q, a, b, TRUE) = Many(p, a, b, TRUE) + 0
      BY <3>2, <3>3, Zenon
    <3>5. \A m \in Nat : m + 0 = m
      OBVIOUS
    <3> QED
      BY <3>1, <3>4, <3>5, Zenon
  <2> QED
    BY <2>1
<1>3. \A i \in DOMAIN q : q[i].at <= n /\ (q[i].syn => q[i].at < l + Window)
  <2>1. \A i \in DOMAIN q : q[i] = r \/ (i \in DOMAIN p /\ q[i] = p[i])
    BY <1>1, Appended
  <2> QED
    BY <2>1 DEF Held
<1>4. Held(q, c, l, n, most, TRUE)
  <2>1. Window \in Nat
    BY PlaneAssumption
  <2>2. /\ l \in Int /\ n \in Int /\ l - Window \in Int /\ l - 1 \in Int
        /\ \A t \in Nat : t \in Int /\ t + Window - 1 \in Int
    BY <2>1
  <2>3. /\ Many(q, l, n, TRUE) = Many(p, l, n, TRUE)
        /\ Many(q, l - Window, l - 1, TRUE) = Many(p, l - Window, l - 1, TRUE)
        /\ \A t \in Nat : Many(q, t, t + Window - 1, TRUE) = Many(p, t, t + Window - 1, TRUE)
    BY <1>2, <2>2, Zenon
  <2> QED
    BY <1>3, <2>3 DEF Held
<1> QED
  BY <1>1, <1>4

\* The clock goes on.
LEMMA LaterHeld ==
    ASSUME NEW p \in Seq(Passes), NEW c \in Nat, NEW l \in Nat, NEW n \in Nat,
           NEW most \in Nat, NEW only \in BOOLEAN, Held(p, c, l, n, most, only)
    PROVE  Held(p, c, l, n + 1, most, only)
<1>1. \A i \in DOMAIN p : p[i].at \in Nat /\ p[i].at <= n
  BY SeqOfPasses DEF Held
<1>2. From(p, l, n + 1, only) = From(p, l, n, only)
  BY <1>1 DEF From
<1>3. \A i \in DOMAIN p : p[i].at <= n + 1
  BY <1>1
<1> QED
  BY <1>2, <1>3 DEF Many, Held

(***************************************************************************)
(* Then the filter, which has two rates for each slot: one of all packets, *)
(* one of the SYNs.                                                        *)
(***************************************************************************)
SlotHeld(x) ==
    /\ Held(through[x], udpRate[x].count, udpRate[x].last_reset, now, MaxUdp, FALSE)
    /\ Held(through[x], synRate[x].count, synRate[x].last_reset, now, MaxSyn, TRUE)

FilterInv == Filter!TypeOK /\ \A x \in Filter!Slots : SlotHeld(x)

\* What a slot has let through are packets, with the time they came.
LEMMA ThroughIs ==
    ASSUME Filter!TypeOK, NEW x \in Filter!Slots
    PROVE  through[x] \in Seq(Passes)
<1>1. ASSUME NEW S, NEW T, S \subseteq T, NEW p \in Seq(S)
      PROVE  p \in Seq(T)
  <2>1. Len(p) \in Nat /\ p \in [1..Len(p) -> S]
    OBVIOUS
  <2>2. p \in [1..Len(p) -> T]
    BY <1>1, <2>1
  <2> QED
    BY <2>1, <2>2
<1>2. [at : Filter!Times, syn : BOOLEAN] \subseteq Passes
  BY PlaneAssumption DEF Filter!Times, Passes
<1>3. through[x] \in Seq([at : Filter!Times, syn : BOOLEAN])
  BY DEF Filter!TypeOK
<1> QED
  BY <1>1, <1>2, <1>3

\* The fields of a rate entry are numbers.
LEMMA EntryIs ==
    ASSUME NEW most \in Nat, NEW e \in Filter!RateEntry(most)
    PROVE  e.count \in Nat /\ e.last_reset \in Nat
BY PlaneAssumption DEF Filter!RateEntry, Filter!Times

\* A rate counts a packet, and may let it through.
LEMMA RateCounted ==
    ASSUME NEW p \in Seq(Passes), NEW most \in Nat, NEW only \in BOOLEAN,
           NEW e \in Filter!RateEntry(most), now \in Filter!Times,
           Held(p, e.count, e.last_reset, now, most, only),
           NEW e2, e2 = Filter!Counted(e, most)
    PROVE  /\ e2 \in Filter!RateEntry(most)
           /\ Held(p, e2.count, e2.last_reset, now, most, only)
           /\ e2.count <= most => \A r \in Passes : r.at = now =>
                  Held(Append(p, r), e2.count, e2.last_reset, now, most, only)
<1>1. PICK c \in Nat, l \in Nat, n \in Nat :
         c = e.count /\ l = e.last_reset /\ n = now /\ c <= most + 1 /\ l \in Filter!Times
  BY PlaneAssumption DEF Filter!RateEntry, Filter!Times
<1>2. e2.count = NewCount(c, l, n, most) /\ e2.last_reset = NewReset(l, n)
  BY <1>1 DEF Filter!Counted, Filter!Outlived, NewCount, NewReset, Filter!RateEntry
<1>3. NewCount(c, l, n, most) \in 0..(most + 1) /\ NewReset(l, n) \in Filter!Times
  BY <1>1 DEF NewCount, NewReset
<1>4. e2 \in Filter!RateEntry(most)
  <2>1. e2 = [count |-> NewCount(c, l, n, most), last_reset |-> NewReset(l, n)]
    BY <1>1 DEF Filter!Counted, Filter!Outlived, NewCount, NewReset, Filter!RateEntry
  <2> QED
    BY <1>3, <2>1 DEF Filter!RateEntry
<1>5. PICK c2 \in Nat, l2 \in Nat :
         c2 = NewCount(c, l, n, most) /\ l2 = NewReset(l, n)
  BY <1>3, PlaneAssumption DEF Filter!Times
<1>6. /\ Held(p, c2, l2, n, most, only) /\ n < l2 + Window
      /\ c2 <= most => Many(p, l2, n, only) + 1 <= c2
  <2>1. Held(p, c, l, n, most, only)
    BY <1>1
  <2>2. /\ Held(p, NewCount(c, l, n, most), NewReset(l, n), n, most, only)
        /\ n < NewReset(l, n) + Window
        /\ NewCount(c, l, n, most) <= most =>
              Many(p, NewReset(l, n), n, only) + 1 <= NewCount(c, l, n, most)
    BY <2>1, PacketCounted
  <2> QED
    BY <1>5, <2>2
<1>7. c2 <= most => \A r \in Passes : r.at = n => Held(Append(p, r), c2, l2, n, most, only)
  BY <1>6, PacketPassed
<1> QED
  BY <1>1, <1>2, <1>4, <1>5, <1>6, <1>7

\* Nothing has been let through.
LEMMA FilterInit == Filter!Init => FilterInv
<1> SUFFICES ASSUME Filter!Init
             PROVE  FilterInv
  OBVIOUS
<1>1. Filter!TypeOK
  BY PlaneAssumption DEF Filter!Init, Filter!TypeOK, Filter!RateEntry, Filter!Times
<1>2. ASSUME NEW x \in Filter!Slots
      PROVE  SlotHeld(x)
  <2>1. /\ through[x] = << >> /\ now = 0
        /\ udpRate[x].count = 0 /\ udpRate[x].last_reset = 0
        /\ synRate[x].count = 0 /\ synRate[x].last_reset = 0
    BY DEF Filter!Init
  <2>2. \A a, b, only : Many(<< >>, a, b, only) = 0
    <3>1. \A a, b, only : From(<< >>, a, b, only) = {}
      BY DEF From
    <3> QED
      BY <3>1, FS_EmptySet DEF Many
  <2>3. ASSUME NEW most \in Nat, NEW only \in BOOLEAN
        PROVE  Held(<< >>, 0, 0, 0, most, only)
    BY <2>2 DEF Held
  <2> QED
    BY <2>1, <2>3, PlaneAssumption DEF SlotHeld
<1> QED
  BY <1>1, <1>2 DEF FilterInv

\* An action leaves every other slot alone, and this one's rates hold after it.
LEMMA SlotStep ==
    ASSUME FilterInv, UNCHANGED now, NEW x \in Filter!Slots,
           NEW u \in Filter!RateEntry(MaxUdp), udpRate' = [udpRate EXCEPT ![x] = u],
           NEW y \in Filter!RateEntry(MaxSyn), synRate' = [synRate EXCEPT ![x] = y],
           NEW p \in Seq([at : Filter!Times, syn : BOOLEAN]), through' = [through EXCEPT ![x] = p],
           verdicts' = verdicts,
           Held(p, u.count, u.last_reset, now, MaxUdp, FALSE),
           Held(p, y.count, y.last_reset, now, MaxSyn, TRUE)
    PROVE  FilterInv'
<1>1. Filter!TypeOK'
  BY DEF FilterInv, Filter!TypeOK
<1>2. ASSUME NEW z \in Filter!Slots
      PROVE  SlotHeld(z)'
  <2>1. CASE z = x
    BY <2>1 DEF FilterInv, Filter!TypeOK, SlotHeld
  <2>2. CASE z # x
    BY <2>2 DEF FilterInv, Filter!TypeOK, SlotHeld
  <2> QED
    BY <2>1, <2>2
<1> QED
  BY <1>1, <1>2 DEF FilterInv

\* A packet of a slot, in the order in which the filter decides.
LEMMA FilterPacketStep ==
    ASSUME FilterInv, NEW x \in Filter!Slots,
           \/ Filter!UdpFlood(x) \/ Filter!NotAitp(x) \/ Filter!SynFlood(x)
           \/ \E s \in Sids, syn \in BOOLEAN : Filter!Aitp(x, s, syn)
    PROVE  FilterInv'
<1> DEFINE u == Filter!Counted(udpRate[x], MaxUdp)
           y == Filter!Counted(synRate[x], MaxSyn)
           e == synRate[x]
           p == through[x]
           Came(syn) == [at |-> now, syn |-> syn]
           Outcome ==
               /\ udpRate' = [udpRate EXCEPT ![x] = u] /\ now' = now /\ verdicts' = verdicts
               /\ \/ /\ synRate' = [synRate EXCEPT ![x] = e]
                     /\ \/ through' = [through EXCEPT ![x] = p]
                        \/ /\ u.count <= MaxUdp
                           /\ through' = [through EXCEPT ![x] = Append(p, Came(FALSE))]
                  \/ /\ synRate' = [synRate EXCEPT ![x] = y]
                     /\ \/ through' = [through EXCEPT ![x] = p]
                        \/ /\ u.count <= MaxUdp /\ y.count <= MaxSyn
                           /\ through' = [through EXCEPT ![x] = Append(p, Came(TRUE))]
<1>1. /\ now \in Filter!Times /\ p \in Seq(Passes)
      /\ p \in Seq([at : Filter!Times, syn : BOOLEAN])
      /\ udpRate[x] \in Filter!RateEntry(MaxUdp) /\ e \in Filter!RateEntry(MaxSyn)
      /\ \A syn \in BOOLEAN : /\ Came(syn) \in Passes
                              /\ Append(p, Came(syn)) \in Seq([at : Filter!Times, syn : BOOLEAN])
  <2>1. /\ now \in Filter!Times /\ p \in Seq([at : Filter!Times, syn : BOOLEAN])
        /\ udpRate[x] \in Filter!RateEntry(MaxUdp) /\ e \in Filter!RateEntry(MaxSyn)
    BY DEF FilterInv, Filter!TypeOK
  <2>2. \A syn \in BOOLEAN : /\ Came(syn) \in Passes
                             /\ Came(syn) \in [at : Filter!Times, syn : BOOLEAN]
    BY <2>1, PlaneAssumption DEF Passes, Filter!Times
  <2>3. p \in Seq(Passes)
    BY ThroughIs DEF FilterInv
  <2>4. \A syn \in BOOLEAN : Append(p, Came(syn)) \in Seq([at : Filter!Times, syn : BOOLEAN])
    <3> HIDE DEF p, Came
    <3> QED
      BY <2>1, <2>2
  <2> HIDE DEF p, Came, e
  <2> QED
    BY <2>1, <2>2, <2>3, <2>4
<1>2. /\ u \in Filter!RateEntry(MaxUdp)
      /\ Held(p, u.count, u.last_reset, now, MaxUdp, FALSE)
      /\ u.count <= MaxUdp => \A syn \in BOOLEAN :
             Held(Append(p, Came(syn)), u.count, u.last_reset, now, MaxUdp, FALSE)
  <2>1. /\ Held(p, udpRate[x].count, udpRate[x].last_reset, now, MaxUdp, FALSE)
        /\ MaxUdp \in Nat
    BY PlaneAssumption DEF FilterInv, SlotHeld
  <2>2. \A syn \in BOOLEAN : Came(syn).at = now
    OBVIOUS
  <2> HIDE DEF u, Came, p
  <2>3. u = Filter!Counted(udpRate[x], MaxUdp)
    BY DEF u
  <2>4. p = through[x]
    BY DEF p
  <2> QED
    BY <1>1, <2>1, <2>2, <2>3, RateCounted
<1>3. /\ y \in Filter!RateEntry(MaxSyn)
      /\ Held(p, y.count, y.last_reset, now, MaxSyn, TRUE)
      /\ y.count <= MaxSyn =>
             Held(Append(p, Came(TRUE)), y.count, y.last_reset, now, MaxSyn, TRUE)
  <2>1. /\ Held(p, e.count, e.last_reset, now, MaxSyn, TRUE)
        /\ MaxSyn \in Nat
    BY PlaneAssumption DEF FilterInv, SlotHeld
  <2>2. Came(TRUE).at = now /\ Came(TRUE) \in Passes
    BY <1>1
  <2> HIDE DEF y, Came, p, e
  <2>3. y = Filter!Counted(e, MaxSyn)
    BY DEF y, e
  <2> QED
    BY <1>1, <2>1, <2>2, <2>3, RateCounted
\* One that is no SYN leaves the rate of the SYNs alone.
<1>4. /\ Held(p, e.count, e.last_reset, now, MaxSyn, TRUE)
      /\ Held(Append(p, Came(FALSE)), e.count, e.last_reset, now, MaxSyn, TRUE)
  <2>1. Held(p, e.count, e.last_reset, now, MaxSyn, TRUE)
    BY DEF FilterInv, SlotHeld
  <2>2. e.count \in Nat /\ e.last_reset \in Nat /\ now \in Nat /\ MaxSyn \in Nat
    <3>1. now \in Nat /\ MaxSyn \in Nat
      BY <1>1, PlaneAssumption DEF Filter!Times
    <3> QED
      BY <1>1, <3>1, EntryIs
  <2>3. Came(FALSE).at = now /\ ~Came(FALSE).syn /\ Came(FALSE) \in Passes
    BY <1>1
  <2> HIDE DEF Came, p, e
  <2> QED
    BY <1>1, <2>1, <2>2, <2>3, OtherPassed
<1>5. Outcome
  <2>1. /\ [synRate EXCEPT ![x] = e] = synRate /\ [through EXCEPT ![x] = p] = through
        /\ MaxUdp \in Nat /\ MaxSyn \in Nat
        /\ u.count \in Nat /\ y.count \in Nat
    BY <1>2, <1>3, PlaneAssumption DEF FilterInv, Filter!TypeOK, Filter!RateEntry
  <2>2. /\ Filter!OverRate(udpRate[x], MaxUdp) <=> ~(u.count <= MaxUdp)
        /\ Filter!OverRate(synRate[x], MaxSyn) <=> ~(y.count <= MaxSyn)
    BY <2>1 DEF Filter!OverRate
  <2>3. /\ Filter!CountUdp(x) => udpRate' = [udpRate EXCEPT ![x] = u]
        /\ Filter!CountSyn(x) => synRate' = [synRate EXCEPT ![x] = y]
        /\ \A syn : Filter!Pass(x, syn) => through' = [through EXCEPT ![x] = Append(p, Came(syn))]
    BY DEF Filter!CountUdp, Filter!CountSyn, Filter!Pass
  <2> HIDE DEF u, y, e, p, Came
  <2>4. CASE Filter!UdpFlood(x)
    BY <2>1, <2>3, <2>4 DEF Filter!UdpFlood
  <2>5. CASE Filter!NotAitp(x)
    BY <2>1, <2>2, <2>3, <2>5 DEF Filter!NotAitp
  <2>6. CASE Filter!SynFlood(x)
    BY <2>1, <2>3, <2>6 DEF Filter!SynFlood
  <2>7. ASSUME NEW s \in Sids, NEW syn \in BOOLEAN, Filter!Aitp(x, s, syn)
        PROVE  Outcome
    BY <2>1, <2>2, <2>3, <2>7 DEF Filter!Aitp
  <2> QED
    BY <2>4, <2>5, <2>6, <2>7
<1> HIDE DEF u, y, e, p, Came
<1> QED
  BY <1>1, <1>2, <1>3, <1>4, <1>5, SlotStep

\* Every way of a packet through the filter keeps the invariant of the rates.
LEMMA FilterStep ==
    ASSUME FilterInv, Filter!Next \/ UNCHANGED filterVars
    PROVE  FilterInv'
<1>1. CASE Filter!Tick
  <2>1. /\ now' = now + 1 /\ now' \in Filter!Times
        /\ UNCHANGED <<udpRate, synRate, verdicts, through>>
    BY <1>1, PlaneAssumption DEF Filter!Tick, FilterInv, Filter!TypeOK, Filter!Times
  <2>2. Filter!TypeOK'
    BY <2>1 DEF FilterInv, Filter!TypeOK
  <2>3. ASSUME NEW x \in Filter!Slots
        PROVE  SlotHeld(x)'
    <3>1. /\ now \in Nat /\ through[x] \in Seq(Passes) /\ MaxUdp \in Nat /\ MaxSyn \in Nat
          /\ udpRate[x].count \in Nat /\ udpRate[x].last_reset \in Nat
          /\ synRate[x].count \in Nat /\ synRate[x].last_reset \in Nat
      <4>1. /\ now \in Nat /\ MaxUdp \in Nat /\ MaxSyn \in Nat
            /\ udpRate[x] \in Filter!RateEntry(MaxUdp) /\ synRate[x] \in Filter!RateEntry(MaxSyn)
        BY PlaneAssumption DEF FilterInv, Filter!TypeOK, Filter!Times
      <4> QED
        BY <4>1, EntryIs, ThroughIs DEF FilterInv
    <3>2. SlotHeld(x)
      BY DEF FilterInv
    <3> QED
      BY <2>1, <3>1, <3>2, LaterHeld DEF SlotHeld
  <2> QED
    BY <2>2, <2>3 DEF FilterInv
<1>2. ASSUME UNCHANGED <<now, udpRate, synRate, through>>,
             verdicts' \in [Sids -> {"none", "deny", "permit"}]
      PROVE  FilterInv'
  BY <1>2 DEF FilterInv, Filter!TypeOK, SlotHeld
<1>3. ASSUME NEW s \in Sids, Filter!WritePermit(s)
      PROVE  FilterInv'
  BY <1>2, <1>3 DEF Filter!WritePermit, FilterInv, Filter!TypeOK
<1>4. CASE UNCHANGED filterVars
  BY <1>2, <1>4 DEF filterVars, FilterInv, Filter!TypeOK
<1> QED
  BY <1>1, <1>3, <1>4, FilterPacketStep DEF Filter!Next

\* Both filters rest while another component is at work, and keep their invariants.
LEMMA FilterAlways == PlaneSpec => [](FilterInv /\ CInv)
<1>1. PlaneInit => FilterInv /\ CInv
  BY FilterInit, CInit DEF PlaneInit
<1>2. (FilterInv /\ CInv) /\ [PlaneNext]_planeVars => (FilterInv /\ CInv)'
  <2> SUFFICES ASSUME FilterInv, CInv, [PlaneNext]_planeVars
               PROVE  FilterInv' /\ CInv'
    OBVIOUS
  <2>1. (Filter!Next \/ UNCHANGED filterVars) /\ (FilterInC!Next \/ UNCHANGED cVars)
    BY DEF PlaneNext, planeVars, Rest
  <2> QED
    BY <2>1, FilterStep, CStep
<1> QED
  BY <1>1, <1>2, PTL DEF PlaneSpec

\* The bursts that the slots let through are bounded.
LEMMA FilterBounded == FilterInv => Filter!FloodIsBounded
<1> SUFFICES ASSUME FilterInv, NEW x \in Filter!Slots, NEW t \in Filter!Times
             PROVE  LET Recently == {i \in DOMAIN through[x] :
                                        through[x][i].at \in t..(t + Window - 1)}
                    IN  /\ Cardinality(Recently) <= 2 * MaxUdp
                        /\ Cardinality({i \in Recently : through[x][i].syn}) <= 2 * MaxSyn
  BY DEF Filter!FloodIsBounded, Filter!Cardinality, Cardinality
<1> DEFINE b == t + Window - 1
<1>1. t \in Nat
  BY PlaneAssumption DEF Filter!Times
<1>2. Many(through[x], t, b, FALSE) <= 2 * MaxUdp /\ Many(through[x], t, b, TRUE) <= 2 * MaxSyn
  BY <1>1 DEF FilterInv, SlotHeld, Held
<1>3. /\ From(through[x], t, b, FALSE) = {i \in DOMAIN through[x] : through[x][i].at \in t..b}
      /\ From(through[x], t, b, TRUE) =
            {i \in {j \in DOMAIN through[x] : through[x][j].at \in t..b} : through[x][i].syn}
  BY DEF From
<1> QED
  BY <1>2, <1>3 DEF Many

\* A flood is bounded in both filters: in the one of the XDP program a CPU lets
\* through no more than twice the limit of one bucket's packets, and of its SYNs, in
\* any length of Window, wherever its windows begin; in the one in C no more gets
\* past a source's rate than the threshold for each lap of its counter and one for
\* every other CPU, and every packet is accounted for.
THEOREM FloodSafe == PlaneSpec => []FloodIsBounded
<1>1. FilterInv /\ CInv => FloodIsBounded
  BY FilterBounded, CBounded DEF FloodIsBounded
<1> QED
  BY <1>1, FilterAlways, PTL

\* Every component of the data plane keeps the types of its state: no counter of the
\* enforcer or of the filters leaves its range, no more packets are accounted for
\* than arrived, and the bounded queue and batch stay within their sizes.
THEOREM TypesSafe == PlaneSpec => []TypesOK
<1>1. CInv => FilterInC!TypeOK
  <2> SUFFICES ASSUME CInv
               PROVE  FilterInC!TypeOK
    OBVIOUS
  <2>1. /\ N(Busy) \in Nat /\ \A a \in Sources : N(Pending(a)) \in Nat
    BY CountOfCpus
  <2>2. drops + passed + aborted <= packets
    BY <2>1 DEF CInv, CTypes, Accounted
  <2>3. \A a \in Sources : admitted[a] \in 0..MostPackets /\ laps[a] \in 0..MostPackets
    BY <2>1, PlaneAssumption DEF CInv, CTypes, Accounted
  <2> QED
    BY <2>2, <2>3 DEF CInv, CTypes, FilterInC!TypeOK, FilterInC!Absent, FilterInC!Steps, At, Steps
<1>2. PipelineInv => Pipeline!TypeOK
  BY PlaneAssumption DEF PipelineInv, PipelineNumbers, Pipeline!StatsReconcile, Pipeline!TypeOK
<1>3. SessionInv /\ PermitInv /\ PipelineInv /\ FilterInv /\ CInv => TypesOK
  BY <1>1, <1>2 DEF SessionInv, PermitInv, FilterInv, TypesOK
<1> QED
  BY <1>3, SessionAlways, PermitAlways, PipelineAlways, FilterAlways, PTL
=============================================================================
