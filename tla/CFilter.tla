------------------------------ MODULE CFilter ------------------------------
(***************************************************************************)
(* The packet filter in C (aitp-ebpf/src/xdp_filter.bpf.c): what           *)
(* aitp_xdp_filter does with an AITP packet on several CPUs, which share   *)
(* the rate of a source.  A CPU looks the rate up, counts, and decides in  *)
(* steps of its own; in between the kernel may evict the entry from its    *)
(* LRU map.  Nothing resets a rate: user space is a stub.                  *)
(*                                                                         *)
(* Packets that are not AITP over IPv4 pass before any state is touched.   *)
(***************************************************************************)
EXTENDS Integers, FiniteSets

CONSTANTS
    Cpus,
    Sources,     \* IPv4 addresses
    Threshold,   \* SYN_RATE_THRESHOLD, 200
    Modulus,     \* 2^32: a rate is a __u32 that wraps
    MostPackets  \* bound on the packets

VARIABLES
    blacklist,  \* ip_blacklist_map
    rate,       \* ip_syn_rate_map, Absent where it has no entry
    cpu,        \* the packet each CPU is at: its source and how far it is
    drops,      \* drop_counter, summed up over the CPUs
    packets,    \* history: packets that arrived
    admitted,   \* history: those that got past the rate of each source since its entry was made
    laps,       \* history: how often each rate has wrapped since
    passed,     \* history: packets that passed
    aborted     \* history: packets dropped without being counted

maps == <<blacklist, rate>>
counters == <<drops, packets, admitted, laps, passed, aborted>>
vars == <<maps, cpu, counters>>

Absent == -1
Steps == {"idle", "found", "missing", "evicted", "permit"}

TypeOK ==
    /\ blacklist \in SUBSET Sources
    /\ rate \in [Sources -> {Absent} \cup 0..(Modulus - 1)]
    /\ cpu \in [Cpus -> [src : Sources, at : Steps]]
    /\ drops + passed + aborted <= packets
    /\ admitted \in [Sources -> 0..MostPackets]
    /\ laps \in [Sources -> 0..MostPackets]

Init ==
    /\ blacklist = {}
    /\ rate = [a \in Sources |-> Absent]
    /\ cpu \in [Cpus -> [src : Sources, at : {"idle"}]]
    /\ drops = 0 /\ packets = 0 /\ passed = 0 /\ aborted = 0
    /\ admitted = [a \in Sources |-> 0]
    /\ laps = [a \in Sources |-> 0]

Goto(c, step) == cpu' = [cpu EXCEPT ![c].at = step]

\* Layer 0, then the lookup of layer 1.
Arrive(c, a) ==
    /\ cpu[c].at = "idle"
    /\ packets < MostPackets
    /\ packets' = packets + 1
    /\ \/ /\ a \in blacklist
          /\ drops' = drops + 1
          /\ UNCHANGED cpu
       \/ /\ a \notin blacklist
          /\ cpu' = [cpu EXCEPT ![c] = [src |-> a, at |-> IF rate[a] = Absent
                                                          THEN "missing" ELSE "found"]]
          /\ UNCHANGED drops
    /\ UNCHANGED <<maps, admitted, laps, passed, aborted>>

Admit(c) ==
    /\ Goto(c, "permit")
    /\ admitted' = [admitted EXCEPT ![cpu[c].src] = @ + 1]

\* The atomic addition, and what it returned against the threshold.
Count(c) ==
    LET a == cpu[c].src
    IN  /\ cpu[c].at = "found"
        /\ rate' = [rate EXCEPT ![a] = (@ + 1) % Modulus]
        /\ laps' = [laps EXCEPT ![a] = IF rate[a] + 1 = Modulus THEN @ + 1 ELSE @]
        /\ \/ rate[a] < Threshold /\ Admit(c) /\ UNCHANGED drops
           \/ rate[a] >= Threshold /\ Goto(c, "idle") /\ drops' = drops + 1 /\ UNCHANGED admitted
        /\ UNCHANGED <<blacklist, packets, passed, aborted>>

\* The entry went between lookup and addition, which counts nowhere.
CountEvicted(c) ==
    /\ cpu[c].at = "evicted"
    /\ \/ Admit(c) /\ UNCHANGED drops
       \/ Goto(c, "idle") /\ drops' = drops + 1 /\ UNCHANGED admitted
    /\ UNCHANGED <<maps, packets, laps, passed, aborted>>

InsertM_Overwrites(c) ==
    LET a == cpu[c].src
    IN  /\ cpu[c].at = "missing"
        /\ rate' = [rate EXCEPT ![a] = 1]
        /\ admitted' = [admitted EXCEPT ![a] = IF rate[a] = Absent THEN 1 ELSE @ + 1]
        /\ laps' = [laps EXCEPT ![a] = IF rate[a] = Absent THEN 0 ELSE @]
        /\ Goto(c, "permit")
        /\ UNCHANGED <<blacklist, drops, packets, passed, aborted>>

\* BPF_NOEXIST: when another CPU was first, this packet is not counted.
Insert(c) ==
    LET a == cpu[c].src
    IN  /\ cpu[c].at = "missing"
        /\ \/ /\ rate[a] = Absent
              /\ rate' = [rate EXCEPT ![a] = 1]
              /\ admitted' = [admitted EXCEPT ![a] = 1]
              /\ laps' = [laps EXCEPT ![a] = 0]
              /\ Goto(c, "permit")
           \/ /\ rate[a] # Absent
              /\ Admit(c)
              /\ UNCHANGED <<rate, laps>>
        /\ UNCHANGED <<blacklist, drops, packets, passed, aborted>>

\* A packet with a permit passes; one that is too short is dropped uncounted.
Decide(c) ==
    /\ cpu[c].at = "permit"
    /\ Goto(c, "idle")
    /\ \/ passed' = passed + 1 /\ UNCHANGED <<drops, aborted>>
       \/ drops' = drops + 1 /\ UNCHANGED <<passed, aborted>>
       \/ aborted' = aborted + 1 /\ UNCHANGED <<drops, passed>>
    /\ UNCHANGED <<maps, packets, admitted, laps>>

-----------------------------------------------------------------------------
Evict(a) ==
    /\ rate[a] # Absent
    /\ rate' = [rate EXCEPT ![a] = Absent]
    /\ cpu' = [c \in Cpus |-> IF cpu[c] = [src |-> a, at |-> "found"]
                              THEN [src |-> a, at |-> "evicted"] ELSE cpu[c]]
    /\ UNCHANGED <<blacklist, counters>>

Blacklist(a) ==
    /\ blacklist' \in {blacklist \cup {a}, blacklist \ {a}}
    /\ UNCHANGED <<rate, cpu, counters>>

Next ==
    \/ \E c \in Cpus :
          \/ \E a \in Sources : Arrive(c, a)
          \/ Count(c) \/ CountEvicted(c) \/ Insert(c) \/ Decide(c)
    \/ \E a \in Sources : Evict(a) \/ Blacklist(a)

Spec == Init /\ [][Next]_vars

-----------------------------------------------------------------------------
\* While a source has an entry, the packets that get past its rate are the
\* threshold for each lap of the 32-bit counter, and one more for every other
\* CPU, which may have looked the entry up before it was made; and once no
\* packet is under way each is accounted for.
AdmittedAreBounded ==
    /\ \A a \in Sources : rate[a] # Absent =>
          admitted[a] <= Threshold * (laps[a] + 1) + Cardinality(Cpus) - 1
    /\ (\A c \in Cpus : cpu[c].at = "idle") => drops + passed + aborted = packets
=============================================================================
