----------------------------- MODULE XdpFilter -----------------------------
(***************************************************************************)
(* The packet filter in the kernel (kelan-ebpf-program/src/main.rs): what  *)
(* kelan_xdp decides of a UDP packet over the permit map, which user space *)
(* writes, and the two arrays of rates, of which every CPU has its own.    *)
(*                                                                         *)
(* A packet is one step: nothing else touches its CPU's rates, and the     *)
(* permit map is read once.  Frames that are no UDP over IPv4 pass before  *)
(* any state is touched, and the counters of STATS_MAP, whose entries      *)
(* nobody creates, stay absent: neither is in the model.                   *)
(***************************************************************************)
EXTENDS Integers, Sequences, FiniteSets

CONSTANTS
    Cpus,
    Buckets,    \* values of fnv_hash: the sources of one value share a budget
    Sessions,   \* session ids
    MaxUdp,     \* MAX_UDP_PER_SEC, 200 in the code (neither limit is zero)
    MaxSyn,     \* MAX_SYN_PER_SEC, 50
    Window,     \* TIME_WINDOW_NS
    LastTick    \* bound on the clock

VARIABLES
    now,      \* bpf_ktime_get_ns()
    udpRate,  \* UDP_RATE
    synRate,  \* SYN_RATE
    permits,  \* PERMIT_MAP: the verdict of each session in it, or "none"
    passed    \* history: the packets let through, with their time

vars == <<now, udpRate, synRate, permits, passed>>

Times == 0..LastTick
Slots == Cpus \X Buckets

\* "count" is only compared with the limit, so it saturates above it.
RateEntry(most) == [count : 0..(most + 1), last_reset : Times]

TypeOK ==
    /\ now \in Times
    /\ udpRate \in [Slots -> RateEntry(MaxUdp)]
    /\ synRate \in [Slots -> RateEntry(MaxSyn)]
    /\ permits \in [Sessions -> {"none", "deny", "permit"}]
    /\ passed \in [Slots -> Seq([at : Times, syn : BOOLEAN])]

\* Arrays are zeroed by the kernel; hash maps are empty.
Init ==
    /\ now = 0
    /\ udpRate = [x \in Slots |-> [count |-> 0, last_reset |-> 0]]
    /\ synRate = [x \in Slots |-> [count |-> 0, last_reset |-> 0]]
    /\ permits = [s \in Sessions |-> "none"]
    /\ passed = [x \in Slots |-> << >>]

-----------------------------------------------------------------------------
(***************************************************************************)
(* check_rate: the count after a packet, and whether it is over the limit. *)
(***************************************************************************)
Outlived(e) == now - e.last_reset >= Window

CountedM_ResetsToZero(e, most) ==
    IF Outlived(e) THEN [count |-> 0, last_reset |-> now]
    ELSE [e EXCEPT !.count = IF @ > most THEN @ ELSE @ + 1]

Counted(e, most) ==
    IF Outlived(e) THEN [count |-> 1, last_reset |-> now]
    ELSE [e EXCEPT !.count = IF @ > most THEN @ ELSE @ + 1]

OverRate(e, most) == Counted(e, most).count > most

CountUdp(x) == udpRate' = [udpRate EXCEPT ![x] = Counted(@, MaxUdp)]
CountSyn(x) == synRate' = [synRate EXCEPT ![x] = Counted(@, MaxSyn)]

Pass(x, syn) == passed' = [passed EXCEPT ![x] = Append(@, [at |-> now, syn |-> syn])]

(***************************************************************************)
(* kelan_xdp, for a UDP packet in slot x, in the order of its checks.      *)
(***************************************************************************)
UdpFlood(x) ==
    /\ OverRate(udpRate[x], MaxUdp)
    /\ CountUdp(x)
    /\ UNCHANGED <<now, synRate, permits, passed>>

\* For another port, which passes, or too short, which is aborted.
NotAitp(x) ==
    /\ ~OverRate(udpRate[x], MaxUdp)
    /\ CountUdp(x)
    /\ Pass(x, FALSE) \/ UNCHANGED passed
    /\ UNCHANGED <<now, synRate, permits>>

SynFlood(x) ==
    /\ ~OverRate(udpRate[x], MaxUdp)
    /\ OverRate(synRate[x], MaxSyn)
    /\ CountUdp(x) /\ CountSyn(x)
    /\ UNCHANGED <<now, permits, passed>>

\* The packet's own session decides: a SYN needs no permit, anything else does;
\* "expires_at" is not looked at.
Permitted(s, syn) == permits[s] = "permit" \/ (permits[s] = "none" /\ syn)

\* An AITP packet within both rates; one of another version is dropped.
Aitp(x, s, syn) ==
    /\ ~OverRate(udpRate[x], MaxUdp)
    /\ CountUdp(x)
    /\ \/ syn /\ ~OverRate(synRate[x], MaxSyn) /\ CountSyn(x)
       \/ ~syn /\ UNCHANGED synRate
    /\ \/ Permitted(s, syn) /\ Pass(x, syn)
       \/ UNCHANGED passed
    /\ UNCHANGED <<now, permits>>

-----------------------------------------------------------------------------
\* User space writes the permit map.
WritePermit(s) ==
    /\ permits' \in {[permits EXCEPT ![s] = v] : v \in {"none", "deny", "permit"}}
    /\ UNCHANGED <<now, udpRate, synRate, passed>>

Tick ==
    /\ now < LastTick
    /\ now' = now + 1
    /\ UNCHANGED <<udpRate, synRate, permits, passed>>

Next ==
    \/ Tick
    \/ \E s \in Sessions : WritePermit(s)
    \/ \E x \in Slots :
          \/ UdpFlood(x) \/ NotAitp(x) \/ SynFlood(x)
          \/ \E s \in Sessions, syn \in BOOLEAN : Aitp(x, s, syn)

Spec == Init /\ [][Next]_vars

-----------------------------------------------------------------------------
\* However the packets fall around the ends of its windows, a CPU lets through
\* no more than twice the limit from one bucket in any length of Window, and no
\* more than twice the limit of SYNs (twice: a burst that ends one window and
\* one that begins the next; the comment's limit "per second" is the half).
FloodIsBounded ==
    \A x \in Slots, t \in Times :
        LET Recently == {i \in DOMAIN passed[x] : passed[x][i].at \in t..(t + Window - 1)}
        IN  /\ Cardinality(Recently) <= 2 * MaxUdp
            /\ Cardinality({i \in Recently : passed[x][i].syn}) <= 2 * MaxSyn
=============================================================================
