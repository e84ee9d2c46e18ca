---------------------------- MODULE SoftPipeline ----------------------------
(***************************************************************************)
(* The packets of the software enforcer (kelan-ebpf-loader, userspace.rs): *)
(* a thread captures them into a bounded channel, a task takes them out in *)
(* batches.  The task looks no session up yet: every packet counts as      *)
(* bypassed, and packets_passed stays zero.                                *)
(***************************************************************************)
EXTENDS Naturals

CONSTANTS
    Room,     \* of the channel, 10_000
    Batch,    \* most packets of a batch, 64
    MostPackets \* bound on the packets

VARIABLES
    capture,   \* the capture thread
    queue,     \* packets in the channel
    task,      \* the processing loop
    batch,     \* packets it has taken out
    total,     \* packets_total
    dropped,   \* packets_dropped
    bypassed,  \* packets_bypassed
    arrived    \* history: packets captured

captureVars == <<capture, total, dropped, arrived>>
vars == <<captureVars, queue, task, batch, bypassed>>

TypeOK ==
    /\ capture \in {"reading", "queued", "ended"}
    /\ queue \in 0..Room
    /\ task \in {"filling", "processing"}
    /\ batch \in 0..Batch
    /\ {total, dropped, bypassed, arrived} \subseteq 0..MostPackets

\* new: without a real interface, or a device that can be opened, nothing is
\* captured.
Init ==
    /\ capture \in {"reading", "ended"}
    /\ task = "filling"
    /\ queue = 0 /\ batch = 0
    /\ total = 0 /\ dropped = 0 /\ bypassed = 0 /\ arrived = 0

PacketM_CountsFirst ==
    /\ capture = "reading"
    /\ arrived < MostPackets
    /\ arrived' = arrived + 1
    /\ capture' = "queued"
    /\ \/ queue < Room /\ queue' = queue + 1 /\ UNCHANGED dropped
       \/ dropped' = dropped + 1 /\ UNCHANGED queue
    /\ UNCHANGED <<task, batch, total, bypassed>>

\* A packet: dropped at the rate of 100_000 a second or when the channel is
\* full; otherwise sent, and counted in a later step.
Packet ==
    /\ capture = "reading"
    /\ arrived < MostPackets
    /\ arrived' = arrived + 1
    /\ \/ queue < Room /\ queue' = queue + 1 /\ capture' = "queued" /\ UNCHANGED dropped
       \/ dropped' = dropped + 1 /\ UNCHANGED <<queue, capture>>
    /\ UNCHANGED <<task, batch, total, bypassed>>

Counted ==
    /\ capture = "queued"
    /\ total' = total + 1
    /\ capture' = "reading"
    /\ UNCHANGED <<queue, task, batch, dropped, bypassed, arrived>>

\* next_packet gives an error, as it does after 100 ms without a packet: the
\* loop ends for good.
Quiet ==
    /\ capture = "reading"
    /\ capture' = "ended"
    /\ UNCHANGED <<queue, task, batch, total, dropped, bypassed, arrived>>

-----------------------------------------------------------------------------
Take ==
    /\ task = "filling"
    /\ batch < Batch
    /\ queue > 0
    /\ queue' = queue - 1
    /\ batch' = batch + 1
    /\ UNCHANGED <<captureVars, task, bypassed>>

\* The batch is full or the channel empty.
Filled ==
    /\ task = "filling"
    /\ batch > 0
    /\ batch = Batch \/ queue = 0
    /\ task' = "processing"
    /\ UNCHANGED <<captureVars, queue, batch, bypassed>>

Process ==
    /\ task = "processing"
    /\ bypassed' = bypassed + 1
    /\ batch' = batch - 1
    /\ task' = IF batch = 1 THEN "filling" ELSE "processing"
    /\ UNCHANGED <<captureVars, queue>>

Next == Packet \/ Counted \/ Quiet \/ Take \/ Filled \/ Process

Spec == Init /\ [][Next]_vars

-----------------------------------------------------------------------------
\* The statistics add up, whatever the two threads are doing: every packet is
\* dropped or counted, but for one that is about to be; what was counted is
\* processed, in the batch or in the channel.
StatsReconcile ==
    LET counted == total + IF capture = "queued" THEN 1 ELSE 0
    IN  arrived = dropped + counted /\ counted = bypassed + batch + queue
=============================================================================
