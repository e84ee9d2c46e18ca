------------------------------- MODULE MCLive -------------------------------
(***************************************************************************)
(* Instances of the components whose promise is that something comes to an *)
(* end: the delivery of verdicts, the bridge to the packet filter and the  *)
(* channels of an SDK session.  A behaviour is one of them, and fairness   *)
(* is that of the one it is.                                               *)
(***************************************************************************)
EXTENDS VerdictDelivery

CONSTANTS
    Commands, HighMark, LowMark, ErrCap,
    Senders, Readers, Room, MostSends, MostArrivals

VARIABLES
    part,                                                         \* which of them it is
    proc, loader, input, paused, errLines, caller, stopping,      \* the bridge
    closed, dropped, sender, waiting, out, sending, sent, count,  \* the channels
    given, readLoop, inbox, reader, taken, arrived

Bridge == INSTANCE EbpfBridge
Channel == INSTANCE SdkChannel

ASSUME BridgeAssumption ==
    /\ HighMark \in Nat /\ LowMark \in Nat /\ LowMark < HighMark
    /\ ErrCap \in Nat

ASSUME ChannelAssumption ==
    /\ Room \in Nat /\ MostSends \in Nat /\ MostArrivals \in Nat
    /\ IsFiniteSet(Senders)

bridgeVars == <<proc, loader, input, paused, errLines, caller, stopping>>
channelVars == <<closed, dropped, sender, waiting, out, sending, sent, count,
                 given, readLoop, inbox, reader, taken, arrived>>
liveVars == <<part, vars, bridgeVars, channelVars>>

\* One initial state is enough for the components that the behaviour is not;
\* which command a verdict leads to does not matter to the properties here.
LiveInit ==
    /\ part \in {"delivery", "bridge", "channel"}
    /\ Init /\ Bridge!Init /\ Channel!Init
    /\ \A d \in Deliveries : about[d].action = "PERMIT"
    /\ part # "bridge" => proc = "none"
    /\ part # "channel" => readLoop.at = "ended"

LiveNext ==
    /\ UNCHANGED part
    /\ \/ part = "delivery" /\ Next /\ UNCHANGED <<bridgeVars, channelVars>>
       \/ part = "bridge" /\ Bridge!Next /\ UNCHANGED <<vars, channelVars>>
       \/ part = "channel" /\ Channel!Next /\ UNCHANGED <<vars, bridgeVars>>

LiveFairness ==
    /\ \A d \in Deliveries : WF_vars(part = "delivery" /\ ~HeldUp(d) /\ HookStep(d))
    /\ \A c \in Clients : WF_vars(part = "delivery" /\ Disconnect(c))
    /\ WF_bridgeVars(part = "bridge" /\ Bridge!Read)
    /\ WF_bridgeVars(part = "bridge" /\ Bridge!Report)
    /\ WF_bridgeVars(part = "bridge" /\ Bridge!Waited)
    /\ \A c \in Commands : WF_bridgeVars(part = "bridge" /\ Bridge!Drain(c))
    /\ WF_channelVars(part = "channel" /\ Channel!Take)
    /\ WF_channelVars(part = "channel" /\ Channel!Transmits)
    /\ WF_channelVars(part = "channel" /\ Channel!Deliver)
    /\ \A s \in Senders : WF_channelVars(part = "channel" /\ Channel!Push(s))
    /\ \A r \in Readers : WF_channelVars(part = "channel" /\ (Channel!Received(r) \/ Channel!EndOfData(r)))

LiveSpec == LiveInit /\ [][LiveNext]_liveVars /\ LiveFairness

-----------------------------------------------------------------------------
\* Every component's state keeps its type.
TypesOK == TypeOK /\ Bridge!TypeOK /\ Channel!TypeOK

\* The bridge: callers of drain go on unless the loader is stuck.
DrainReturns == Bridge!DrainReturns

\* The channels: in order, and nothing lost ...
PayloadsInOrder == Channel!PayloadsInOrder

\* ... and everything sent.
PayloadsAreSent == Channel!PayloadsAreSent
=============================================================================
