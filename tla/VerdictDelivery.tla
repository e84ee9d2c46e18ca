-------------------------- MODULE VerdictDelivery --------------------------
(***************************************************************************)
(* What becomes of a verdict: _on_verdict (kelan/api/server.py), the hook  *)
(* the trust engine awaits after every evaluation.  It keeps the verdict   *)
(* in a ring buffer, inserts it into the database, writes PERMIT or REVOKE *)
(* for the packet filter and sends it to every WebSocket client; ws_agent  *)
(* adds clients to and removes them from the same set meanwhile.           *)
(*                                                                         *)
(* Hooks of several evaluations run interleaved, each suspended at the     *)
(* insertion, at the write to the loader and at every send.                *)
(***************************************************************************)
EXTENDS Naturals, Sequences, FiniteSets

CONSTANTS
    Deliveries,  \* verdicts to deliver
    Entities,    \* the entities they are about
    Clients,     \* WebSocket connections
    MaxBuf,      \* _MAX_BUF, 1000 in the code
    Stalled,     \* deliveries whose insertion or drain may never return
    Deaf         \* connections on which a send may never return while they stand

ASSUME DeliveryAssumption ==
    /\ MaxBuf \in Nat /\ IsFiniteSet(Clients)
    /\ Stalled \subseteq Deliveries /\ Deaf \subseteq Clients

VARIABLES
    about,      \* the entity and the action of each verdict
    buf,        \* _verdict_buf
    log,        \* the verdict log in the database
    commands,   \* the deliveries whose command was written to the loader, in order
    clients,    \* _ws_clients
    cpc,        \* where the handler of each connection is
    up,         \* connections the server has not found closed
    dpc,        \* where each delivery is
    size,       \* the size of _ws_clients each iteration started with
    tour,       \* clients each iteration has come by; the last one is being sent to
    dead,       \* ... and those to which the send raised
    decided,    \* history: the verdicts in the order the engine arrived at them
    audience,   \* history: _ws_clients when each iteration started
    disturbed   \* history: deliveries during whose iteration _ws_clients changed

hookVars == <<buf, log, commands>>
loopVars == <<size, tour, dead, audience>>
vars == <<about, hookVars, clients, cpc, up, dpc, loopVars, decided, disturbed>>

DeliveryState == {"idle", "saving", "draining", "sending", "returned", "raised"}
Matter == [entity : Entities, action : {"PERMIT", "REVOKE"}]

Members(seq) == {seq[i] : i \in DOMAIN seq}

TypeOK ==
    /\ about \in [Deliveries -> Matter]
    /\ buf \in UNION {[1..n -> Deliveries] : n \in 0..MaxBuf}
    /\ log \in SUBSET Deliveries
    /\ commands \in Seq(Deliveries)
    /\ clients \in SUBSET Clients
    /\ cpc \in [Clients -> {"away", "greeting", "serving", "closed"}]
    /\ up \in SUBSET Clients
    /\ dpc \in [Deliveries -> DeliveryState]
    /\ size \in [Deliveries -> 0..Cardinality(Clients)]
    /\ tour \in [Deliveries -> Seq(Clients)]
    /\ dead \in [Deliveries -> SUBSET Clients]
    /\ decided \in Seq(Deliveries)
    /\ audience \in [Deliveries -> SUBSET Clients]
    /\ disturbed \in SUBSET Deliveries

Init ==
    /\ about \in [Deliveries -> Matter]
    /\ buf = << >>
    /\ log = {}
    /\ commands = << >>
    /\ clients = {}
    /\ cpc = [c \in Clients |-> "away"]
    /\ up = {}
    /\ dpc = [d \in Deliveries |-> "idle"]
    /\ size = [d \in Deliveries |-> 0]
    /\ tour = [d \in Deliveries |-> << >>]
    /\ dead = [d \in Deliveries |-> {}]
    /\ decided = << >>
    /\ audience = [d \in Deliveries |-> {}]
    /\ disturbed = {}

\* _ws_clients becomes S: the iterations of "others" that are under way are
\* disturbed.
ChangeClients(S, others) ==
    /\ clients' = S
    /\ disturbed' = IF S = clients THEN disturbed
                    ELSE disturbed \cup {d \in others : dpc[d] = "sending"}

-----------------------------------------------------------------------------
(***************************************************************************)
(* The hook, up to the command for the packet filter.                      *)
(***************************************************************************)
KeepM_NeverPops(b, d) == Append(b, d)

\* append, then pop(0) once the buffer is over its limit.
Keep(b, d) ==
    LET longer == Append(b, d)
    IN  IF Len(longer) > MaxBuf THEN Tail(longer) ELSE longer

\* The engine awaits the hook: the verdict is buffered, the insertion begins.
Begin(d) ==
    /\ dpc[d] = "idle"
    /\ buf' = Keep(buf, d)
    /\ decided' = Append(decided, d)
    /\ dpc' = [dpc EXCEPT ![d] = "saving"]
    /\ UNCHANGED <<about, log, commands, clients, cpc, up, loopVars, disturbed>>

\* The insertion raises: the hook is left, and the engine logs the exception.
SaveFails(d) ==
    /\ dpc[d] = "saving"
    /\ dpc' = [dpc EXCEPT ![d] = "raised"]
    /\ UNCHANGED <<about, hookVars, clients, cpc, up, loopVars, decided, disturbed>>

\* The insertion is committed; the command goes into the loader's pipe, which
\* the hook then awaits to drain (a failure of either is logged).
Saved(d) ==
    /\ dpc[d] = "saving"
    /\ log' = log \cup {d}
    /\ commands' = Append(commands, d)
    /\ dpc' = [dpc EXCEPT ![d] = "draining"]
    /\ UNCHANGED <<about, buf, clients, cpc, up, loopVars, decided, disturbed>>

-----------------------------------------------------------------------------
(***************************************************************************)
(* The broadcast.                                                          *)
(***************************************************************************)
AdvanceM_RemovesWhoMissedIt(d, n, been, lost) ==
    \/ /\ Cardinality(clients) = n
       /\ \E c \in clients \ Members(been) : tour' = [tour EXCEPT ![d] = Append(been, c)]
       /\ dpc' = [dpc EXCEPT ![d] = "sending"]
       /\ UNCHANGED <<clients, disturbed>>
    \/ /\ clients \subseteq Members(been) \/ d \in disturbed
       /\ ChangeClients(Members(been) \ lost, Deliveries \ {d})
       /\ dpc' = [dpc EXCEPT ![d] = "returned"]
       /\ UNCHANGED tour

\* One step of "for ws in _ws_clients", after the clients "been", of which "lost"
\* raised.  Python compares the size of the set with the size "n" it had at the
\* start, and nothing else: it raises RuntimeError; or goes on with a client it
\* has not come by; or ends, which in a set that changed and kept its size it
\* may do early, since the clients may have moved in the table.  After the
\* loop, with no await in between, the dead are removed.
Advance(d, n, been, lost) ==
    \/ /\ Cardinality(clients) # n
       /\ dpc' = [dpc EXCEPT ![d] = "raised"]
       /\ UNCHANGED <<clients, disturbed, tour>>
    \/ /\ Cardinality(clients) = n
       /\ \E c \in clients \ Members(been) : tour' = [tour EXCEPT ![d] = Append(been, c)]
       /\ dpc' = [dpc EXCEPT ![d] = "sending"]
       /\ UNCHANGED <<clients, disturbed>>
    \/ /\ Cardinality(clients) = n
       /\ clients \subseteq Members(been) \/ d \in disturbed
       /\ ChangeClients(clients \ lost, Deliveries \ {d})
       /\ dpc' = [dpc EXCEPT ![d] = "returned"]
       /\ UNCHANGED tour

\* The pipe is drained: the iteration starts.
Drained(d) ==
    /\ dpc[d] = "draining"
    /\ size' = [size EXCEPT ![d] = Cardinality(clients)]
    /\ audience' = [audience EXCEPT ![d] = clients]
    /\ Advance(d, Cardinality(clients), << >>, {})
    /\ UNCHANGED <<about, hookVars, cpc, up, dead, decided>>

SentM_HangsOnClosed(d) ==
    LET c == tour[d][Len(tour[d])]
    IN  /\ dpc[d] = "sending"
        /\ c \in up
        /\ Advance(d, size[d], tour[d], dead[d])
        /\ UNCHANGED <<about, hookVars, cpc, up, size, dead, audience, decided>>

\* The client that d is being sent to.
Facing(d) == tour[d][Len(tour[d])]

\* A send is over: it raised if the connection is closed.
Sent(d) ==
    LET c == Facing(d)
        lost == IF c \in up THEN dead[d] ELSE dead[d] \cup {c}
    IN  /\ dpc[d] = "sending"
        /\ dead' = [dead EXCEPT ![d] = lost]
        /\ Advance(d, size[d], tour[d], lost)
        /\ UNCHANGED <<about, hookVars, cpc, up, size, audience, decided>>

-----------------------------------------------------------------------------
(***************************************************************************)
(* ws_agent, one handler for each connection.                              *)
(***************************************************************************)

\* Accepted and added to the set; the greeting is being sent.
Connect(c) ==
    /\ cpc[c] = "away"
    /\ cpc' = [cpc EXCEPT ![c] = "greeting"]
    /\ up' = up \cup {c}
    /\ ChangeClients(clients \cup {c}, Deliveries)
    /\ UNCHANGED <<about, hookVars, dpc, loopVars, decided>>

Greeted(c) ==
    /\ cpc[c] = "greeting"
    /\ c \in up
    /\ cpc' = [cpc EXCEPT ![c] = "serving"]
    /\ UNCHANGED <<about, hookVars, clients, up, dpc, loopVars, decided, disturbed>>

\* The greeting raises, outside the try block: the client stays in the set.
GreetingFails(c) ==
    /\ cpc[c] = "greeting"
    /\ c \notin up
    /\ cpc' = [cpc EXCEPT ![c] = "closed"]
    /\ UNCHANGED <<about, hookVars, clients, up, dpc, loopVars, decided, disturbed>>

\* The connection is found closed.
Close(c) ==
    /\ c \in up
    /\ up' = up \ {c}
    /\ UNCHANGED <<about, hookVars, clients, cpc, dpc, loopVars, decided, disturbed>>

\* receive_json or the acknowledgement raises: the client is discarded.
Disconnect(c) ==
    /\ cpc[c] = "serving"
    /\ c \notin up
    /\ cpc' = [cpc EXCEPT ![c] = "closed"]
    /\ ChangeClients(clients \ {c}, Deliveries)
    /\ UNCHANGED <<about, hookVars, up, dpc, loopVars, decided>>

-----------------------------------------------------------------------------
HookStep(d) == Saved(d) \/ SaveFails(d) \/ Drained(d) \/ Sent(d)

Next ==
    \/ \E d \in Deliveries : Begin(d) \/ HookStep(d)
    \/ \E c \in Clients :
          Connect(c) \/ Greeted(c) \/ GreetingFails(c) \/ Close(c) \/ Disconnect(c)

Spec == Init /\ [][Next]_vars

\* d is at an await that nothing in the server ends: no insertion, drain or send
\* has a timeout.  A drain waits as long as the loader does not read (module
\* EbpfBridge says when that is), a send as long as the agent does not, unless
\* its connection is found closed.
HeldUp(d) ==
    \/ dpc[d] \in {"saving", "draining"} /\ d \in Stalled
    \/ dpc[d] = "sending" /\ Facing(d) \in Deaf \cap up

\* The event loop resumes a hook whose await has ended, and the handler of a
\* connection that is closed.
Fairness ==
    /\ \A d \in Deliveries : WF_vars(~HeldUp(d) /\ HookStep(d))
    /\ \A c \in Clients : WF_vars(Disconnect(c))

FairSpec == Spec /\ Fairness

-----------------------------------------------------------------------------
(***************************************************************************)
(* Safety                                                                  *)
(***************************************************************************)
Ended(d) == dpc[d] \in {"returned", "raised"}

\* A broadcast that nobody disturbed reached all clients there were, whichever
\* of them failed.
BroadcastReachesAll ==
    \A d \in Deliveries :
        dpc[d] = "returned" /\ d \notin disturbed => Members(tour[d]) = audience[d]

\* A client whose connection stands and whose handler serves it is on the list,
\* whatever broadcasts remove meanwhile.
LiveClientsStay == \A c \in up : cpc[c] \in {"greeting", "serving"} => c \in clients

\* Agents: those that can be reached are on the list, and are reached.
AgentsAreReached == LiveClientsStay /\ BroadcastReachesAll

\* "Deny verdicts actively blackhole traffic": when no delivery is under way and
\* none has failed, an entity whose latest verdict is a DENY is revoked.
DenyBlackholes ==
    LET Concerning(e, seq) == {i \in DOMAIN seq : about[seq[i]].entity = e}
        Latest(e, seq) ==
            seq[CHOOSE i \in Concerning(e, seq) : \A j \in Concerning(e, seq) : j <= i]
    IN  (\A d \in Deliveries : dpc[d] \in {"idle", "returned"}) =>
            \A e \in {about[d].entity : d \in Members(decided)} :
                about[Latest(e, decided)].action = "REVOKE" =>
                    about[Latest(e, commands)].action = "REVOKE"

(***************************************************************************)
(* Liveness, under FairSpec                                                *)
(***************************************************************************)

\* A hook that never ends waits, from some moment on, for a database, a loader or an
\* agent that does not answer: clients that come and go cannot keep it busy, a
\* connection found closed does not hold it, and neither does a hook that waits.
DeliveriesEnd ==
    \A d \in Deliveries : <>[](dpc[d] # "idle" /\ ~Ended(d)) => <>[]HeldUp(d)
=============================================================================
