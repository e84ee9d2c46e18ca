----------------------------- MODULE SdkSession -----------------------------
(***************************************************************************)
(* Sessions of the SDK: connect, send and close of one AitpClient          *)
(* (aitp-sdk/src/client.rs, types.rs) against one AitpServer (server.rs),  *)
(* over UDP, which loses, duplicates and reorders packets.                 *)
(*                                                                         *)
(* All sessions of a client share its socket.  Every connect that waits    *)
(* and every session's read loop receives from it, so that each packet     *)
(* goes to any one of them.  The server starts a task for each SYN, which  *)
(* awaits the application's handler, answers, and inserts the session.     *)
(***************************************************************************)
EXTENDS Naturals, FiniteSets

CONSTANTS
    Sessions,     \* the calls of connect, named after the random id each draws
    MaxSessions,  \* max_sessions
    MostTasks     \* bound on the tasks of one session, one for each copy of its SYN

ASSUME SdkAssumption == MaxSessions \in Nat /\ MostTasks \in Nat

VARIABLES
    net,        \* every packet sent so far
    client,     \* where each call of connect is, and then its session
    loop,       \* whether the read loop of each session runs
    sessions,   \* the server's table
    deciding,   \* tasks of each session in the application's handler
    inserting,  \* ... and those that have sent SYN+ACK and not inserted yet
    accepted,   \* history: sessions the handler accepted
    strayed,    \* history: sessions that were given a payload of another
    overlapped  \* history: two tasks were in flight at the same time

serverVars == <<sessions, deciding, inserting, accepted, overlapped>>
clientVars == <<client, loop, strayed>>
vars == <<net, clientVars, serverVars>>

ToServer == {"SYN", "data", "FIN"}
ToClient == {"SYN+ACK", "data", "REVOKE"}

Packet(to, kind, s) == [to |-> to, kind |-> kind, sid |-> s]

TypeOK ==
    /\ net \in SUBSET ([to : {"server"}, kind : ToServer, sid : Sessions] \cup
                       [to : {"client"}, kind : ToClient, sid : Sessions])
    /\ client \in [Sessions -> {"idle", "waiting", "established", "closed", "dropped",
                                "refused", "failed", "timeout"}]
    /\ loop \in [Sessions -> BOOLEAN]
    /\ sessions \in SUBSET Sessions
    /\ deciding \in [Sessions -> 0..MostTasks]
    /\ inserting \in [Sessions -> 0..MostTasks]
    /\ accepted \in SUBSET Sessions
    /\ strayed \in SUBSET Sessions
    /\ overlapped \in BOOLEAN
    /\ sessions \cup {s \in Sessions : inserting[s] > 0} \subseteq accepted

Init ==
    /\ net = {}
    /\ client = [s \in Sessions |-> "idle"]
    /\ loop = [s \in Sessions |-> FALSE]
    /\ sessions = {}
    /\ deciding = [s \in Sessions |-> 0]
    /\ inserting = [s \in Sessions |-> 0]
    /\ accepted = {}
    /\ strayed = {}
    /\ overlapped = FALSE

-----------------------------------------------------------------------------
(***************************************************************************)
(* The network.                                                            *)
(***************************************************************************)
Send(p) == net' = net \cup {p}

\* A packet stays in "net" once it is sent: it may be received late, again, or
\* never.
Receive(p) == p \in net /\ UNCHANGED net

Exchange(p, answer) == p \in net /\ Send(answer)

\* A peer that does not use this SDK sends FIN (Session.close does not), or a
\* REVOKE, which handle_packet takes for data, since it tests for those first.
PeerEnds(s) ==
    /\ client[s] # "idle"
    /\ \E kind \in {"FIN", "data"} : Send(Packet("server", kind, s))
    /\ UNCHANGED <<clientVars, serverVars>>

-----------------------------------------------------------------------------
(***************************************************************************)
(* The client.                                                             *)
(***************************************************************************)
Connect(s) ==
    /\ client[s] = "idle"
    /\ client' = [client EXCEPT ![s] = "waiting"]
    /\ Send(Packet("server", "SYN", s))
    /\ UNCHANGED <<loop, strayed, serverVars>>

AnsweredM_AnySession(s, p) ==
    /\ client[s] = "waiting"
    /\ p.to = "client"
    /\ Receive(p)
    /\ IF p.kind = "SYN+ACK"
       THEN /\ client' = [client EXCEPT ![s] = "established"]
            /\ loop' = [loop EXCEPT ![s] = TRUE]
       ELSE /\ client' = [client EXCEPT ![s] = IF p.kind = "REVOKE" THEN "refused" ELSE "failed"]
            /\ UNCHANGED loop
    /\ UNCHANGED <<strayed, serverVars>>

\* The one packet connect waits for.  Its own SYN+ACK makes it a session with a
\* read loop; a REVOKE, of whichever session, refuses it; any other fails it.
Answered(s, p) ==
    /\ client[s] = "waiting"
    /\ p.to = "client"
    /\ Receive(p)
    /\ \/ /\ p.kind = "SYN+ACK" /\ p.sid = s
          /\ client' = [client EXCEPT ![s] = "established"]
          /\ loop' = [loop EXCEPT ![s] = TRUE]
       \/ /\ p.kind = "REVOKE"
          /\ client' = [client EXCEPT ![s] = "refused"]
          /\ UNCHANGED loop
       \/ /\ p.kind = "data" \/ (p.kind = "SYN+ACK" /\ p.sid # s)
          /\ client' = [client EXCEPT ![s] = "failed"]
          /\ UNCHANGED loop
    /\ UNCHANGED <<strayed, serverVars>>

TimesOut(s) ==
    /\ client[s] = "waiting"
    /\ client' = [client EXCEPT ![s] = "timeout"]
    /\ UNCHANGED <<net, loop, strayed, serverVars>>

\* The read loop of s takes a payload: it goes to s, whoever it is for, and ends
\* the loop if nobody holds s any more.  (Packets without one are lost to it.)
ReadLoop(s, p) ==
    /\ loop[s]
    /\ p.to = "client" /\ p.kind = "data"
    /\ Receive(p)
    /\ \/ /\ client[s] # "dropped"
          /\ strayed' = IF p.sid = s THEN strayed ELSE strayed \cup {s}
          /\ UNCHANGED loop
       \/ /\ client[s] = "dropped"
          /\ loop' = [loop EXCEPT ![s] = FALSE]
          /\ UNCHANGED strayed
    /\ UNCHANGED <<client, serverVars>>

SendData(s) ==
    /\ client[s] = "established"
    /\ Send(Packet("server", "data", s))
    /\ UNCHANGED <<clientVars, serverVars>>

\* Session.close sets a flag, and tells nobody.
Close(s) ==
    /\ client[s] = "established"
    /\ client' = [client EXCEPT ![s] = "closed"]
    /\ UNCHANGED <<net, loop, strayed, serverVars>>

\* The application lets go of the session.
DropSession(s) ==
    /\ client[s] \in {"established", "closed"}
    /\ client' = [client EXCEPT ![s] = "dropped"]
    /\ UNCHANGED <<net, loop, strayed, serverVars>>

-----------------------------------------------------------------------------
(***************************************************************************)
(* The server.                                                             *)
(***************************************************************************)
InFlight == {s \in Sessions : deciding[s] + inserting[s] > 0}

SynM_OneTooMany(s) ==
    /\ deciding[s] + inserting[s] < MostTasks
    /\ \/ /\ Cardinality(sessions) > MaxSessions
          /\ Exchange(Packet("server", "SYN", s), Packet("client", "REVOKE", s))
          /\ UNCHANGED <<deciding, overlapped>>
       \/ /\ Cardinality(sessions) <= MaxSessions
          /\ Receive(Packet("server", "SYN", s))
          /\ deciding' = [deciding EXCEPT ![s] = @ + 1]
          /\ overlapped' = (overlapped \/ InFlight # {})
    /\ UNCHANGED <<clientVars, sessions, inserting, accepted>>

\* handle_syn: refused when the table is full, otherwise a task is started.
Syn(s) ==
    /\ deciding[s] + inserting[s] < MostTasks
    /\ \/ /\ Cardinality(sessions) >= MaxSessions
          /\ Exchange(Packet("server", "SYN", s), Packet("client", "REVOKE", s))
          /\ UNCHANGED <<deciding, overlapped>>
       \/ /\ Cardinality(sessions) < MaxSessions
          /\ Receive(Packet("server", "SYN", s))
          /\ deciding' = [deciding EXCEPT ![s] = @ + 1]
          /\ overlapped' = (overlapped \/ InFlight # {})
    /\ UNCHANGED <<clientVars, sessions, inserting, accepted>>

\* The handler accepts: SYN+ACK is sent.
Accept(s) ==
    /\ deciding[s] > 0
    /\ deciding' = [deciding EXCEPT ![s] = @ - 1]
    /\ inserting' = [inserting EXCEPT ![s] = @ + 1]
    /\ accepted' = accepted \cup {s}
    /\ Send(Packet("client", "SYN+ACK", s))
    /\ UNCHANGED <<clientVars, sessions, overlapped>>

RejectM_InsertsAllTheSame(s) ==
    /\ deciding[s] > 0
    /\ deciding' = [deciding EXCEPT ![s] = @ - 1]
    /\ inserting' = [inserting EXCEPT ![s] = @ + 1]
    /\ UNCHANGED <<net, clientVars, sessions, accepted, overlapped>>

\* The handler returns an error, or SYN+ACK cannot be sent: the task ends, and
\* the client is told nothing.
Reject(s) ==
    /\ deciding[s] > 0
    /\ deciding' = [deciding EXCEPT ![s] = @ - 1]
    /\ UNCHANGED <<net, clientVars, sessions, inserting, accepted, overlapped>>

Insert(s) ==
    /\ inserting[s] > 0
    /\ inserting' = [inserting EXCEPT ![s] = @ - 1]
    /\ sessions' = sessions \cup {s}
    /\ UNCHANGED <<net, clientVars, deciding, accepted, overlapped>>

\* handle_data: the application is given the payload and answers it, or not.  One
\* for an unknown session is dropped.
Data(s) ==
    /\ s \in sessions
    /\ Exchange(Packet("server", "data", s), Packet("client", "data", s))
    /\ UNCHANGED <<clientVars, serverVars>>

\* handle_fin: the session is removed, if it is there.
Fin(s) ==
    /\ Receive(Packet("server", "FIN", s))
    /\ sessions' = sessions \ {s}
    /\ UNCHANGED <<clientVars, deciding, inserting, accepted, overlapped>>

-----------------------------------------------------------------------------
Next ==
    \/ \E s \in Sessions :
          \/ Connect(s) \/ TimesOut(s) \/ SendData(s) \/ Close(s) \/ DropSession(s)
          \/ Syn(s) \/ Accept(s) \/ Reject(s) \/ Insert(s) \/ Data(s) \/ Fin(s)
          \/ PeerEnds(s)
          \/ \E p \in net : Answered(s, p) \/ ReadLoop(s, p)

Spec == Init /\ [][Next]_vars

-----------------------------------------------------------------------------
\* Whoever has a session was accepted by the server's application, whatever
\* the network does to the answers and whoever else receives them.
EstablishedWasAccepted ==
    \A s \in Sessions : client[s] \in {"established", "closed", "dropped"} => s \in accepted

\* The table holds at most MaxSessions sessions, as long as no two handlers were
\* in flight at once: the limit is checked before the handler and not again, so
\* that overlapping handlers all pass the check, and the precondition is needed.
LimitHolds == ~overlapped => Cardinality(sessions) <= MaxSessions

\* "Receive data from the peer": what a session receives was sent on it.
ReceivesItsOwn == strayed = {}
=============================================================================
