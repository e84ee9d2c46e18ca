----------------------------- MODULE SdkChannel -----------------------------
(***************************************************************************)
(* An established session of the SDK: send, recv and close                 *)
(* (aitp-sdk/src/types.rs) and the two loops behind them (client.rs; a     *)
(* session of the server, server.rs, has the first only, so that its recv  *)
(* finds the channel closed).  A loop and its callers share a bounded      *)
(* channel, whose room tokio gives to those who wait first come first      *)
(* served; a caller that got room puts its payload there in a later step.  *)
(*                                                                         *)
(* Which packets the read loop gets is module SdkSession's question.       *)
(***************************************************************************)
EXTENDS Naturals, Sequences, FiniteSets

CONSTANTS
    Senders,      \* tasks of the application that send, one payload at a time
    Readers,      \* ... and that receive
    Room,         \* of a channel, 256
    MostSends,    \* bound on the payloads of a sender
    MostArrivals  \* bound on the payloads that arrive

VARIABLES
    closed,    \* the flag that close sets
    dropped,   \* the session was dropped
    sender,    \* what each sender is at
    waiting,   \* the senders that wait for room, first come first served
    out,       \* the channel of payloads to send
    sending,   \* what the send loop is handing to the socket
    sent,      \* history: the payloads the socket took, or refused, in order
    count,     \* history: how many payloads each sender has begun to send
    given,     \* history: those it gave up
    readLoop,  \* the read loop, and the payload it holds
    inbox,     \* the channel of payloads received
    reader,    \* what each reader is at
    taken,     \* history: the payloads that recv returned
    arrived    \* history: how many payloads the read loop has got

sendVars == <<sender, waiting, out, sending, sent, count, given>>
readVars == <<readLoop, inbox, reader, taken, arrived>>
vars == <<closed, dropped, sendVars, readVars>>

Idle == [at |-> "reading", held |-> << >>]

TypeOK ==
    /\ sender \in [Senders -> {"idle", "waiting", "granted", "refused"}]
    /\ \A i \in DOMAIN waiting : sender[waiting[i]] = "waiting"
    /\ Len(out) + Cardinality({s \in Senders : sender[s] = "granted"}) <= Room
    /\ count \in [Senders -> 0..MostSends]
    /\ readLoop \in [at : {"reading", "ended"}, held : Seq(1..MostArrivals)]
    /\ Len(inbox) <= Room
    /\ reader \in [Readers -> {"idle", "waiting", "closed"}]

\* A session of the client, or one of the server.
Init ==
    /\ closed = FALSE
    /\ dropped = FALSE
    /\ sender = [s \in Senders |-> "idle"]
    /\ waiting = << >> /\ out = << >> /\ sending = << >> /\ sent = << >>
    /\ count = [s \in Senders |-> 0]
    /\ given = {}
    /\ readLoop \in {Idle, [Idle EXCEPT !.at = "ended"]}
    /\ inbox = << >> /\ taken = << >>
    /\ reader = [r \in Readers |-> "idle"]
    /\ arrived = 0

-----------------------------------------------------------------------------
(***************************************************************************)
(* Sending.                                                                *)
(***************************************************************************)
Free == Room - Len(out) - Cardinality({s \in Senders : sender[s] = "granted"})

\* send, unless the session is closed: room at once, or a place in the queue.
Send(s) ==
    /\ ~dropped
    /\ sender[s] = "idle"
    /\ \/ closed /\ sender' = [sender EXCEPT ![s] = "refused"] /\ UNCHANGED <<waiting, count>>
       \/ /\ ~closed
          /\ count[s] < MostSends
          /\ count' = [count EXCEPT ![s] = @ + 1]
          /\ \/ /\ Free > 0
                /\ sender' = [sender EXCEPT ![s] = "granted"]
                /\ UNCHANGED waiting
             \/ /\ Free = 0
                /\ sender' = [sender EXCEPT ![s] = "waiting"]
                /\ waiting' = Append(waiting, s)
    /\ UNCHANGED <<closed, dropped, out, sending, sent, given, readVars>>

Push(s) ==
    /\ sender[s] = "granted"
    /\ out' = Append(out, <<s, count[s]>>)
    /\ sender' = [sender EXCEPT ![s] = "idle"]
    /\ UNCHANGED <<closed, dropped, waiting, sending, sent, count, given, readVars>>

\* Room becomes free: the first who waits gets it.  Those in "released" are
\* idle from now on.
Release(queue, released) ==
    LET next == IF queue = << >> THEN {} ELSE {Head(queue)}
    IN  /\ sender' = [s \in Senders |-> IF s \in next THEN "granted"
                                        ELSE IF s \in released THEN "idle" ELSE sender[s]]
        /\ waiting' = IF queue = << >> THEN queue ELSE Tail(queue)

\* What is left of a queue without the one at place i.
Without(queue, i) == [j \in 1..(Len(queue) - 1) |-> queue[IF j < i THEN j ELSE j + 1]]

\* The application gives a send up, by a time-out of its own for example.
GiveUp(s) ==
    /\ \/ /\ sender[s] = "granted"
          /\ Release(waiting, {s})
       \/ /\ sender[s] = "waiting"
          /\ \E i \in DOMAIN waiting : waiting[i] = s /\ waiting' = Without(waiting, i)
          /\ sender' = [sender EXCEPT ![s] = "idle"]
    /\ given' = given \cup {<<s, count[s]>>}
    /\ UNCHANGED <<closed, dropped, out, sending, sent, count, readVars>>

TakeM_DoesNotWait ==
    /\ out # << >>
    /\ sending' = Append(sending, Head(out))
    /\ out' = Tail(out)
    /\ Release(waiting, {})
    /\ UNCHANGED <<closed, dropped, sent, count, given, readVars>>

TakeM_EndsOnClose ==
    /\ out # << >>
    /\ sending = << >>
    /\ ~closed
    /\ sending' = <<Head(out)>>
    /\ out' = Tail(out)
    /\ Release(waiting, {})
    /\ UNCHANGED <<closed, dropped, sent, count, given, readVars>>

\* The send loop takes the next payload; neither close nor drop keeps it from
\* those that are in the channel.
Take ==
    /\ out # << >>
    /\ sending = << >>
    /\ sending' = <<Head(out)>>
    /\ out' = Tail(out)
    /\ Release(waiting, {})
    /\ UNCHANGED <<closed, dropped, sent, count, given, readVars>>

\* send_to is over; whether it failed the loop does not ask.
Transmit(i) ==
    /\ sent' = Append(sent, sending[i])
    /\ sending' = Without(sending, i)
    /\ UNCHANGED <<closed, dropped, sender, waiting, out, count, given, readVars>>

-----------------------------------------------------------------------------
(***************************************************************************)
(* Receiving.                                                              *)
(***************************************************************************)
Arrive ==
    /\ readLoop = Idle
    /\ arrived < MostArrivals
    /\ arrived' = arrived + 1
    /\ readLoop' = [readLoop EXCEPT !.held = <<arrived + 1>>]
    /\ UNCHANGED <<closed, dropped, sendVars, inbox, reader, taken>>

\* There is room in the channel; or nobody is at its other end, and the loop
\* ends.
Deliver ==
    /\ readLoop.held # << >>
    /\ \/ /\ ~dropped /\ Len(inbox) < Room
          /\ inbox' = inbox \o readLoop.held
          /\ readLoop' = Idle
       \/ /\ dropped
          /\ readLoop' = [readLoop EXCEPT !.at = "ended", !.held = << >>]
          /\ UNCHANGED inbox
    /\ UNCHANGED <<closed, dropped, sendVars, reader, taken, arrived>>

\* The socket gives an error.
ReadFails ==
    /\ readLoop = Idle
    /\ readLoop' = [readLoop EXCEPT !.at = "ended"]
    /\ UNCHANGED <<closed, dropped, sendVars, inbox, reader, taken, arrived>>

\* recv looks at the flag once.
Recv(r) ==
    /\ ~dropped
    /\ reader[r] = "idle"
    /\ reader' = [reader EXCEPT ![r] = IF closed THEN "closed" ELSE "waiting"]
    /\ UNCHANGED <<closed, dropped, sendVars, readLoop, inbox, taken, arrived>>

Received(r) ==
    /\ reader[r] = "waiting"
    /\ inbox # << >>
    /\ taken' = Append(taken, Head(inbox))
    /\ inbox' = Tail(inbox)
    /\ reader' = [reader EXCEPT ![r] = "idle"]
    /\ UNCHANGED <<closed, dropped, sendVars, readLoop, arrived>>

\* The read loop, and its end of the channel, are gone.
EndOfData(r) ==
    /\ reader[r] = "waiting"
    /\ inbox = << >> /\ readLoop.at = "ended"
    /\ reader' = [reader EXCEPT ![r] = "closed"]
    /\ UNCHANGED <<closed, dropped, sendVars, readLoop, inbox, taken, arrived>>

-----------------------------------------------------------------------------
\* close sets a flag and wakes nobody.
Close ==
    /\ ~dropped /\ ~closed
    /\ closed' = TRUE
    /\ UNCHANGED <<dropped, sendVars, readVars>>

\* The last reference to the session goes, so that no call is under way.
Drop ==
    /\ ~dropped
    /\ \A s \in Senders : sender[s] \in {"idle", "refused"}
    /\ \A r \in Readers : reader[r] # "waiting"
    /\ dropped' = TRUE
    /\ inbox' = << >>
    /\ UNCHANGED <<closed, sendVars, readLoop, reader, taken, arrived>>

Transmits == \E i \in DOMAIN sending : Transmit(i)

Next ==
    \/ \E s \in Senders : Send(s) \/ Push(s) \/ GiveUp(s)
    \/ Take \/ Transmits
    \/ Arrive \/ Deliver \/ ReadFails
    \/ \E r \in Readers : Recv(r) \/ Received(r) \/ EndOfData(r)
    \/ Close \/ Drop

Spec == Init /\ [][Next]_vars

\* The runtime runs the loops and the callers; the network need not bring
\* anything.
FairSpec ==
    /\ Spec
    /\ WF_vars(Take) /\ WF_vars(Transmits) /\ WF_vars(Deliver)
    /\ \A s \in Senders : WF_vars(Push(s))
    /\ \A r \in Readers : WF_vars(Received(r)) /\ WF_vars(EndOfData(r))

-----------------------------------------------------------------------------
\* The payloads of a sender reach the socket in the order they were sent, each
\* once and none lost but those it gave up; recv returns what arrived, in order,
\* however slow the readers are.
PayloadsInOrder ==
    /\ \A s \in Senders :
          LET line == sent \o sending \o out
              mine == {i \in DOMAIN line : line[i][1] = s}
              begun == IF sender[s] \in {"waiting", "granted"} THEN count[s] - 1 ELSE count[s]
          IN  /\ {line[i][2] : i \in mine} = {n \in 1..begun : <<s, n>> \notin given}
              /\ \A i, j \in mine : i < j => line[i][2] < line[j][2]
    /\ ~dropped => taken \o inbox \o readLoop.held = [n \in 1..arrived |-> n]

\* Whatever is in the channel is sent, also when the session is closed or
\* dropped before that, and so every send comes to an end.
PayloadsAreSent ==
    /\ out # << >> ~> out = << >>
    /\ \A s \in Senders : sender[s] = "waiting" ~> sender[s] # "waiting"

\* "Blocks until data is available or the session is closed."
RecvEndsOnClose ==
    \A r \in Readers : reader[r] = "waiting" /\ closed ~> reader[r] # "waiting"
=============================================================================
