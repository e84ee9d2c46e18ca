----------------------------- MODULE Simulation -----------------------------
(***************************************************************************)
(* The background simulation of version 3                                  *)
(* (kelan-python/kelan/simulation/engine.py): start, stop and toggle,      *)
(* called by the handler of /api/simulate/toggle and at shutdown, and the  *)
(* task they start and cancel.  stop holds the lock while it waits for the *)
(* task; toggle decides before it asks for the lock.                       *)
(*                                                                         *)
(* The evaluation itself is module EngineV3's.  Left out: the counter of   *)
(* verdicts, and the time limit of stop's wait (a cancelled task always    *)
(* ends: nothing it awaits handles CancelledError).                        *)
(***************************************************************************)
EXTENDS Naturals, Sequences, FiniteSets

CONSTANTS
    Callers,  \* calls of start, stop and toggle
    None       \* no call

VARIABLES
    active,   \* active
    task,     \* _task, named after the call that created it
    holder,   \* who holds _lock across an await
    queue,    \* who waits for _lock, first come first served
    wish,     \* whether it starts or stops, which toggle decides when it is called
    pc,       \* where it is
    loop      \* where the task of each call is

lockVars == <<holder, queue>>
vars == <<active, task, lockVars, wish, pc, loop>>

Alive == {"created", "evaluating", "sleeping", "backing off", "cancelled"}

Running == {c \in Callers : loop[c] \in Alive}

TypeOK ==
    /\ active \in BOOLEAN
    /\ task \in Callers \cup {None}
    /\ holder \in Callers \cup {None}
    /\ queue \in Seq(Callers)
    /\ \A i \in DOMAIN queue : pc[queue[i]] = "queued"
    /\ wish \in [Callers -> {"none", "start", "stop"}]
    /\ pc \in [Callers -> {"idle", "queued", "joining", "done"}]
    /\ loop \in [Callers -> Alive \cup {"none", "ended"}]

Init ==
    /\ active = FALSE
    /\ task = None
    /\ holder = None
    /\ queue = << >>
    /\ wish = [c \in Callers |-> "none"]
    /\ pc = [c \in Callers |-> "idle"]
    /\ loop = [c \in Callers |-> "none"]

-----------------------------------------------------------------------------
\* start, under the lock.
Start(c) ==
    /\ \/ active /\ UNCHANGED <<active, task, loop>>
       \/ /\ ~active
          /\ active' = TRUE
          /\ task' = c
          /\ loop' = [loop EXCEPT ![c] = "created"]
    /\ pc' = [pc EXCEPT ![c] = "done"]
    /\ UNCHANGED holder

StopM_DoesNotJoin(c) ==
    /\ active' = FALSE
    /\ \/ /\ task \in Running
          /\ loop' = [loop EXCEPT ![task] = "cancelled"]
          /\ task' = None
       \/ /\ task \notin Running
          /\ UNCHANGED <<loop, task>>
    /\ pc' = [pc EXCEPT ![c] = "done"]
    /\ UNCHANGED holder

\* stop, under the lock: a task that is not done is cancelled and awaited.
Stop(c) ==
    /\ active' = FALSE
    /\ \/ /\ task \in Running
          /\ loop' = [loop EXCEPT ![task] = "cancelled"]
          /\ holder' = c
          /\ pc' = [pc EXCEPT ![c] = "joining"]
       \/ /\ task \notin Running
          /\ pc' = [pc EXCEPT ![c] = "done"]
          /\ UNCHANGED <<loop, holder>>
    /\ UNCHANGED task

Act(c, what) == (what = "start" /\ Start(c)) \/ (what = "stop" /\ Stop(c))

\* A call of "op": toggle reads "active" first.  A lock that is free and not
\* waited for is taken at once.
Call(c, op) ==
    LET what == IF op # "toggle" THEN op ELSE IF active THEN "stop" ELSE "start"
    IN  /\ pc[c] = "idle"
        /\ wish' = [wish EXCEPT ![c] = what]
        /\ \/ /\ holder = None /\ queue = << >>
              /\ Act(c, what)
              /\ UNCHANGED queue
           \/ /\ holder # None \/ queue # << >>
              /\ queue' = Append(queue, c)
              /\ pc' = [pc EXCEPT ![c] = "queued"]
              /\ UNCHANGED <<active, task, holder, loop>>

\* The lock is handed on.
Locked(c) ==
    /\ holder = None
    /\ queue # << >> /\ c = Head(queue)
    /\ queue' = Tail(queue)
    /\ Act(c, wish[c])
    /\ UNCHANGED wish

\* The task has ended; the lock is released.
Joined(c) ==
    /\ pc[c] = "joining"
    /\ loop[task] = "ended"
    /\ task' = None
    /\ holder' = None
    /\ pc' = [pc EXCEPT ![c] = "done"]
    /\ UNCHANGED <<active, queue, wish, loop>>

-----------------------------------------------------------------------------
(***************************************************************************)
(* The task.                                                               *)
(***************************************************************************)
Turn(c, to) ==
    /\ loop' = [loop EXCEPT ![c] = to]
    /\ UNCHANGED <<active, task, lockVars, wish, pc>>

\* The head of the loop: it begins, or has slept after a verdict or an error.
NextRun(c) ==
    /\ loop[c] \in {"created", "sleeping", "backing off"}
    /\ Turn(c, IF active THEN "evaluating" ELSE "ended")

Evaluated(c) == loop[c] = "evaluating" /\ Turn(c, "sleeping")

EvaluationRaises(c) == loop[c] = "evaluating" /\ Turn(c, "backing off")

\* CancelledError, wherever the task was suspended.
Cancelled(c) == loop[c] = "cancelled" /\ Turn(c, "ended")

-----------------------------------------------------------------------------
Next ==
    \E c \in Callers :
        \/ \E op \in {"start", "stop", "toggle"} : Call(c, op)
        \/ Locked(c) \/ Joined(c)
        \/ NextRun(c) \/ Evaluated(c) \/ EvaluationRaises(c) \/ Cancelled(c)

Spec == Init /\ [][Next]_vars

-----------------------------------------------------------------------------
\* Whenever nobody is between two steps of stop, the flag that the statistics
\* show is right: a task runs exactly when it is set.
ActiveIsTrue == holder = None => (active <=> Running # {})

\* The flag stays right, and so do the answers: when stop returns no task runs,
\* and toggle returns the flag it leaves.
ReturnsAreTrue ==
    [][/\ ActiveIsTrue'
       /\ \A c \in Callers :
             pc[c] # "done" /\ pc'[c] = "done" =>
                /\ active' = (wish'[c] = "start")
                /\ wish'[c] = "stop" => Running' = {}]_vars
=============================================================================
