---------------------------- MODULE SessionStore ----------------------------
(***************************************************************************)
(* The session store of version 3 (kelan-python/kelan/protocol/session.py, *)
(* class SessionManager): a dictionary of records, and a queue of bounded  *)
(* length that says which of them are kept.  No method awaits.             *)
(***************************************************************************)
EXTENDS Integers, Sequences, FiniteSets

CONSTANTS
    Ids,        \* session ids; the caller may store one again
    Capacity,   \* 5000 in the code
    MostStores  \* bound on the number of calls

VARIABLES
    sessions,  \* _sessions: a function on the ids that are in it
    order,     \* _order
    history    \* history: the calls of store

vars == <<sessions, order, history>>

Verdicts == {"ALLOW", "DENY", "MONITOR"}
Record == [verdict : Verdicts, token : BOOLEAN]
Members(seq) == {seq[i] : i \in DOMAIN seq}

TypeOK ==
    /\ sessions \in UNION {[S -> Record] : S \in SUBSET Ids}
    /\ order \in UNION {[1..n -> Ids] : n \in 0..Capacity}
    /\ history \in Seq([id : Ids, verdict : Verdicts])

Init ==
    /\ sessions = [i \in {} |-> 0]
    /\ order = << >>
    /\ history = << >>

Appended(id) == Append(IF Len(order) >= Capacity THEN Tail(order) ELSE order, id)

\* The id that falls out of the queue goes from the dictionary as well, unless
\* the queue has it once more.
Dropped(id) ==
    IF Len(order) >= Capacity THEN {Head(order)} \ Members(Appended(id)) ELSE {}

\* store: only a verdict other than DENY comes with a permit token.
Store(id, v) ==
    LET record == [verdict |-> v, token |-> v # "DENY"]
    IN  /\ Len(history) < MostStores
        /\ sessions' = [i \in (DOMAIN sessions \cup {id}) \ Dropped(id) |->
                          IF i = id THEN record ELSE sessions[i]]
        /\ order' = Appended(id)
        /\ history' = Append(history, [id |-> id, verdict |-> v])

Next == \E id \in Ids, v \in Verdicts : Store(id, v)

Spec == Init /\ [][Next]_vars

-----------------------------------------------------------------------------
\* The latest call of store for an id.
LatestOf(id) ==
    LET calls == {j \in DOMAIN history : history[j].id = id}
    IN  history[CHOOSE j \in calls : \A k \in calls : k <= j]

\* The store is the last Capacity calls: an id is in it exactly if one of them
\* was about it, with the verdict of the latest of all calls about it.
StoreIsLatest ==
    LET n == Len(history)
        kept == IF n < Capacity THEN 1..n ELSE (n - Capacity + 1)..n
    IN  /\ DOMAIN sessions = {history[j].id : j \in kept}
        /\ \A id \in DOMAIN sessions : sessions[id].verdict = LatestOf(id).verdict
=============================================================================
