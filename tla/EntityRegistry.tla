--------------------------- MODULE EntityRegistry ---------------------------
(***************************************************************************)
(* The entity endpoints of the v4 server (kelan/api/server.py): create,    *)
(* delete, quarantine, release and test_session, as concurrent handlers    *)
(* over the entity and session tables.  A handler reads a row in one       *)
(* statement and writes in a later one; what it read may be stale by then. *)
(*                                                                         *)
(* The second transaction of test_session is one step: its INSERT, flushed *)
(* before the row is read again, takes the write lock of SQLite, the       *)
(* database that config.py sets up unless told otherwise.                  *)
(***************************************************************************)
EXTENDS Naturals, FiniteSets

CONSTANTS
    Entities,  \* entity ids (256 random bits: never drawn twice)
    Tests,     \* calls of test_session
    Editors,   \* calls of quarantine, release and delete
    None       \* no entity

VARIABLES
    row,       \* the entity table
    recorded,  \* the session table: the verdict of each test, or "none"
    filter,    \* the last command written to the packet filter for each entity
    tpc,       \* where each test is
    source,    \* the entity it is about
    known,     \* the row of the source it read
    verdict,   \* the engine's verdict
    epc,       \* where each editor is
    target,    \* the entity it is about
    task,      \* what it does
    read,      \* the "quarantined" it read
    lost,      \* history: quarantines whose REVOKE was not written
    overruled  \* history: ... after whose REVOKE a PERMIT was written

testVars == <<tpc, source, known, verdict>>
editVars == <<epc, target, task, read>>
filterVars == <<filter, lost, overruled>>
vars == <<row, recorded, filterVars, testVars, editVars>>

Verdicts == {"ALLOW", "DENY", "MONITOR"}
Tasks == {"quarantine", "release", "delete"}
Counts == 0..Cardinality(Tests)
Row == [quarantined : BOOLEAN, session_count : Counts, blocked_count : Counts]
NewRow == [quarantined |-> FALSE, session_count |-> 0, blocked_count |-> 0]
Unborn == [state |-> "unborn"]
Deleted == [state |-> "deleted"]
Exists(e) == row[e] \notin {Unborn, Deleted}

TypeOK ==
    /\ row \in [Entities -> Row \cup {Unborn, Deleted}]
    /\ recorded \in [Tests -> Verdicts \cup {"none"}]
    /\ filter \in [Entities -> {"none", "PERMIT", "REVOKE"}]
    /\ tpc \in [Tests -> {"idle", "evaluating", "recording", "done", "refused", "raised"}]
    /\ source \in [Tests -> Entities \cup {None}]
    /\ known \in [Tests -> Row]
    /\ verdict \in [Tests -> Verdicts \cup {"none"}]
    /\ epc \in [Editors -> {"idle", "writing", "revoking", "done", "refused", "raised"}]
    /\ target \in [Editors -> Entities \cup {None}]
    /\ task \in [Editors -> Tasks \cup {"none"}]
    /\ read \in [Editors -> BOOLEAN]
    /\ lost \subseteq Editors
    /\ overruled \subseteq Editors

Init ==
    /\ row = [e \in Entities |-> Unborn]
    /\ recorded = [t \in Tests |-> "none"]
    /\ filter = [e \in Entities |-> "none"]
    /\ tpc = [t \in Tests |-> "idle"]
    /\ source = [t \in Tests |-> None]
    /\ known = [t \in Tests |-> NewRow]
    /\ verdict = [t \in Tests |-> "none"]
    /\ epc = [x \in Editors |-> "idle"]
    /\ target = [x \in Editors |-> None]
    /\ task = [x \in Editors |-> "none"]
    /\ read = [x \in Editors |-> FALSE]
    /\ lost = {}
    /\ overruled = {}

-----------------------------------------------------------------------------
\* create_entity: counts at zero, not quarantined.
Create(e) ==
    /\ row[e] = Unborn
    /\ row' = [row EXCEPT ![e] = NewRow]
    /\ UNCHANGED <<recorded, filterVars, testVars, editVars>>

(***************************************************************************)
(* test_session                                                            *)
(***************************************************************************)

\* Source e and destination are read, in a transaction that ends with the reads;
\* without the one it is a 404, without the other a 400.
TestRead(t, e) ==
    /\ tpc[t] = "idle"
    /\ source' = [source EXCEPT ![t] = e]
    /\ \/ /\ Exists(e)
          /\ \E dest \in Entities : Exists(dest)
          /\ known' = [known EXCEPT ![t] = row[e]]
          /\ tpc' = [tpc EXCEPT ![t] = "evaluating"]
       \/ /\ ~Exists(e) \/ \E dest \in Entities : ~Exists(dest)
          /\ tpc' = [tpc EXCEPT ![t] = "refused"]
          /\ UNCHANGED known
    /\ UNCHANGED <<row, recorded, filterVars, verdict, editVars>>

\* A command is written to the loader; it is not if there is no loader, or the
\* write fails, which is logged and not heard of.
Command(e, action) ==
    /\ filter' = [filter EXCEPT ![e] = action]
    /\ overruled' = IF action = "PERMIT"
                    THEN overruled \cup {x \in Editors : target[x] = e /\ epc[x] = "done"}
                    ELSE overruled
    /\ UNCHANGED lost

\* The engine's verdict arrives; its hook has told the packet filter, unless the
\* insertion into the verdict log failed or the command was not written.
\* "quarantined" is not consulted.
TestVerdict(t, v) ==
    /\ tpc[t] = "evaluating"
    /\ verdict' = [verdict EXCEPT ![t] = v]
    /\ tpc' = [tpc EXCEPT ![t] = "recording"]
    /\ \/ Command(source[t], IF v = "DENY" THEN "REVOKE" ELSE "PERMIT")
       \/ UNCHANGED filterVars
    /\ UNCHANGED <<row, recorded, source, known, editVars>>

Counted(r, v) ==
    [r EXCEPT !.session_count = @ + 1,
              !.blocked_count = IF v = "DENY" THEN @ + 1 ELSE @]

TestRecordM_CountsFromTheFirstRead(t) ==
    LET e == source[t]
    IN  /\ tpc[t] = "recording"
        /\ recorded' = [recorded EXCEPT ![t] = verdict[t]]
        /\ row' = IF Exists(e)
                  THEN [row EXCEPT ![e] = [Counted(known[t], verdict[t])
                                           EXCEPT !.quarantined = row[e].quarantined]]
                  ELSE row
        /\ tpc' = [tpc EXCEPT ![t] = "done"]
        /\ UNCHANGED <<filterVars, source, known, verdict, editVars>>

TestRecordM_MergesTheFirstRead(t) ==
    LET e == source[t]
    IN  /\ tpc[t] = "recording"
        /\ recorded' = [recorded EXCEPT ![t] = verdict[t]]
        /\ row' = [row EXCEPT ![e] = Counted(known[t], verdict[t])]
        /\ tpc' = [tpc EXCEPT ![t] = "done"]
        /\ UNCHANGED <<filterVars, source, known, verdict, editVars>>

\* The session is inserted, and the row of the source, read again, is counted
\* up if it is still there.
TestRecord(t) ==
    LET e == source[t]
    IN  /\ tpc[t] = "recording"
        /\ recorded' = [recorded EXCEPT ![t] = verdict[t]]
        /\ row' = IF Exists(e) THEN [row EXCEPT ![e] = Counted(@, verdict[t])] ELSE row
        /\ tpc' = [tpc EXCEPT ![t] = "done"]
        /\ UNCHANGED <<filterVars, source, known, verdict, editVars>>

\* The transaction raises and is rolled back, the session with it.
TestRecordFails(t) ==
    /\ tpc[t] = "recording"
    /\ tpc' = [tpc EXCEPT ![t] = "raised"]
    /\ UNCHANGED <<row, recorded, filterVars, source, known, verdict, editVars>>

-----------------------------------------------------------------------------
(***************************************************************************)
(* quarantine_entity, release_entity and delete_entity                     *)
(***************************************************************************)
EditRead(x, e, what) ==
    /\ epc[x] = "idle"
    /\ target' = [target EXCEPT ![x] = e]
    /\ task' = [task EXCEPT ![x] = what]
    /\ \/ /\ Exists(e)
          /\ epc' = [epc EXCEPT ![x] = "writing"]
          /\ read' = [read EXCEPT ![x] = row[e].quarantined]
       \/ /\ ~Exists(e)
          /\ epc' = [epc EXCEPT ![x] = "refused"]
          /\ UNCHANGED read
    /\ UNCHANGED <<row, recorded, filterVars, testVars>>

DeleteWrite(x) ==
    /\ epc[x] = "writing" /\ task[x] = "delete"
    /\ row' = [row EXCEPT ![target[x]] = Deleted]
    /\ epc' = [epc EXCEPT ![x] = "done"]
    /\ UNCHANGED <<recorded, filterVars, testVars, target, task, read>>

FlagWriteM_NothingToDo(x) ==
    LET e == target[x]
        flag == task[x] = "quarantine"
    IN  /\ epc[x] = "writing" /\ task[x] # "delete"
        /\ \/ /\ read[x] = flag \/ Exists(e)
              /\ row' = IF read[x] = flag THEN row ELSE [row EXCEPT ![e].quarantined = flag]
              /\ epc' = [epc EXCEPT ![x] = IF flag /\ ~read[x] THEN "revoking" ELSE "done"]
           \/ /\ read[x] # flag /\ ~Exists(e)
              /\ epc' = [epc EXCEPT ![x] = "raised"]
              /\ UNCHANGED row
        /\ UNCHANGED <<recorded, filterVars, testVars, target, task, read>>

\* setattr and commit: no UPDATE is sent for a value that was read like that,
\* and one that meets no row raises StaleDataError.
FlagWrite(x) ==
    LET e == target[x]
        flag == task[x] = "quarantine"
    IN  /\ epc[x] = "writing" /\ task[x] # "delete"
        /\ \/ /\ read[x] = flag \/ Exists(e)
              /\ row' = IF read[x] = flag THEN row ELSE [row EXCEPT ![e].quarantined = flag]
              /\ epc' = [epc EXCEPT ![x] = IF flag THEN "revoking" ELSE "done"]
           \/ /\ read[x] # flag /\ ~Exists(e)
              /\ epc' = [epc EXCEPT ![x] = "raised"]
              /\ UNCHANGED row
        /\ UNCHANGED <<recorded, filterVars, testVars, target, task, read>>

EditFails(x) ==
    /\ epc[x] = "writing"
    /\ epc' = [epc EXCEPT ![x] = "raised"]
    /\ UNCHANGED <<row, recorded, filterVars, testVars, target, task, read>>

\* After the commit, the filter is told.  The caller hears of success also when
\* there is no loader, or the write fails.  (It hears of it after the drain of the
\* pipe, which changes nothing here: an editor is done once it has written.)
QuarantineRevoke(x) ==
    /\ epc[x] = "revoking"
    /\ epc' = [epc EXCEPT ![x] = "done"]
    /\ \/ Command(target[x], "REVOKE")
       \/ lost' = lost \cup {x} /\ UNCHANGED <<filter, overruled>>
    /\ UNCHANGED <<row, recorded, testVars, target, task, read>>

-----------------------------------------------------------------------------
Next ==
    \/ \E e \in Entities : Create(e)
    \/ \E t \in Tests :
          \/ \E e \in Entities : TestRead(t, e)
          \/ TestRecord(t) \/ TestRecordFails(t)
          \/ \E v \in Verdicts : TestVerdict(t, v)
    \/ \E x \in Editors :
          \/ \E e \in Entities, what \in Tasks : EditRead(x, e, what)
          \/ DeleteWrite(x) \/ FlagWrite(x) \/ EditFails(x) \/ QuarantineRevoke(x)

Spec == Init /\ [][Next]_vars

-----------------------------------------------------------------------------
(***************************************************************************)
(* Safety                                                                  *)
(***************************************************************************)

\* The counters of an entity are those of its recorded sessions, however many
\* tests, edits and failed transactions run at once.
CountsMatchSessions ==
    LET Of(e, V) == Cardinality({t \in Tests : source[t] = e /\ recorded[t] \in V})
    IN  \A e \in Entities : Exists(e) =>
            /\ row[e].session_count = Of(e, Verdicts)
            /\ row[e].blocked_count = Of(e, {"DENY"})

\* A quarantine holds: once it is committed the entity stays quarantined, as
\* long as nobody asked for its release, whatever was read before and is
\* written after.
QuarantineHolds ==
    \A x \in Editors :
        /\ task[x] = "quarantine" /\ epc[x] \in {"revoking", "done"}
        /\ \A y \in Editors : target[y] = target[x] => task[y] # "release"
        => LET e == target[x] IN Exists(e) => row[e].quarantined

\* A quarantine cuts off what was permitted before, also one of an entity that is
\* in quarantine already: once it is past its REVOKE, which was written, the entity
\* is revoked in the packet filter, until a verdict permits it again.  (It may at
\* once: no verdict asks whether its entity is in quarantine.)
QuarantineCutsOff ==
    \A x \in Editors \ (lost \cup overruled) :
        task[x] = "quarantine" /\ epc[x] = "done" => filter[target[x]] = "REVOKE"

\* A deleted entity does not come back, whoever still holds its row.
DeletedForGood == [][\A e \in Entities : row[e] = Deleted => row'[e] = Deleted]_vars
=============================================================================
