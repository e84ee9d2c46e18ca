---------------------------- MODULE SchemaSetup ----------------------------
(***************************************************************************)
(* Setting the database up at the start of a v4 server                     *)
(* (kelan/db/database.py, init_db): create the tables that are missing,    *)
(* then add every column of two of the models (kelan/db/models.py) one by  *)
(* one, which fails, without consequence, where it is there already.  The  *)
(* other tables are never altered.  Several servers may start on one file, *)
(* and each may crash between statements.                                  *)
(*                                                                         *)
(* On SQLite, the default, a statement of this kind commits by itself.     *)
(* The order of the statements of a phase is left open.  Left out: the two *)
(* views and the table of audit events, which no code uses.                *)
(***************************************************************************)
EXTENDS FiniteSets

CONSTANTS
    Servers,
    Tables,    \* entities, sessions, verdict_log and anomaly_log
    Altered,   \* entities and sessions
    Columns,   \* those that an older version of a table may lack
    Missing    \* no such table

VARIABLES
    schema,   \* the columns of each table
    phase,    \* where init_db of each server is
    todo,     \* the tables it has yet to look for, or to create, or the columns to add
    found,    \* the tables it did not find
    older,    \* history: the columns of each table as the file came
    skipped   \* history: a column could not be added because the file was locked

vars == <<schema, phase, todo, found, older, skipped>>

Phases == {"down", "looking", "creating", "altering", "ready", "failed"}

TypeOK ==
    /\ \A t \in Tables : schema[t] = Missing \/ schema[t] \subseteq Columns
    /\ phase \in [Servers -> Phases]
    /\ \A s \in Servers : phase[s] = "altering" => todo[s] \subseteq Altered \X Columns
    /\ found \in [Servers -> SUBSET Tables]
    /\ \A t \in Tables : older[t] = Missing \/ older[t] \subseteq Columns
    /\ skipped \in [Servers -> BOOLEAN]

\* The file of an earlier version, or none.
Init ==
    /\ schema \in [Tables -> (SUBSET Columns) \cup {Missing}]
    /\ older = schema
    /\ phase = [s \in Servers |-> "down"]
    /\ todo = [s \in Servers |-> {}]
    /\ found = [s \in Servers |-> {}]
    /\ skipped = [s \in Servers |-> FALSE]

Enter(s, p, work) ==
    /\ phase' = [phase EXCEPT ![s] = p]
    /\ todo' = [todo EXCEPT ![s] = work]

Start(s) ==
    /\ phase[s] \in {"down", "failed"}
    /\ Enter(s, "looking", Tables)
    /\ found' = [found EXCEPT ![s] = {}]
    /\ skipped' = [skipped EXCEPT ![s] = FALSE]
    /\ UNCHANGED <<schema, older>>

\* create_all looks for all tables before it creates the first.
Look(s, t) ==
    /\ phase[s] = "looking"
    /\ t \in todo[s]
    /\ LET gone == found[s] \cup IF schema[t] = Missing THEN {t} ELSE {}
       IN  /\ found' = [found EXCEPT ![s] = gone]
           /\ IF todo[s] = {t} THEN Enter(s, "creating", gone)
                               ELSE Enter(s, "looking", todo[s] \ {t})
    /\ UNCHANGED <<schema, older, skipped>>

\* The table was created meanwhile, or the file is locked: init_db raises.
CreateFails(s) ==
    /\ phase[s] = "creating"
    /\ todo[s] # {}
    /\ Enter(s, "failed", {})
    /\ UNCHANGED <<schema, found, older, skipped>>

Create(s, t) ==
    /\ phase[s] = "creating"
    /\ t \in todo[s]
    /\ schema[t] = Missing
    /\ schema' = [schema EXCEPT ![t] = Columns]
    /\ Enter(s, "creating", todo[s] \ {t})
    /\ UNCHANGED <<found, older, skipped>>

Created(s) ==
    /\ phase[s] = "creating"
    /\ todo[s] = {}
    /\ Enter(s, "altering", Altered \X Columns)
    /\ UNCHANGED <<schema, found, older, skipped>>

AlterM_EndsAtADuplicate(s, t, c) ==
    /\ phase[s] = "altering"
    /\ <<t, c>> \in todo[s]
    /\ IF c \in schema[t]
       THEN Enter(s, "altering", {x \in todo[s] : x[1] # t}) /\ UNCHANGED schema
       ELSE Enter(s, "altering", todo[s] \ {<<t, c>>})
            /\ schema' = [schema EXCEPT ![t] = @ \cup {c}]
    /\ UNCHANGED <<found, older, skipped>>

\* Every exception is ignored, a duplicate as well as a lock.
Alter(s, t, c) ==
    /\ phase[s] = "altering"
    /\ <<t, c>> \in todo[s]
    /\ Enter(s, "altering", todo[s] \ {<<t, c>>})
    /\ \/ schema' = [schema EXCEPT ![t] = @ \cup {c}] /\ UNCHANGED skipped
       \/ skipped' = [skipped EXCEPT ![s] = TRUE] /\ UNCHANGED schema
    /\ UNCHANGED <<found, older>>

Ready(s) ==
    /\ phase[s] = "altering"
    /\ todo[s] = {}
    /\ Enter(s, "ready", {})
    /\ UNCHANGED <<schema, found, older, skipped>>

Crash(s) ==
    /\ phase[s] # "down"
    /\ Enter(s, "down", {})
    /\ UNCHANGED <<schema, found, older, skipped>>

Next ==
    \E s \in Servers :
        \/ Start(s) \/ CreateFails(s) \/ Created(s) \/ Ready(s) \/ Crash(s)
        \/ \E t \in Tables :
              Look(s, t) \/ Create(s, t) \/ \E c \in Columns : Alter(s, t, c)

Spec == Init /\ [][Next]_vars

-----------------------------------------------------------------------------
\* What the set-up owes for a table: one that is altered, or that the file did
\* not have, gets every column; any other stays as it came.
Owed(t) == IF t \in Altered \/ older[t] = Missing THEN Columns ELSE older[t]

\* A server that is ready finds every table as it should be, whatever file it
\* started from and whoever else was starting or crashed, unless a lock made it
\* skip a column.  (An older verdict_log or anomaly_log thus stays incomplete.)
SchemaComplete ==
    \A s \in Servers : phase[s] = "ready" /\ ~skipped[s] => \A t \in Tables : schema[t] = Owed(t)
=============================================================================
