----------------------------- MODULE Migrations -----------------------------
(***************************************************************************)
(* Processes that open one database: each reads user_version, refuses a    *)
(* version it does not know, and then runs the scripts from that version   *)
(* to its own, every one in a transaction of its own, while the others do  *)
(* the same.  A process may end at any time; a transaction that is not     *)
(* committed is rolled back.                                               *)
(***************************************************************************)
EXTENDS Integers

CONSTANTS
  Openers,   \* the processes
  Scripts,   \* the number of scripts that any package has
  packages   \* SCHEMA_VERSION of the package that each process runs

VARIABLES
  user_version,
  schema,  \* the scripts whose tables, columns and triggers are there
  pc,      \* where each process is
  version  \* the version that it believes the database to have

vars == <<user_version, schema, pc, version>>

Init ==
  /\ user_version = 0
  /\ schema = {}
  /\ pc = [o \in Openers |-> "closed"]
  /\ version = [o \in Openers |-> 0]

\* _migrate: PRAGMA user_version, in no transaction
ReadVersion(o) ==
  /\ pc[o] = "closed"
  /\ pc' = [pc EXCEPT ![o] = IF user_version > packages[o] THEN "refused" ELSE "migrates"]
  /\ version' = [version EXCEPT ![o] = user_version]
  /\ UNCHANGED <<user_version, schema>>

\* A table, column or trigger that exists cannot be made again, one that does not exist
\* cannot be altered.
Applicable(script) == schema = 1..(script - 1)

\* executescript: BEGIN waits for the transaction of another process, and COMMIT ends it.
RunScript(o) ==
  LET target == version[o] + 1
  IN  /\ pc[o] = "migrates" /\ version[o] < packages[o]
      /\ Applicable(target)
      /\ schema' = schema \cup {target}
      /\ user_version' = target
      /\ version' = [version EXCEPT ![o] = target]
      /\ UNCHANGED pc

\* The statement that fails raises out of Cache(), and the connection is lost.
ScriptFails(o) ==
  /\ pc[o] = "migrates" /\ version[o] < packages[o]
  /\ ~Applicable(version[o] + 1)
  /\ pc' = [pc EXCEPT ![o] = "failed"]
  /\ UNCHANGED <<user_version, schema, version>>

Opened(o) ==
  /\ pc[o] = "migrates" /\ version[o] = packages[o]
  /\ pc' = [pc EXCEPT ![o] = "open"]
  /\ UNCHANGED <<user_version, schema, version>>

\* The process ends, in the middle of whatever it does, and may open the database again.
Ends(o) ==
  /\ pc[o] # "closed"
  /\ pc' = [pc EXCEPT ![o] = "closed"]
  /\ version' = [version EXCEPT ![o] = 0]
  /\ UNCHANGED <<user_version, schema>>

Next ==
  \E o \in Openers : ReadVersion(o) \/ RunScript(o) \/ ScriptFails(o) \/ Opened(o) \/ Ends(o)

Spec == Init /\ [][Next]_vars

----------------------------------------------------------------------------
(* Properties *)

\* cache.py:36: "Each entry migrates the schema from version index to index + 1": a
\* script is only run on a database of the version before it.
EachScriptFromItsVersion ==
  [][\A o \in Openers : RunScript(o) \/ ScriptFails(o) => user_version = version[o]]_vars

\* The tables are those of the version that the database states, whatever process ended or
\* failed in the middle of its scripts (cache.py:251-254).
SchemaIsVersion == schema = 1..user_version

\* A process that has opened the database finds at least the tables its package needs.
OpenHasSchema ==
  \A o \in Openers : pc[o] = "open" => 1..packages[o] \subseteq schema

\* The inductive strengthening: a process is never ahead of the database.
NeverAhead ==
  /\ user_version \in Nat
  /\ version \in [Openers -> Nat]
  /\ pc \in [Openers -> {"closed", "migrates", "refused", "failed", "open"}]
  /\ \A o \in Openers : version[o] <= user_version
  /\ \A o \in Openers : pc[o] = "open" => version[o] = packages[o]
=============================================================================
