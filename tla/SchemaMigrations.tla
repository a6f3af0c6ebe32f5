--------------------------- MODULE SchemaMigrations ---------------------------
(* The runner that brings a database to the schema of a release                  *)
(* (apply-migrations.mjs).  A release is the set of its migration files; the     *)
(* database remembers which of them it has run, with their checksums.  Runners   *)
(* of several releases, started by deployments that overlap, share a session     *)
(* lock; a runner may fail or die between any two transactions.                  *)
EXTENDS Integers

CONSTANTS Runners,
          Releases       \* sets of [file, sum], where files are ordered by number

VARIABLES ledger,        \* the table ledger_schema_migrations
          runner

schemaVars == <<ledger, runner>>

Unborn == [pc |-> "idle", release |-> {}, todo |-> {}]

SchemaTypeOK ==
  /\ ledger \in SUBSET UNION Releases
  /\ runner \in [Runners -> [pc : {"idle", "locked", "applying"},
                             release : Releases \cup {{}}, todo : SUBSET UNION Releases]]

\* The rows are the first files of the release, in order and with their contents.
Begins(rows, release) ==
  rows \subseteq release /\ \A m \in rows, n \in release \ rows : m.file < n.file

\* Mutant: nobody waits for anybody.
LockFreeAlways == TRUE
LockFree == \A r \in Runners : runner[r].pc = "idle"

Lock(r) ==
  /\ runner[r].pc = "idle" /\ LockFree
  /\ \E release \in Releases :
       runner' = [runner EXCEPT ![r] = [pc |-> "locked", release |-> release, todo |-> {}]]
  /\ UNCHANGED ledger

\* The history is compared once; what is missing is remembered.
Compare(r) ==
  /\ runner[r].pc = "locked"
  /\ LET release == runner[r].release
     IN  runner' = [runner EXCEPT ![r] =
           IF Begins(ledger, release)
           THEN [pc |-> "applying", release |-> release, todo |-> release \ ledger] ELSE Unborn]
  /\ UNCHANGED ledger

\* One transaction runs the file and records it; a file that is recorded already
\* is refused by the primary key, and ends the runner.
Apply(r, m) ==
  /\ runner[r].pc = "applying" /\ m \in runner[r].todo
  /\ \A n \in runner[r].todo : m.file <= n.file
  /\ IF \E n \in ledger : n.file = m.file
     THEN runner' = [runner EXCEPT ![r] = Unborn] /\ UNCHANGED ledger
     ELSE runner' = [runner EXCEPT ![r].todo = @ \ {m}] /\ ledger' = ledger \cup {m}

\* All files are there, one of them failed and was rolled back, or the connection,
\* and with it the lock, is lost.
EndRun(r) ==
  /\ runner[r].pc # "idle"
  /\ runner' = [runner EXCEPT ![r] = Unborn]
  /\ UNCHANGED ledger

SchemaInit == ledger = {} /\ runner = [r \in Runners |-> Unborn]

SchemaNext == \E r \in Runners :
  Lock(r) \/ Compare(r) \/ EndRun(r) \/ \E m \in runner[r].todo : Apply(r, m)

SchemaSpec == SchemaInit /\ [][SchemaNext]_schemaVars

\* Whatever runners of whichever releases overlap or die, the schema is always one
\* that some release has on its way: its first files, and none of another
\* (apply-migrations.mjs:72).
HistoryIsPrefix == \E release \in Releases : Begins(ledger, release)
===============================================================================
