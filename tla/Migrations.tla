------------------------------ MODULE Migrations ------------------------------
(***************************************************************************)
(* RunMigrations of internal/db/migrate.go, which every command runs when  *)
(* it starts: for each file in order, look up whether it is recorded,      *)
(* execute it, record it.  Executing and recording are two statements, and *)
(* several processes can run at a time.                                    *)
(*                                                                         *)
(* Abstractions.  A file's content is a number, which stands for its       *)
(* checksum as well.  A file without arguments is sent as one simple query *)
(* and is atomic.  Every statement of the files is IF NOT EXISTS, so to    *)
(* execute one again changes nothing, and what another build's file makes  *)
(* under the same names stays as the first one made it.                    *)
(***************************************************************************)
EXTENDS Integers, Sequences, FiniteSets

CONSTANTS
    Processes,
    Binaries,        \* contents of the files, one sequence for each build
    Outcomes

\* BatchCommands assumes it of its constants.
MigrationAssumption ==
    /\ Binaries # {} /\ \A b \in Binaries : b \in Seq(Nat \ {0})
    /\ "ok" \in Outcomes /\ Outcomes \subseteq {"ok", "failed", "lost"}

VARIABLES
    binary,          \* the build a process runs
    step,            \* where a process is
    file,            \* the file it is at
    table,           \* schema_migrations exists
    recorded,        \* the content recorded for a file, 0 for none
    schema           \* the content of a file that made its tables, 0 for none

migrationVars == <<binary, step, file, table, recorded, schema>>

Files == UNION {DOMAIN b : b \in Binaries}
Content(p) == binary[p][file[p]]

Applies(o) == o # "failed"
\* An error ends the process: log.Fatalf in main.
Then(p, o, s) == step' = [step EXCEPT ![p] = IF o = "ok" THEN s ELSE "dead"]

-----------------------------------------------------------------------------
Begin(p) ==
    /\ step[p] = "off"
    /\ step' = [step EXCEPT ![p] = "ensure"]
    /\ UNCHANGED <<binary, file, table, recorded, schema>>

ensureSchemaTable(p, o) ==
    /\ step[p] = "ensure"
    /\ table' = (table \/ Applies(o))
    /\ Then(p, o, "check")
    /\ UNCHANGED <<binary, file, recorded, schema>>

\* A recorded file is skipped if it is the same, and ends the process if it is not.
Check(p, o) ==
    /\ step[p] = "check"
    /\ IF file[p] \notin DOMAIN binary[p] THEN Then(p, "ok", "ready") /\ UNCHANGED file
       ELSE IF o # "ok" THEN Then(p, o, "dead") /\ UNCHANGED file
       ELSE IF recorded[file[p]] = 0 THEN Then(p, o, "execute") /\ UNCHANGED file
       ELSE IF recorded[file[p]] # Content(p) THEN Then(p, "failed", "dead") /\ UNCHANGED file
       ELSE Then(p, o, "check") /\ file' = [file EXCEPT ![p] = @ + 1]
    /\ UNCHANGED <<binary, table, recorded, schema>>

Execute(p, o) ==
    /\ step[p] = "execute"
    /\ schema' = IF Applies(o) /\ schema[file[p]] = 0
                 THEN [schema EXCEPT ![file[p]] = Content(p)] ELSE schema
    /\ Then(p, o, "record")
    /\ UNCHANGED <<binary, file, table, recorded>>

\* filename is the primary key: of two processes the second fails.
\* Mutant: the second one is content with the first one's row.
RecordAnyway(p, o) ==
    /\ step[p] = "record"
    /\ recorded' = IF recorded[file[p]] = 0 /\ Applies(o)
                   THEN [recorded EXCEPT ![file[p]] = Content(p)] ELSE recorded
    /\ Then(p, o, "check")
    /\ file' = IF o = "ok" THEN [file EXCEPT ![p] = @ + 1] ELSE file
    /\ UNCHANGED <<binary, table, schema>>
Record(p, o) ==
    /\ step[p] = "record"
    /\ IF recorded[file[p]] # 0 THEN Then(p, "failed", "dead") /\ UNCHANGED <<recorded, file>>
       ELSE /\ recorded' = IF Applies(o) THEN [recorded EXCEPT ![file[p]] = Content(p)] ELSE recorded
            /\ Then(p, o, "check")
            /\ file' = IF o = "ok" THEN [file EXCEPT ![p] = @ + 1] ELSE file
    /\ UNCHANGED <<binary, table, schema>>

Die(p) ==
    /\ step[p] \notin {"off", "ready", "dead"}
    /\ step' = [step EXCEPT ![p] = "dead"]
    /\ UNCHANGED <<binary, file, table, recorded, schema>>

-----------------------------------------------------------------------------
migrationInit ==
    /\ binary \in [Processes -> Binaries]
    /\ step = [p \in Processes |-> "off"]
    /\ file = [p \in Processes |-> 1]
    /\ table = FALSE
    /\ recorded = [f \in Files |-> 0]
    /\ schema = [f \in Files |-> 0]

RunMigrations(p, o) ==
    ensureSchemaTable(p, o) \/ Check(p, o) \/ Execute(p, o) \/ Record(p, o)

migrationNext ==
    \E p \in Processes : Begin(p) \/ (\E o \in Outcomes : RunMigrations(p, o)) \/ Die(p)

migrationSpec == migrationInit /\ [][migrationNext]_migrationVars

-----------------------------------------------------------------------------
(***************************************************************************)
(* Properties.                                                             *)
(***************************************************************************)

\* Every variable has its type.
MigrationTypeOK ==
    /\ binary \in [Processes -> Binaries]
    /\ step \in [Processes -> {"off", "ensure", "check", "execute", "record", "ready", "dead"}]
    /\ file \in [Processes -> Nat]
    /\ table \in BOOLEAN
    /\ recorded \in [Files -> Nat]
    /\ schema \in [Files -> Nat]

\* A process of the build that made a file's tables ended, or is about to fail, between
\* executing the file and recording it.
Unrecorded(f) ==
    \E q \in Processes : /\ file[q] = f /\ step[q] \in {"record", "dead"}
                        /\ f \in DOMAIN binary[q] /\ binary[q][f] = schema[f]

\* A command that goes on after its migrations finds each of its files recorded with its
\* own content, and the tables of each as its own build makes them, whatever processes of
\* this or another build did in between; with one exception: the tables are another
\* build's if a process of that build made them and did not get to record it.
SchemaReady ==
    \A p \in Processes : step[p] = "ready" =>
        \A f \in DOMAIN binary[p] :
            /\ recorded[f] = binary[p][f]
            /\ schema[f] = binary[p][f] \/ (schema[f] # 0 /\ Unrecorded(f))

\* Files are executed in order: the tables of one exist only when all before it are
\* recorded, and those of what is recorded exist.
ExecutedInOrder ==
    /\ \A f \in Files : recorded[f] # 0 => schema[f] # 0
    /\ \A f \in Files : schema[f] # 0 => \A g \in Files : g < f => recorded[g] # 0
=============================================================================
