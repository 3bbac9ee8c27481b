---------------------------- MODULE BatchCommands ----------------------------
(***************************************************************************)
(* The batch commands on one database: feature backfills and an edge       *)
(* study, each a process that runs the migrations and then its work        *)
(* (cmd/feature-backfill, cmd/edge-study).  The collector stores candles   *)
(* meanwhile.  EnsureDefaultFeatureSet is an upsert of one row; a failure  *)
(* of it ends the process like one of a migration.                         *)
(***************************************************************************)
EXTENDS Integers, Sequences, FiniteSets

CONSTANTS
    Jobs, Studies, Binaries, Outcomes,
    MaxBar, Initially, ChunkSize, WarmupBars, MinCandles,
    EmaPeriods, Period, ReturnPeriods, VolWindows, ZWindow, Horizons,
    Names, StudyHorizons,
    MaxBegun,        \* bound of the model: processes that are started
    MaxFaults        \* bound of the model: statements that fail, and processes killed

VARIABLES
    binary, step, file, table, recorded, schema,
    candles, features, labels, jobs, place, lastTime, chunk, allCandles, totalWritten,
    known, upserted, blame,
    runs, results, at, next, allResults, lapse,
    faults           \* statements that failed and processes killed so far

Processes == Jobs \cup Studies

M == INSTANCE Migrations
J == INSTANCE FeatureJob
E == INSTANCE EdgeStudy

ASSUME BatchAssumption ==
    /\ M!MigrationAssumption /\ J!FeatureAssumption /\ J!JobAssumption /\ E!StudyAssumption
    /\ Jobs \cap Studies = {}
    /\ MaxBegun \in Nat /\ MaxFaults \in Nat

migrationVars == <<binary, step, file, table, recorded, schema>>
jobVars == <<candles, features, labels, jobs, place, lastTime, chunk, allCandles, totalWritten,
             known, upserted, blame>>
studyVars == <<runs, results, at, next, allResults, lapse>>
vars == <<migrationVars, jobVars, studyVars, faults>>

-----------------------------------------------------------------------------
Init == M!migrationInit /\ J!jobInit /\ E!studyInit /\ faults = 0

\* How a statement ends while the bound allows a fault, and the fault it is.
Ends == IF faults < MaxFaults THEN Outcomes ELSE {"ok"}
Count(o) == faults' = IF o = "ok" THEN faults ELSE faults + 1

Migrate ==
    /\ \E p \in Processes :
        \/ Cardinality({q \in Processes : step[q] # "off"}) < MaxBegun /\ M!Begin(p) /\ Count("ok")
        \/ \E o \in Ends : M!RunMigrations(p, o) /\ Count(o)
        \/ faults < MaxFaults /\ M!Die(p) /\ Count("killed")
    /\ UNCHANGED <<jobVars, studyVars>>

\* main, once the migrations are done.
BeginJob(j) ==
    /\ step[j] = "ready" /\ place[j] = "ready"
    /\ place' = [place EXCEPT ![j] = "create"]
    /\ UNCHANGED <<migrationVars, candles, features, labels, jobs, lastTime, chunk, allCandles,
                   totalWritten, known, upserted, blame, studyVars, faults>>

BeginStudy(s) ==
    /\ step[s] = "ready" /\ at[s] = "wait"
    /\ at' = [at EXCEPT ![s] = "create"]
    /\ UNCHANGED <<migrationVars, jobVars, runs, results, next, allResults, lapse, faults>>

Backfill ==
    /\ \/ J!CandleStored /\ Count("ok")
       \/ \E j \in Jobs, o \in Ends : J!processPair(j, o) /\ Count(o)
       \/ faults < MaxFaults /\ Count("killed") /\ \E j \in Jobs : J!Kill(j)
    /\ UNCHANGED <<migrationVars, studyVars>>

Study ==
    /\ \/ \E s \in Studies, o \in Ends : E!RunStudy(s, o) /\ Count(o)
       \/ faults < MaxFaults /\ Count("killed") /\ \E s \in Studies : E!Abort(s)
    /\ UNCHANGED <<migrationVars, jobVars>>

Next ==
    \/ Migrate
    \/ \E j \in Jobs : BeginJob(j)
    \/ \E s \in Studies : BeginStudy(s)
    \/ Backfill
    \/ Study

Spec == Init /\ [][Next]_vars

-----------------------------------------------------------------------------
(***************************************************************************)
(* Properties.                                                             *)
(***************************************************************************)

\* Every variable has its type.
TypeOK == M!MigrationTypeOK /\ J!JobTypeOK /\ E!StudyTypeOK

\* A command runs on a schema made in order and recorded as its own, which is another
\* build's only where a process of that build left it unrecorded.
SchemaReady == M!SchemaReady /\ M!ExecutedInOrder

\* No stored feature row is of the warm-up, misses a column or sees ahead.
RowsWarm == J!RowsWarm

\* A completed backfill leaves no bar it knew of without features.
EveryBarWritten == J!EveryBarWritten

\* No label looks back, where two chunks meet least of all.
LabelsLookAhead == J!LabelsLookAhead

\* The rows of jobs and runs tell how they ended, whatever failed before.
RowsTellEnd == J!RowTellsEnd /\ E!RunTellsEnd

\* A computed label is erased only by a job another one overtook.
LabelsErasedByOverlap == J!LabelsErasedByOverlap
=============================================================================
