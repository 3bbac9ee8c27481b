------------------------------- MODULE EdgeStudy -------------------------------
(***************************************************************************)
(* The edge study of cmd/edge-study: a run row, the analysis of every      *)
(* feature against every horizon, the ranking, one insert for each result, *)
(* and the row's end.  It reads the two tables the feature job writes,     *)
(* query by query.                                                         *)
(*                                                                         *)
(* Abstractions.  One symbol and timeframe.  The four queries of a feature *)
(* and a horizon are one step, of which one can fail; a result is known by *)
(* its metric and the rows it was computed from.  Which rows lack a column *)
(* of the order flow is chosen anew each time.  The numbers, and so the    *)
(* order of the ranking, and the exported files are left out.              *)
(***************************************************************************)
EXTENDS Integers, Sequences, FiniteSets

CONSTANTS
    Studies,         \* processes
    Names,           \* columns of feature_values, in the order of main: the mandatory
                     \* ones by their place in Mandatory of Features, others beyond
    StudyHorizons,   \* the label columns, in the order of main
    Outcomes

\* BatchCommands assumes it of its constants.
StudyAssumption ==
    /\ Names \in Seq(Nat \ {0}) \ {<< >>} /\ StudyHorizons \in Seq(Nat \ {0})
    /\ "ok" \in Outcomes /\ Outcomes \subseteq {"ok", "failed", "lost"}

VARIABLES
    features, labels,    \* the tables of the feature job, read only
    runs,                \* the status of a research run
    results,             \* research_results of a run, in the order of their insertion
    at,                  \* where a process is
    next,                \* the feature and horizon to analyse, or the result to save
    allResults,          \* what the process has computed
    lapse                \* observed: what kept a run from telling how it ended

studyLocal == <<next, allResults>>
studyVars == <<runs, results, at, studyLocal, lapse>>

takes(o) == o # "failed"
Go(s, p) == at' = [at EXCEPT ![s] = p]
Mark(s, p) == runs' = [runs EXCEPT ![s] = p]
\* A failure after which the row cannot be right.
Lapsed(s, o) == lapse' = IF o = "ok" THEN lapse ELSE [lapse EXCEPT ![s] = TRUE]

Cells == [k \in 1..Len(Names) * Len(StudyHorizons) |->
             << Names[((k - 1) \div Len(StudyHorizons)) + 1],
                StudyHorizons[((k - 1) % Len(StudyHorizons)) + 1] >>]

-----------------------------------------------------------------------------
CreateRun(s, o) ==
    /\ at[s] = "create"
    /\ IF takes(o) THEN Mark(s, "pending") ELSE UNCHANGED runs
    /\ Go(s, IF o = "ok" THEN "start" ELSE "exit")
    /\ Lapsed(s, o)
    /\ UNCHANGED <<results, studyLocal>>

\* The error of StartRun is not looked at.
StartRun(s, o) ==
    /\ at[s] = "start"
    /\ IF takes(o) THEN Mark(s, "running") ELSE UNCHANGED runs
    /\ Go(s, "count")
    /\ UNCHANGED <<results, studyLocal, lapse>>

CountFeatures(s, o) ==
    /\ at[s] = "count"
    /\ Go(s, IF o # "ok" \/ DOMAIN features = {} THEN "failing" ELSE "analyse")
    /\ UNCHANGED <<runs, results, studyLocal, lapse>>

\* ComputeFeatures has these in every row, NaN in the warm-up: the ATR and the ADX, by
\* which the regimes are told, among them.
MandatoryColumns == 1..12
ATR14 == 5
ADX14 == 6

\* The rows a query joins, those without a NULL in a column it reads; a label that is not
\* known yet is a zero and counts.  `lacking` has NULL in the column for want of order flow.
Needs(query, name) == IF query = "regime" THEN {name, ATR14, ADX14} ELSE {name}
Joined(query, name, lacking) ==
    {b \in DOMAIN features \cap DOMAIN labels :
        b \notin lacking /\ Needs(query, name) \cap features[b].nan = {}}

\* analyzeFeature, for one horizon: the query that fails is logged and has no result, and
\* without the correlation the others are not asked; quantiles and regimes have one
\* only if there are rows.
Queries == {"corr", "quantile", "rolling", "regime"}
Answer(query, name, lacking, failed) ==
    IF query = failed \/ (query # "rolling" /\ Joined(query, name, lacking) = {})
    THEN << >> ELSE <<query>>
Answered(name, lacking, failed) ==
    IF failed = "corr" THEN << >>
    ELSE <<"corr">> \o Answer("quantile", name, lacking, failed)
         \o Answer("rolling", name, lacking, failed) \o Answer("regime", name, lacking, failed)
Results(cell, lacking, failed) ==
    LET answered == Answered(cell[1], lacking, failed)
    IN  [k \in DOMAIN answered |->
            [of |-> cell, metric |-> answered[k],
             samples |-> Cardinality(Joined(answered[k], cell[1], lacking))]]

\* The results that are not of a horizon.
Overall(metric, name) == [of |-> <<name, 0>>, metric |-> metric, samples |-> 0]

\* The decay is computed once the last horizon is done, from whatever there is.
Analyse(s, lacking, failed) ==
    /\ at[s] = "analyse" /\ next[s] \in DOMAIN Cells
    /\ Cells[next[s]][1] \in MandatoryColumns => lacking = {}
    /\ LET last == next[s] % Len(StudyHorizons) = 0
           decay == IF last THEN << Overall("decay", Cells[next[s]][1]) >> ELSE << >>
       IN  allResults' = [allResults EXCEPT ![s] = @ \o Results(Cells[next[s]], lacking, failed) \o decay]
    /\ next' = [next EXCEPT ![s] = @ + 1]
    /\ UNCHANGED <<runs, results, at, lapse>>

\* ComputeRanking gives every feature a score, also one without any correlation.
Ranking(s) ==
    /\ at[s] = "analyse" /\ next[s] \notin DOMAIN Cells
    /\ allResults' = [allResults EXCEPT ![s] = @ \o [i \in DOMAIN Names |-> Overall("score", Names[i])]]
    /\ next' = [next EXCEPT ![s] = 1]
    /\ Go(s, "save")
    /\ UNCHANGED <<runs, results, lapse>>

\* SaveToDB: an insert that fails ends the process with the row still running.
\* Mutant: a failed insert is skipped.
SaveSkipping(s, o) ==
    /\ at[s] = "save" /\ next[s] \in DOMAIN allResults[s]
    /\ results' = IF takes(o) THEN [results EXCEPT ![s] = Append(@, allResults[s][next[s]])] ELSE results
    /\ next' = [next EXCEPT ![s] = @ + 1]
    /\ UNCHANGED <<at, lapse, runs, allResults>>
SaveResult(s, o) ==
    /\ at[s] = "save" /\ next[s] \in DOMAIN allResults[s]
    /\ results' = IF takes(o) THEN [results EXCEPT ![s] = Append(@, allResults[s][next[s]])] ELSE results
    /\ next' = [next EXCEPT ![s] = @ + 1]
    /\ IF o = "ok" THEN UNCHANGED at ELSE Go(s, "exit")
    /\ Lapsed(s, o)
    /\ UNCHANGED <<runs, allResults>>

\* The errors of CompleteRun and FailRun are not looked at.
CompleteRun(s, o) ==
    /\ at[s] = "save" /\ next[s] \notin DOMAIN allResults[s]
    /\ IF takes(o) THEN Mark(s, "completed") ELSE UNCHANGED runs
    /\ Go(s, "exit")
    /\ Lapsed(s, o)
    /\ UNCHANGED <<results, studyLocal>>

FailRun(s, o) ==
    /\ at[s] = "failing"
    /\ IF takes(o) THEN Mark(s, "failed") ELSE UNCHANGED runs
    /\ Go(s, "exit")
    /\ Lapsed(s, o)
    /\ UNCHANGED <<results, studyLocal>>

Abort(s) ==
    /\ at[s] \notin {"wait", "exit"}
    /\ Go(s, "exit")
    /\ lapse' = [lapse EXCEPT ![s] = TRUE]
    /\ UNCHANGED <<runs, results, studyLocal>>

-----------------------------------------------------------------------------
studyInit ==
    /\ runs = [s \in Studies |-> "absent"] /\ results = [s \in Studies |-> << >>]
    /\ at = [s \in Studies |-> "wait"]
    /\ next = [s \in Studies |-> 1] /\ allResults = [s \in Studies |-> << >>]
    /\ lapse = [s \in Studies |-> FALSE]

RunStudy(s, o) ==
    \/ CreateRun(s, o) \/ StartRun(s, o) \/ CountFeatures(s, o)
    \/ \E lacking \in SUBSET DOMAIN features :
          \/ o = "ok" /\ Analyse(s, lacking, "none")
          \/ o # "ok" /\ \E failed \in Queries : Analyse(s, lacking, failed)
    \/ o = "ok" /\ Ranking(s)
    \/ SaveResult(s, o) \/ CompleteRun(s, o) \/ FailRun(s, o)

-----------------------------------------------------------------------------
(***************************************************************************)
(* Properties.                                                             *)
(***************************************************************************)

\* Every variable has its type.
StudyTypeOK ==
    /\ runs \in [Studies -> {"absent", "pending", "running", "failed", "completed"}]
    /\ at \in [Studies -> {"wait", "create", "start", "count", "analyse", "save", "failing", "exit"}]
    /\ \A s \in Studies : next[s] \in Nat \ {0} /\ Len(results[s]) <= Len(allResults[s])

\* A completed run has a score for every feature and each of its results once, in
\* the order they were computed, none of a horizon without its correlation, and of the
\* mandatory columns no correlation of fewer rows than one before, whatever a backfill
\* wrote meanwhile; a failed run has no result; and a run whose process has ended is
\* completed or failed unless the process was killed, or an insert of a result or one of
\* the row's own statements failed.
RunTellsEnd ==
    \A s \in Studies :
        /\ runs[s] = "completed" =>
               /\ results[s] = allResults[s]
               /\ \A i \in DOMAIN Names : \E k \in DOMAIN results[s] :
                      results[s][k] = Overall("score", Names[i])
               /\ \A k \in DOMAIN results[s] : results[s][k].metric \in {"quantile", "rolling", "regime"} =>
                      \E l \in 1..k : /\ results[s][l].metric = "corr"
                                     /\ results[s][l].of = results[s][k].of
               /\ LET corr == {k \in DOMAIN results[s] : /\ results[s][k].metric = "corr"
                                                         /\ results[s][k].of[1] \in MandatoryColumns}
                  IN  \A k, l \in corr : k < l => results[s][k].samples <= results[s][l].samples
        /\ runs[s] = "failed" => results[s] = << >>
        /\ at[s] = "exit" /\ ~lapse[s] => runs[s] \in {"completed", "failed"}
=============================================================================
