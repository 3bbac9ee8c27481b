------------------------------ MODULE FeatureJob ------------------------------
(***************************************************************************)
(* processPair of cmd/feature-backfill: a job row, a loop over chunks of   *)
(* candles that overlap by the warm-up, the upsert of feature rows, and at *)
(* the end the labels of everything that was loaded.  The dashboard can    *)
(* start a second process beside one that runs; the collector stores       *)
(* candles meanwhile.                                                      *)
(*                                                                         *)
(* Abstractions.  One symbol and timeframe: a pair that fails is logged    *)
(* and the next begins.  A batch is one implicit transaction.  A call ends *)
(* "ok", "failed" (not applied) or "lost" (applied, error returned).  The  *)
(* heartbeat is written and never read, and is left out.                   *)
(***************************************************************************)
EXTENDS Features

CONSTANTS
    Jobs,            \* processes
    MaxBar,          \* bound of the model
    Initially,       \* sets of bars that may be stored at first
    ChunkSize, WarmupBars, MinCandles,
    Outcomes

\* The warm-up, 200 bars, is as long as the longest column needs.
WarmupCovers ==
    /\ Len(EmaPeriods) = 3 /\ Len(ReturnPeriods) = 3 /\ Len(VolWindows) = 2
    /\ \A k \in 1..3 : EmaPeriods[k] <= WarmupBars /\ ReturnPeriods[k] <= WarmupBars
    /\ 2 * Period <= WarmupBars
    /\ \A k \in 1..2 : ReturnPeriods[1] + VolWindows[k] - 1 <= WarmupBars

\* BatchCommands assumes it of its constants.
JobAssumption ==
    /\ MaxBar \in Nat /\ Initially \subseteq SUBSET (1..MaxBar)
    /\ ChunkSize \in Nat /\ WarmupBars \in Nat \ {0} /\ WarmupBars < ChunkSize
    /\ MinCandles \in Nat /\ \A h \in Horizons : h <= WarmupBars
    /\ WarmupCovers
    /\ "ok" \in Outcomes /\ Outcomes \subseteq {"ok", "failed", "lost"}

VARIABLES
    candles,         \* bars stored in the candles table
    features,        \* feature_values, a function on the bars that have a row
    labels,          \* training_labels, likewise
    jobs,            \* feature_jobs: status and processed_rows
    place,           \* where a process is
    lastTime, chunk, allCandles, totalWritten,
    known,           \* observed: the bars stored when the job was created
    upserted,        \* observed: who has written labels since a job began to load
    blame            \* observed: what kept a job from telling how it ended

tables == <<candles, features, labels>>
local == <<lastTime, chunk, allCandles, totalWritten>>
observed == <<known, upserted, blame>>
jobVars == <<tables, jobs, place, local, observed>>

Bars == 1..MaxBar
NoJob == [status |-> "absent", processed |-> 0]

applied(o) == o # "failed"

-----------------------------------------------------------------------------
\* The i-th of a set of bars, in the order of time.
Nth(S, i) == CHOOSE b \in S : Cardinality({c \in S : c <= b}) = i
Ascending(S) == [i \in 1..Cardinality(S) |-> Nth(S, i)]

\* LoadCandlesAfter: at most `limit` bars, the oldest first.
LoadCandlesAfter(after, limit) ==
    LET later == {b \in candles : b > after}
    IN  Ascending({b \in later : Cardinality({c \in later : c <= b}) <= limit})

\* The rows after the warm-up, rows[warmupBars:].
\* Mutant: one row less is dropped.
ValidEarly(c) == WarmupBars..Len(c)
Valid(c) == WarmupBars + 1..Len(c)

FeatureRow(c, k) == Row(Mandatory(c), k - 1)

Times(c) == [k \in 1..Len(c) - WarmupBars |-> c[k + WarmupBars]]
ValidRows(c) == [k \in 1..Len(c) - WarmupBars |-> FeatureRow(c, k + WarmupBars)]

\* ON CONFLICT DO UPDATE; of two rows for a bar the later one stays.
UpsertFeatures(c) ==
    [b \in DOMAIN features \cup {c[k] : k \in Valid(c)} |->
        IF \E k \in Valid(c) : c[k] = b THEN FeatureRow(c, CHOOSE k \in Valid(c) : c[k] = b)
        ELSE features[b]]

LastOf(all, b) == CHOOSE i \in DOMAIN all : all[i] = b /\ \A j \in DOMAIN all : all[j] = b => j <= i
\* Mutant: the first copy of a bar stays.
UpsertFirst(all) ==
    [b \in DOMAIN labels \cup {all[i] : i \in DOMAIN all} |->
        IF \E i \in DOMAIN all : all[i] = b
        THEN ComputeLabels(all)[CHOOSE i \in DOMAIN all : all[i] = b /\ \A j \in DOMAIN all : all[j] = b => i <= j]
        ELSE labels[b]]
UpsertLabels(all) ==
    [b \in DOMAIN labels \cup {all[i] : i \in DOMAIN all} |->
        IF \E i \in DOMAIN all : all[i] = b THEN ComputeLabels(all)[LastOf(all, b)]
        ELSE labels[b]]

-----------------------------------------------------------------------------
(***************************************************************************)
(* The collector, and the end of a process.                                *)
(***************************************************************************)
CandleStored ==
    \E b \in Bars \ candles :
        /\ candles' = candles \cup {b}
        /\ UNCHANGED <<features, labels, jobs, place, local, observed>>

Kill(j) ==
    /\ place[j] \notin {"ready", "ended"}
    /\ place' = [place EXCEPT ![j] = "ended"]
    /\ blame' = [blame EXCEPT ![j] = @ \cup {"killed"}]
    /\ UNCHANGED <<tables, jobs, local, known, upserted>>

-----------------------------------------------------------------------------
(***************************************************************************)
(* processPair.                                                            *)
(***************************************************************************)
Status(j, s) == jobs' = [jobs EXCEPT ![j].status = s]
Goto(j, p) == place' = [place EXCEPT ![j] = p]
\* An error of one of the job row's own statements.
Blamed(j, o) == blame' = IF o = "ok" THEN blame ELSE [blame EXCEPT ![j] = @ \cup {"row"}]

Create(j, o) ==
    /\ place[j] = "create"
    /\ IF applied(o) THEN Status(j, "pending") ELSE UNCHANGED jobs
    /\ Goto(j, IF o = "ok" THEN "start" ELSE "ended")
    /\ Blamed(j, o)
    /\ known' = [known EXCEPT ![j] = candles]
    /\ UNCHANGED <<tables, local, upserted>>

\* A failed Start returns without Fail.
Start(j, o) ==
    /\ place[j] = "start"
    /\ IF applied(o) THEN Status(j, "running") ELSE UNCHANGED jobs
    /\ Goto(j, IF o = "ok" THEN "load" ELSE "ended")
    /\ Blamed(j, o)
    /\ UNCHANGED <<tables, local, known, upserted>>

\* The chunk is loaded and its features are computed; LoadOrderFlow can fail.
Load(j, o) ==
    /\ place[j] = "load"
    /\ LET c == LoadCandlesAfter(lastTime[j], ChunkSize) IN
       /\ IF o = "ok" THEN /\ chunk' = [chunk EXCEPT ![j] = c]
                           /\ allCandles' = [allCandles EXCEPT ![j] = @ \o c]
                      ELSE UNCHANGED <<chunk, allCandles>>
       /\ Goto(j, IF o # "ok" THEN "fail"
                  ELSE IF Len(c) <= WarmupBars THEN "labels"
                  ELSE IF ~ValidateFeatureRows(Times(c), ValidRows(c)) THEN "fail"
                  ELSE "upsert")
    /\ upserted' = IF lastTime[j] = 0 THEN [upserted EXCEPT ![j] = {}] ELSE upserted
    /\ UNCHANGED <<tables, jobs, lastTime, totalWritten, known, blame>>

Upsert(j, o) ==
    /\ place[j] = "upsert"
    /\ features' = IF applied(o) THEN UpsertFeatures(chunk[j]) ELSE features
    /\ totalWritten' = IF o = "ok" THEN [totalWritten EXCEPT ![j] = @ + Cardinality(Valid(chunk[j]))]
                       ELSE totalWritten
    /\ Goto(j, IF o = "ok" THEN "progress" ELSE "fail")
    /\ UNCHANGED <<candles, labels, jobs, lastTime, chunk, allCandles, observed>>

\* Where the next chunk begins, so that its warm-up is the end of this one.
\* Mutant: the next chunk begins where this one ended.
NextAfterEnd(c) == c[Len(c)]
NextAfter(c) == c[Len(c) - WarmupBars]

\* Mutant: the bars of the warm-up are counted as well.
ProgressWhole(j, o) ==
    /\ place[j] = "progress"
    /\ jobs' = IF applied(o) THEN [jobs EXCEPT ![j].processed = Len(allCandles[j])] ELSE jobs
    /\ IF Len(chunk[j]) < ChunkSize
         THEN Goto(j, "labels") /\ UNCHANGED lastTime
         ELSE Goto(j, "load") /\ lastTime' = [lastTime EXCEPT ![j] = NextAfter(chunk[j])]
    /\ UNCHANGED <<tables, chunk, allCandles, totalWritten, observed>>
\* UpdateProgress, whose error is only logged, and the loop's end.
Progress(j, o) ==
    /\ place[j] = "progress"
    /\ jobs' = IF applied(o) THEN [jobs EXCEPT ![j].processed = totalWritten[j]] ELSE jobs
    /\ IF Len(chunk[j]) < ChunkSize
         THEN Goto(j, "labels") /\ UNCHANGED lastTime
         ELSE Goto(j, "load") /\ lastTime' = [lastTime EXCEPT ![j] = NextAfter(chunk[j])]
    /\ UNCHANGED <<tables, chunk, allCandles, totalWritten, observed>>

Labels(j, o) ==
    /\ place[j] = "labels"
    /\ IF Len(allCandles[j]) >= MinCandles
         THEN /\ labels' = IF applied(o) THEN UpsertLabels(allCandles[j]) ELSE labels
              /\ upserted' = IF applied(o) THEN [k \in Jobs |-> upserted[k] \cup {j}] ELSE upserted
              /\ Goto(j, IF o = "ok" THEN "complete" ELSE "fail")
         ELSE Goto(j, "complete") /\ UNCHANGED <<labels, upserted>>
    /\ UNCHANGED <<candles, features, jobs, local, known, blame>>

\* Mutant: a job that failed is completed as well.
FailCompleted(j, o) ==
    /\ place[j] = "fail"
    /\ IF applied(o) THEN Status(j, "completed") ELSE UNCHANGED jobs
    /\ Goto(j, "ended")
    /\ Blamed(j, o)
    /\ UNCHANGED <<tables, local, known, upserted>>
Fail(j, o) ==
    /\ place[j] = "fail"
    /\ IF applied(o) THEN Status(j, "failed") ELSE UNCHANGED jobs
    /\ Goto(j, "ended")
    /\ Blamed(j, o)
    /\ UNCHANGED <<tables, local, known, upserted>>

Complete(j, o) ==
    /\ place[j] = "complete"
    /\ jobs' = IF applied(o) THEN [jobs EXCEPT ![j] = [status |-> "completed", processed |-> totalWritten[j]]]
               ELSE jobs
    /\ Goto(j, "ended")
    /\ Blamed(j, o)
    /\ UNCHANGED <<tables, local, known, upserted>>

-----------------------------------------------------------------------------
jobInit ==
    /\ candles \in Initially /\ features = << >> /\ labels = << >>
    /\ jobs = [j \in Jobs |-> NoJob]
    /\ place = [j \in Jobs |-> "ready"]
    /\ lastTime = [j \in Jobs |-> 0]
    /\ chunk = [j \in Jobs |-> << >>] /\ allCandles = [j \in Jobs |-> << >>]
    /\ totalWritten = [j \in Jobs |-> 0]
    /\ known = [j \in Jobs |-> {}] /\ upserted = [j \in Jobs |-> {}] /\ blame = [j \in Jobs |-> {}]

\* A step of a job that has begun.
processPair(j, o) ==
    \/ Create(j, o) \/ Start(j, o) \/ Load(j, o) \/ Upsert(j, o) \/ Progress(j, o)
    \/ Labels(j, o) \/ Fail(j, o) \/ Complete(j, o)

-----------------------------------------------------------------------------
(***************************************************************************)
(* Properties.                                                             *)
(***************************************************************************)

\* Every variable has its type.
JobTypeOK ==
    /\ candles \subseteq Bars
    /\ DOMAIN features \subseteq Bars /\ DOMAIN labels \subseteq Bars
    /\ \A b \in DOMAIN features : features[b].reads \subseteq Bars
    /\ \A b \in DOMAIN labels : labels[b] \in [Horizons -> {0} \cup Bars]
    /\ \A j \in Jobs :
        /\ jobs[j].status \in {"absent", "pending", "running", "failed", "completed"}
        /\ jobs[j].processed \in 0..totalWritten[j]
        /\ place[j] \in {"ready", "create", "start", "load", "upsert", "progress", "labels",
                         "complete", "fail", "ended"}
        /\ chunk[j] \in Seq(Bars) /\ allCandles[j] \in Seq(Bars)
        /\ lastTime[j] \in {0} \cup Bars

\* Every stored row has all its mandatory columns, reads the bar it is of, and no bar
\* after it: whatever chunk it was computed in, no row is of the warm-up or sees ahead.
RowsWarm ==
    \A b \in DOMAIN features :
        /\ features[b].nan = {}
        /\ b \in features[b].reads
        /\ \A r \in features[b].reads : r <= b

\* A completed job leaves no hole: of the bars that were stored when it was created,
\* all but the first WarmupBars have a row, whatever was stored since and wherever the
\* chunks were cut; and if no other job wrote labels meanwhile, each of them with h such
\* bars after it has its label of h.
EveryBarWritten ==
    \A j \in Jobs : jobs[j].status = "completed" =>
        /\ {b \in known[j] : Cardinality({c \in known[j] : c <= b}) > WarmupBars} \subseteq DOMAIN features
        /\ upserted[j] = {j} => \A b \in known[j], h \in Horizons :
               Cardinality({c \in known[j] : c > b}) >= h => labels[b][h] # 0

\* A label is of a bar that lies ahead, never of one before: where two chunks meet, the
\* copy of a bar whose label looks into the next chunk's warm-up is overwritten.
LabelsLookAhead ==
    \A b \in DOMAIN labels : \A h \in Horizons :
        labels[b][h] # 0 => /\ labels[b][h] > b
                            /\ Cardinality(candles \cap b + 1..labels[b][h]) >= h

\* The job row tells how the job ended: completed if every chunk and the labels are
\* written, failed otherwise; it is left pending or running only by a kill or by a
\* failure of the row's own statements.
RowTellsEnd ==
    \A j \in Jobs :
        /\ jobs[j].status = "completed" =>
               /\ jobs[j].processed = totalWritten[j]
               /\ Len(allCandles[j]) >= MinCandles =>
                    /\ {allCandles[j][i] : i \in DOMAIN allCandles[j]} \subseteq DOMAIN labels
                    /\ j \in upserted[j]
        /\ place[j] = "ended" /\ blame[j] = {} => jobs[j].status \in {"completed", "failed"}

\* A label that has been computed is erased (set back to the zero of "not known yet")
\* only by a job beside which another one has written labels since it began to load.
LabelsErasedByOverlap ==
    [][\A b \in DOMAIN labels : \A h \in Horizons :
          labels[b][h] # 0 /\ labels'[b][h] = 0 =>
              \E j \in Jobs : place[j] = "labels" /\ upserted[j] # {}]_jobVars
=============================================================================
