----------------------------- MODULE CandleTable -----------------------------
(***************************************************************************)
(* The candles table of one symbol and timeframe, and its three writers in *)
(* the collector: the backfill that runs before the stream is started      *)
(* (internal/collector/poll/backfill.go), the stream's kline handler, and  *)
(* the recovery scheduler that looks for a gap behind the newest candle    *)
(* and fills it (internal/collector/recovery).                             *)
(*                                                                         *)
(* The exchange's newest bar is still forming: the REST interface returns  *)
(* it as it is, the stream confirms a bar only when it has closed.  A page *)
(* is fetched in one step and stored in a later one, and the stream and    *)
(* the process's end can come between.                                     *)
(*                                                                         *)
(* Abstractions.  A bar is its number.  A stored candle is "partial" or    *)
(* "final", as it was when it was fetched.  A retry of a rate-limited      *)
(* request repeats it unchanged, so it is a later fetch.  A batch insert   *)
(* is one implicit transaction.  Validation drops no candle of the         *)
(* exchange.                                                               *)
(***************************************************************************)
EXTENDS Integers, FiniteSets

CONSTANTS
    MaxBar,      \* bound of the model: bars of the exchange
    History,     \* bars of BackfillDays
    Batch,       \* batchSize of the backfill
    Limit,       \* page size of the filler
    GapBars,     \* Recovery.GapBars
    MaxCrashes   \* bound of the model

ASSUME CandleAssumption ==
    /\ MaxBar \in Nat \ {0} /\ History \in Nat /\ MaxCrashes \in Nat
    /\ Batch \in Nat \ {0} /\ Limit \in Nat \ {0} /\ GapBars \in Nat

VARIABLES
    now,         \* the exchange's newest bar, still forming
    table,       \* what is stored of each bar
    connected,   \* the stream's socket is open and subscribed
    wire,        \* confirmed bars sent and not yet handled
    phase,       \* where Service.Start is
    job,         \* the step of the backfill or of the recovery scheduler
    from, to,    \* the range of bars it still has to fetch
    page,        \* the bars it has fetched and not stored, and the newest bar then
    window,      \* observed: who asked, for which range, and whether it ended without an error
    crashes

work == <<job, from, to, page, window>>
vars == <<now, table, connected, wire, phase, work, crashes>>

Bars == 1..MaxBar
NoPage == [bars |-> {}, asOf |-> 1]
NoWindow == [by |-> "backfill", from |-> 1, to |-> 1, full |-> FALSE]

Newest(S) == CHOOSE b \in S : \A c \in S : c <= b
Oldest(S) == CHOOSE b \in S : \A c \in S : b <= c

Stored == {b \in Bars : table[b] # "absent"}

-----------------------------------------------------------------------------
(***************************************************************************)
(* The exchange and the socket.                                            *)
(***************************************************************************)
\* A bar closes and the next begins; the stream confirms the closed one.
BarCloses ==
    /\ now < MaxBar                                   \* a bound of the model
    /\ now' = now + 1
    /\ wire' = IF connected THEN wire \cup {now} ELSE wire
    /\ UNCHANGED <<table, connected, phase, work, crashes>>

Connect ==
    /\ phase = "running"
    /\ ~connected
    /\ connected' = TRUE
    /\ UNCHANGED <<now, table, wire, phase, work, crashes>>

Disconnect ==
    /\ connected
    /\ connected' = FALSE
    /\ wire' = {}
    /\ UNCHANGED <<now, table, phase, work, crashes>>

-----------------------------------------------------------------------------
(***************************************************************************)
(* The table: every insert is ON CONFLICT DO NOTHING.                      *)
(***************************************************************************)
AsOf(b, newest) == IF b < newest THEN "final" ELSE "partial"

\* Mutant: a conflict updates the row.
Upsert(bars, newest) == [b \in Bars |-> IF b \in bars THEN AsOf(b, newest) ELSE table[b]]
Inserted(bars, newest) ==
    [b \in Bars |-> IF b \in bars /\ table[b] = "absent" THEN AsOf(b, newest) ELSE table[b]]

\* handleKline: a confirmed bar is stored; an error is counted and the bar lost.
HandleKline(outcome) ==
    /\ wire # {}
    /\ table' = IF outcome = "failed" THEN table ELSE Inserted({Oldest(wire)}, now)
    /\ wire' = wire \ {Oldest(wire)}
    /\ UNCHANGED <<now, connected, phase, work, crashes>>

-----------------------------------------------------------------------------
(***************************************************************************)
(* Service.Start: the backfill, then the stream and the scheduler.         *)
(***************************************************************************)
First == IF now > History THEN now - History ELSE 1

Start ==
    /\ phase = "down"
    /\ phase' = "backfill"
    /\ job' = "fetch"
    /\ from' = First /\ to' = now
    /\ window' = [by |-> "backfill", from |-> First, to |-> now, full |-> FALSE]
    /\ UNCHANGED <<now, table, connected, wire, page, crashes>>

Crash ==
    /\ phase # "down"
    /\ crashes < MaxCrashes                           \* a bound of the model
    /\ crashes' = crashes + 1
    /\ phase' = "down"
    /\ connected' = FALSE /\ wire' = {}
    /\ job' = "idle" /\ from' = 1 /\ to' = 1 /\ page' = NoPage
    /\ window' = NoWindow
    /\ UNCHANGED <<now, table>>

\* The backfill and the filler ask alike: the newest bars of the range, at most a
\* page of them.
PageSize == IF phase = "backfill" THEN Batch ELSE Limit
Answer == {b \in from..to : b <= now /\ Cardinality(b..to \cap 1..now) <= PageSize}

\* Whatever ends the backfill, the service goes on.
Done(full) ==
    /\ job' = "idle"
    /\ page' = NoPage
    /\ window' = [window EXCEPT !.full = full]
    /\ phase' = "running"

\* An error ends the job; so does a page without a bar.
Fetch(outcome) ==
    /\ job = "fetch"
    /\ IF outcome # "ok" THEN Done(FALSE)
       ELSE IF Answer = {} THEN Done(TRUE)
       ELSE /\ page' = [bars |-> Answer, asOf |-> now]
            /\ job' = "store"
            /\ UNCHANGED <<phase, window>>
    /\ UNCHANGED <<now, table, connected, wire, from, to, crashes>>

\* The bars that are left: the backfill goes on before the oldest bar of the page,
\* the filler after it, whatever the page's order makes of that.
\* Mutant: the backfill goes on like the filler.
RestForward == [from |-> Oldest(page.bars) + 1, to |-> to]
Rest ==
    IF phase = "backfill"
      THEN [from |-> from, to |-> Oldest(page.bars) - 1]
      ELSE [from |-> Oldest(page.bars) + 1, to |-> to]

Store(outcome) ==
    /\ job = "store"
    /\ table' = IF outcome = "failed" THEN table ELSE Inserted(page.bars, page.asOf)
    /\ IF outcome # "ok" THEN Done(FALSE) /\ UNCHANGED <<from, to>>
       ELSE IF Cardinality(page.bars) < PageSize \/ Rest.from > Rest.to
         THEN Done(TRUE) /\ UNCHANGED <<from, to>>
       ELSE /\ job' = "fetch"
            /\ from' = Rest.from /\ to' = Rest.to
            /\ page' = NoPage
            /\ UNCHANGED <<phase, window>>
    /\ UNCHANGED <<now, connected, wire, crashes>>

(***************************************************************************)
(* The detector: the newest stored bar, then the exchange's newest.  With  *)
(* no bar stored MAX(time) is NULL, the scan fails and nothing is done.    *)
(***************************************************************************)
ReadTable ==
    /\ phase = "running" /\ job = "idle"
    /\ Stored # {}
    /\ from' = Newest(Stored)
    /\ job' = "detect"
    /\ UNCHANGED <<now, table, connected, wire, phase, to, page, window, crashes>>

\* Mutant: a gap of more than twice the threshold is one.
WideGap == now - from > 2 * GapBars
Gap == now - from > GapBars

\* Mutant: the exchange's newest bar is taken by the time it closes.
DetectByClose(outcome) ==
    /\ job = "detect"
    /\ IF outcome = "ok" /\ Gap
         THEN /\ job' = "fetch"
              /\ to' = now + 1
              /\ window' = [by |-> "filler", from |-> from, to |-> now + 1, full |-> FALSE]
         ELSE job' = "idle" /\ UNCHANGED <<to, window>>
    /\ UNCHANGED <<now, table, connected, wire, phase, from, page, crashes>>
Detect(outcome) ==
    /\ job = "detect"
    /\ IF outcome = "ok" /\ Gap
         THEN /\ job' = "fetch"
              /\ to' = now
              /\ window' = [by |-> "filler", from |-> from, to |-> now, full |-> FALSE]
         ELSE job' = "idle" /\ UNCHANGED <<to, window>>
    /\ UNCHANGED <<now, table, connected, wire, phase, from, page, crashes>>
-----------------------------------------------------------------------------
Init ==
    /\ now \in Bars
    /\ table = [b \in Bars |-> "absent"]
    /\ connected = FALSE /\ wire = {}
    /\ phase = "down"
    /\ job = "idle" /\ from = 1 /\ to = 1 /\ page = NoPage /\ window = NoWindow
    /\ crashes = 0

Outcomes == {"ok", "failed", "lost"}

Next ==
    \/ BarCloses
    \/ Connect
    \/ Disconnect
    \/ Start
    \/ Crash
    \/ ReadTable
    \/ \E outcome \in Outcomes :
          HandleKline(outcome) \/ Fetch(outcome) \/ Store(outcome) \/ Detect(outcome)

Spec == Init /\ [][Next]_vars

\* The process is started again, the scheduler ticks, a call returns, and the exchange
\* and the database do not fail every time.
FairSpec ==
    /\ Spec
    /\ WF_vars(Start)
    /\ WF_vars(ReadTable)
    /\ WF_vars(\E outcome \in Outcomes : Fetch(outcome) \/ Store(outcome) \/ Detect(outcome))
    /\ SF_vars(Detect("ok")) /\ SF_vars(Fetch("ok")) /\ SF_vars(Store("ok"))

-----------------------------------------------------------------------------
(***************************************************************************)
(* Properties.                                                             *)
(***************************************************************************)

\* Every variable has its type, and a page is stored by the job that fetched it.
TypeOK ==
    /\ now \in Bars
    /\ table \in [Bars -> {"absent", "partial", "final"}]
    /\ connected \in BOOLEAN /\ wire \subseteq Bars
    /\ phase \in {"down", "backfill", "running"}
    /\ job \in {"idle", "fetch", "store", "detect"}
    /\ from \in Bars /\ to \in Bars
    /\ page \in [bars : SUBSET Bars, asOf : Bars]
    /\ window \in [by : {"backfill", "filler"}, from : Bars, to : Bars, full : BOOLEAN]
    /\ crashes \in 0..MaxCrashes
    /\ (job = "store") = (page.bars # {})

Covered(w) == \A b \in w.from..w.to : table[b] # "absent"

\* A backfill that reports no error has left no bar of its range out, over any number
\* of pages; a gap fill neither, if the gap fits in a page.
WindowStored ==
    window.full /\ (window.by = "backfill" \/ Cardinality(window.from..window.to) <= Limit) =>
        Covered(window)

\* A final candle never changes: a page fetched while its bar was forming and stored
\* after the stream confirmed the bar does not replace it.
FinalStays == [][\A b \in Bars : table[b] = "final" => table'[b] = "final"]_vars

\* Once a candle is stored, the table keeps up with the exchange to within GapBars,
\* with a stream that never comes back too.
KeepsUp == Stored # {} ~> (Stored # {} /\ now - Newest(Stored) <= GapBars)

-----------------------------------------------------------------------------
(***************************************************************************)
(* What the program's own texts say and the collector does not do.         *)
(***************************************************************************)

\* handlers_test.go:66, "UnconfirmedCandleNotStored": a bar is stored as it closed.
\* REST pages end with the forming bar, and what is stored of it is never replaced.
ClosedBarsFinal == \A b \in Bars : b < now => table[b] # "partial"
=============================================================================
