--------------------------- MODULE CandleTableProofs ---------------------------
(***************************************************************************)
(* Proofs about CandleTable, for any page sizes, length of history and     *)
(* number of crashes: the types, that a finished window has no hole, and   *)
(* that final candles stay.                                                *)
(*                                                                         *)
(* That a window is stored is known only at its end.  The invariant says   *)
(* what a page is, that the backfill has stored everything after the range *)
(* it still has to fetch, and that the filler's first page is the whole of *)
(* a window that fits in it.                                               *)
(***************************************************************************)
EXTENDS CandleTable, FiniteSetTheorems, WellFoundedInduction, TLAPS

USE CandleAssumption

Here(b) == table[b] # "absent"
Small == Cardinality(window.from..window.to) <= Limit

ControlInv ==
    /\ phase = "down" => job = "idle"
    /\ phase = "backfill" => job \in {"fetch", "store"}

RangeInv == job \in {"fetch", "store"} => from <= to /\ to <= now

\* The bars a page has: the newest of the range.
PageRange == {b \in from..to : to - b < PageSize}
PageInv == job = "store" => page.bars = PageRange

\* What the backfill has done: the bars after its range.
BackInv ==
    phase = "backfill" =>
        /\ window.by = "backfill" /\ ~window.full
        /\ window.from = from /\ to <= window.to
        /\ \A b \in Bars : to < b /\ b <= window.to => Here(b)

\* What the filler has done once it went on from its first page.
FillInv ==
    phase = "running" /\ job \in {"fetch", "store"} =>
        /\ window.by = "filler" /\ ~window.full
        /\ window.to = to
        /\ from = window.from \/ (Small => Covered(window))

CandleInv ==
    TypeOK /\ ControlInv /\ RangeInv /\ PageInv /\ BackInv /\ FillInv /\ WindowStored

-----------------------------------------------------------------------------
(***************************************************************************)
(* Oldest, and the shape of a page.                                        *)
(***************************************************************************)
LEMMA OldestIsLeast ==
    ASSUME NEW S, S \subseteq Bars, S # {}
    PROVE  Oldest(S) \in S /\ \A c \in S : Oldest(S) <= c
<1> DEFINE Less == {p \in Nat \X Nat : p[1] < p[2]}
<1>1. IsWellFoundedOn(Less, Nat)
  BY NatLessThanWellFounded DEF OpToRel
<1>2. S \subseteq Nat
  BY DEF Bars
<1>3. PICK x \in S : \A y \in S : <<y, x>> \notin Less
  <2> HIDE DEF Less
  <2> QED BY <1>1, <1>2, WFMin
<1>4. ASSUME NEW c \in S PROVE x <= c
  <2>1. x \in Nat /\ c \in Nat
    BY <1>2
  <2>2. ~(c < x)
    BY <1>3, <2>1
  <2> QED BY <2>1, <2>2
<1>5. \E b \in S : \A c \in S : b <= c
  BY <1>4
<1> QED BY <1>5 DEF Oldest

LEMMA PageSizeType == PageSize \in Nat \ {0}
BY DEF PageSize

\* The range a job fetches is of numbers.
LEMMA RangeTypes ==
    ASSUME TypeOK
    PROVE  /\ from \in Nat \ {0} /\ to \in Nat \ {0} /\ now \in Nat \ {0}
           /\ \A b \in from..to : b \in Bars /\ b \in Nat \ {0}
           /\ window.from \in Nat \ {0} /\ window.to \in Nat \ {0}
BY DEF TypeOK, Bars

LEMMA AnswerIsPage ==
    ASSUME TypeOK, from <= to, to <= now
    PROVE  Answer = PageRange /\ to \in PageRange /\ PageRange \subseteq Bars
<1>1. ASSUME NEW b \in from..to
      PROVE  b <= now /\ Cardinality(b..to \cap 1..now) = to - b + 1
  <2>1. b \in Nat \ {0} /\ to \in Nat /\ now \in Nat /\ b <= to
    BY RangeTypes
  <2> DEFINE S == b..to \cap 1..now
             T == b..to
  <2>2. S = T
    BY <2>1
  <2>3. Cardinality(T) = to - b + 1
    BY <2>1, FS_Interval
  <2>4. Cardinality(S) = to - b + 1
    <3> HIDE DEF S, T
    <3> QED BY <2>2, <2>3
  <2>5. b <= now
    BY <2>1
  <2> QED BY <2>4, <2>5
<1>2. ASSUME NEW b \in from..to
      PROVE  (b <= now /\ Cardinality(b..to \cap 1..now) <= PageSize) <=> to - b < PageSize
  <2>1. b \in Nat /\ to \in Nat /\ PageSize \in Nat
    BY RangeTypes, PageSizeType
  <2> DEFINE k == Cardinality(b..to \cap 1..now)
  <2>2. k = to - b + 1 /\ b <= now
    BY <1>1
  <2>3. k <= PageSize <=> to - b < PageSize
    <3> HIDE DEF k
    <3> QED BY <2>1, <2>2
  <2> QED BY <2>2, <2>3
<1>3. Answer = PageRange
  BY <1>2 DEF Answer, PageRange
<1>4. to \in PageRange
  BY RangeTypes, PageSizeType DEF PageRange
<1>5. PageRange \subseteq Bars
  BY RangeTypes DEF PageRange
<1> QED BY <1>3, <1>4, <1>5

\* A page is what is from its oldest bar on.
LEMMA FromOldest ==
    ASSUME TypeOK, from <= to, to <= now
    PROVE  /\ Oldest(PageRange) \in from..to
           /\ \A b \in from..to : b \in PageRange <=> Oldest(PageRange) <= b
<1> DEFINE o == Oldest(PageRange)
<1>1. o \in PageRange /\ \A c \in PageRange : o <= c
  BY AnswerIsPage, OldestIsLeast
<1>2. o \in from..to /\ to - o < PageSize
  BY <1>1 DEF PageRange
<1>3. ASSUME NEW b \in from..to, o <= b PROVE b \in PageRange
  <2>1. o \in Nat /\ b \in Nat /\ to \in Nat /\ PageSize \in Nat
    BY <1>2, RangeTypes, PageSizeType
  <2>2. to - b < PageSize
    <3> HIDE DEF o
    <3> QED BY <1>2, <1>3, <2>1
  <2> QED BY <2>2 DEF PageRange
<1> QED BY <1>1, <1>2, <1>3

\* A page that is short, or reaches the start of the range, is the whole range.
LEMMA WholeRange ==
    ASSUME TypeOK, from <= to, to <= now,
           Cardinality(PageRange) < PageSize \/ Oldest(PageRange) <= from
    PROVE  \A b \in from..to : b \in PageRange
<1>1. from \in Nat \ {0} /\ to \in Nat \ {0} /\ PageSize \in Nat \ {0}
  BY RangeTypes, PageSizeType
<1>2. CASE to - from < PageSize
  BY <1>1, <1>2 DEF PageRange
<1>3. CASE Oldest(PageRange) <= from
  <2> DEFINE o == Oldest(PageRange)
  <2>1. o \in from..to /\ o <= from
    BY <1>3, FromOldest
  <2>2. o = from
    BY <1>1, <2>1
  <2>3. o \in PageRange
    BY <2>1, <2>2, FromOldest
  <2>4. to - from < PageSize
    BY <2>2, <2>3 DEF PageRange
  <2> QED BY <2>4, <1>2
<1>4. CASE to - from >= PageSize /\ Cardinality(PageRange) < PageSize
  <2> DEFINE a == to - PageSize + 1
             S == a..to
  <2>1. a \in Int /\ from <= a /\ a <= to /\ to - a + 1 = PageSize
    BY <1>1, <1>4
  <2>2. Cardinality(S) = PageSize
    BY <1>1, <2>1, FS_Interval
  <2>3. S \subseteq PageRange
    BY <1>1, <2>1 DEF PageRange
  <2>4. IsFiniteSet(PageRange)
    <3>1. PageRange \subseteq from..to
      BY DEF PageRange
    <3>2. IsFiniteSet(from..to)
      BY <1>1, FS_Interval
    <3> QED BY <3>1, <3>2, FS_Subset
  <2>5. Cardinality(S) <= Cardinality(PageRange) /\ Cardinality(PageRange) \in Nat
    BY <2>3, <2>4, FS_Subset, FS_CardinalityType
  <2> QED BY <1>1, <1>4, <2>2, <2>5
<1>5. to - from < PageSize \/ to - from >= PageSize
  BY <1>1
<1> QED BY <1>2, <1>3, <1>4, <1>5

-----------------------------------------------------------------------------
(***************************************************************************)
(* The table only grows.                                                   *)
(***************************************************************************)
TableType == [Bars -> {"absent", "partial", "final"}]

Grows ==
    /\ table' \in TableType
    /\ \A b \in Bars : Here(b) => Here(b)'
    /\ \A b \in Bars : table[b] = "final" => table'[b] = "final"

LEMMA InsertedGrows ==
    ASSUME TypeOK, NEW S, NEW newest, table' = Inserted(S, newest)
    PROVE  Grows /\ \A b \in Bars \cap S : Here(b)'
BY DEF TypeOK, Inserted, AsOf, Grows, Here, TableType

LEMMA SameGrows == ASSUME TypeOK, UNCHANGED table PROVE Grows
BY DEF TypeOK, Grows, Here, TableType

LEMMA TableGrows == TypeOK /\ [Next]_vars => Grows
<1> SUFFICES ASSUME TypeOK, [Next]_vars PROVE Grows
  OBVIOUS
<1>1. ASSUME NEW o \in Outcomes, HandleKline(o) PROVE Grows
  BY <1>1, InsertedGrows, SameGrows DEF HandleKline
<1>2. ASSUME NEW o \in Outcomes, Store(o) PROVE Grows
  BY <1>2, InsertedGrows, SameGrows DEF Store
<1>3. (\E o \in Outcomes : HandleKline(o) \/ Store(o)) \/ UNCHANGED table
  BY DEF Next, BarCloses, Connect, Disconnect, Start, Crash, ReadTable, Fetch, Detect, vars
<1> QED BY <1>1, <1>2, <1>3, SameGrows

\* The bars of the window are stored after the step.
StoredNext == \A b \in window.from..window.to : table'[b] # "absent"

LEMMA CoveredStays ==
    ASSUME TypeOK, Grows, Covered(window) PROVE StoredNext
<1>1. \A b \in window.from..window.to : b \in Bars
  BY DEF TypeOK, Bars
<1> QED BY <1>1 DEF Covered, Grows, Here, StoredNext

-----------------------------------------------------------------------------
(***************************************************************************)
(* Steps that leave the job alone.                                         *)
(***************************************************************************)
LEMMA BesideKeeps ==
    ASSUME CandleInv, Grows, UNCHANGED <<phase, work>>, TypeOK', now <= now'
    PROVE  CandleInv'
<1> USE DEF CandleInv, work
<1>1. ControlInv' /\ PageInv'
  BY DEF ControlInv, PageInv, PageRange, PageSize
<1>2. RangeInv'
  <2>1. to \in Nat /\ now \in Nat /\ now' \in Nat
    BY DEF TypeOK, Bars
  <2> QED BY <2>1 DEF RangeInv
<1>3. BackInv'
  BY DEF BackInv, Grows
<1>4. UNCHANGED window /\ Small' = Small
  BY DEF Small
<1>5. StoredNext => Covered(window)'
  BY <1>4 DEF StoredNext, Covered
<1>6. Covered(window) => Covered(window)'
  BY <1>5, CoveredStays
<1>7. FillInv'
  BY <1>4, <1>6 DEF FillInv
<1>8. WindowStored'
  BY <1>4, <1>6 DEF WindowStored, Small
<1> QED BY <1>1, <1>2, <1>3, <1>7, <1>8

LEMMA BarClosesKeeps == ASSUME CandleInv, BarCloses PROVE CandleInv'
<1>1. Grows
  BY SameGrows DEF CandleInv, BarCloses
<1>2. TypeOK' /\ now <= now'
  BY DEF CandleInv, BarCloses, TypeOK, work, Bars
<1> QED BY <1>1, <1>2, BesideKeeps DEF BarCloses

LEMMA SocketKeeps == ASSUME CandleInv, Connect \/ Disconnect PROVE CandleInv'
<1>1. Grows /\ now <= now'
  BY SameGrows DEF CandleInv, Connect, Disconnect, TypeOK, Bars
<1>2. TypeOK'
  BY DEF CandleInv, Connect, Disconnect, TypeOK, work
<1> QED BY <1>1, <1>2, BesideKeeps DEF Connect, Disconnect

LEMMA HandleKlineKeeps ==
    ASSUME CandleInv, NEW o \in Outcomes, HandleKline(o) PROVE CandleInv'
<1>1. Grows
  BY InsertedGrows, SameGrows DEF CandleInv, HandleKline
<1>2. /\ table' \in TableType /\ wire' \subseteq Bars
      /\ UNCHANGED <<now, connected, phase, work, crashes>>
  BY <1>1 DEF CandleInv, HandleKline, TypeOK, Grows
<1>3. TypeOK'
  BY <1>2 DEF CandleInv, TypeOK, work, TableType
<1>4. now <= now'
  BY <1>2 DEF CandleInv, TypeOK, Bars
<1> QED BY <1>1, <1>2, <1>3, <1>4, BesideKeeps

-----------------------------------------------------------------------------
(***************************************************************************)
(* The job.                                                                *)
(***************************************************************************)
LEMMA StartKeeps == ASSUME CandleInv, Start PROVE CandleInv'
<1> USE DEF CandleInv, Start
<1>1. First \in Bars /\ First <= now /\ now \in Bars /\ now \in Nat
  BY DEF First, TypeOK, Bars
<1>2. job = "idle" /\ page.bars = {}
  BY DEF ControlInv, TypeOK
<1>3. TypeOK'
  BY <1>1, <1>2 DEF TypeOK
<1>4. ControlInv' /\ RangeInv' /\ PageInv' /\ FillInv'
  BY <1>1 DEF ControlInv, RangeInv, PageInv, FillInv
<1>5. BackInv'
  BY <1>1 DEF BackInv, Bars
<1>6. WindowStored'
  BY DEF WindowStored
<1> QED BY <1>3, <1>4, <1>5, <1>6

LEMMA CrashKeeps == ASSUME CandleInv, Crash PROVE CandleInv'
<1> USE DEF CandleInv, Crash, NoPage, NoWindow
<1>1. TypeOK'
  <2>1. 1 \in Bars
    BY DEF Bars
  <2>2. crashes' \in 0..MaxCrashes
    BY DEF TypeOK
  <2>3. /\ page' \in [bars : SUBSET Bars, asOf : Bars] /\ page'.bars = {}
        /\ window' \in [by : {"backfill", "filler"}, from : Bars, to : Bars, full : BOOLEAN]
    BY <2>1
  <2> QED BY <2>1, <2>2, <2>3 DEF TypeOK
<1>2. ControlInv' /\ RangeInv' /\ PageInv' /\ FillInv' /\ BackInv' /\ WindowStored'
  BY DEF ControlInv, RangeInv, PageInv, FillInv, BackInv, WindowStored
<1> QED BY <1>1, <1>2

LEMMA ReadTableKeeps == ASSUME CandleInv, ReadTable PROVE CandleInv'
<1> USE DEF CandleInv, ReadTable
<1>1. Newest(Stored) \in Bars
  <2>1. Stored \subseteq Bars
    BY DEF Stored
  <2>2. \E b \in Stored : \A c \in Stored : c <= b
    <3> DEFINE R == {MaxBar + 1 - b : b \in Stored}
    <3>1. R \subseteq Bars /\ R # {}
      BY <2>1 DEF Bars
    <3>2. PICK r \in R : \A q \in R : r <= q
      <4> HIDE DEF R
      <4> QED BY <3>1, OldestIsLeast
    <3>3. PICK b \in Stored : r = MaxBar + 1 - b
      BY <3>2
    <3>4. ASSUME NEW c \in Stored PROVE c <= b
      <4>1. MaxBar + 1 - c \in R
        OBVIOUS
      <4>2. r <= MaxBar + 1 - c
        BY <3>2, <4>1
      <4>3. b \in Nat /\ c \in Nat
        BY <2>1 DEF Bars
      <4> QED BY <3>3, <4>2, <4>3
    <3> QED BY <3>4
  <2>3. Newest(Stored) \in Stored
    BY <2>2 DEF Newest
  <2> QED BY <2>1, <2>3
<1>2. TypeOK'
  BY <1>1 DEF TypeOK
<1>3. ControlInv' /\ RangeInv' /\ PageInv' /\ FillInv' /\ BackInv'
  BY DEF ControlInv, RangeInv, PageInv, FillInv, BackInv
<1>4. WindowStored'
  BY DEF WindowStored, Covered
<1> QED BY <1>2, <1>3, <1>4

LEMMA DetectKeeps == ASSUME CandleInv, NEW o \in Outcomes, Detect(o) PROVE CandleInv'
<1> USE DEF CandleInv, Detect
<1>1. now \in Bars /\ now \in Nat /\ from \in Nat /\ GapBars \in Nat
  BY DEF TypeOK, Bars
<1>2. page.bars = {} /\ phase # "down" /\ phase # "backfill"
  BY DEF TypeOK, ControlInv
<1>3. CASE o = "ok" /\ Gap
  <2>1. from <= now
    BY <1>1, <1>3 DEF Gap
  <2>2. TypeOK'
    <3>1. from \in Bars
      BY DEF TypeOK
    <3>2. window' = [by |-> "filler", from |-> from, to |-> now, full |-> FALSE]
      BY <1>3
    <3>3. window' \in [by : {"backfill", "filler"}, from : Bars, to : Bars, full : BOOLEAN]
      <4> HIDE DEF CandleInv, Detect
      <4> QED BY <1>1, <3>1, <3>2
    <3> QED BY <1>1, <1>2, <1>3, <3>3 DEF TypeOK
  <2>3. ControlInv' /\ RangeInv' /\ PageInv' /\ FillInv' /\ BackInv' /\ WindowStored'
    BY <1>1, <1>2, <1>3, <2>1 DEF ControlInv, RangeInv, PageInv, FillInv, BackInv, WindowStored
  <2> QED BY <2>2, <2>3
<1>4. CASE ~(o = "ok" /\ Gap)
  <2>1. job' = "idle" /\ UNCHANGED <<to, window>>
    BY <1>4
  <2>2. TypeOK'
    BY <1>2, <2>1 DEF TypeOK
  <2>3. ControlInv' /\ RangeInv' /\ PageInv' /\ FillInv' /\ BackInv'
    BY <1>2, <2>1 DEF ControlInv, RangeInv, PageInv, FillInv, BackInv
  <2>4. WindowStored'
    BY <2>1 DEF WindowStored, Covered
  <2> QED BY <2>2, <2>3, <2>4
<1> QED BY <1>3, <1>4

\* A job that ends leaves a window that is stored, if it says so.
LEMMA DoneKeeps ==
    ASSUME CandleInv, Grows, NEW full \in BOOLEAN, Done(full),
           UNCHANGED <<now, connected, wire, from, to, crashes>>, job \in {"fetch", "store"},
           full /\ (window.by = "backfill" \/ Small) => StoredNext
    PROVE  CandleInv'
<1> USE DEF CandleInv, Done, NoPage
<1> DEFINE w == [window EXCEPT !.full = full]
<1>1. w \in [by : {"backfill", "filler"}, from : Bars, to : Bars, full : BOOLEAN]
      /\ w.by = window.by /\ w.from = window.from /\ w.to = window.to /\ w.full = full
  BY DEF TypeOK
<1>2. TypeOK'
  <2> HIDE DEF w
  <2>1. window' = w
    BY DEF w
  <2>2. page' \in [bars : SUBSET Bars, asOf : Bars] /\ page'.bars = {}
    BY DEF Bars
  <2> QED BY <1>1, <2>1, <2>2 DEF TypeOK, Grows, TableType
<1>3. ControlInv' /\ RangeInv' /\ PageInv' /\ FillInv' /\ BackInv'
  BY DEF ControlInv, RangeInv, PageInv, FillInv, BackInv
<1>4. WindowStored'
  <2>1. window' = w
    OBVIOUS
  <2> HIDE DEF w
  <2>2. StoredNext => Covered(window)'
    BY <1>1, <2>1 DEF StoredNext, Covered
  <2>3. Cardinality(window.from..window.to)' = Cardinality(window.from..window.to)
    BY <1>1, <2>1
  <2> QED BY <1>1, <2>1, <2>2, <2>3 DEF WindowStored, Small
<1> QED BY <1>2, <1>3, <1>4

LEMMA FetchKeeps == ASSUME CandleInv, NEW o \in Outcomes, Fetch(o) PROVE CandleInv'
<1> USE DEF Fetch
<1>1. Grows
  BY SameGrows DEF CandleInv
<1>2. from <= to /\ to <= now
  BY DEF CandleInv, RangeInv
<1>3. Answer = PageRange /\ Answer # {} /\ Answer \subseteq Bars
  BY <1>2, AnswerIsPage DEF CandleInv
<1>4. CASE o # "ok"
  BY <1>1, <1>4, DoneKeeps
<1>5. CASE o = "ok"
  <2>1. /\ page' = [bars |-> Answer, asOf |-> now] /\ job' = "store"
        /\ UNCHANGED <<phase, window, now, table, connected, wire, from, to, crashes>>
    BY <1>3, <1>5
  <2>2. page'.bars = Answer
    BY <2>1
  <2> USE DEF CandleInv
  <2>3. TypeOK'
    BY <1>3, <2>1, <2>2 DEF TypeOK
  <2>4. PageRange' = PageRange
    BY <2>1 DEF PageRange, PageSize
  <2>5. PageInv'
    BY <1>3, <2>2, <2>4 DEF PageInv
  <2>6. ControlInv' /\ RangeInv'
    BY <1>2, <2>1 DEF ControlInv, RangeInv
  <2>7. BackInv'
    BY <2>1 DEF BackInv, Here
  <2>8. Covered(window)' = Covered(window) /\ Small' = Small
    BY <2>1 DEF Covered, Small
  <2>9. FillInv' /\ WindowStored'
    BY <2>1, <2>8 DEF FillInv, WindowStored
  <2> QED BY <2>3, <2>5, <2>6, <2>7, <2>9
<1> QED BY <1>4, <1>5

\* A page that is the whole range ends its window without a hole.
LEMMA LastPage ==
    ASSUME CandleInv, Grows, job = "store", \A b \in Bars \cap page.bars : Here(b)',
           Cardinality(page.bars) < PageSize \/ Rest.from > Rest.to,
           window.by = "backfill" \/ Small
    PROVE  StoredNext
<1> USE DEF CandleInv
<1>1. from <= to /\ to <= now /\ page.bars = PageRange /\ from \in Nat /\ to \in Nat
  BY RangeTypes DEF RangeInv, PageInv
<1>2. CASE phase = "backfill"
  <2>1. Cardinality(PageRange) < PageSize \/ Oldest(PageRange) <= from
    <3>1. Oldest(PageRange) \in Nat
      BY <1>1, FromOldest
    <3>2. Rest = [from |-> from, to |-> Oldest(PageRange) - 1]
      BY <1>1, <1>2 DEF Rest
    <3> QED BY <1>1, <3>1, <3>2
  <2>2. \A b \in from..to : b \in PageRange
    BY <1>1, <2>1, WholeRange
  <2>3. \A b \in from..to : Here(b)'
    BY <1>1, <2>2, RangeTypes
  <2>4. window.from = from /\ \A b \in Bars : to < b /\ b <= window.to => Here(b)'
    BY <1>2 DEF BackInv, Grows
  <2>5. ASSUME NEW b \in window.from..window.to PROVE Here(b)'
    <3>1. b \in Bars /\ b \in Nat
      BY DEF TypeOK, Bars
    <3> QED BY <1>1, <2>3, <2>4, <2>5, <3>1
  <2> QED BY <2>5 DEF StoredNext, Here
<1>3. CASE phase # "backfill"
  <2>1. phase = "running" /\ window.by = "filler" /\ window.to = to
    BY <1>3 DEF ControlInv, FillInv, TypeOK
  <2>2. CASE from = window.from
    <3> DEFINE n == Cardinality(from..to)
    <3>1. n = to - from + 1
      BY <1>1, FS_Interval
    <3>2. n <= Limit /\ PageSize = Limit
      BY <2>1, <2>2, <1>3 DEF Small, PageSize
    <3>3. to - from < PageSize
      <4> HIDE DEF n
      <4> QED BY <1>1, <3>1, <3>2
    <3>4. \A b \in from..to : b \in PageRange
      BY <1>1, <3>3, PageSizeType DEF PageRange
    <3>5. \A b \in from..to : Here(b)'
      BY <1>1, <3>4, RangeTypes
    <3> QED BY <2>1, <2>2, <3>5 DEF StoredNext, Here
  <2>3. CASE from # window.from
    <3>1. Covered(window)
      BY <2>1, <2>3 DEF FillInv
    <3> QED BY <3>1, CoveredStays
  <2> QED BY <2>2, <2>3
<1> QED BY <1>2, <1>3

LEMMA StoreKeeps == ASSUME CandleInv, NEW o \in Outcomes, Store(o) PROVE CandleInv'
<1> USE DEF Store
<1>1. Grows
  BY InsertedGrows, SameGrows DEF CandleInv
<1>2. CASE o # "ok"
  BY <1>1, <1>2, DoneKeeps
<1>3. CASE o = "ok"
  <2>1. \A b \in Bars \cap page.bars : Here(b)'
    BY <1>3, InsertedGrows DEF CandleInv
  <2> DEFINE last == Cardinality(page.bars) < PageSize \/ Rest.from > Rest.to
  <2>2. CASE last
    <3>1. Done(TRUE) /\ UNCHANGED <<from, to>>
      BY <1>3, <2>2
    <3>2. window.by = "backfill" \/ Small => StoredNext
      BY <1>1, <2>1, <2>2, LastPage
    <3> QED BY <1>1, <3>1, <3>2, DoneKeeps
  <2>3. CASE ~last
    <3> USE DEF CandleInv
    <3> DEFINE o1 == Oldest(page.bars)
    <3>1. /\ job' = "fetch" /\ from' = Rest.from /\ to' = Rest.to /\ page' = NoPage
          /\ UNCHANGED <<phase, window, now, connected, wire, crashes>>
      BY <1>3, <2>3
    <3>2. /\ page.bars = PageRange /\ from <= to /\ to <= now
          /\ from \in Nat \ {0} /\ to \in Nat \ {0} /\ now \in Nat
      BY RangeTypes DEF RangeInv, PageInv
    <3>3. /\ o1 \in Nat /\ from <= o1 /\ o1 <= to
          /\ \A b \in from..to : b \in PageRange <=> o1 <= b
      <4>1. o1 \in from..to
        BY <3>2, FromOldest
      <4>2. o1 \in Nat /\ from <= o1 /\ o1 <= to
        BY <3>2, <4>1
      <4> QED BY <3>2, <4>2, FromOldest
    <3>4. phase \in {"backfill", "running"}
      BY DEF TypeOK, ControlInv
    <3>5. from' \in Bars /\ to' \in Bars /\ from' <= to' /\ to' <= now
      <4> DEFINE f == Rest.from
                 t == Rest.to
      <4>1. f <= t
        <5>1. f \in Int /\ t \in Int
          BY <3>2, <3>3 DEF Rest
        <5> HIDE DEF f, t
        <5> QED BY <2>3, <5>1 DEF f, t
      <4>2. f \in {from, o1 + 1} /\ t \in {to, o1 - 1}
        BY DEF Rest
      <4>3. to <= MaxBar /\ MaxBar \in Nat
        BY DEF TypeOK, Bars
      <4>4. f \in 1..MaxBar /\ t \in 1..MaxBar /\ t <= now
        <5> HIDE DEF f, t, o1
        <5> QED BY <3>2, <3>3, <4>1, <4>2, <4>3
      <4> QED BY <3>1, <4>1, <4>4 DEF Bars
    <3>6. TypeOK'
      <4>1. page' \in [bars : SUBSET Bars, asOf : Bars] /\ page'.bars = {}
        BY <3>1 DEF NoPage, Bars
      <4> QED BY <1>1, <3>1, <3>5, <4>1 DEF TypeOK, Grows, TableType
    <3>7. ControlInv' /\ RangeInv' /\ PageInv'
      BY <3>1, <3>4, <3>5 DEF ControlInv, RangeInv, PageInv
    <3>8. BackInv'
      <4> SUFFICES ASSUME phase = "backfill" PROVE BackInv'
        BY <3>1 DEF BackInv
      <4>1. from' = from /\ to' = o1 - 1
        BY <3>1 DEF Rest
      <4>2. window.by = "backfill" /\ ~window.full /\ window.from = from /\ to <= window.to
            /\ window.to \in Nat
        BY RangeTypes DEF BackInv
      <4>3. ASSUME NEW b \in Bars, to' < b, b <= window.to PROVE Here(b)'
        <5>1. b \in Nat /\ o1 <= b
          BY <3>3, <4>1, <4>3 DEF Bars
        <5>2. CASE b <= to
          <6>1. b \in from..to
            BY <3>2, <3>3, <5>1, <5>2
          <6> QED BY <2>1, <3>2, <3>3, <5>1, <6>1
        <5>3. CASE ~(b <= to)
          <6>1. to < b
            BY <3>2, <5>1, <5>3
          <6> QED BY <1>1, <4>3, <6>1 DEF BackInv, Grows
        <5> QED BY <5>2, <5>3
      <4>4. to' <= window'.to
        BY <3>1, <3>2, <3>3, <4>1, <4>2
      <4> QED BY <3>1, <4>1, <4>2, <4>3, <4>4 DEF BackInv
    <3>9. FillInv'
      <4> SUFFICES ASSUME phase = "running" PROVE FillInv'
        BY <3>1 DEF FillInv
      <4>1. to' = to /\ window.to = to /\ window.by = "filler" /\ ~window.full
        BY <3>1 DEF Rest, FillInv
      <4>2. Small => StoredNext
        <5> SUFFICES ASSUME Small PROVE StoredNext
          OBVIOUS
        <5>1. CASE from = window.from
          <6> DEFINE n == Cardinality(from..to)
          <6>1. n = to - from + 1 /\ n <= PageSize
            BY <3>2, <4>1, <5>1, FS_Interval DEF Small, PageSize
          <6>2. to - from < PageSize
            <7>1. PageSize \in Nat
              BY PageSizeType
            <7> HIDE DEF n
            <7> QED BY <3>2, <6>1, <7>1
          <6>3. \A b \in from..to : b \in PageRange /\ b \in Bars
            BY <3>2, <6>2, PageSizeType, RangeTypes DEF PageRange
          <6> QED BY <2>1, <3>2, <4>1, <5>1, <6>3 DEF StoredNext, Here
        <5>2. CASE from # window.from
          BY <1>1, <5>2, CoveredStays DEF FillInv
        <5> QED BY <5>1, <5>2
      <4>3. StoredNext => Covered(window)'
        BY <3>1 DEF StoredNext, Covered
      <4>4. Small' = Small
        BY <3>1 DEF Small
      <4> QED BY <3>1, <4>1, <4>2, <4>3, <4>4 DEF FillInv
    <3>10. WindowStored'
      BY <3>1, <3>4 DEF WindowStored, BackInv, FillInv
    <3> QED BY <3>6, <3>7, <3>8, <3>9, <3>10
  <2> QED BY <2>2, <2>3
<1> QED BY <1>2, <1>3

-----------------------------------------------------------------------------
LEMMA InitCandles == Init => CandleInv
<1> SUFFICES ASSUME Init PROVE CandleInv
  OBVIOUS
<1> USE DEF Init, NoPage, NoWindow
<1>1. TypeOK
  <2>1. 1 \in Bars
    BY DEF Bars
  <2>2. crashes \in 0..MaxCrashes
    OBVIOUS
  <2>3. /\ page \in [bars : SUBSET Bars, asOf : Bars] /\ page.bars = {}
        /\ window \in [by : {"backfill", "filler"}, from : Bars, to : Bars, full : BOOLEAN]
    BY <2>1
  <2> QED BY <2>1, <2>2, <2>3 DEF TypeOK
<1>2. ControlInv /\ RangeInv /\ PageInv /\ BackInv /\ FillInv /\ WindowStored
  BY DEF ControlInv, RangeInv, PageInv, BackInv, FillInv, WindowStored
<1> QED BY <1>1, <1>2 DEF CandleInv

LEMMA NextCandles == CandleInv /\ [Next]_vars => CandleInv'
<1> SUFFICES ASSUME CandleInv, [Next]_vars PROVE CandleInv'
  OBVIOUS
<1>1. CASE UNCHANGED vars
  <2>1. UNCHANGED <<now, table, connected, wire, phase, work, crashes>>
    BY <1>1 DEF vars
  <2>2. Grows /\ now <= now'
    BY <2>1, SameGrows DEF CandleInv, TypeOK, Bars
  <2>3. TypeOK'
    BY <2>1 DEF CandleInv, TypeOK, work
  <2> QED BY <2>1, <2>2, <2>3, BesideKeeps
<1>2. CASE Next
  BY <1>2, BarClosesKeeps, SocketKeeps, StartKeeps, CrashKeeps, ReadTableKeeps, HandleKlineKeeps,
     FetchKeeps, StoreKeeps, DetectKeeps DEF Next
<1> QED BY <1>1, <1>2

-----------------------------------------------------------------------------
\* What the jobs have stored, page by page, holds in every state.
THEOREM CandlesInductive == Spec => []CandleInv
<1> QED BY InitCandles, NextCandles, PTL DEF Spec

\* Every variable of the candle table and its writers keeps its type.
THEOREM CandleTypes == Spec => []TypeOK
<1>1. CandleInv => TypeOK
  BY DEF CandleInv
<1> QED BY <1>1, CandlesInductive, PTL

\* For any batch and page size and whatever crashes or fails: a backfill that ends without
\* an error has stored every bar of its range, and a gap fill within a page too.
THEOREM WindowsComplete == Spec => []WindowStored
<1>1. CandleInv => WindowStored
  BY DEF CandleInv
<1> QED BY <1>1, CandlesInductive, PTL

\* No writer changes a final candle, in whatever order pages and confirmations arrive.
THEOREM FinalCandlesStay == Spec => FinalStays
<1>1. CandleInv /\ [Next]_vars =>
        [\A b \in Bars : table[b] = "final" => table'[b] = "final"]_vars
  BY TableGrows DEF CandleInv, Grows
<1> QED BY <1>1, CandlesInductive, PTL DEF Spec, FinalStays
=============================================================================
