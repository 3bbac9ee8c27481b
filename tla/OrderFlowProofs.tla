---------------------------- MODULE OrderFlowProofs ----------------------------
(***************************************************************************)
(* Proofs about OrderFlow, for any length of a bar, any sizes of a chunk   *)
(* and its warm-up, and any number of messages, however late: the types,   *)
(* the interval a row reads, and the liquidations it counts.               *)
(*                                                                         *)
(* None of the three is inductive.  The invariant adds that the rows of a  *)
(* liquidation are numbered without a gap, so that a new row is one of     *)
(* those delivered; that a chunk begins at a multiple of its stride; that  *)
(* what was loaded is of the bars from the end of the warm-up to the last  *)
(* of the chunk, each row computed from its own interval; and that no      *)
(* stored row is of a bar after a chunk that was not full, so that a row   *)
(* that misses liquidations stays the last one until it is computed again. *)
(***************************************************************************)
EXTENDS OrderFlow, FiniteSetTheorems, TLAPS

-----------------------------------------------------------------------------
(***************************************************************************)
(* Time and bars.                                                          *)
(***************************************************************************)
\* What the assumptions say.
LEMMA Sizes ==
    /\ TF \in Nat \ {0} /\ MaxBar \in Nat /\ MaxMessages \in Nat
    /\ ChunkSize \in Nat /\ WarmupBars \in Nat \ {0} /\ WarmupBars < ChunkSize
    /\ ReturnPeriods[1] \in Nat \ {0} /\ ReturnPeriods[1] <= WarmupBars
    /\ ZWindow \in Nat \ {0, 1} /\ ZWindow - 1 <= WarmupBars
<1>1. ReturnPeriods \in Seq(Nat \ {0}) /\ ReturnPeriods # << >> /\ ZWindow \in Nat \ {0, 1}
  BY OrderFlowAssumption, FeatureAssumption
<1>2. ReturnPeriods[1] \in Nat \ {0}
  BY <1>1
<1> QED BY <1>1, <1>2, OrderFlowAssumption

\* A bar opens when the one before it closes.
LEMMA Opening ==
    /\ \A b \in Int : opens(b) \in Int /\ opens(b + 1) = opens(b) + TF
    /\ \A a, b \in Int : a < b => opens(a) + TF <= opens(b)
    /\ \A b \in Nat \ {0} : opens(b) \in Nat \ {0}
<1>1. TF \in Nat \ {0}
  BY Sizes
<1>2. ASSUME NEW b \in Int PROVE opens(b) \in Int /\ opens(b + 1) = opens(b) + TF
  BY <1>1 DEF opens
<1>3. ASSUME NEW a \in Int, NEW b \in Int, a < b PROVE opens(a) + TF <= opens(b)
  <2>1. TF * a + TF <= TF * b
    BY <1>1, <1>3
  <2> QED BY <2>1 DEF opens
<1>4. ASSUME NEW b \in Nat \ {0} PROVE opens(b) \in Nat \ {0}
  <2>1. TF * b \in Nat /\ TF * b # 0
    BY <1>1
  <2> QED BY <2>1 DEF opens
<1> QED BY <1>2, <1>3, <1>4

\* Every time is a positive number.
LEMMA TimesPositive == Times \subseteq Nat \ {0}
<1>1. 1 \in Nat \ {0} /\ MaxBar + 1 \in Nat \ {0}
  BY Sizes
<1>2. opens(1) \in Nat \ {0} /\ opens(MaxBar + 1) \in Nat \ {0}
  BY <1>1, Opening
<1> QED BY <1>2 DEF Times

\* A time is in the bar it truncates to.
LEMMA InItsBar ==
    ASSUME NEW t \in Nat
    PROVE  /\ BarOf(t) \in Nat
           /\ opens(BarOf(t)) <= t /\ t < opens(BarOf(t) + 1)
<1>1. TF \in Nat \ {0}
  BY Sizes
<1>2. t \div TF \in Nat /\ TF * (t \div TF) <= t /\ t < TF * (t \div TF) + TF
  BY <1>1
<1> DEFINE q == t \div TF
<1>3. q \in Nat /\ opens(q) <= t /\ t < opens(q) + TF
  BY <1>2 DEF opens
<1> HIDE DEF q
<1>4. opens(q + 1) = opens(q) + TF
  BY <1>3, Opening
<1> QED BY <1>3, <1>4 DEF BarOf, q

\* The closed bars are the first ones.
LEMMA ClosedFirst ==
    ASSUME now \in Times
    PROVE  \E q \in 0..MaxBar : Closed = 1..q
<1> DEFINE u == BarOf(now)
           q == IF u - 1 > MaxBar THEN MaxBar ELSE IF u = 0 THEN 0 ELSE u - 1
<1>1. now \in Nat
  BY TimesPositive
<1>2. u \in Nat /\ opens(u) <= now /\ now < opens(u + 1)
  BY <1>1, InItsBar
<1> HIDE DEF u
<1>3. q \in 0..MaxBar
  BY <1>2, Sizes
<1>4. ASSUME NEW b \in 1..MaxBar PROVE opens(b + 1) <= now <=> b <= u - 1
  <2>1. MaxBar \in Nat
    BY Sizes
  <2>2. b \in Int /\ u \in Int /\ now \in Int /\ TF \in Nat
    BY <1>1, <1>2, <2>1, Sizes
  <2>3. CASE b + 1 <= u
    <3>1. opens(b + 1) <= opens(u)
      <4>1. opens(b + 1) \in Int /\ opens(u) \in Int
        BY <2>2, Opening
      <4>2. b + 1 < u => opens(b + 1) + TF <= opens(u)
        BY <2>2, Opening
      <4> QED BY <2>2, <2>3, <4>1, <4>2
    <3>2. opens(b + 1) \in Int /\ opens(u) \in Int
      BY <2>2, Opening
    <3> QED BY <1>2, <2>2, <2>3, <3>1, <3>2
  <2>4. CASE b + 1 > u
    <3>1. opens(b + 1) \in Int /\ opens(u + 1) \in Int
      BY <2>2, Opening
    <3>2. u + 1 < b + 1 => opens(u + 1) + TF <= opens(b + 1)
      BY <2>2, Opening
    <3>3. opens(u + 1) <= opens(b + 1)
      BY <2>2, <2>4, <3>1, <3>2
    <3> QED BY <1>2, <2>2, <2>4, <3>1, <3>3
  <2> QED BY <2>2, <2>3, <2>4
<1>5. Closed = 1..q
  <2>1. \A b \in 1..MaxBar : b \in Closed <=> b <= u - 1
    BY <1>4 DEF Closed
  <2>2. Closed \subseteq 1..MaxBar
    BY DEF Closed
  <2>3. MaxBar \in Nat
    BY Sizes
  <2>4. \A b : b \in 1..q <=> b \in 1..MaxBar /\ b <= u - 1
    BY <1>2, <2>3
  <2> HIDE DEF q
  <2> QED BY <2>1, <2>2, <2>4
<1> QED BY <1>3, <1>5

-----------------------------------------------------------------------------
(***************************************************************************)
(* A chunk.                                                                *)
(***************************************************************************)
\* A chunk is of closed bars, without a hole from the first; one that is not full ends
\* with the last bar that is closed.
IsChunk(c, first) ==
    /\ Len(c) \in 0..ChunkSize /\ DOMAIN c = 1..Len(c)
    /\ \A k \in 1..Len(c) : c[k] = first + k - 1 /\ c[k] \in Closed
    /\ Len(c) < ChunkSize => \A b \in Closed : b < first + Len(c)

\* The bars of a chunk follow one another.
LEMMA ChunkShape ==
    ASSUME now \in Times, NEW first \in Nat \ {0}
    PROVE  IsChunk(Chunk(first), first)
<1> DEFINE S == {b \in Closed : first <= b /\ b < first + ChunkSize}
           n == Cardinality(S)
<1>1. PICK q \in 0..MaxBar : Closed = 1..q
  BY ClosedFirst
<1>2. q \in Nat /\ ChunkSize \in Nat \ {0}
  BY Sizes
<1> DEFINE hi == IF q < first + ChunkSize - 1 THEN q ELSE first + ChunkSize - 1
<1>3. S = first..hi
  BY <1>1, <1>2
<1>4. n = IF first > hi THEN 0 ELSE hi - first + 1
  <2>1. first \in Int /\ hi \in Int
    BY <1>2
  <2> HIDE DEF hi, S
  <2> QED BY <1>3, <2>1, FS_Interval
<1> HIDE DEF n, S
<1>5. n \in 0..ChunkSize
  BY <1>2, <1>4
<1>6. \A k \in 1..n : first + k - 1 \in Closed
  BY <1>1, <1>2, <1>4, <1>5
<1>7. n < ChunkSize => \A b \in Closed : b < first + n
  BY <1>1, <1>2, <1>4, <1>5
<1>8. Chunk(first) = [k \in 1..n |-> first + k - 1]
  BY DEF Chunk, n, S
<1>9. Chunk(first) \in Seq(Int) /\ Len(Chunk(first)) = n
  <2>1. n \in Nat
    BY <1>2, <1>5
  <2>2. \A k \in 1..n : first + k - 1 \in Int
    BY <2>1
  <2> QED BY <1>8, <2>1, <2>2
<1> QED BY <1>5, <1>6, <1>7, <1>8, <1>9 DEF IsChunk

-----------------------------------------------------------------------------
(***************************************************************************)
(* What a row reads.                                                       *)
(***************************************************************************)
\* The interval of k bars that ends when b opens.
Since(b, k) == {t \in Times : opens(b - k) < t /\ t <= opens(b)}

\* The columns of a row as they are stored.
OwnRow(row, b) ==
    /\ DOMAIN row = {"oiDelta", "oiZ", "funding", "lsRaw", "liq", "whole"}
    /\ row.funding \subseteq Since(b, 1)
    /\ row.lsRaw = NaN \/ row.lsRaw \subseteq Since(b, 1)
    /\ \/ row.oiDelta = NaN
       \/ row.oiDelta \subseteq Since(b, 1 + ReturnPeriods[1]) /\ \E x, y : row.oiDelta \subseteq {x, y}
    /\ row.oiZ = NaN \/ row.oiZ \subseteq Since(b, ZWindow)

\* No number is the one of a missing record.
LEMMA NotMissing ==
    ASSUME NEW T, T \subseteq Times
    PROVE  T # NaN
<1>1. 0 \notin Times
  BY TimesPositive
<1> QED BY <1>1 DEF NaN

\* The interval of a bar is part of a longer one that ends later.
LEMMA SinceWithin ==
    ASSUME NEW b \in Nat, NEW m \in Nat, m <= b, NEW k \in Nat
    PROVE  Since(b - m, 1) \subseteq Since(b, k) \/ k < m + 1
<1> SUFFICES ASSUME k >= m + 1, NEW t \in Since(b - m, 1) PROVE t \in Since(b, k)
  OBVIOUS
<1> DEFINE lo == opens(b - m - 1)
           hi == opens(b - m)
           lo2 == opens(b - k)
           hi2 == opens(b)
<1>1. t \in Times /\ t \in Nat /\ lo < t /\ t <= hi
  <2>1. t \in Times
    BY DEF Since
  <2>2. t \in Nat
    BY <2>1, TimesPositive
  <2>3. opens(b - m - 1) < t /\ t <= opens(b - m)
    BY DEF Since
  <2> QED BY <2>1, <2>2, <2>3
<1>2. lo \in Int /\ hi \in Int /\ lo2 \in Int /\ hi2 \in Int
  BY Opening
<1>3. TF \in Nat
  BY Sizes
<1>4. lo2 <= lo
  <2>1. b - k \in Int /\ b - m - 1 \in Int
    OBVIOUS
  <2>2. b - k < b - m - 1 \/ b - k = b - m - 1
    OBVIOUS
  <2>3. b - k < b - m - 1 => lo2 + TF <= lo
    BY <2>1, Opening
  <2>4. b - k = b - m - 1 => lo2 = lo
    OBVIOUS
  <2> HIDE DEF lo, lo2
  <2> QED BY <1>2, <1>3, <2>2, <2>3, <2>4
<1>5. hi <= hi2
  <2>1. b - m \in Int /\ b \in Int
    OBVIOUS
  <2>2. b - m < b \/ b - m = b
    OBVIOUS
  <2>3. b - m < b => hi + TF <= hi2
    BY <2>1, Opening
  <2>4. b - m = b => hi = hi2
    OBVIOUS
  <2> HIDE DEF hi, hi2
  <2> QED BY <1>2, <1>3, <2>2, <2>3, <2>4
<1> HIDE DEF lo, hi, lo2, hi2
<1>6. lo2 < t /\ t <= hi2
  BY <1>1, <1>2, <1>4, <1>5
<1> QED BY <1>1, <1>6 DEF Since, lo2, hi2

\* The loop over the bars passes at a bar what was recorded since the one before.
LEMMA PassedSince ==
    ASSUME NEW c, NEW first \in Nat \ {0}, IsChunk(c, first), NEW i \in 0..Len(c) - 1,
           NEW records, records \subseteq Times
    PROVE  Passed(records, c, i) \subseteq Since(first + i, 1)
<1>1. Len(c) \in Nat /\ i \in Nat /\ i + 1 \in 1..Len(c) /\ 1 \in 1..Len(c)
  <2>1. Len(c) \in Nat
    BY Sizes DEF IsChunk
  <2> QED BY <2>1
<1>2. c[i + 1] = first + i /\ c[1] = first
  <2>1. c[i + 1] = first + (i + 1) - 1 /\ c[1] = first + 1 - 1
    BY <1>1 DEF IsChunk
  <2> QED BY <1>1, <2>1
<1>3. ASSUME NEW t \in Passed(records, c, i) PROVE t \in Since(first + i, 1)
  <2>1. t \in Times /\ t \in Nat /\ t <= opens(first + i) /\ opens(first) <= t
    <3>1. t \in records /\ opens(c[1]) <= t /\ t <= opens(c[i + 1])
      BY DEF Passed
    <3> QED BY <1>2, <3>1, TimesPositive
  <2>2. CASE i > 0
    <3>1. c[i] = first + i - 1
      <4>1. i \in 1..Len(c)
        BY <1>1, <2>2
      <4> QED BY <4>1 DEF IsChunk
    <3>2. t > opens(c[i])
      BY <2>2 DEF Passed
    <3> QED BY <2>1, <3>1, <3>2 DEF Since
  <2>3. CASE i = 0
    <3> DEFINE f == opens(first)
               e == opens(first - 1)
    <3>1. first - 1 \in Int /\ first \in Int /\ first - 1 < first
      OBVIOUS
    <3>2. e \in Int /\ f \in Int /\ e + TF <= f /\ TF \in Nat \ {0}
      BY <3>1, Opening, Sizes
    <3>3. first + i = first /\ f <= t
      BY <2>1, <2>3
    <3> HIDE DEF e, f
    <3>4. e < t
      BY <2>1, <3>2, <3>3
    <3> QED BY <2>1, <3>3, <3>4 DEF Since, e
  <2> QED BY <1>1, <2>2, <2>3
<1> QED BY <1>3

\* Of what was passed the last is kept.
LEMMA LatestOne ==
    ASSUME NEW T, T \subseteq Times
    PROVE  Latest(T) \subseteq T /\ \E x : Latest(T) \subseteq {x}
<1>1. Latest(T) \subseteq T
  BY DEF Latest
<1>2. \A x, y \in Latest(T) : x = y
  <2> TAKE x, y \in Latest(T)
  <2>1. x \in Nat /\ y \in Nat /\ x <= y /\ y <= x
    BY TimesPositive DEF Latest
  <2> QED BY <2>1
<1> QED BY <1>1, <1>2

\* What the handlers store.
Records ==
    /\ openInterest \subseteq Times /\ lsRatios \subseteq Times /\ DOMAIN fundingRates \subseteq Times
    /\ \A t \in DOMAIN fundingRates : fundingRates[t] \subseteq {t}

\* A snapshot is of the records since the bar before.
OwnSnap(s, b) ==
    /\ s.oi \subseteq Since(b, 1) /\ s.ls \subseteq Since(b, 1) /\ s.funding \subseteq Since(b, 1)
    /\ \E x : s.oi \subseteq {x}

\* What is loaded has the own interval of each bar.
LEMMA Snapshots ==
    ASSUME Records, NEW c, NEW first \in Nat \ {0}, IsChunk(c, first), NEW i \in 0..Len(c) - 1
    PROVE  OwnSnap(LoadOrderFlow(c)[i], first + i)
<1> DEFINE s == LoadOrderFlow(c)[i]
           P(r) == Passed(r, c, i)
           fr == DOMAIN fundingRates
           U == UNION {fundingRates[t] : t \in Latest(P(fr))}
<1>1. s = [oi |-> Latest(P(openInterest)), funding |-> U, ls |-> Latest(P(lsRatios)), liq |-> Bucket(c, i)]
  BY DEF LoadOrderFlow
<1>2. \A r : r \subseteq Times => P(r) \subseteq Since(first + i, 1) /\ P(r) \subseteq r
  BY PassedSince DEF Passed
<1> HIDE DEF P
<1>3. \A r : r \subseteq Times => /\ Latest(P(r)) \subseteq Since(first + i, 1)
                                  /\ Latest(P(r)) \subseteq r
                                  /\ \E x : Latest(P(r)) \subseteq {x}
  <2> TAKE r
  <2> HAVE r \subseteq Times
  <2>1. P(r) \subseteq Since(first + i, 1) /\ P(r) \subseteq r
    BY <1>2
  <2>2. P(r) \subseteq Times
    BY <2>1
  <2>3. Latest(P(r)) \subseteq P(r) /\ \E x : Latest(P(r)) \subseteq {x}
    BY <2>2, LatestOne
  <2> QED BY <2>1, <2>3
<1>4. U \subseteq Since(first + i, 1)
  <2>1. Latest(P(fr)) \subseteq Since(first + i, 1) /\ Latest(P(fr)) \subseteq fr
    BY <1>3 DEF Records
  <2> DEFINE Q == Latest(P(fr))
  <2>2. \A t \in Q : fundingRates[t] \subseteq {t}
    BY <2>1 DEF Records
  <2> HIDE DEF Q
  <2>3. UNION {fundingRates[t] : t \in Q} \subseteq Q
    BY <2>2
  <2> QED BY <2>1, <2>3 DEF Q
<1> HIDE DEF s, U
<1>5. /\ s.oi = Latest(P(openInterest)) /\ s.ls = Latest(P(lsRatios)) /\ s.funding = U
  BY <1>1
<1> QED BY <1>3, <1>4, <1>5 DEF OwnSnap, Records, s

\* The names of the columns, with the observed one.
ColumnNames == {"oiDelta", "oiZ", "funding", "lsRaw", "liq", "whole"}

\* A row that is computed from the snapshots L at the index i.
RowFrom(row, L, i) ==
    /\ DOMAIN row = ColumnNames
    /\ row.liq = L[i].liq /\ row.funding = L[i].funding
    /\ row.lsRaw \in {Zero, NaN} \/ row.lsRaw = L[i].ls
    /\ row.oiDelta \in {Zero, NaN} \/ row.oiDelta = L[i].oi \cup L[i - ReturnPeriods[1]].oi
    /\ row.oiZ \in {Zero, NaN} \/ row.oiZ = From({L[m].oi : m \in i - ZWindow + 1..i})

\* The row of the k-th bar of a chunk.
LEMMA RowOf ==
    ASSUME NEW c, NEW first \in Nat \ {0}, IsChunk(c, first), NEW k \in WarmupBars + 1..Len(c),
           NEW L, L = LoadOrderFlow(c), NEW i, i = k - 1
    PROVE  /\ c[k] \in DOMAIN Computed(c) /\ RowFrom(Computed(c)[c[k]], L, i)
           /\ Computed(c)[c[k]].whole = {r \in liquidations : BarOf(r[1]) = c[k]}
<1> DEFINE cols == OrderFlowColumns(L)
           b == c[k]
           row == Computed(c)[b]
           R == ReturnPeriods[1]
<1>1. /\ Len(c) \in Nat /\ k \in 1..Len(c) /\ i \in 0..Len(c) - 1 /\ 1 \in 1..Len(c)
      /\ WarmupBars \in Nat \ {0} /\ R \in Nat \ {0} /\ R <= i /\ ZWindow \in Nat \ {0, 1} /\ ZWindow - 1 <= i
  <2>1. Len(c) \in Nat
    BY Sizes DEF IsChunk
  <2> HIDE DEF R
  <2> QED BY <2>1, Sizes DEF R
<1>2. b - c[1] = i
  <2>1. c[k] = first + k - 1 /\ c[1] = first + 1 - 1
    BY <1>1 DEF IsChunk
  <2> QED BY <1>1, <2>1
<1>3. DOMAIN L = 0..Len(c) - 1
  BY DEF LoadOrderFlow
<1> DEFINE oi == [m \in DOMAIN L |-> L[m].oi]
           ls == [m \in DOMAIN L |-> L[m].ls]
           AllZero == [m \in DOMAIN L |-> Zero]
<1>4. cols = [oiDelta |-> IF hasNonZero(oi) THEN OIDeltaPct(oi, R) ELSE AllZero,
              oiZ     |-> IF hasNonZero(oi) THEN Window(oi, ZWindow) ELSE AllZero,
              funding |-> [m \in DOMAIN L |-> L[m].funding],
              lsRaw   |-> IF hasNonZero(ls) THEN LSRatioRaw(ls) ELSE AllZero,
              liq     |-> [m \in DOMAIN L |-> L[m].liq]]
  BY DEF OrderFlowColumns
<1>5. /\ DOMAIN cols = {"oiDelta", "oiZ", "funding", "lsRaw", "liq"}
      /\ cols.funding[i] = L[i].funding /\ cols.liq[i] = L[i].liq
      /\ cols.lsRaw = LSRatioRaw(ls) \/ cols.lsRaw = AllZero
      /\ cols.oiDelta = OIDeltaPct(oi, R) \/ cols.oiDelta = AllZero
      /\ cols.oiZ = Window(oi, ZWindow) \/ cols.oiZ = AllZero
  <2> HIDE DEF cols, oi, ls, AllZero, R
  <2> QED BY <1>1, <1>3, <1>4
<1> DEFINE B == {c[m] : m \in WarmupBars + 1..Len(c)}
<1>6. Computed(c) = [x \in B |->
            [name \in DOMAIN cols \cup {"whole"} |->
                IF name = "whole" THEN {r \in liquidations : BarOf(r[1]) = x} ELSE cols[name][x - c[1]]]]
  BY DEF Computed
<1>7. b \in B
  OBVIOUS
<1> HIDE DEF cols, B
<1>8. /\ b \in DOMAIN Computed(c)
      /\ row = [name \in DOMAIN cols \cup {"whole"} |->
                IF name = "whole" THEN {r \in liquidations : BarOf(r[1]) = b} ELSE cols[name][b - c[1]]]
  BY <1>6, <1>7
<1> HIDE DEF b, row
<1>9. /\ DOMAIN row = ColumnNames
      /\ row.whole = {r \in liquidations : BarOf(r[1]) = b}
      /\ row.liq = cols.liq[i] /\ row.funding = cols.funding[i] /\ row.lsRaw = cols.lsRaw[i]
      /\ row.oiDelta = cols.oiDelta[i] /\ row.oiZ = cols.oiZ[i]
  <2>1. DOMAIN cols \cup {"whole"} = ColumnNames
    BY <1>5 DEF ColumnNames
  <2>2. row = [name \in ColumnNames |->
                IF name = "whole" THEN {r \in liquidations : BarOf(r[1]) = b} ELSE cols[name][i]]
    BY <1>2, <1>8, <2>1
  <2> QED BY <2>2 DEF ColumnNames
<1>10. AllZero[i] = Zero
  BY <1>1, <1>3
<1>11. LSRatioRaw(ls)[i] \in {NaN, L[i].ls}
  BY <1>1, <1>3 DEF LSRatioRaw
<1>12. OIDeltaPct(oi, R)[i] \in {NaN, L[i].oi \cup L[i - R].oi}
  <2>1. i - R \in DOMAIN L /\ i \in DOMAIN L
    BY <1>1, <1>3
  <2>2. oi[i] = L[i].oi /\ oi[i - R] = L[i - R].oi /\ i \in DOMAIN oi
    BY <2>1
  <2> HIDE DEF oi, R
  <2> QED BY <2>2 DEF OIDeltaPct
<1>13. Window(oi, ZWindow)[i] \in {NaN, From({L[m].oi : m \in i - ZWindow + 1..i})}
  <2>1. \A m \in i - ZWindow + 1..i : m \in DOMAIN L
    BY <1>1, <1>3
  <2>2. {oi[m] : m \in i - ZWindow + 1..i} = {L[m].oi : m \in i - ZWindow + 1..i}
    BY <2>1
  <2>3. i \in DOMAIN oi
    BY <1>1, <1>3
  <2> HIDE DEF oi
  <2>4. Window(oi, ZWindow)[i] \in {NaN, From({oi[m] : m \in i - ZWindow + 1..i})}
    BY <2>3 DEF Window
  <2> QED BY <2>2, <2>4
<1> HIDE DEF AllZero, oi, ls
<1>14. row.lsRaw \in {Zero, NaN} \/ row.lsRaw = L[i].ls
  BY <1>5, <1>9, <1>10, <1>11
<1>15. row.oiDelta \in {Zero, NaN} \/ row.oiDelta = L[i].oi \cup L[i - R].oi
  BY <1>5, <1>9, <1>10, <1>12
<1>16. row.oiZ \in {Zero, NaN} \/ row.oiZ = From({L[m].oi : m \in i - ZWindow + 1..i})
  BY <1>5, <1>9, <1>10, <1>13
<1>17. RowFrom(row, L, i)
  BY <1>5, <1>9, <1>14, <1>15, <1>16 DEF RowFrom, R
<1> QED BY <1>8, <1>9, <1>17 DEF b, row

\* Each row is of its own interval.
LEMMA ComputedOwn ==
    ASSUME Records, NEW c, NEW first \in Nat \ {0}, IsChunk(c, first),
           NEW k \in WarmupBars + 1..Len(c)
    PROVE  OwnRow(Computed(c)[c[k]], c[k])
<1> DEFINE L == LoadOrderFlow(c)
           i == k - 1
           row == Computed(c)[c[k]]
           b == c[k]
           R == ReturnPeriods[1]
           Z == ZWindow
<1>1. /\ Len(c) \in Nat /\ k \in 1..Len(c) /\ i \in 0..Len(c) - 1 /\ i \in Nat
      /\ R \in Nat \ {0} /\ R <= i /\ Z \in Nat \ {0, 1} /\ Z - 1 <= i
  <2>1. Len(c) \in Nat
    BY Sizes DEF IsChunk
  <2> HIDE DEF R
  <2> QED BY <2>1, Sizes DEF R
<1>2. b = first + i /\ b \in Nat
  <2>1. c[k] = first + k - 1
    BY <1>1 DEF IsChunk
  <2> QED BY <1>1, <2>1
<1>3. \A m \in 0..Len(c) - 1 : OwnSnap(L[m], first + m)
  BY Snapshots
<1>4. RowFrom(row, L, i)
  <2>1. L = LoadOrderFlow(c) /\ i = k - 1
    OBVIOUS
  <2> HIDE DEF L, i, R, Z
  <2> QED BY <2>1, RowOf
<1> HIDE DEF L, row, b, i, R, Z
<1>5. OwnSnap(L[i], b) /\ OwnSnap(L[i - R], b - R)
  <2>1. i - R \in 0..Len(c) - 1 /\ first + (i - R) = b - R
    BY <1>1, <1>2
  <2> QED BY <1>1, <1>2, <1>3, <2>1
<1>6. row.funding \subseteq Since(b, 1) /\ (row.lsRaw = NaN \/ row.lsRaw \subseteq Since(b, 1))
  BY <1>4, <1>5 DEF OwnSnap, Zero, RowFrom
<1>7. /\ Since(b, 1) \subseteq Since(b, 1 + R) /\ Since(b - R, 1) \subseteq Since(b, 1 + R)
  <2>1. R <= b /\ 1 + R \in Nat /\ ~(1 + R < R + 1) /\ ~(1 + R < 0 + 1) /\ b - 0 = b /\ R \in Nat /\ 0 <= b
    BY <1>1, <1>2
  <2>2. Since(b - R, 1) \subseteq Since(b, 1 + R) \/ 1 + R < R + 1
    BY <1>2, <2>1, SinceWithin
  <2>3. Since(b - 0, 1) \subseteq Since(b, 1 + R) \/ 1 + R < 0 + 1
    BY <1>2, <2>1, SinceWithin
  <2> QED BY <2>1, <2>2, <2>3
<1>8. \/ row.oiDelta = NaN
      \/ row.oiDelta \subseteq Since(b, 1 + R) /\ \E x, y : row.oiDelta \subseteq {x, y}
  <2>1. CASE row.oiDelta = Zero
    BY <2>1 DEF Zero
  <2>2. CASE row.oiDelta = L[i].oi \cup L[i - R].oi
    <3>1. L[i].oi \subseteq Since(b, 1) /\ L[i - R].oi \subseteq Since(b - R, 1)
      BY <1>5 DEF OwnSnap
    <3>2. PICK x : L[i].oi \subseteq {x}
      BY <1>5 DEF OwnSnap
    <3>3. PICK y : L[i - R].oi \subseteq {y}
      BY <1>5 DEF OwnSnap
    <3>4. row.oiDelta \subseteq {x, y}
      BY <2>2, <3>2, <3>3
    <3>5. row.oiDelta \subseteq Since(b, 1 + R)
      BY <1>7, <2>2, <3>1
    <3> QED BY <3>4, <3>5
  <2> QED BY <1>4, <2>1, <2>2 DEF RowFrom, R, Z
<1>9. row.oiZ = NaN \/ row.oiZ \subseteq Since(b, Z)
  <2>1. CASE row.oiZ = Zero
    BY <2>1 DEF Zero
  <2>2. CASE row.oiZ = From({L[m].oi : m \in i - Z + 1..i})
    <3>1. ASSUME NEW m \in i - Z + 1..i PROVE L[m].oi \subseteq Since(b, Z)
      <4> DEFINE d == i - m
      <4>1. m \in 0..Len(c) - 1 /\ d \in Nat /\ d <= b /\ first + m = b - d /\ ~(Z < d + 1) /\ Z \in Nat
        BY <1>1, <1>2
      <4> HIDE DEF d
      <4>2. OwnSnap(L[m], b - d)
        BY <1>3, <4>1
      <4>3. Since(b - d, 1) \subseteq Since(b, Z)
        BY <1>2, <4>1, SinceWithin
      <4> QED BY <4>2, <4>3 DEF OwnSnap
    <3> DEFINE N == {L[m].oi : m \in i - Z + 1..i}
    <3>2. \A x \in N : x \subseteq Since(b, Z)
      BY <3>1
    <3> HIDE DEF N
    <3>3. UNION N \subseteq Since(b, Z)
      BY <3>2
    <3>4. From(N) = NaN \/ From(N) = UNION N
      BY DEF From
    <3> QED BY <2>2, <3>3, <3>4 DEF N
  <2> QED BY <1>4, <2>1, <2>2 DEF RowFrom, R, Z
<1> QED BY <1>4, <1>6, <1>8, <1>9 DEF OwnRow, RowFrom, ColumnNames, row, b, R, Z

-----------------------------------------------------------------------------
(***************************************************************************)
(* The rows of the liquidations.                                           *)
(***************************************************************************)
OfTime(rows, t) == {r \in rows : r[1] = t}

\* The rows of a time are numbered without a gap, by the messages at most.
Numbered(rows, m) ==
    /\ rows \subseteq Times \X Nat
    /\ \A t \in Times : \E k \in 0..m : OfTime(rows, t) = {t} \X (1..k)

\* The next one has the next number.
LEMMA AnotherRows ==
    ASSUME NEW rows, rows \subseteq Times \X Nat, NEW T, T \subseteq Times, NEW t \in Times,
           NEW k \in Nat, OfTime(rows, t) = {t} \X (1..k)
    PROVE  OfTime(Another(rows, T), t) = {t} \X (1..IF t \in T THEN k + 1 ELSE k)
<1>1. Cardinality(OfTime(rows, t)) = k
  <2>1. IsFiniteSet({t}) /\ Cardinality({t}) = 1
    BY FS_Singleton
  <2>2. IsFiniteSet(1..k) /\ Cardinality(1..k) = k
    BY FS_Interval
  <2>3. Cardinality({t} \X (1..k)) = Cardinality({t}) * Cardinality(1..k)
    BY <2>1, <2>2, FS_Product
  <2> QED BY <2>1, <2>2, <2>3
<1> DEFINE N(u) == Cardinality(OfTime(rows, u))
           New == {<<u, 1 + N(u)>> : u \in T}
<1>2. Another(rows, T) = rows \cup New
  BY DEF Another, OfTime
<1>3. N(t) = k
  BY <1>1
<1> HIDE DEF N
<1>4. CASE t \in T
  <2>1. OfTime(New, t) = {<<t, k + 1>>}
    <3>1. <<t, k + 1>> \in New
      BY <1>3, <1>4
    <3>2. ASSUME NEW r \in New, r[1] = t PROVE r = <<t, k + 1>>
      BY <1>3, <3>2
    <3> HIDE DEF New
    <3> QED BY <3>1, <3>2 DEF OfTime
  <2> HIDE DEF New
  <2>2. OfTime(Another(rows, T), t) = OfTime(rows, t) \cup OfTime(New, t)
    BY <1>2 DEF OfTime
  <2>3. {t} \X (1..k) \cup {<<t, k + 1>>} = {t} \X (1..k + 1)
    <3>1. \A x : x \in 1..k + 1 <=> x \in 1..k \/ x = k + 1
      OBVIOUS
    <3> QED BY <3>1
  <2> QED BY <1>4, <2>1, <2>2, <2>3
<1>5. CASE t \notin T
  <2>1. OfTime(New, t) = {}
    BY <1>5 DEF OfTime
  <2> HIDE DEF New
  <2>2. OfTime(Another(rows, T), t) = OfTime(rows, t) \cup OfTime(New, t)
    BY <1>2 DEF OfTime
  <2> QED BY <1>5, <2>1, <2>2
<1> QED BY <1>4, <1>5

\* One more row at each time of a set leaves no gap in the numbers.
LEMMA AnotherNumbered ==
    ASSUME NEW m \in Nat, NEW rows, Numbered(rows, m), NEW T, T \subseteq Times
    PROVE  Numbered(Another(rows, T), m + 1)
<1>1. rows \subseteq Times \X Nat
  BY DEF Numbered
<1>2. ASSUME NEW t \in Times
      PROVE  \E k \in 0..m + 1 : OfTime(Another(rows, T), t) = {t} \X (1..k)
  <2>1. PICK k \in 0..m : OfTime(rows, t) = {t} \X (1..k)
    BY DEF Numbered
  <2> DEFINE n == IF t \in T THEN k + 1 ELSE k
  <2>2. n \in 0..m + 1
    OBVIOUS
  <2>3. k \in Nat
    OBVIOUS
  <2>4. OfTime(Another(rows, T), t) = {t} \X (1..n)
    BY <1>1, <2>1, <2>3, AnotherRows
  <2> HIDE DEF n
  <2> QED BY <2>2, <2>4
<1>3. Another(rows, T) \subseteq Times \X Nat
  <2>1. ASSUME NEW r \in Another(rows, T) PROVE r \in Times \X Nat
    <3>1. CASE r \in rows
      BY <1>1, <3>1
    <3>2. CASE r \notin rows
      <4>1. PICK u \in T : r = <<u, 1 + Cardinality({q \in rows : q[1] = u})>>
        BY <3>2 DEF Another
      <4>2. u \in Times /\ r[1] = u
        BY <4>1
      <4>3. r \in OfTime(Another(rows, T), u)
        BY <4>2 DEF OfTime
      <4>4. PICK k \in 0..m + 1 : OfTime(Another(rows, T), u) = {u} \X (1..k)
        BY <1>2, <4>2
      <4>5. r \in {u} \X (1..k) /\ 1..k \subseteq Nat
        BY <4>3, <4>4
      <4> QED BY <4>2, <4>5
    <3> QED BY <3>1, <3>2
  <2> QED BY <2>1
<1> QED BY <1>2, <1>3 DEF Numbered

\* A numbering holds with more messages.
LEMMA NumberedLater ==
    ASSUME NEW m \in Nat, NEW n \in Nat, m <= n, NEW rows, Numbered(rows, m)
    PROVE  Numbered(rows, n)
<1>1. 0..m \subseteq 0..n
  OBVIOUS
<1> QED BY <1>1 DEF Numbered

\* What is inserted of a delivery is among what was delivered.
LEMMA InsertedDelivered ==
    ASSUME NEW m \in Nat, NEW rows, Numbered(rows, m), NEW all, Numbered(all, m), rows \subseteq all,
           NEW items, items \subseteq Times, NEW inserted, inserted \subseteq items
    PROVE  Another(rows, inserted) \subseteq Another(all, items)
<1> SUFFICES ASSUME NEW r \in Another(rows, inserted) PROVE r \in Another(all, items)
  OBVIOUS
<1>1. Numbered(Another(rows, inserted), m + 1)
  BY AnotherNumbered
<1> DEFINE t == r[1]
<1>2. t \in Times
  BY <1>1 DEF Numbered
<1>3. PICK k \in 0..m : OfTime(rows, t) = {t} \X (1..k)
  BY <1>2 DEF Numbered
<1>4. PICK l \in 0..m : OfTime(all, t) = {t} \X (1..l)
  BY <1>2 DEF Numbered
<1>5. k \in Nat /\ l \in Nat /\ rows \subseteq Times \X Nat /\ all \subseteq Times \X Nat
  BY DEF Numbered
<1> HIDE DEF t
<1>6. k <= l
  <2>1. CASE k = 0
    BY <1>5, <2>1
  <2>2. CASE k # 0
    <3>1. <<t, k>> \in OfTime(rows, t)
      BY <1>3, <1>5, <2>2
    <3>2. <<t, k>> \in OfTime(all, t)
      BY <3>1 DEF OfTime
    <3> QED BY <1>4, <1>5, <3>2
  <2> QED BY <2>1, <2>2
<1>7. OfTime(Another(rows, inserted), t) = {t} \X (1..IF t \in inserted THEN k + 1 ELSE k)
  BY <1>2, <1>3, <1>5, AnotherRows
<1>8. OfTime(Another(all, items), t) = {t} \X (1..IF t \in items THEN l + 1 ELSE l)
  BY <1>2, <1>4, <1>5, AnotherRows
<1>9. (1..IF t \in inserted THEN k + 1 ELSE k) \subseteq (1..IF t \in items THEN l + 1 ELSE l)
  BY <1>5, <1>6
<1>10. r \in OfTime(Another(rows, inserted), t)
  BY DEF OfTime, t
<1>11. r \in OfTime(Another(all, items), t)
  BY <1>7, <1>8, <1>9, <1>10
<1> QED BY <1>11 DEF OfTime

\* A row counts what is delivered; one that misses something has what came as its bar opened.
Counted(row, b) ==
    /\ row.liq \subseteq delivered
    /\ row.liq # row.whole => row.liq = {r \in row.whole : r[1] = opens(b)}

\* Only the last row of a chunk misses something.
LEMMA ComputedCounts ==
    ASSUME NEW c, NEW first \in Nat \ {0}, IsChunk(c, first), NEW k \in WarmupBars + 1..Len(c),
           liquidations \subseteq delivered, delivered \subseteq Times \X Nat
    PROVE  /\ Counted(Computed(c)[c[k]], c[k])
           /\ Computed(c)[c[k]].liq # Computed(c)[c[k]].whole => k = Len(c)
<1> DEFINE L == LoadOrderFlow(c)
           i == k - 1
           row == Computed(c)[c[k]]
           b == c[k]
           n == Len(c)
<1>1. /\ n \in Nat /\ k \in 1..n /\ i \in 0..n - 1 /\ i + 1 = k /\ 1 \in 1..n /\ n \in 1..n
  <2>1. Len(c) \in Nat
    BY Sizes DEF IsChunk
  <2> QED BY <2>1, Sizes
<1>2. row.whole = {r \in liquidations : BarOf(r[1]) = b} /\ row.liq = L[i].liq
  <2>1. L = LoadOrderFlow(c) /\ i = k - 1
    OBVIOUS
  <2> HIDE DEF L, i
  <2>2. RowFrom(row, L, i)
    BY <2>1, RowOf
  <2>3. row.whole = {r \in liquidations : BarOf(r[1]) = b}
    BY <2>1, RowOf
  <2> QED BY <2>2, <2>3 DEF RowFrom
<1>3. L[i].liq = {r \in liquidations : BarOf(r[1]) = b /\ opens(c[1]) <= r[1] /\ r[1] <= opens(c[n])}
  <2>1. L[i].liq = Bucket(c, i)
    BY <1>1 DEF LoadOrderFlow
  <2> HIDE DEF L, i
  <2> QED BY <1>1, <2>1 DEF Bucket
<1> HIDE DEF L, row, i
<1>4. /\ c[1] = first /\ b = first + k - 1 /\ c[n] = first + n - 1
      /\ c[1] \in Int /\ b \in Int /\ c[n] \in Int /\ c[1] <= b /\ b <= c[n] /\ (b = c[n] <=> k = n)
  <2>1. c[1] = first + 1 - 1 /\ c[k] = first + k - 1 /\ c[n] = first + n - 1
    BY <1>1 DEF IsChunk
  <2> HIDE DEF n
  <2> QED BY <1>1, <2>1
<1> DEFINE lo == opens(c[1])
           at == opens(b)
           end == opens(b + 1)
           hi == opens(c[n])
<1>5. /\ lo \in Int /\ at \in Int /\ end \in Int /\ hi \in Int /\ TF \in Nat \ {0}
      /\ lo <= at /\ (b = c[n] => hi = at) /\ (b # c[n] => end <= hi)
  <2>1. /\ b + 1 \in Int /\ TF \in Nat \ {0}
    BY <1>4, Sizes
  <2>2. lo \in Int /\ at \in Int /\ end \in Int /\ hi \in Int /\ end = at + TF
    BY <1>4, <2>1, Opening
  <2>3. (c[1] < b => lo + TF <= at) /\ (b < c[n] => at + TF <= hi)
    BY <1>4, Opening
  <2>4. (c[1] = b => lo = at) /\ (b = c[n] => hi = at)
    OBVIOUS
  <2> HIDE DEF lo, at, end, hi, b
  <2> QED BY <1>4, <2>1, <2>2, <2>3, <2>4
<1>6. \A r \in liquidations : BarOf(r[1]) = b => r[1] \in Nat /\ at <= r[1] /\ r[1] < end
  <2> SUFFICES ASSUME NEW r \in liquidations, BarOf(r[1]) = b PROVE r[1] \in Nat /\ at <= r[1] /\ r[1] < end
    OBVIOUS
  <2>1. r[1] \in Nat
    BY TimesPositive
  <2> QED BY <2>1, InItsBar
<1> HIDE DEF lo, at, end, hi, b
<1>7. CASE k = n
  <2>1. row.liq = {r \in row.whole : r[1] = at}
    <3>1. \A r \in liquidations : BarOf(r[1]) = b => (lo <= r[1] /\ r[1] <= hi <=> r[1] = at)
      BY <1>4, <1>5, <1>6, <1>7
    <3> QED BY <1>2, <1>3, <3>1 DEF lo, hi
  <2> QED BY <1>2, <1>3, <1>7, <2>1 DEF Counted, at, b, row
<1>8. CASE k # n
  <2>1. row.liq = row.whole
    <3>1. \A r \in liquidations : BarOf(r[1]) = b => lo <= r[1] /\ r[1] <= hi
      BY <1>4, <1>5, <1>6, <1>8
    <3> QED BY <1>2, <1>3, <3>1 DEF lo, hi
  <2>2. row.liq \subseteq delivered
    BY <1>2, <1>3
  <2> QED BY <2>1, <2>2 DEF Counted, b, row
<1> QED BY <1>7, <1>8

-----------------------------------------------------------------------------
(***************************************************************************)
(* The invariant.                                                          *)
(***************************************************************************)
\* The bars between two chunks' beginnings.
Stride == ChunkSize - WarmupBars

\* The rows of the table and of all that was delivered, the first part of the second.
RowsDelivered ==
    /\ Numbered(liquidations, messages) /\ Numbered(delivered, messages)
    /\ liquidations \subseteq delivered

\* A chunk begins at a multiple of the stride.
Aligned(b) == \E m \in Nat : b = 1 + m * Stride

\* The bar the chunk that is worked on begins at, 0 for none.
Begun == start \in 0..MaxBar + 1 /\ (start # 0 => Aligned(start))

\* A stored row; if it misses something, no row is stored of the bar after it, or the bar
\* is the last of a full chunk.
StoredRows ==
    /\ DOMAIN columns \subseteq Closed
    /\ \A b \in DOMAIN columns :
           /\ OwnRow(columns[b], b) /\ Counted(columns[b], b)
           /\ columns[b].liq # columns[b].whole => b + 1 \notin DOMAIN columns \/ Aligned(b + 1 - WarmupBars)

\* The rows of the chunk that is loaded, of n bars.
LoadedRows(n) ==
    /\ DOMAIN loaded = start + WarmupBars..start + n - 1 /\ DOMAIN loaded \subseteq Closed
    /\ \A b \in DOMAIN loaded :
           /\ OwnRow(loaded[b], b) /\ Counted(loaded[b], b)
           /\ loaded[b].liq # loaded[b].whole => b = start + n - 1
    /\ n < ChunkSize => start + n \notin DOMAIN columns

\* The inductive invariant.
Flow ==
    /\ now \in Times /\ messages \in 0..MaxMessages
    /\ Records /\ RowsDelivered /\ Begun /\ StoredRows
    /\ loaded # << >> => start # 0 /\ \E n \in WarmupBars + 1..ChunkSize : LoadedRows(n)

\* A chunk is longer than its warm-up.
LEMMA StrideNumber == Stride \in Nat \ {0}
BY Sizes DEF Stride

\* At first nothing is stored or loaded.
LEMMA FlowInit == Init => Flow
<1> SUFFICES ASSUME Init PROVE Flow
  OBVIOUS
<1>1. now \in Times /\ messages \in 0..MaxMessages
  <2>1. opens(1) \in Int /\ opens(MaxBar + 1) \in Int /\ opens(1) <= opens(MaxBar + 1)
    <3>1. 1 \in Int /\ MaxBar + 1 \in Int /\ (1 < MaxBar + 1 \/ 1 = MaxBar + 1)
      BY Sizes
    <3>2. TF \in Nat /\ opens(1) \in Int /\ opens(MaxBar + 1) \in Int
      BY <3>1, Sizes, Opening
    <3>3. 1 < MaxBar + 1 => opens(1) + TF <= opens(MaxBar + 1)
      BY <3>1, Opening
    <3> DEFINE a == opens(1)
               z == opens(MaxBar + 1)
    <3>4. 1 = MaxBar + 1 => a = z
      OBVIOUS
    <3> HIDE DEF a, z
    <3>5. a <= z
      BY <3>1, <3>2, <3>3, <3>4 DEF a, z
    <3> QED BY <3>2, <3>5 DEF a, z
  <2> QED BY <2>1, Sizes DEF Init, Times
<1>2. Records
  BY DEF Init, Records
<1>3. RowsDelivered
  <2>1. \A t : OfTime({}, t) = {t} \X (1..0)
    BY DEF OfTime
  <2> QED BY <2>1 DEF Init, RowsDelivered, Numbered
<1>4. Begun /\ StoredRows
  BY Sizes DEF Init, Begun, StoredRows
<1> QED BY <1>1, <1>2, <1>3, <1>4 DEF Init, Flow

\* What the steps of the writers, and of the clock, leave as it is.
LEMMA WritersKeep ==
    ASSUME Flow, UNCHANGED <<columns, start, loaded>>, now' \in Times, Closed \subseteq Closed',
           messages' \in 0..MaxMessages, delivered \subseteq delivered', Records', RowsDelivered'
    PROVE  Flow'
<1>1. \A row, b : Counted(row, b) => Counted(row, b)'
  BY DEF Counted
<1>2. StoredRows'
  BY <1>1 DEF Flow, StoredRows
<1>3. ASSUME NEW n, LoadedRows(n) PROVE LoadedRows(n)'
  BY <1>1, <1>3 DEF LoadedRows
<1> QED BY <1>2, <1>3 DEF Flow, Begun

\* The clock moves on: what was closed stays closed, and a row reads the same interval.
LEMMA TickKeeps == ASSUME Flow, Tick PROVE Flow'
<1>1. now' \in Times /\ now \in Nat
  <2>1. now \in Times /\ now \in Nat /\ now' = now + 1 /\ now < opens(MaxBar + 1)
    BY TimesPositive DEF Flow, Tick
  <2>2. opens(1) \in Int /\ opens(MaxBar + 1) \in Int
    <3>1. 1 \in Int /\ MaxBar + 1 \in Int
      BY Sizes
    <3> QED BY <3>1, Opening
  <2> QED BY <2>1, <2>2 DEF Times
<1>2. Closed \subseteq Closed'
  <2>1. now' = now + 1
    BY DEF Tick
  <2>2. \A b \in 1..MaxBar : opens(b + 1) <= now => opens(b + 1) <= now'
    <3> TAKE b \in 1..MaxBar
    <3>1. b + 1 \in Int
      BY Sizes
    <3>2. opens(b + 1) \in Int
      BY <3>1, Opening
    <3> QED BY <1>1, <2>1, <3>2
  <2> QED BY <2>2 DEF Closed
<1>3. UNCHANGED <<openInterest, fundingRates, lsRatios, liquidations, columns, start, loaded, messages, delivered>>
  BY DEF Tick, tables
<1> QED BY <1>1, <1>2, <1>3, WritersKeep DEF Flow, Records, RowsDelivered

\* A message that stores no liquidation.
LEMMA MessageKeeps ==
    ASSUME Flow, Message, UNCHANGED <<now, liquidations, columns, start, loaded, delivered>>, Records'
    PROVE  Flow'
<1>1. messages \in Nat /\ messages' = messages + 1 /\ messages' \in 0..MaxMessages /\ messages' \in Nat
  BY Sizes DEF Flow, Message
<1>2. RowsDelivered'
  <2>1. Numbered(liquidations, messages') /\ Numbered(delivered, messages')
    BY <1>1, NumberedLater DEF Flow, RowsDelivered
  <2> QED BY <2>1 DEF Flow, RowsDelivered
<1> QED BY <1>1, <1>2, WritersKeep DEF Flow, Closed

\* A ticker message changes nothing that is kept of liquidations or rows.
LEMMA TickerKeeps ==
    ASSUME Flow, NEW oi, NEW value, NEW rate, NEW oiStored, NEW frStored,
           handleTicker(oi, value, rate, oiStored, frStored)
    PROVE  Flow'
<1>1. now \in Times /\ Records
  BY DEF Flow
<1>2. openInterest' \subseteq Times /\ lsRatios' \subseteq Times
  BY <1>1 DEF handleTicker, Records
<1>3. DOMAIN fundingRates' \subseteq Times /\ \A t \in DOMAIN fundingRates' : fundingRates'[t] \subseteq {t}
  <2>1. CASE fundingRates' = fundingRates
    BY <1>1, <2>1 DEF Records
  <2>2. CASE fundingRates' = [t \in DOMAIN fundingRates \cup {now} |->
                                IF t # now THEN fundingRates[t] ELSE IF rate THEN {now} ELSE Zero]
    BY <1>1, <2>2 DEF Records, Zero
  <2> QED BY <2>1, <2>2 DEF handleTicker
<1>4. Records'
  BY <1>2, <1>3 DEF Records
<1> QED BY <1>4, MessageKeeps DEF handleTicker

\* Nor does a poll.
LEMMA PollKeeps == ASSUME Flow, NEW kept, Poll(kept) PROVE Flow'
<1>1. lsRatios' \subseteq Times
  BY DEF Poll, Flow, Records
<1>2. Records'
  BY <1>1 DEF Poll, Flow, Records
<1> QED BY <1>2, MessageKeeps DEF Poll

\* A liquidation is one more row, however late it arrives.
LEMMA LiquidationKeeps ==
    ASSUME Flow, NEW items, items \subseteq Times, NEW inserted, inserted \subseteq items,
           handleLiquidation(items, inserted)
    PROVE  Flow'
<1>1. messages \in Nat /\ messages' = messages + 1 /\ messages' \in 0..MaxMessages
  BY Sizes DEF Flow, Message, handleLiquidation
<1>2. /\ Numbered(liquidations, messages) /\ Numbered(delivered, messages) /\ liquidations \subseteq delivered
      /\ liquidations' = Another(liquidations, inserted) /\ delivered' = Another(delivered, items)
  BY DEF Flow, RowsDelivered, handleLiquidation
<1>3. Numbered(liquidations', messages + 1) /\ Numbered(delivered', messages + 1)
  BY <1>1, <1>2, AnotherNumbered
<1>4. liquidations' \subseteq delivered'
  BY <1>1, <1>2, InsertedDelivered
<1>5. RowsDelivered'
  <2>1. Numbered(liquidations, messages)' /\ Numbered(delivered, messages)'
    BY <1>1, <1>3 DEF Numbered, OfTime
  <2> QED BY <1>4, <2>1 DEF RowsDelivered
<1>6. delivered \subseteq delivered'
  BY <1>2 DEF Another
<1>7. UNCHANGED <<now, openInterest, fundingRates, lsRatios, columns, start, loaded>>
  BY DEF handleLiquidation
<1> QED BY <1>1, <1>5, <1>6, <1>7, WritersKeep DEF Flow, Records, Closed

\* The reader's steps leave the tables alone.
LEMMA ReadersKeep ==
    ASSUME Flow, UNCHANGED <<now, tables, messages, delivered>>, Begun', StoredRows',
           loaded' # << >> => start' # 0 /\ \E n \in WarmupBars + 1..ChunkSize : LoadedRows(n)'
    PROVE  Flow'
BY DEF Flow, tables, Records, RowsDelivered, Numbered, OfTime

\* A chunk is loaded: each row of it is computed from its own interval.
LEMMA LoadKeeps == ASSUME Flow, Load PROVE Flow'
<1> DEFINE first == IF start = 0 THEN 1 ELSE start
           c == Chunk(first)
<1>1. /\ first \in Nat \ {0} /\ first <= MaxBar + 1 /\ Aligned(first)
  <2>1. Aligned(1)
    <3>1. 1 = 1 + 0 * Stride
      BY StrideNumber
    <3> QED BY <3>1 DEF Aligned
  <2> QED BY <2>1, Sizes DEF Flow, Begun
<1>2. /\ Len(c) > WarmupBars /\ loaded' = Computed(c) /\ start' = first /\ loaded = << >>
      /\ UNCHANGED <<now, tables, columns, messages, delivered>>
  BY DEF Load
<1> HIDE DEF first
<1>3. IsChunk(c, first)
  BY <1>1, ChunkShape DEF Flow
<1> HIDE DEF c
<1>4. PICK n \in WarmupBars + 1..ChunkSize : n = Len(c) /\ n \in Nat
  <2>1. Len(c) \in 0..ChunkSize /\ Len(c) > WarmupBars
    BY <1>2, <1>3 DEF IsChunk
  <2>2. Len(c) \in WarmupBars + 1..ChunkSize /\ Len(c) \in Nat
    BY <2>1, Sizes
  <2> QED BY <2>2
<1>5. DOMAIN loaded' = first + WarmupBars..first + n - 1
  <2>1. DOMAIN Computed(c) = {c[k] : k \in WarmupBars + 1..n}
    BY <1>4 DEF Computed
  <2>2. \A k \in WarmupBars + 1..n : c[k] = first + k - 1
    BY <1>3, <1>4, Sizes DEF IsChunk
  <2>3. {c[k] : k \in WarmupBars + 1..n} = first + WarmupBars..first + n - 1
    <3>1. ASSUME NEW b \in first + WarmupBars..first + n - 1 PROVE b \in {c[k] : k \in WarmupBars + 1..n}
      <4> DEFINE k == b - first + 1
      <4>1. k \in WarmupBars + 1..n /\ first + k - 1 = b
        BY <1>1, <1>4, Sizes
      <4> HIDE DEF k
      <4>2. c[k] = b
        BY <2>2, <4>1
      <4> QED BY <4>1, <4>2
    <3>2. ASSUME NEW k \in WarmupBars + 1..n PROVE c[k] \in first + WarmupBars..first + n - 1
      <4>1. c[k] = first + k - 1
        BY <2>2
      <4> QED BY <1>1, <1>4, <4>1, Sizes
    <3> QED BY <3>1, <3>2
  <2> QED BY <1>2, <2>1, <2>3
<1>6. ASSUME NEW b \in DOMAIN loaded'
      PROVE  /\ OwnRow(loaded'[b], b) /\ Counted(loaded'[b], b) /\ b \in Closed
             /\ loaded'[b].liq # loaded'[b].whole => b = first + n - 1
  <2> DEFINE k == b - first + 1
  <2>1. k \in WarmupBars + 1..n /\ k \in 1..n /\ first + k - 1 = b
    BY <1>1, <1>4, <1>5, Sizes
  <2>2. k = n => b = first + n - 1
    BY <1>1, <1>4, <2>1
  <2> HIDE DEF k
  <2>3. c[k] = b /\ b \in Closed
    BY <1>3, <1>4, <2>1 DEF IsChunk
  <2>4. OwnRow(Computed(c)[c[k]], c[k])
    BY <1>1, <1>3, <1>4, <2>1, ComputedOwn DEF Flow
  <2>5. /\ Counted(Computed(c)[c[k]], c[k])
        /\ Computed(c)[c[k]].liq # Computed(c)[c[k]].whole => k = Len(c)
    BY <1>1, <1>3, <1>4, <2>1, ComputedCounts DEF Flow, RowsDelivered, Numbered
  <2> QED BY <1>2, <1>4, <2>2, <2>3, <2>4, <2>5
<1>7. n < ChunkSize => first + n \notin DOMAIN columns
  <2>1. n < ChunkSize => \A b \in Closed : b < first + n
    BY <1>3, <1>4 DEF IsChunk
  <2>2. DOMAIN columns \subseteq Closed
    BY DEF Flow, StoredRows
  <2>3. ~(first + n < first + n)
    BY <1>1, <1>4
  <2> QED BY <2>1, <2>2, <2>3
<1>8. Closed' = Closed /\ delivered' = delivered /\ columns' = columns /\ start' = first
  BY <1>2 DEF Closed
<1>9. LoadedRows(n)'
  BY <1>5, <1>6, <1>7, <1>8 DEF LoadedRows, Counted
<1>10. Begun'
  <2>1. start' \in 0..MaxBar + 1 /\ Aligned(start')
    BY <1>1, <1>2, Sizes
  <2> QED BY <2>1 DEF Begun, Aligned
<1>11. StoredRows'
  BY <1>8 DEF Flow, StoredRows, Counted
<1>12. start' # 0 /\ \E m \in WarmupBars + 1..ChunkSize : LoadedRows(m)'
  BY <1>1, <1>2, <1>4, <1>9
<1> QED BY <1>2, <1>10, <1>11, <1>12, ReadersKeep

\* A stride after the beginning of a chunk the next one begins.
LEMMA NextAligned ==
    ASSUME NEW b \in Nat, Aligned(b)
    PROVE  Aligned(b + Stride)
<1>1. PICK m \in Nat : b = 1 + m * Stride
  BY DEF Aligned
<1>2. Stride \in Nat
  BY StrideNumber
<1>3. b + Stride = 1 + (m + 1) * Stride /\ m + 1 \in Nat
  BY <1>1, <1>2
<1> QED BY <1>3 DEF Aligned

\* The rows of a chunk are stored, over the last one of the chunk before.
LEMMA UpsertKeeps == ASSUME Flow, Upsert PROVE Flow'
<1>1. PICK n \in WarmupBars + 1..ChunkSize : LoadedRows(n)
  BY DEF Flow, Upsert
<1>2. /\ start \in Nat \ {0} /\ Aligned(start) /\ n \in Nat /\ MaxBar \in Nat
      /\ WarmupBars \in Nat \ {0} /\ ChunkSize \in Nat /\ WarmupBars < n /\ n <= ChunkSize
  BY Sizes DEF Flow, Begun, Upsert
<1>3. /\ DOMAIN loaded = start + WarmupBars..start + n - 1 /\ DOMAIN loaded \subseteq Closed
      /\ \A b \in DOMAIN loaded :
             /\ OwnRow(loaded[b], b) /\ Counted(loaded[b], b)
             /\ loaded[b].liq # loaded[b].whole => b = start + n - 1
      /\ n < ChunkSize => start + n \notin DOMAIN columns
  BY <1>1 DEF LoadedRows
<1>4. /\ columns' = [b \in DOMAIN columns \cup DOMAIN loaded |->
                        IF b \in DOMAIN loaded THEN loaded[b] ELSE columns[b]]
      /\ loaded' = << >>
      /\ start' = IF Cardinality(DOMAIN loaded) = ChunkSize - WarmupBars
                  THEN start + ChunkSize - WarmupBars ELSE 0
      /\ UNCHANGED <<now, tables, messages, delivered>>
  BY DEF Upsert
<1>5. start + n - 1 <= MaxBar
  <2>1. start + n - 1 \in DOMAIN loaded
    BY <1>2, <1>3
  <2>2. Closed \subseteq 1..MaxBar
    BY DEF Closed
  <2> QED BY <1>2, <1>3, <2>1, <2>2
<1>6. Begun'
  <2>1. Cardinality(DOMAIN loaded) = n - WarmupBars
    <3> DEFINE lo == start + WarmupBars
               hi == start + n - 1
    <3>1. lo \in Int /\ hi \in Int /\ ~(lo > hi) /\ hi - lo + 1 = n - WarmupBars
      BY <1>2
    <3>2. DOMAIN loaded = lo..hi
      BY <1>3
    <3> HIDE DEF lo, hi
    <3>3. Cardinality(lo..hi) = IF lo > hi THEN 0 ELSE hi - lo + 1
      BY <3>1, FS_Interval
    <3> QED BY <3>1, <3>2, <3>3
  <2>2. CASE n = ChunkSize
    <3>1. start' = start + Stride /\ start' \in 0..MaxBar + 1
      BY <1>2, <1>4, <1>5, <2>1, <2>2 DEF Stride
    <3>2. Aligned(start')
      BY <1>2, <3>1, NextAligned
    <3> QED BY <3>1, <3>2 DEF Begun, Aligned
  <2>3. CASE n # ChunkSize
    <3>1. start' = 0
      BY <1>2, <1>4, <2>1, <2>3
    <3> QED BY <1>2, <3>1 DEF Begun
  <2> QED BY <2>2, <2>3
<1>7. Closed' = Closed /\ delivered' = delivered /\ DOMAIN columns' = DOMAIN columns \cup DOMAIN loaded
  BY <1>4 DEF Closed
<1>8. ASSUME NEW b \in DOMAIN columns'
      PROVE  /\ OwnRow(columns'[b], b) /\ Counted(columns'[b], b)
             /\ columns'[b].liq # columns'[b].whole =>
                    b + 1 \notin DOMAIN columns' \/ Aligned(b + 1 - WarmupBars)
  <2>1. CASE b \in DOMAIN loaded
    <3>1. columns'[b] = loaded[b]
      BY <1>4, <2>1
    <3>2. b = start + n - 1 => b + 1 \notin DOMAIN columns' \/ Aligned(b + 1 - WarmupBars)
      <4>1. CASE n = ChunkSize /\ b = start + n - 1
        <5>1. b + 1 - WarmupBars = start + Stride
          BY <1>2, <4>1 DEF Stride
        <5> QED BY <1>2, <5>1, NextAligned
      <4>2. CASE n # ChunkSize /\ b = start + n - 1
        <5>1. b + 1 = start + n /\ n < ChunkSize
          BY <1>2, <4>2
        <5>2. start + n \notin DOMAIN loaded
          BY <1>2, <1>3
        <5> QED BY <1>3, <1>7, <5>1, <5>2
      <4> QED BY <4>1, <4>2
    <3> QED BY <1>3, <2>1, <3>1, <3>2
  <2>2. CASE b \notin DOMAIN loaded
    <3>1. columns'[b] = columns[b] /\ b \in DOMAIN columns
      BY <1>4, <1>7, <2>2
    <3>2. /\ OwnRow(columns[b], b) /\ Counted(columns[b], b)
          /\ columns[b].liq # columns[b].whole => b + 1 \notin DOMAIN columns \/ Aligned(b + 1 - WarmupBars)
      BY <3>1 DEF Flow, StoredRows
    <3>3. b + 1 \in DOMAIN loaded => b + 1 - WarmupBars = start
      <4>1. b \in Nat
        BY <3>1 DEF Flow, StoredRows, Closed
      <4> QED BY <1>2, <1>3, <2>2, <4>1
    <3> QED BY <1>2, <1>7, <3>1, <3>2, <3>3
  <2> QED BY <2>1, <2>2
<1>9. StoredRows'
  <2>1. DOMAIN columns' \subseteq Closed'
    BY <1>3, <1>7 DEF Flow, StoredRows
  <2> QED BY <1>7, <1>8, <2>1 DEF StoredRows, Counted, Aligned
<1> QED BY <1>4, <1>6, <1>9, ReadersKeep

\* The run ends.
LEMMA EndKeeps == ASSUME Flow, EndRun PROVE Flow'
<1>1. UNCHANGED <<now, tables, columns, messages, delivered>> /\ start' = 0 /\ loaded' = << >>
  BY DEF EndRun
<1>2. Begun'
  BY <1>1, Sizes DEF Begun
<1>3. StoredRows'
  BY <1>1 DEF Flow, StoredRows, Counted, Closed
<1> QED BY <1>1, <1>2, <1>3, ReadersKeep

\* Every step keeps the invariant.
LEMMA FlowStep == Flow /\ [Next]_vars => Flow'
<1> SUFFICES ASSUME Flow, [Next]_vars PROVE Flow'
  OBVIOUS
<1>1. CASE HandleMessage
  <2>1. CASE \E oi, value, rate, oiStored, frStored \in BOOLEAN :
                 handleTicker(oi, value, rate, oiStored, frStored)
    BY <2>1, TickerKeeps
  <2>2. ASSUME NEW items \in SUBSET {t \in Times : now - MaxDelay <= t /\ t <= now},
               NEW inserted \in SUBSET items, handleLiquidation(items, inserted)
        PROVE  Flow'
    BY <2>2, LiquidationKeeps
  <2> QED BY <1>1, <2>1, <2>2 DEF HandleMessage
<1>2. CASE UNCHANGED vars
  <2>1. UNCHANGED <<now, tables, messages, delivered, columns, start, loaded>>
    BY <1>2 DEF vars
  <2> QED BY <2>1, WritersKeep DEF tables, Flow, Records, RowsDelivered, Numbered, OfTime, Closed
<1> QED BY <1>1, <1>2, TickKeeps, PollKeeps, LoadKeeps, UpsertKeeps, EndKeeps DEF Next

-----------------------------------------------------------------------------
(***************************************************************************)
(* What follows.                                                           *)
(***************************************************************************)
\* Every variable always has its type, and no liquidation more rows than deliveries.
THEOREM OrderFlowTypes == Spec => []TypeOK
<1>1. Flow => TypeOK
  <2> SUFFICES ASSUME Flow PROVE TypeOK
    OBVIOUS
  <2>1. delivered \subseteq Times \X (1..MaxMessages)
    <3> SUFFICES ASSUME NEW r \in delivered PROVE r \in Times \X (1..MaxMessages)
      OBVIOUS
    <3>1. Numbered(delivered, messages) /\ messages \in 0..MaxMessages /\ MaxMessages \in Nat
      BY Sizes DEF Flow, RowsDelivered
    <3> DEFINE t == r[1]
    <3>2. t \in Times /\ r \in OfTime(delivered, t)
      BY <3>1 DEF Numbered, OfTime
    <3> HIDE DEF t
    <3>3. PICK k \in 0..messages : OfTime(delivered, t) = {t} \X (1..k)
      BY <3>1, <3>2 DEF Numbered
    <3>4. 1..k \subseteq 1..MaxMessages
      BY <3>1
    <3> QED BY <3>2, <3>3, <3>4
  <2>2. DOMAIN loaded \subseteq Closed
    <3>1. CASE loaded = << >>
      BY <3>1
    <3>2. CASE loaded # << >>
      BY <3>2 DEF Flow, LoadedRows
    <3> QED BY <3>1, <3>2
  <2>3. Closed \subseteq 1..MaxBar
    BY DEF Closed
  <2> QED BY <2>1, <2>2, <2>3 DEF Flow, Records, RowsDelivered, Begun, StoredRows, TypeOK
<1> QED BY <1>1, FlowInit, FlowStep, PTL DEF Spec

\* Whatever chunk a row was computed in, and however often, it reads only its own interval.
THEOREM OwnIntervalRead == Spec => []ReadsOwnInterval
<1>1. Flow => ReadsOwnInterval
  <2> SUFFICES ASSUME Flow, NEW b \in DOMAIN columns
               PROVE  LET row == LoadFeaturesAfter(b)
                      IN  /\ row.funding \subseteq Since(b, 1) /\ row.lsRaw \subseteq Since(b, 1)
                          /\ row.oiDelta \subseteq Since(b, 1 + ReturnPeriods[1])
                          /\ row.oiZ \subseteq Since(b, ZWindow)
                          /\ Cardinality(row.oiDelta) <= 2
    BY DEF ReadsOwnInterval, Since
  <2> DEFINE row == columns[b]
             read == LoadFeaturesAfter(b)
  <2>1. OwnRow(row, b)
    BY DEF Flow, StoredRows
  <2>2. read = [name \in DOMAIN row |->
                   IF name \notin {"liq", "whole"} /\ row[name] = NaN THEN Zero ELSE row[name]]
    BY DEF LoadFeaturesAfter
  <2> HIDE DEF row, read
  <2>3. \A name \in {"oiDelta", "oiZ", "funding", "lsRaw"} :
           read[name] = IF row[name] = NaN THEN {} ELSE row[name]
    BY <2>1, <2>2 DEF OwnRow, Zero
  <2>4. read.funding \subseteq Since(b, 1) /\ read.lsRaw \subseteq Since(b, 1)
    BY <2>1, <2>3 DEF OwnRow
  <2>5. read.oiDelta \subseteq Since(b, 1 + ReturnPeriods[1]) /\ read.oiZ \subseteq Since(b, ZWindow)
    BY <2>1, <2>3 DEF OwnRow
  <2>6. PICK x, y : read.oiDelta \subseteq {x, y}
    BY <2>1, <2>3 DEF OwnRow
  <2>7. Cardinality(read.oiDelta) <= 2
    <3>1. IsFiniteSet({x}) /\ Cardinality({x}) = 1
      BY FS_Singleton
    <3>2. {x, y} = {x} \cup {y}
      OBVIOUS
    <3>3. IsFiniteSet({x, y}) /\ Cardinality({x, y}) <= 2
      <4>1. IsFiniteSet({x} \cup {y})
              /\ Cardinality({x} \cup {y}) = IF y \in {x} THEN Cardinality({x}) ELSE Cardinality({x}) + 1
        BY <3>1, FS_AddElement
      <4> QED BY <3>1, <3>2, <4>1
    <3> DEFINE d == read.oiDelta
               e == {x, y}
    <3>4. d \in SUBSET e
      BY <2>6
    <3> HIDE DEF d, e
    <3>5. IsFiniteSet(d) /\ Cardinality(d) <= Cardinality(e) /\ IsFiniteSet(e) /\ Cardinality(e) <= 2
      BY <3>3, <3>4, FS_Subset DEF e
    <3>6. Cardinality(d) \in Nat /\ Cardinality(e) \in Nat
      BY <3>5, FS_CardinalityType
    <3>7. Cardinality(d) <= 2
      BY <3>5, <3>6
    <3> QED BY <3>7 DEF d
  <2> QED BY <2>4, <2>5, <2>7 DEF read
<1> QED BY <1>1, FlowInit, FlowStep, PTL DEF Spec

\* A row counts its own bar's liquidations, each as often as it was stored, and only the last
\* bar of a chunk can miss some.
THEOREM OwnLiquidationsCounted == Spec => []LiquidationsCounted
<1>1. Flow => LiquidationsCounted
  <2> SUFFICES ASSUME Flow, NEW b \in DOMAIN columns
               PROVE  /\ columns[b].liq \subseteq delivered
                      /\ columns[b].liq # columns[b].whole =>
                             /\ \/ b + 1 \notin DOMAIN columns
                                \/ (b - WarmupBars) % (ChunkSize - WarmupBars) = 0
                             /\ columns[b].liq = {r \in columns[b].whole : r[1] = opens(b)}
    BY DEF LiquidationsCounted
  <2>1. /\ Counted(columns[b], b) /\ b \in Nat
        /\ columns[b].liq # columns[b].whole => b + 1 \notin DOMAIN columns \/ Aligned(b + 1 - WarmupBars)
    BY DEF Flow, StoredRows, Closed
  <2>2. Aligned(b + 1 - WarmupBars) => (b - WarmupBars) % (ChunkSize - WarmupBars) = 0
    <3> SUFFICES ASSUME Aligned(b + 1 - WarmupBars) PROVE (b - WarmupBars) % Stride = 0
      BY DEF Stride
    <3>1. PICK m \in Nat : b + 1 - WarmupBars = 1 + m * Stride
      BY DEF Aligned
    <3>2. Stride \in Nat \ {0} /\ WarmupBars \in Nat
      BY StrideNumber, Sizes
    <3>3. b - WarmupBars = m * Stride
      <4> DEFINE p == m * Stride
      <4>1. p \in Int
        BY <3>2
      <4> HIDE DEF p
      <4>2. b + 1 - WarmupBars = 1 + p
        BY <3>1 DEF p
      <4>3. b - WarmupBars = p
        BY <2>1, <3>2, <4>1, <4>2
      <4> QED BY <4>3 DEF p
    <3>4. (m * Stride) % Stride = 0
      BY <3>2
    <3> QED BY <3>3, <3>4
  <2> QED BY <2>1, <2>2 DEF Counted
<1> QED BY <1>1, FlowInit, FlowStep, PTL DEF Spec
=============================================================================
