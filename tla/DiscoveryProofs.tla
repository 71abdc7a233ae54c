------------------------------ MODULE DiscoveryProofs ------------------------------
(***************************************************************************)
(* Proofs about Discovery, for any screener, any arms and any answers of   *)
(* their sources.                                                          *)
(***************************************************************************)
EXTENDS Discovery, DataTheorems

-----------------------------------------------------------------------------
(* The screener.  A fetch holds rows exactly when it is answered with them, *)
(* and these are the first of a page, as many as were asked for: the        *)
(* sector arm asks for what it still misses, the others for their limit.    *)

Fetch == Scan \X Query
FetchStage == {"idle", "loading", "waiting", "capturing", "ready", "failed"}
FetchRecord ==
  [stage : FetchStage, limit : Nat, loads : 0..MaxLoads, rows : Seq(CandidateRow), age : Int,
   of : Query \cup {"none"}]
LimitsOf(q) == IF ArmOf[q] = "sector" THEN 1..Limit ELSE {LimitOf(ArmOf[q])}
FromPage(q, rows) == \E page \in Page[q], n \in LimitsOf(q) : rows = First(page, n)

FetchWell(q, r) ==
  /\ r.stage # "idle" => r.limit \in LimitsOf(q)
  /\ r.stage # "ready" => r.rows = << >>
  /\ r.stage = "ready" => r.of = q /\ r.age < Ttl /\ FromPage(q, r.rows)
EntryWell(q, e) ==
  e.of = q /\ e.captured \in Int /\ e.captured = e.stored /\ FromPage(q, e.rows)

PlacesWell ==
  /\ IsFiniteSet(held) /\ Cardinality(held) <= MaxCaptures
  /\ held = {f \in Fetch : fetch[f].stage = "capturing"}
ScreenerWell ==
  /\ now \in 0..MaxTime
  /\ fetch \in [Fetch -> FetchRecord] /\ \A f \in Fetch : FetchWell(f[2], fetch[f])
  /\ DOMAIN cache = Key /\ \A q \in Query : \A e \in cache[KeyFor(q)] : EntryWell(q, e)
  /\ PlacesWell

\* A step leaves the answers that were given, and starts no fetch.
AnswersStay ==
  \A f \in Fetch :
    /\ fetch[f].stage = "ready" => fetch'[f] = fetch[f]
    /\ fetch[f].stage = "idle" <=> fetch'[f].stage = "idle"

LEMMA Bounds ==
  /\ MaxCaptures \in Nat \ {0} /\ MaxLoads \in Nat \ {0} /\ Ttl \in Nat \ {0} /\ MaxTime \in Nat
  /\ Limit \in Nat \ {0} /\ PeadLimit \in Nat \ {0} /\ Today \in Int
BY ScreenerAssumption, SetupAssumption

LEMMA Loads == MaxLoads \in 0..MaxLoads /\ 0 \in 0..MaxLoads /\ 0 \in Int
BY Bounds

LEMMA LimitsAreNatural ==
  ASSUME NEW q \in Query PROVE LimitsOf(q) \subseteq 1..(Limit + PeadLimit)
BY Bounds DEF LimitsOf, LimitOf

LEMMA PageRows ==
  ASSUME NEW q \in Query, NEW page \in Page[q], NEW n \in LimitsOf(q)
  PROVE  First(page, n) \in Seq(CandidateRow) /\ FromPage(q, First(page, n))
<1>1. n \in Nat /\ page \in Seq(CandidateRow)
  BY LimitsAreNatural, PageAssumption
<1> QED
  BY <1>1, FirstOf DEF FromPage

\* One fetch goes on.
Moves(f) ==
  /\ fetch' \in [Fetch -> FetchRecord] /\ \A g \in Fetch : g # f => fetch'[g] = fetch[g]
  /\ FetchWell(f[2], fetch'[f])
  /\ fetch[f].stage \in {"loading", "waiting", "capturing"} /\ fetch'[f].stage # "idle"

LEMMA MovesKeep ==
  ASSUME NEW f \in Fetch, ScreenerWell, Moves(f)
  PROVE  /\ \A g \in Fetch : FetchWell(g[2], fetch'[g])
         /\ AnswersStay
BY DEF ScreenerWell, Moves, AnswersStay

LEMMA SameCache ==
  ASSUME NEW f \in Fetch, ScreenerWell, Moves(f), UNCHANGED <<now, cache>>, PlacesWell'
  PROVE  ScreenerWell' /\ AnswersStay
<1>1. \A g \in Fetch : FetchWell(g[2], fetch'[g])
  BY MovesKeep
<1> QED
  BY <1>1, MovesKeep DEF ScreenerWell, Moves

LEMMA SamePlaces ==
  ASSUME NEW f \in Fetch, ScreenerWell, Moves(f), UNCHANGED held,
         fetch[f].stage = "capturing" <=> fetch'[f].stage = "capturing"
  PROVE  PlacesWell'
<1>1. \A g \in Fetch : fetch[g].stage = "capturing" <=> fetch'[g].stage = "capturing"
  BY DEF Moves
<1> QED
  BY <1>1 DEF ScreenerWell, PlacesWell

LEMMA PlaceLeft ==
  ASSUME NEW f \in Fetch, ScreenerWell, Moves(f), held' = held \ {f},
         fetch[f].stage = "capturing", fetch'[f].stage # "capturing"
  PROVE  PlacesWell'
<1>1. \A g \in Fetch : g # f => (fetch[g].stage = "capturing" <=> fetch'[g].stage = "capturing")
  BY DEF Moves
<1>2. IsFiniteSet(held') /\ f \in held /\ Cardinality(held') = Cardinality(held) - 1
      /\ Cardinality(held) \in Nat /\ Cardinality(held) <= MaxCaptures
  BY FS_RemoveElement, FS_CardinalityType DEF ScreenerWell, PlacesWell
<1>3. held' = {g \in Fetch : fetch'[g].stage = "capturing"}
  BY <1>1 DEF ScreenerWell, PlacesWell
<1> QED
  BY <1>2, <1>3, Bounds DEF PlacesWell

LEMMA LoadCachedKeeps ==
  ASSUME NEW f \in Fetch, ScreenerWell, LoadCached(f)
  PROVE  ScreenerWell' /\ AnswersStay
<1>1. PICK e \in Fresh(f[2]) :
        fetch' = [fetch EXCEPT ![f] = [@ EXCEPT !.stage = "ready", !.rows = e.rows,
                                                !.age = now - e.captured, !.of = e.of]]
  BY DEF LoadCached
<1>2. f[2] \in Query /\ e \in cache[KeyFor(f[2])] /\ now < e.stored + Ttl
  BY DEF Fresh, Fetch
<1>3. EntryWell(f[2], e)
  BY <1>2 DEF ScreenerWell
<1>4. e.rows \in Seq(CandidateRow)
  BY <1>2, <1>3, PageRows DEF EntryWell, FromPage
<1>5. now - e.captured \in Int /\ now - e.captured < Ttl
  BY <1>2, <1>3, Bounds DEF EntryWell, ScreenerWell
<1>6. fetch \in [Fetch -> FetchRecord] /\ FetchWell(f[2], fetch[f]) /\ fetch[f].stage = "loading"
  BY DEF ScreenerWell, LoadCached
<1>7. /\ fetch' \in [Fetch -> FetchRecord]
      /\ \A g \in Fetch : g # f => fetch'[g] = fetch[g]
      /\ fetch'[f].stage = "ready" /\ fetch'[f].limit = fetch[f].limit
      /\ fetch'[f].rows = e.rows /\ fetch'[f].age = now - e.captured /\ fetch'[f].of = e.of
  BY <1>1, <1>2, <1>3, <1>4, <1>5, <1>6, Bounds DEF FetchRecord, FetchStage, EntryWell
<1>8. Moves(f)
  BY <1>3, <1>5, <1>6, <1>7 DEF Moves, FetchWell, EntryWell
<1> QED
  BY <1>6, <1>7, <1>8, SamePlaces, SameCache DEF LoadCached

LEMMA LoadMissedKeeps ==
  ASSUME NEW f \in Fetch, ScreenerWell, LoadMissed(f)
  PROVE  ScreenerWell' /\ AnswersStay
<1>1. fetch \in [Fetch -> FetchRecord] /\ FetchWell(f[2], fetch[f]) /\ fetch[f].stage = "loading"
  BY DEF ScreenerWell, LoadMissed
<1>2. Moves(f) /\ fetch'[f].stage = "waiting"
  BY <1>1 DEF LoadMissed, Moves, FetchWell, FetchRecord, FetchStage
<1> QED
  BY <1>1, <1>2, SamePlaces, SameCache DEF LoadMissed

LEMMA LoadFailsKeeps ==
  ASSUME NEW f \in Fetch, ScreenerWell, LoadFails(f)
  PROVE  ScreenerWell' /\ AnswersStay
<1>1. fetch \in [Fetch -> FetchRecord] /\ FetchWell(f[2], fetch[f]) /\ fetch[f].stage = "loading"
  BY DEF ScreenerWell, LoadFails
<1>2. Moves(f) /\ fetch'[f].stage = "failed"
  BY <1>1 DEF LoadFails, Moves, FetchWell, FetchRecord, FetchStage
<1> QED
  BY <1>1, <1>2, SamePlaces, SameCache DEF LoadFails

LEMMA AcquireKeeps ==
  ASSUME NEW f \in Fetch, ScreenerWell, Acquire(f)
  PROVE  ScreenerWell' /\ AnswersStay
<1>1. fetch \in [Fetch -> FetchRecord] /\ FetchWell(f[2], fetch[f]) /\ fetch[f].stage = "waiting"
  BY DEF ScreenerWell, Acquire
<1>2. Moves(f) /\ fetch'[f].stage = "capturing"
  <2>1. fetch' = [fetch EXCEPT ![f] = [@ EXCEPT !.stage = "capturing", !.loads = MaxLoads]]
    BY DEF Acquire
  <2>2. PICK r \in FetchRecord : r = [fetch[f] EXCEPT !.stage = "capturing", !.loads = MaxLoads]
    BY <1>1, Loads DEF FetchRecord, FetchStage
  <2>3. fetch' = [fetch EXCEPT ![f] = r]
    BY <2>1, <2>2
  <2>4. r.stage = "capturing" /\ r.limit = fetch[f].limit /\ r.rows = fetch[f].rows
    BY <1>1, <2>2 DEF FetchRecord
  <2> QED
    BY <1>1, <2>3, <2>4 DEF Moves, FetchWell
<1>3. PlacesWell'
  <2>1. f \notin held /\ IsFiniteSet(held) /\ held' = held \cup {f}
    BY <1>1 DEF ScreenerWell, PlacesWell, Acquire
  <2>2. IsFiniteSet(held') /\ Cardinality(held') = Cardinality(held) + 1
        /\ Cardinality(held) \in Nat /\ Cardinality(held) < MaxCaptures
    BY <2>1, FS_AddElement, FS_CardinalityType DEF Acquire
  <2>3. held' = {g \in Fetch : fetch'[g].stage = "capturing"}
    BY <1>2, <2>1 DEF ScreenerWell, PlacesWell, Moves
  <2> QED
    BY <2>2, <2>3, Bounds DEF PlacesWell
<1> QED
  BY <1>2, <1>3, SameCache DEF Acquire

LEMMA ReloadKeeps ==
  ASSUME NEW f \in Fetch, ScreenerWell, Reload(f)
  PROVE  ScreenerWell' /\ AnswersStay
<1>1. fetch \in [Fetch -> FetchRecord] /\ FetchWell(f[2], fetch[f]) /\ fetch[f].stage = "capturing"
  BY DEF ScreenerWell, Reload
<1>2. fetch[f].loads \in 0..MaxLoads /\ fetch[f].loads - 1 \in 0..MaxLoads
  BY <1>1, Bounds DEF FetchRecord, Reload
<1>3. Moves(f) /\ fetch'[f].stage = "capturing"
  BY <1>1, <1>2 DEF Reload, Moves, FetchWell, FetchRecord, FetchStage
<1> QED
  BY <1>1, <1>3, SamePlaces, SameCache DEF Reload

LEMMA CaptureFailsKeeps ==
  ASSUME NEW f \in Fetch, ScreenerWell, CaptureFails(f)
  PROVE  ScreenerWell' /\ AnswersStay
<1>1. fetch \in [Fetch -> FetchRecord] /\ FetchWell(f[2], fetch[f]) /\ fetch[f].stage = "capturing"
  BY DEF ScreenerWell, CaptureFails
<1>2. Moves(f) /\ fetch'[f].stage = "failed"
  <2>1. fetch' = [fetch EXCEPT ![f] = [@ EXCEPT !.stage = "failed", !.loads = 0]]
    BY DEF CaptureFails
  <2>2. PICK r \in FetchRecord : r = [fetch[f] EXCEPT !.stage = "failed", !.loads = 0]
    BY <1>1, Loads DEF FetchRecord, FetchStage
  <2>3. fetch' = [fetch EXCEPT ![f] = r]
    BY <2>1, <2>2
  <2>4. r.stage = "failed" /\ r.limit = fetch[f].limit /\ r.rows = fetch[f].rows
    BY <1>1, <2>2 DEF FetchRecord
  <2> QED
    BY <1>1, <2>3, <2>4 DEF Moves, FetchWell
<1> QED
  BY <1>1, <1>2, PlaceLeft, SameCache DEF CaptureFails

\* No two queries share their key.
LEMMA CapturedKeeps ==
  ASSUME NEW f \in Fetch, ScreenerWell, Captured(f)
  PROVE  ScreenerWell' /\ AnswersStay
<1>1. /\ fetch \in [Fetch -> FetchRecord] /\ FetchWell(f[2], fetch[f])
      /\ fetch[f].stage = "capturing" /\ f[2] \in Query /\ now \in Int
  BY DEF ScreenerWell, Captured, Fetch
<1>2. PICK page \in Page[f[2]] :
        LET rows == First(page, fetch[f].limit) IN
        /\ cache' = [cache EXCEPT ![KeyFor(f[2])] =
                       {[rows |-> rows, stored |-> now, captured |-> now, of |-> f[2]]}]
        /\ fetch' = [fetch EXCEPT ![f] = [@ EXCEPT !.stage = "ready", !.loads = 0, !.rows = rows,
                                                   !.age = 0, !.of = f[2]]]
  BY DEF Captured
<1>3. fetch[f].limit \in LimitsOf(f[2])
  BY <1>1 DEF FetchWell
<1>4. PICK rows \in Seq(CandidateRow) :
        rows = First(page, fetch[f].limit) /\ FromPage(f[2], rows)
  BY <1>1, <1>3, PageRows
<1>5. /\ fetch' \in [Fetch -> FetchRecord]
      /\ \A g \in Fetch : g # f => fetch'[g] = fetch[g]
      /\ fetch'[f].stage = "ready" /\ fetch'[f].limit = fetch[f].limit
      /\ fetch'[f].rows = rows /\ fetch'[f].age = 0 /\ fetch'[f].of = f[2]
  <2>1. PICK r \in FetchRecord :
          r = [fetch[f] EXCEPT !.stage = "ready", !.loads = 0, !.rows = rows, !.age = 0,
                               !.of = f[2]]
    BY <1>1, <1>4, Loads DEF FetchRecord, FetchStage
  <2>2. fetch' = [fetch EXCEPT ![f] = r]
    BY <1>2, <1>4, <2>1
  <2>3. /\ r.stage = "ready" /\ r.limit = fetch[f].limit
        /\ r.rows = rows /\ r.age = 0 /\ r.of = f[2]
    BY <1>1, <2>1 DEF FetchRecord
  <2> QED
    BY <1>1, <2>2, <2>3
<1>6. Moves(f)
  BY <1>1, <1>3, <1>4, <1>5, Bounds DEF Moves, FetchWell
<1>7. PlacesWell'
  BY <1>1, <1>5, <1>6, PlaceLeft DEF Captured
<1>8. DOMAIN cache' = Key
  BY <1>2 DEF ScreenerWell
<1>9. ASSUME NEW q \in Query, NEW e \in cache'[KeyFor(q)] PROVE EntryWell(q, e)
  <2>1. KeyFor(q) \in Key /\ DOMAIN cache = Key
    BY DEF Key, ScreenerWell
  <2>2. CASE q = f[2]
    <3>1. e = [rows |-> rows, stored |-> now, captured |-> now, of |-> f[2]]
      BY <1>2, <1>4, <1>9, <2>1, <2>2
    <3> QED
      BY <1>1, <1>4, <2>2, <3>1 DEF EntryWell
  <2>3. CASE q # f[2]
    <3>1. KeyFor(q) # KeyFor(f[2])
      BY <2>3 DEF KeyFor
    <3>2. e \in cache[KeyFor(q)]
      BY <1>2, <1>9, <2>1, <3>1
    <3> QED
      BY <3>2 DEF ScreenerWell
  <2> QED
    BY <2>2, <2>3
<1>10. AnswersStay /\ \A g \in Fetch : FetchWell(g[2], fetch'[g])
  BY <1>6, MovesKeep
<1>11. now' \in 0..MaxTime
  BY DEF Captured, ScreenerWell
<1> QED
  BY <1>5, <1>7, <1>8, <1>9, <1>10, <1>11 DEF ScreenerWell

LEMMA ScreenerKeeps ==
  ASSUME ScreenerWell, ScreenerWork PROVE ScreenerWell' /\ AnswersStay
<1>1. PICK f \in Fetch : \/ LoadCached(f) \/ LoadMissed(f) \/ LoadFails(f) \/ Acquire(f)
                         \/ Reload(f) \/ CaptureFails(f) \/ Captured(f)
  BY DEF ScreenerWork, Fetch
<1> QED
  BY <1>1, LoadCachedKeeps, LoadMissedKeeps, LoadFailsKeeps, AcquireKeeps, ReloadKeeps,
     CaptureFailsKeeps, CapturedKeeps

-----------------------------------------------------------------------------
(* Rows and their tickers.                                                  *)

\* The first of the rows of each ticker is kept.
LEMMA TickersOnce ==
  ASSUME NEW S, NEW rows \in Seq(S)
  PROVE  /\ WithoutRepeatedTickers(rows) \in Seq(S)
         /\ Range(WithoutRepeatedTickers(rows)) \subseteq Range(rows)
         /\ TickersOf(WithoutRepeatedTickers(rows)) = TickersOf(rows)
         /\ IsFiniteSet(TickersOf(rows))
         /\ Len(WithoutRepeatedTickers(rows)) = Cardinality(TickersOf(rows))
         /\ \A r \in Range(WithoutRepeatedTickers(rows)) :
              \E i \in 1..Len(rows) :
                rows[i] = r /\ \A j \in 1..i - 1 : rows[j].ticker # r.ticker
<1> DEFINE I == {i \in DOMAIN rows : \A j \in 1..i - 1 : rows[j].ticker # rows[i].ticker}
           once == Kept(rows, I)
<1>1. Len(rows) \in Nat /\ DOMAIN rows = 1..Len(rows)
  BY ListMembers
<1>2. I \in SUBSET (1..Len(rows))
  BY <1>1
<1>3. /\ once \in Seq(S) /\ Range(once) = {rows[i] : i \in I}
      /\ Len(once) = Cardinality(I)
  BY <1>2, KeptRange, KeptSequence
<1>4. once = WithoutRepeatedTickers(rows)
  BY DEF WithoutRepeatedTickers
<1>5. \A i \in I : i \in 1..Len(rows) /\ \A j \in 1..i - 1 : rows[j].ticker # rows[i].ticker
  BY <1>2
<1>6. ASSUME NEW i \in 1..Len(rows) PROVE \E k \in I : rows[k].ticker = rows[i].ticker
  <2> DEFINE A == {k \in 1..Len(rows) : rows[k].ticker = rows[i].ticker}
  <2>1. A # {} /\ A \in SUBSET Nat
    BY <1>1
  <2>2. PICK k \in A : \A m \in A : k <= m
    BY <2>1, LeastNatural
  <2>3. \A j \in 1..k - 1 : rows[j].ticker # rows[k].ticker
    BY <1>1, <2>2
  <2> QED
    BY <1>1, <2>2, <2>3
<1> HIDE DEF I
<1>7. TickersOf(rows) = {rows[i].ticker : i \in 1..Len(rows)}
  BY ListMembers DEF TickersOf
<1>8. TickersOf(rows) = {rows[i].ticker : i \in I}
  BY <1>2, <1>6, <1>7
<1>9. TickersOf(once) = {rows[i].ticker : i \in I}
  BY <1>3 DEF TickersOf
<1>10. IsFiniteSet(TickersOf(rows)) /\ Cardinality(TickersOf(rows)) = Cardinality(I)
  <2> DEFINE f == [i \in I |-> rows[i].ticker]
  <2>1. ASSUME NEW i \in I, NEW j \in I, f[i] = f[j] PROVE i = j
    <3>1. i \in Int /\ j \in Int /\ i >= 1 /\ j >= 1
      BY <1>1, <1>5
    <3>2. ~(i < j)
      <4>1. i < j => i \in 1..j - 1
        BY <3>1
      <4> QED
        BY <1>5, <2>1, <4>1
    <3>3. ~(j < i)
      <4>1. j < i => j \in 1..i - 1
        BY <3>1
      <4> QED
        BY <1>5, <2>1, <4>1
    <3> QED
      BY <3>1, <3>2, <3>3
  <2>2. f \in Bijection(I, TickersOf(rows))
    BY <1>8, <2>1 DEF Bijection, Injection, Surjection, IsInjective
  <2>3. IsFiniteSet(I)
    <3>1. IsFiniteSet(1..Len(rows))
      BY <1>1, FS_Interval
    <3> QED
      BY <1>2, <3>1, FS_Subset
  <2> QED
    BY <2>2, <2>3, FS_Bijection DEF ExistsBijection
<1>11. Range(once) \subseteq Range(rows)
  BY <1>2, <1>3, ListMembers
<1> HIDE DEF once
<1>12. ASSUME NEW r \in Range(once)
       PROVE  \E i \in 1..Len(rows) :
                rows[i] = r /\ \A j \in 1..i - 1 : rows[j].ticker # r.ticker
  BY <1>3, <1>5
<1> QED
  BY <1>3, <1>4, <1>8, <1>9, <1>10, <1>11, <1>12

\* What the screener shows.
ScreenedRow == {r \in CandidateRow : r.from = {"finviz"} /\ r.day = NoDay}

LEMMA PageOf ==
  ASSUME NEW q \in Query, NEW rows, FromPage(q, rows)
  PROVE  /\ rows \in Seq(ScreenedRow)
         /\ \E page \in Page[q] : TickersOf(rows) \subseteq TickersOf(page)
<1>1. PICK page \in Page[q], n \in LimitsOf(q) : rows = First(page, n)
  BY DEF FromPage
<1>2. n \in Nat
  BY LimitsAreNatural
<1>3. page \in Seq(CandidateRow) /\ \A r \in Range(page) : r \in ScreenedRow
  BY PageAssumption, ListMembers DEF ScreenedRow
<1>4. page \in Seq(ScreenedRow)
  BY <1>3, Retyped
<1> QED
  BY <1>1, <1>2, <1>4, FirstOf DEF TickersOf

\* A row of a ranked list is one of the rows given, under another rank.
LEMMA RankedRows ==
  ASSUME NEW rows \in Seq(CandidateRow), NEW limit \in Nat
  PROVE  /\ MergeAndRank(rows, limit) \in Seq(CandidateRow)
         /\ Len(MergeAndRank(rows, limit)) <= limit
         /\ \A r \in Range(MergeAndRank(rows, limit)) :
              \E u \in Range(rows) : r.ticker = u.ticker /\ r.from = u.from /\ r.day = u.day
<1> DEFINE key == [i \in DOMAIN rows |-> -rows[i].rank]
           sorted == Sorted(rows, key)
           once == WithoutRepeatedTickers(sorted)
           best == First(once, limit)
           out == [i \in DOMAIN best |-> [best[i] EXCEPT !.rank = i]]
<1>1. \A i \in 1..Len(rows) : key[i] \in Int
  <2>1. ASSUME NEW i \in 1..Len(rows) PROVE rows[i].rank \in Int /\ i \in DOMAIN rows
    <3>1. rows[i] \in CandidateRow /\ i \in DOMAIN rows
      BY ListMembers
    <3> QED
      BY <3>1 DEF CandidateRow
  <2> QED
    BY <2>1
<1> HIDE DEF key
<1>2. sorted \in Seq(CandidateRow) /\ Range(sorted) = Range(rows)
  BY <1>1, SortedRange
<1> HIDE DEF sorted
<1>3. once \in Seq(CandidateRow) /\ Range(once) \subseteq Range(rows)
  BY <1>2, TickersOnce
<1> HIDE DEF once
<1>4. /\ best \in Seq(CandidateRow) /\ Len(best) <= limit
      /\ Range(best) \subseteq Range(rows)
  BY <1>3, FirstOf
<1> HIDE DEF best
<1>5. PICK n \in Nat : n = Len(best) /\ DOMAIN best = 1..n
  BY <1>4, ListMembers
<1>6. ASSUME NEW i \in 1..n
      PROVE  /\ out[i] \in CandidateRow
             /\ \E u \in Range(rows) :
                  out[i].ticker = u.ticker /\ out[i].from = u.from /\ out[i].day = u.day
  <2>1. PICK u \in Range(rows) : u = best[i] /\ u \in CandidateRow
    BY <1>4, <1>5, ListMembers
  <2>2. out[i] = [u EXCEPT !.rank = i] /\ i \in Int
    BY <1>5, <2>1
  <2>3. [u EXCEPT !.rank = i] \in CandidateRow
    BY <2>1, <2>2 DEF CandidateRow
  <2>4. /\ [u EXCEPT !.rank = i].ticker = u.ticker /\ [u EXCEPT !.rank = i].from = u.from
        /\ [u EXCEPT !.rank = i].day = u.day
    BY <2>1 DEF CandidateRow
  <2> QED
    BY <2>1, <2>2, <2>3, <2>4
<1>7. out \in [1..n -> CandidateRow]
  BY <1>5, <1>6
<1>8. MergeAndRank(rows, limit) = out
  BY DEF MergeAndRank, Descending, best, once, sorted, key
<1> HIDE DEF out
<1>9. out \in Seq(CandidateRow) /\ Len(out) = n
  BY <1>7, Mapped
<1>10. \A r \in Range(out) :
         \E u \in Range(rows) : r.ticker = u.ticker /\ r.from = u.from /\ r.day = u.day
  BY <1>6, <1>9, ListMembers
<1> QED
  BY <1>4, <1>5, <1>8, <1>9, <1>10

\* The rows of a query are rows that its variants were answered with.
LEMMA Swapped ==
  ASSUME ScreenerWell, NEW s \in Scan, NEW queries \in Seq(Query), NEW limit \in Nat,
         NEW out, out = RunWithSwap(s, queries, limit)
  PROVE  /\ out.rows \in Seq(ScreenedRow) /\ Len(out.rows) <= limit
         /\ \A r \in Range(out.rows) : \E q \in Range(queries) :
              /\ q \in Query /\ r.ticker \in TickersOf(fetch[<<s, q>>].rows)
              /\ \E page \in Page[q] : r.ticker \in TickersOf(page)
<1> DEFINE I == {i \in DOMAIN queries : fetch[<<s, queries[i]>>].stage = "ready"}
           done == Kept(queries, I)
           parts == [i \in DOMAIN done |-> fetch[<<s, done[i]>>].rows]
           all == FlattenSeq(parts)
           ranked == MergeAndRank(all, limit)
<1>1. I \in SUBSET (1..Len(queries))
  BY ListMembers
<1>2. done \in Seq(Query) /\ Range(done) = {queries[i] : i \in I}
  BY <1>1, KeptRange
<1>3. ASSUME NEW q \in Range(done)
      PROVE  /\ q \in Range(queries) /\ q \in Query
             /\ FromPage(q, fetch[<<s, q>>].rows)
  <2>1. PICK i \in 1..Len(queries) : q = queries[i] /\ fetch[<<s, queries[i]>>].stage = "ready"
    BY <1>1, <1>2, <1>3
  <2>2. q \in Query /\ q \in Range(queries)
    BY <2>1, ListMembers
  <2>3. PICK f \in Fetch : f = <<s, q>> /\ f[2] = q
    <3>1. <<s, q>> \in Fetch
      BY <2>2 DEF Fetch
    <3>2. <<s, q>>[2] = q
      OBVIOUS
    <3> QED
      BY <3>1, <3>2
  <2>4. FetchWell(q, fetch[f])
    BY <2>3 DEF ScreenerWell
  <2> QED
    BY <2>1, <2>2, <2>3, <2>4 DEF FetchWell
<1>4. out.rows = ranked
  BY DEF RunWithSwap, Where
<1> HIDE DEF I, done
<1>5. PICK n \in Nat : n = Len(done) /\ DOMAIN done = 1..n
  BY <1>2, ListMembers
<1>6. ASSUME NEW i \in 1..n
      PROVE  parts[i] \in Seq(ScreenedRow) /\ done[i] \in Range(done)
             /\ parts[i] = fetch[<<s, done[i]>>].rows
  <2>1. done[i] \in Range(done) /\ i \in DOMAIN done
    BY <1>2, <1>5, ListMembers
  <2>2. parts[i] = fetch[<<s, done[i]>>].rows
    BY <2>1
  <2>3. PICK q \in Query : q = done[i] /\ FromPage(q, fetch[<<s, q>>].rows)
    BY <1>3, <2>1
  <2>4. fetch[<<s, q>>].rows \in Seq(ScreenedRow)
    BY <2>3, PageOf
  <2> QED
    BY <2>1, <2>2, <2>3, <2>4
<1>7. parts \in [1..n -> Seq(ScreenedRow)]
  BY <1>5, <1>6
<1> HIDE DEF parts
<1>8. parts \in Seq(Seq(ScreenedRow)) /\ Len(parts) = n
  BY <1>7, Mapped
<1>9. /\ all \in Seq(ScreenedRow)
      /\ \A x \in Range(all) : \E i \in 1..n : x \in Range(parts[i])
  BY <1>8, FlattenedFrom
<1> HIDE DEF all
<1>10. all \in Seq(CandidateRow)
  <2>1. \A x \in Range(all) : x \in CandidateRow
    BY <1>9, ListMembers DEF ScreenedRow
  <2> QED
    BY <1>9, <2>1, Retyped
<1>11. /\ ranked \in Seq(CandidateRow) /\ Len(ranked) <= limit
       /\ \A r \in Range(ranked) :
            \E u \in Range(all) : r.ticker = u.ticker /\ r.from = u.from /\ r.day = u.day
  BY <1>10, RankedRows
<1> HIDE DEF ranked
<1>12. ASSUME NEW r \in Range(ranked)
       PROVE  /\ r \in ScreenedRow
              /\ \E q \in Range(queries) :
                   /\ q \in Query /\ r.ticker \in TickersOf(fetch[<<s, q>>].rows)
                   /\ \E page \in Page[q] : r.ticker \in TickersOf(page)
  <2>1. PICK u \in Range(all) : r.ticker = u.ticker /\ r.from = u.from /\ r.day = u.day
    BY <1>11
  <2>2. PICK i \in 1..n : u \in Range(parts[i])
    BY <1>9
  <2>3. PICK q \in Query :
          q \in Range(queries) /\ FromPage(q, fetch[<<s, q>>].rows)
          /\ parts[i] = fetch[<<s, q>>].rows
    BY <1>3, <1>6
  <2>4. r.ticker \in TickersOf(fetch[<<s, q>>].rows)
    BY <2>1, <2>2, <2>3 DEF TickersOf
  <2>5. \E page \in Page[q] : r.ticker \in TickersOf(page)
    BY <2>3, <2>4, PageOf
  <2>6. u \in ScreenedRow
    BY <1>9, ListMembers
  <2>7. r \in CandidateRow
    BY <1>11, ListMembers
  <2> QED
    BY <2>1, <2>3, <2>4, <2>5, <2>6, <2>7 DEF ScreenedRow
<1>13. ranked \in Seq(ScreenedRow)
  BY <1>11, <1>12, Retyped
<1> QED
  BY <1>4, <1>11, <1>12, <1>13

-----------------------------------------------------------------------------
(* Reports.  Without rows a report says so, it failed when it raised, and   *)
(* it falls back only on rows that the screener did not show.               *)

IsReport(x) ==
  /\ x.rows \in Seq(Range(x.rows)) /\ Len(x.rows) <= Limit
  /\ x.status \in {"success", "empty", "failed", "fallback"}
  /\ x.rows = << >> => x.status \in {"empty", "failed"}
  /\ x.raised => x.status = "failed"
  /\ x.status = "fallback" => \E r \in Range(x.rows) : "finviz" \notin r.from

LEMMA ReportedWell ==
  ASSUME NEW S, NEW rows \in Seq(S), Len(rows) <= Limit
  PROVE  IsReport(Reported(rows)) /\ Reported(rows).rows = rows
<1>1. \A x \in Range(rows) : x \in Range(rows)
  OBVIOUS
<1>2. rows \in Seq(Range(rows))
  BY <1>1, Retyped
<1>3. PICK x : x = Reported(rows)
  OBVIOUS
<1>4. /\ x.rows = rows /\ ~x.raised /\ x.status = IF rows = << >> THEN "empty" ELSE "success"
  BY <1>3 DEF Reported, Report
<1> QED
  BY <1>2, <1>3, <1>4 DEF IsReport

LEMMA NoRows ==
  \E e \in Seq({}) : e = << >> /\ Len(e) = 0 /\ Len(e) <= Limit /\ Range(e) = {}
<1>1. << >> \in Seq({}) /\ Len(<< >>) = 0
  BY EmptySeq
<1>2. PICK e \in Seq({}) : e = << >>
  BY <1>1
<1>3. \A x : x \in Range(e) => x \in {}
  BY ListMembers
<1>4. Len(e) = 0 /\ Len(e) <= Limit
  BY <1>2, ListMembers, Bounds
<1>5. Range(e) = {}
  BY <1>3
<1> QED
  BY <1>2, <1>4, <1>5

\* The coiled arm offers the first rows of its screen.
LEMMA CoiledWell ==
  ASSUME NEW screen, screen.rows \in Seq(ScreenedRow), NEW x, x = CoiledReport(screen, Limit)
  PROVE  /\ IsReport(x)
         /\ \A r \in Range(x.rows) : \E u \in Range(screen.rows) : r.ticker = u.ticker
<1> DEFINE rows == First(screen.rows, Limit)
           n == Len(rows)
           out == [i \in DOMAIN rows |-> [rows[i] EXCEPT
                     !.event = {[score |-> (100 * (n - i + 1)) \div n, supportive |-> TRUE]}]]
<1>1. CASE screen.failed
  <2>1. x = Reported(<< >>)
    BY <1>1 DEF CoiledReport
  <2> QED
    <3>1. PICK e \in Seq({}) : e = << >> /\ Len(e) <= Limit /\ Range(e) = {}
      BY NoRows
    <3> QED
      BY <2>1, <3>1, ReportedWell
<1>2. CASE ~screen.failed
  <2>1. /\ rows \in Seq(ScreenedRow) /\ Len(rows) <= Limit
        /\ Range(rows) \subseteq Range(screen.rows)
    BY FirstOf, Bounds
  <2>2. x = Reported(out)
    BY <1>2 DEF CoiledReport, WithCoiledSignals
  <2> HIDE DEF rows
  <2>3. PICK m \in Nat : m = n /\ DOMAIN rows = 1..m
    BY <2>1, ListMembers
  <2>4. ASSUME NEW i \in 1..m
        PROVE  \E u \in Range(screen.rows) : out[i].ticker = u.ticker
    <3>1. PICK u \in Range(screen.rows) : u = rows[i] /\ u \in ScreenedRow
      BY <2>1, <2>3, ListMembers
    <3>2. PICK event : out[i] = [u EXCEPT !.event = event]
      BY <2>3, <3>1
    <3>3. u \in CandidateRow
      BY <3>1 DEF ScreenedRow
    <3>4. out[i].ticker = u.ticker
      BY <3>2, <3>3 DEF CandidateRow
    <3> QED
      BY <3>4
  <2>5. out \in [1..m -> Range(out)]
    BY <2>3 DEF Range
  <2> HIDE DEF out
  <2>6. out \in Seq(Range(out)) /\ Len(out) = m
    BY <2>5, Mapped
  <2>7. \A r \in Range(out) : \E u \in Range(screen.rows) : r.ticker = u.ticker
    BY <2>4, <2>6, ListMembers
  <2> QED
    BY <2>1, <2>2, <2>3, <2>6, <2>7, ReportedWell
<1> QED
  BY <1>1, <1>2

-----------------------------------------------------------------------------
(* The drift after earnings.                                                *)

LEMMA NormalizedRatio ==
  ASSUME NEW v \in Int PROVE NormalizeRatio(v) \in Int
BY DEF NormalizeRatio

LEMMA SurprisesAreNumbers ==
  ASSUME NEW e \in EarningsReport PROVE SurpriseOf(e) \subseteq Int
<1>1. e.percent \subseteq Int /\ e.actual \in Int /\ e.estimate \in Int
  BY DEF EarningsReport
<1>2. CASE e.percent # {}
  BY <1>1, <1>2, NormalizedRatio DEF SurpriseOf
<1>3. CASE e.percent = {} /\ e.estimate # 0
  <2>1. PICK a \in Int : a = (e.actual - e.estimate) * 10000
    BY <1>1
  <2>2. PICK b \in Nat \ {0} : b = Distance(e.estimate, 0)
    BY <1>1, <1>3 DEF Distance
  <2>3. a \div b \in Int
    BY Quotients
  <2> QED
    BY <1>3, <2>1, <2>2, <2>3 DEF SurpriseOf
<1>4. CASE e.percent = {} /\ e.estimate = 0
  BY <1>4 DEF SurpriseOf
<1> QED
  BY <1>2, <1>3, <1>4

Surprise == [day : Int, surprise : Int]

LEMMA LatestEvents ==
  ASSUME NEW reports \in Seq(EarningsReport), NEW today \in Int
  PROVE  LatestEvent(reports, today) \subseteq Surprise
<1> DEFINE told == {i \in DOMAIN reports :
                      reports[i].day <= today /\ SurpriseOf(reports[i]) # {}}
           key == [i \in told |-> reports[i].day]
           best == {i \in told : \A j \in told : reports[j].day <= reports[i].day}
<1>1. Len(reports) \in Nat /\ DOMAIN reports = 1..Len(reports)
  BY ListMembers
<1>2. IsFiniteSet(told) /\ told \subseteq Int
  <2>1. IsFiniteSet(1..Len(reports)) /\ told \subseteq 1..Len(reports)
    BY <1>1, FS_Interval
  <2> QED
    BY <2>1, FS_Subset
<1>3. ASSUME NEW i \in told
      PROVE  reports[i] \in EarningsReport /\ SurpriseOf(reports[i]) # {}
  BY <1>1, ListMembers
<1>4. CASE told = {}
  BY <1>4 DEF LatestEvent
<1>5. CASE told # {}
  <2>1. \A i \in told : key[i] \in Int
    BY <1>3 DEF EarningsReport
  <2>2. \A i \in told : key[i] = reports[i].day
    OBVIOUS
  <2>3. LatestEvent(reports, today)
          = {[day |-> e.day, surprise |-> The(SurpriseOf(e))] : e \in {reports[Min(best)]}}
    BY <1>5 DEF LatestEvent, FirstBest
  <2>4. PICK B \in SUBSET told : B = best
    OBVIOUS
  <2>5. \A i \in told : i \in B <=> \A j \in told : key[j] <= key[i]
    BY <2>2, <2>4
  <2> HIDE DEF told, key
  <2>6. PICK m \in told : m = Min(best)
    BY <1>2, <1>5, <2>1, <2>4, <2>5, BestMember
  <2>7. PICK e \in EarningsReport : e = reports[m] /\ SurpriseOf(e) # {}
    BY <1>3
  <2>8. The(SurpriseOf(e)) \in SurpriseOf(e)
    BY <2>7 DEF The
  <2>9. The(SurpriseOf(e)) \in Int
    BY <2>8, SurprisesAreNumbers
  <2>10. [day |-> e.day, surprise |-> The(SurpriseOf(e))] \in Surprise
    BY <2>9 DEF EarningsReport, Surprise
  <2> QED
    BY <2>3, <2>6, <2>7, <2>10
<1> QED
  BY <1>4, <1>5

\* What is known of a ticker of the drift arm.
Told(x, t) ==
  /\ \A n \in Range(SurpriseSources) : x.surprise[n][t] \in Seq(EarningsReport)
  /\ x.snapshot[t] \in SUBSET Snapshot

LEMMA ComputedSurprises ==
  ASSUME NEW x, NEW t, Told(x, t), NEW today \in Int
  PROVE  ComputeSurprise(x, t, today) \subseteq Surprise
<1> DEFINE Event(i) == LatestEvent(x.surprise[SurpriseSources[i]][t], today)
           found == {i \in DOMAIN SurpriseSources : Event(i) # {}}
<1>1. DOMAIN SurpriseSources = 1..3
  BY DEF SurpriseSources
<1>2. ASSUME NEW i \in 1..3 PROVE Event(i) \subseteq Surprise
  <2>1. SurpriseSources[i] \in Range(SurpriseSources)
    BY <1>1 DEF Range
  <2>2. x.surprise[SurpriseSources[i]][t] \in Seq(EarningsReport)
    BY <2>1 DEF Told
  <2> QED
    BY <2>2, LatestEvents
<1>3. found \subseteq 1..3 /\ IsFiniteSet(found)
  <2>1. IsFiniteSet(1..3)
    <3>1. 1 \in Int /\ 3 \in Int
      OBVIOUS
    <3> QED
      BY <3>1, FS_Interval
  <2>2. found \subseteq 1..3
    BY <1>1
  <2> QED
    BY <2>1, <2>2, FS_Subset
<1>4. CASE found = {}
  BY <1>4 DEF ComputeSurprise
<1>5. CASE found # {}
  <2>1. ComputeSurprise(x, t, today) = Event(Min(found))
    BY <1>5 DEF ComputeSurprise
  <2> HIDE DEF found
  <2>2. found \subseteq Int
    BY <1>3
  <2>3. Min(found) \in found
    BY <1>3, <1>5, <2>2, LeastMember
  <2> QED
    BY <1>2, <1>3, <2>1, <2>3
<1> QED
  BY <1>4, <1>5

\* A snapshot completes a row, and leaves what the screener says of its ticker.
LEMMA CompletedRow ==
  ASSUME NEW x, NEW row \in CandidateRow, Told(x, row.ticker), NEW r, r = Completed(row, x)
  PROVE  r \in CandidateRow /\ r.ticker = row.ticker /\ r.from = row.from
<1> DEFINE snapshot == IF row.sector # "none" /\ row.cap # None /\ row.change # {} THEN {}
                       ELSE x.snapshot[row.ticker]
           Else(value, unknown, others) == IF value # unknown \/ others = {} THEN value
                                           ELSE The(others)
           sectors == {s.sector : s \in snapshot}
           caps == {s.cap : s \in snapshot}
           prices == {s.price : s \in snapshot}
           changes == {s.change : s \in snapshot}
<1>1. snapshot \in SUBSET Snapshot
  BY DEF Told
<1>2. sectors \subseteq STRING /\ caps \subseteq Int /\ prices \subseteq Int
      /\ changes \subseteq SUBSET Int
  BY <1>1 DEF Snapshot
<1>3. r = [row EXCEPT !.sector = Else(@, "none", sectors), !.cap = Else(@, None, caps),
                      !.price = Else(@, None, prices), !.change = Else(@, {}, changes)]
  BY DEF Completed
<1> HIDE DEF snapshot, sectors, caps, prices, changes
<1>4. /\ row.sector \in STRING /\ row.cap \in Int /\ row.price \in Int
      /\ row.change \in SUBSET Int
  BY DEF CandidateRow
<1>5. PICK a \in STRING : a = Else(row.sector, "none", sectors)
  BY <1>2, <1>4 DEF The
<1>6. PICK b \in Int : b = Else(row.cap, None, caps)
  BY <1>2, <1>4 DEF The
<1>7. PICK c \in Int : c = Else(row.price, None, prices)
  BY <1>2, <1>4 DEF The
<1>8. PICK d \in SUBSET Int : d = Else(row.change, {}, changes)
  BY <1>2, <1>4 DEF The
<1>9. r = [row EXCEPT !.sector = a, !.cap = b, !.price = c, !.change = d]
  BY <1>3, <1>5, <1>6, <1>7, <1>8
<1> QED
  BY <1>9 DEF CandidateRow

EnrichedRow == [key : Int, record : CandidateRow]

LEMMA EnrichedRows ==
  ASSUME NEW x, NEW r \in CandidateRow, Told(x, r.ticker), NEW today \in Int,
         NEW e \in Enrich(r, x, today)
  PROVE  /\ e \in EnrichedRow /\ e.record.ticker = r.ticker /\ e.record.from = r.from
         /\ e.record.day < today
<1>1. PICK p \in ComputeSurprise(x, r.ticker, today) \X {NormalizeRatio(v) : v \in r.change} :
        /\ PostFilter(r, p[1], p[2], today)
        /\ e = [key |-> 100 * (p[1].surprise + p[2]) - r.rank,
                record |-> [r EXCEPT !.day = p[1].day, !.verified = p[1].day # NoDay,
                              !.event = {[score |-> Min({100, (3 * p[1].surprise + 5 * p[2]) \div 30}),
                                          supportive |-> TRUE]}]]
  BY DEF Enrich
<1>2. p[1] \in Surprise /\ p[2] \in Int
  <2>1. p[1] \in ComputeSurprise(x, r.ticker, today)
    BY <1>1
  <2>2. PICK v \in r.change : p[2] = NormalizeRatio(v)
    BY <1>1
  <2>3. v \in Int
    BY <2>2 DEF CandidateRow
  <2> QED
    BY <2>1, <2>2, <2>3, ComputedSurprises, NormalizedRatio
<1>3. PICK d \in Int, u \in Int : d = p[1].day /\ u = p[1].surprise
  BY <1>2 DEF Surprise
<1>4. PICK c \in Int : c = p[2]
  BY <1>2
<1>5. (3 * u + 5 * c) \div 30 \in Int
  BY <1>3, <1>4, Quotients
<1>6. PICK n \in Int : n = Min({100, (3 * u + 5 * c) \div 30})
  BY <1>5, MinOfTwo
<1>7. PICK known \in BOOLEAN : known = (d # NoDay)
  OBVIOUS
<1>8. e = [key |-> 100 * (u + c) - r.rank,
           record |-> [r EXCEPT !.day = d, !.verified = known,
                                !.event = {[score |-> n, supportive |-> TRUE]}]]
  BY <1>1, <1>3, <1>4, <1>6, <1>7
<1>9. {[score |-> n, supportive |-> TRUE]} \in SUBSET [score : Int, supportive : BOOLEAN]
  OBVIOUS
<1>10. PICK event \in SUBSET [score : Int, supportive : BOOLEAN] :
         event = {[score |-> n, supportive |-> TRUE]}
  BY <1>9
<1>11. PICK q : q = [r EXCEPT !.day = d, !.verified = known, !.event = event]
  OBVIOUS
<1>12. q \in CandidateRow /\ q.ticker = r.ticker /\ q.from = r.from /\ q.day = d
  BY <1>11 DEF CandidateRow
<1>13. 100 * (u + c) - r.rank \in Int
  BY DEF CandidateRow
<1>14. d < today
  BY <1>1, <1>3 DEF PostFilter
<1>15. e = [key |-> 100 * (u + c) - r.rank, record |-> q]
  BY <1>8, <1>10, <1>11
<1> QED
  BY <1>12, <1>13, <1>14, <1>15 DEF EnrichedRow

\* The drift arm offers rows of its screen, of earnings that are over.
LEMMA PeadWell ==
  ASSUME NEW screen, screen.rows \in Seq(ScreenedRow), NEW x,
         \A u \in Range(screen.rows) : Told(x, u.ticker),
         NEW report, report = PeadReport(screen, x, Limit, Today)
  PROVE  /\ IsReport(report)
         /\ \A r \in Range(report.rows) :
              r.day < Today /\ \E u \in Range(screen.rows) : r.ticker = u.ticker
<1> DEFINE rows == screen.rows
           Good == {e \in EnrichedRow :
                      e.record.day < Today /\ \E u \in Range(rows) : e.record.ticker = u.ticker}
           open == ActiveCatalystTickers(x, Today)
           some == [i \in DOMAIN rows |-> {e \in Enrich(Completed(rows[i], x), x, Today) :
                                             e.record.ticker \notin open}]
           enriched == Present(some)
           key == [i \in DOMAIN enriched |-> enriched[i].key]
           sorted == Sorted(enriched, key)
           best == First(sorted, Limit)
           out == [i \in DOMAIN best |-> best[i].record]
<1>1. CASE screen.failed
  <2>1. report = Reported(<< >>)
    BY <1>1 DEF PeadReport
  <2> QED
    <3>1. PICK e \in Seq({}) : e = << >> /\ Len(e) <= Limit /\ Range(e) = {}
      BY NoRows
    <3> QED
      BY <2>1, <3>1, ReportedWell
<1>2. CASE ~screen.failed
  <2>1. report = Reported(out)
    BY <1>2 DEF PeadReport, BestEnriched, Enriched, Descending
  <2>2. PICK n \in Nat : n = Len(rows) /\ DOMAIN rows = 1..n
    BY ListMembers
  <2>3. ASSUME NEW i \in 1..n PROVE some[i] \in SUBSET Good
    <3>1. PICK u \in Range(rows) : u = rows[i] /\ u \in CandidateRow
      BY <2>2, ListMembers DEF ScreenedRow
    <3>2. PICK r \in CandidateRow : r = Completed(u, x) /\ r.ticker = u.ticker
      BY <3>1, CompletedRow
    <3>3. some[i] = {e \in Enrich(r, x, Today) : e.record.ticker \notin open}
      BY <2>2, <3>1, <3>2
    <3>4. \A e \in Enrich(r, x, Today) :
            e \in EnrichedRow /\ e.record.ticker = r.ticker /\ e.record.day < Today
      BY <3>1, <3>2, EnrichedRows, Bounds
    <3> QED
      BY <3>1, <3>2, <3>3, <3>4
  <2>4. some \in [1..n -> SUBSET Good]
    BY <2>2, <2>3
  <2> HIDE DEF Good, some
  <2>5. some \in Seq(SUBSET Good)
    BY <2>4, Mapped
  <2>6. enriched \in Seq(Good)
    BY <2>5, PresentOf
  <2> HIDE DEF enriched
  <2>7. \A i \in 1..Len(enriched) : enriched[i] \in Good /\ i \in DOMAIN enriched
    BY <2>6, ListMembers
  <2>8. \A i \in 1..Len(enriched) : key[i] \in Int
    BY <2>7 DEF Good, EnrichedRow
  <2> HIDE DEF key
  <2>9. sorted \in Seq(Good)
    BY <2>6, <2>8, SortedRange
  <2> HIDE DEF sorted
  <2>10. best \in Seq(Good) /\ Len(best) <= Limit
    BY <2>9, FirstOf, Bounds
  <2> HIDE DEF best
  <2>11. PICK m \in Nat : m = Len(best) /\ DOMAIN best = 1..m
    BY <2>10, ListMembers
  <2>12. \A i \in 1..m : best[i] \in Good /\ out[i] = best[i].record
    BY <2>10, <2>11, ListMembers
  <2>13. out \in [1..m -> CandidateRow]
    BY <2>11, <2>12 DEF Good, EnrichedRow
  <2>14. \A i \in 1..m : out[i].day < Today /\ \E u \in Range(rows) : out[i].ticker = u.ticker
    BY <2>12 DEF Good
  <2> HIDE DEF out
  <2>15. out \in Seq(CandidateRow) /\ Len(out) = m
    BY <2>13, Mapped
  <2>16. \A r \in Range(out) : \E i \in 1..m : r = out[i]
    BY <2>15, ListMembers
  <2> QED
    BY <2>1, <2>10, <2>11, <2>14, <2>15, <2>16, ReportedWell
<1> QED
  BY <1>1, <1>2

-----------------------------------------------------------------------------
(* The sectors.                                                             *)

Rated == [sector : SectorQuery, perf : Int, above : BOOLEAN]

LEMMA RatedSector ==
  ASSUME NEW q \in SectorQuery, NEW h \in SectorHistory
  PROVE  RankSector(q, h) \subseteq Rated
<1>1. h.sessions \in Int /\ h.latest \in Int /\ h.lookback \in Nat /\ h.mean \in Int
  BY DEF SectorHistory
<1>2. CASE h.sessions < 21 \/ h.lookback = 0
  BY <1>2 DEF RankSector
<1>3. CASE ~(h.sessions < 21 \/ h.lookback = 0)
  <2>1. PICK a \in Int, b \in Nat \ {0} : a = (h.latest - h.lookback) * 10000 /\ b = h.lookback
    BY <1>1, <1>3
  <2>2. PICK perf \in Int : perf = a \div b
    BY Quotients
  <2>3. (h.latest >= h.mean) \in BOOLEAN
    BY <1>1
  <2>4. PICK above \in BOOLEAN : above = (h.latest >= h.mean)
    BY <2>3
  <2>5. RankSector(q, h) = {[sector |-> q, perf |-> perf, above |-> above]}
    BY <1>3, <2>1, <2>2, <2>4 DEF RankSector
  <2> QED
    BY <2>5 DEF Rated
<1> QED
  BY <1>2, <1>3

LEMMA RankedSectors ==
  ASSUME NEW h \in History PROVE RankSectors(h) \in Seq(Rated)
<1> DEFINE some == [i \in DOMAIN h |-> RankSector(h[i][1], h[i][2])]
           rated == Present(some)
           key == [i \in DOMAIN rated |-> rated[i].perf]
<1>1. h \in Seq(SectorQuery \X SectorHistory)
  BY HistoryAssumption
<1>2. PICK n \in Nat : n = Len(h) /\ DOMAIN h = 1..n
  BY <1>1, ListMembers
<1>3. ASSUME NEW i \in 1..n PROVE some[i] \in SUBSET Rated
  <2>1. h[i] \in SectorQuery \X SectorHistory
    BY <1>1, <1>2, ListMembers
  <2>2. h[i][1] \in SectorQuery /\ h[i][2] \in SectorHistory
    BY <2>1
  <2>3. some[i] = RankSector(h[i][1], h[i][2])
    BY <1>2
  <2> QED
    BY <2>2, <2>3, RatedSector
<1>4. some \in [1..n -> SUBSET Rated]
  BY <1>2, <1>3
<1>5. RankSectors(h) = Sorted(rated, key)
  BY DEF RankSectors, Descending
<1> HIDE DEF some
<1>6. some \in Seq(SUBSET Rated)
  BY <1>4, Mapped
<1>7. rated \in Seq(Rated)
  BY <1>6, PresentOf
<1> HIDE DEF rated
<1>8. \A i \in 1..Len(rated) : rated[i] \in Rated /\ i \in DOMAIN rated
  BY <1>7, ListMembers
<1>9. \A i \in 1..Len(rated) : key[i] \in Int
  BY <1>8 DEF Rated
<1> HIDE DEF key
<1> QED
  BY <1>5, <1>7, <1>9, SortedRange

\* One or two sectors are screened, the strongest first, or none.
LEMMA ScreenedSectors ==
  ASSUME NEW ranked \in Seq(Rated), NEW screened, screened = Screened(ranked)
  PROVE  screened \in Seq(Rated) /\ Len(screened) <= 2
<1> DEFINE tail == Tail(ranked)
           I == {i \in DOMAIN tail : RegimeGate(tail[i])}
           next == Kept(tail, I)
           more == First(next, 1)
<1>1. CASE ranked = << >> \/ ~RegimeGate(ranked[1])
  <2>1. screened = << >>
    BY <1>1 DEF Screened
  <2>2. << >> \in Seq(Rated) /\ Len(<< >>) = 0
    BY EmptySeq
  <2> QED
    BY <2>1, <2>2
<1>2. CASE ~(ranked = << >> \/ ~RegimeGate(ranked[1]))
  <2>1. ranked # << >> /\ screened = <<ranked[1]>> \o more
    BY <1>2 DEF Screened, Where
  <2>2. tail \in Seq(Rated)
    BY <2>1, HeadTailProperties
  <2>3. I \in SUBSET (1..Len(tail))
    BY <2>2, ListMembers
  <2> HIDE DEF tail, I
  <2>4. next \in Seq(Rated)
    BY <2>2, <2>3, KeptRange
  <2> HIDE DEF next
  <2>5. more \in Seq(Rated) /\ Len(more) <= 1
    BY <2>4, FirstOf
  <2> HIDE DEF more
  <2>6. ranked[1] \in Rated
    <3>1. Len(ranked) \in Nat /\ Len(ranked) # 0
      BY <2>1, ListMembers
    <3> QED
      BY <3>1, ListMembers
  <2>7. <<ranked[1]>> \in Seq(Rated) /\ Len(<<ranked[1]>>) = 1
    BY <2>6
  <2>8. PICK one \in Seq(Rated) : one = <<ranked[1]>> /\ Len(one) = 1
    BY <2>7
  <2>9. one \o more \in Seq(Rated) /\ Len(one \o more) = Len(one) + Len(more)
    BY <2>5, <2>8, ConcatProperties
  <2>10. Len(more) \in Nat
    BY <2>5, ListMembers
  <2> QED
    BY <2>1, <2>5, <2>8, <2>9, <2>10
<1> QED
  BY <1>1, <1>2

SectorRow ==
  {r \in [record : CandidateRow, sector : Rated, rank : Int, total : Nat] : r.total # 0}

LEMMA SectorScores ==
  ASSUME NEW r \in SectorRow PROVE ScoreD(r) \in Int
<1>1. r.rank \in Int /\ r.total \in Nat \ {0}
  BY DEF SectorRow
<1>2. PICK a \in Int, b \in Nat \ {0} : a = 6000 * (r.total - r.rank + 1) /\ b = r.total
  BY <1>1
<1>3. PICK c \in Int : c = a \div b
  BY Quotients
<1>4. PICK d \in Int : d = IF r.sector.perf > 500 THEN 4000 ELSE 2000
  OBVIOUS
<1>5. ScoreD(r) = c + d
  BY <1>2, <1>3, <1>4 DEF ScoreD, Percentile
<1> QED
  BY <1>5

\* The order of the rows is one of the same rows.
LEMMA SortedSectorRows ==
  ASSUME NEW S \in SUBSET SectorRow, NEW rows \in Seq(S)
  PROVE  SectorSorted(rows) \in Seq(S)
<1> DEFINE rank == [i \in DOMAIN rows |-> -rows[i].rank]
           first == Sorted(rows, rank)
           perf == [i \in DOMAIN first |-> first[i].sector.perf]
           second == Sorted(first, perf)
           score == [i \in DOMAIN second |-> ScoreD(second[i])]
<1>1. SectorSorted(rows) = Sorted(second, score)
  BY DEF SectorSorted, Descending
<1>2. \A i \in 1..Len(rows) : rows[i] \in SectorRow /\ i \in DOMAIN rows
  BY ListMembers
<1>3. \A i \in 1..Len(rows) : rank[i] \in Int
  BY <1>2 DEF SectorRow
<1> HIDE DEF rank
<1>4. first \in Seq(S)
  BY <1>3, SortedRange
<1> HIDE DEF first
<1>5. \A i \in 1..Len(first) : first[i] \in SectorRow /\ i \in DOMAIN first
  BY <1>4, ListMembers
<1>6. \A i \in 1..Len(first) : perf[i] \in Int
  BY <1>5 DEF SectorRow, Rated
<1> HIDE DEF perf
<1>7. second \in Seq(S)
  BY <1>4, <1>6, SortedRange
<1> HIDE DEF second
<1>8. \A i \in 1..Len(second) : second[i] \in SectorRow /\ i \in DOMAIN second
  BY <1>7, ListMembers
<1>9. \A i \in 1..Len(second) : score[i] \in Int
  BY <1>8, SectorScores
<1> HIDE DEF score
<1> QED
  BY <1>1, <1>7, <1>9, SortedRange

\* The sector arm offers rows of the sectors it screened.
OffersFound(report, found) ==
  /\ IsReport(report)
  /\ \A r \in Range(report.rows) : \E i \in 1..Len(found) : r.ticker \in TickersOf(found[i])

LEMMA SectorWell ==
  ASSUME NEW screened \in Seq(Rated), NEW found \in Seq(Seq(ScreenedRow)),
         Len(found) = Len(screened), NEW ranked,
         NEW report, report = SectorReport(ranked, screened, found, Limit)
  PROVE  OffersFound(report, found)
<1>1. PICK n \in Nat : n = Len(screened) /\ n = Len(found) /\ DOMAIN found = 1..n
  BY ListMembers
<1> DEFINE Good == {r \in SectorRow :
                      \E i \in 1..n : \E u \in Range(found[i]) : r.record.ticker = u.ticker}
           parts == [i \in DOMAIN found |-> SectorRows(screened[i], found[i])]
           all == FlattenSeq(parts)
           sorted == SectorSorted(all)
           best == First(sorted, Limit)
           out == WithSectorSignals(best, ranked)
<1>2. report = Reported(out)
  BY DEF SectorReport
<1>3. ASSUME NEW i \in 1..n PROVE parts[i] \in Seq(Good)
  <2>1. PICK rows \in Seq(ScreenedRow) : rows = found[i]
    BY <1>1, ListMembers
  <2>2. PICK q \in Rated : q = screened[i]
    BY <1>1, ListMembers
  <2>3. PICK m \in Nat : m = Len(rows) /\ DOMAIN rows = 1..m
    BY ListMembers
  <2>4. parts[i] = [j \in 1..m |-> [record |-> rows[j], sector |-> q, rank |-> rows[j].rank,
                                    total |-> m]]
    BY <1>1, <2>1, <2>2, <2>3 DEF SectorRows
  <2>5. ASSUME NEW j \in 1..m PROVE parts[i][j] \in Good
    <3>1. PICK u \in Range(rows) : u = rows[j] /\ u \in CandidateRow
      BY <2>3, ListMembers DEF ScreenedRow
    <3>2. parts[i][j] = [record |-> u, sector |-> q, rank |-> u.rank, total |-> m]
      BY <2>4, <3>1
    <3>3. m \in Nat /\ m # 0 /\ u.rank \in Int
      BY <3>1 DEF CandidateRow
    <3>4. [record |-> u, sector |-> q, rank |-> u.rank, total |-> m] \in SectorRow
      BY <3>1, <3>3 DEF SectorRow
    <3>5. u \in Range(found[i]) /\ parts[i][j].record.ticker = u.ticker
      BY <2>1, <3>1, <3>2
    <3>6. \E k \in 1..n : \E v \in Range(found[k]) : parts[i][j].record.ticker = v.ticker
      BY <3>5
    <3>7. parts[i][j] \in SectorRow
      BY <3>2, <3>4
    <3> QED
      BY <3>6, <3>7
  <2>6. parts[i] \in [1..m -> Good]
    BY <2>4, <2>5
  <2> HIDE DEF Good
  <2> QED
    BY <2>6, Mapped
<1>4. parts \in [1..n -> Seq(Good)]
  BY <1>3, <1>1
<1>5. \A r \in Good : r.record \in CandidateRow
        /\ \E i \in 1..n : \E u \in Range(found[i]) : r.record.ticker = u.ticker
  BY DEF SectorRow
<1>6. Good \in SUBSET SectorRow
  OBVIOUS
<1> HIDE DEF Good, parts
<1>7. parts \in Seq(Seq(Good))
  BY <1>4, Mapped
<1>8. all \in Seq(Good)
  BY <1>7, FlattenedFrom
<1> HIDE DEF all
<1>9. sorted \in Seq(Good)
  BY <1>6, <1>8, SortedSectorRows
<1> HIDE DEF sorted
<1>10. best \in Seq(Good) /\ Len(best) <= Limit
  BY <1>9, FirstOf, Bounds
<1> HIDE DEF best
<1>11. PICK m \in Nat : m = Len(best) /\ DOMAIN best = 1..m
  BY <1>10, ListMembers
<1>12. DOMAIN out = 1..m
  BY <1>11 DEF WithSectorSignals
<1>13. ASSUME NEW i \in 1..m PROVE out[i].ticker = best[i].record.ticker
  <2>1. PICK event : out[i] = [best[i].record EXCEPT !.event = event]
    BY <1>11 DEF WithSectorSignals
  <2>2. best[i].record \in CandidateRow
    BY <1>5, <1>10, <1>11, ListMembers
  <2>3. PICK r \in CandidateRow : r = best[i].record
    BY <2>2
  <2>4. out[i] = [r EXCEPT !.event = event]
    BY <2>1, <2>3
  <2>5. out[i].ticker = r.ticker
    BY <2>4 DEF CandidateRow
  <2> QED
    BY <2>3, <2>5
<1>14. out \in [1..m -> Range(out)]
  <2>1. out = [i \in 1..m |-> out[i]]
    BY <1>11 DEF WithSectorSignals
  <2> QED
    BY <1>12, <2>1 DEF Range
<1> HIDE DEF out
<1>15. out \in Seq(Range(out)) /\ Len(out) = m
  BY <1>14, Mapped
<1>16. ASSUME NEW r \in Range(out)
       PROVE  \E i \in 1..n : \E u \in Range(found[i]) : r.ticker = u.ticker
  <2>1. PICK i \in 1..m : r = out[i]
    BY <1>15, ListMembers
  <2>2. best[i] \in Good
    BY <1>10, <1>11, ListMembers
  <2> QED
    BY <1>5, <1>13, <2>1, <2>2
<1>17. IsReport(report) /\ report.rows = out
  BY <1>2, <1>10, <1>11, <1>15, ReportedWell
<1> QED
  BY <1>16, <1>1, <1>17 DEF OffersFound, TickersOf

-----------------------------------------------------------------------------
(* The activists.                                                           *)

LEMMA TierNumber ==
  ASSUME NEW x, NEW table, DOMAIN table = 1..4, \A n \in 1..4 : table[n][2] \in Int,
         x >= table[3][1] \/ x >= table[4][1]
  PROVE  Tier(x, table) \in Int
<1> DEFINE I == {n \in DOMAIN table : x >= table[n][1]}
<1>1. Tier(x, table) = table[Min(I)][2]
  BY DEF Tier
<1>2. I \subseteq 1..4 /\ I # {}
  OBVIOUS
<1>3. IsFiniteSet(1..4)
  <2>1. 1 \in Int /\ 4 \in Int
    OBVIOUS
  <2> QED
    BY <2>1, FS_Interval
<1>4. IsFiniteSet(I) /\ I \subseteq Int
  BY <1>2, <1>3, FS_Subset
<1> HIDE DEF I
<1>5. Min(I) \in 1..4
  BY <1>2, <1>4, LeastMember
<1> QED
  BY <1>1, <1>5

LEMMA BoundNumber ==
  ASSUME NEW x \in Int, NEW high \in Nat
  PROVE  Bound(x, 0, high) \in 0..high
<1>1. PICK m \in Int : m = Min({high, x}) /\ m <= high
  BY MinOfTwo
<1>2. Max({0, m}) \in 0..high
  BY <1>1, MaxOfTwo
<1> QED
  BY <1>1, <1>2 DEF Bound

LEMMA NzNumber == ASSUME NEW x \in Int PROVE Nz(x) \in Nat
BY MaxOfTwo DEF Nz

\* The tiers that the quality of a quote and the age of a filing fall in.
LEMMA OpenInterestTier ==
  ASSUME NEW x \in Nat
  PROVE  Tier(x, <<<<100, 35>>, <<50, 25>>, <<1, 10>>, <<0, 0>>>>) \in Int
<1>1. PICK table : table = <<<<100, 35>>, <<50, 25>>, <<1, 10>>, <<0, 0>>>>
  OBVIOUS
<1>2. DOMAIN table = 1..4
  BY <1>1
<1>3. /\ table[1][2] = 35 /\ table[2][2] = 25 /\ table[3][2] = 10 /\ table[4][2] = 0
      /\ table[4][1] = 0
  BY <1>1
<1>4. \A n \in 1..4 : n = 1 \/ n = 2 \/ n = 3 \/ n = 4
  OBVIOUS
<1>5. \A n \in 1..4 : table[n][2] \in Int
  BY <1>3, <1>4
<1> QED
  BY <1>1, <1>2, <1>3, <1>5, TierNumber

LEMMA VolumeTier ==
  ASSUME NEW x \in Nat
  PROVE  Tier(x, <<<<25, 30>>, <<20, 24>>, <<1, 10>>, <<0, 0>>>>) \in Int
<1>1. PICK table : table = <<<<25, 30>>, <<20, 24>>, <<1, 10>>, <<0, 0>>>>
  OBVIOUS
<1>2. DOMAIN table = 1..4
  BY <1>1
<1>3. /\ table[1][2] = 30 /\ table[2][2] = 24 /\ table[3][2] = 10 /\ table[4][2] = 0
      /\ table[4][1] = 0
  BY <1>1
<1>4. \A n \in 1..4 : n = 1 \/ n = 2 \/ n = 3 \/ n = 4
  OBVIOUS
<1>5. \A n \in 1..4 : table[n][2] \in Int
  BY <1>3, <1>4
<1> QED
  BY <1>1, <1>2, <1>3, <1>5, TierNumber

LEMMA SpreadTier ==
  ASSUME NEW x \in Int, x >= -3500
  PROVE  Tier(x, <<<<-1500, 35>>, <<-2500, 25>>, <<-3500, 10>>, <<Lowest, 0>>>>) \in Int
<1> DEFINE table == <<<<-1500, 35>>, <<-2500, 25>>, <<-3500, 10>>, <<Lowest, 0>>>>
<1>1. DOMAIN table = 1..4
  OBVIOUS
<1>2. /\ table[1][2] = 35 /\ table[2][2] = 25 /\ table[3][2] = 10 /\ table[4][2] = 0
      /\ table[3][1] = -3500
  OBVIOUS
<1> HIDE DEF table
<1>3. \A n \in 1..4 : n = 1 \/ n = 2 \/ n = 3 \/ n = 4
  OBVIOUS
<1>4. \A n \in 1..4 : table[n][2] \in Int
  BY <1>2, <1>3
<1>5. Tier(x, table) \in Int
  BY <1>1, <1>2, <1>4, TierNumber
<1> QED
  BY <1>5 DEF table

LEMMA FilingTier ==
  ASSUME NEW x \in Int, x >= Lowest
  PROVE  Tier(x, <<<<-5, 15>>, <<-10, 10>>, <<-20, 5>>, <<Lowest, 0>>>>) \in Int
<1>1. PICK table : table = <<<<-5, 15>>, <<-10, 10>>, <<-20, 5>>, <<Lowest, 0>>>>
  OBVIOUS
<1>2. DOMAIN table = 1..4
  BY <1>1
<1>3. /\ table[1][2] = 15 /\ table[2][2] = 10 /\ table[3][2] = 5 /\ table[4][2] = 0
      /\ table[4][1] = Lowest
  BY <1>1
<1>4. \A n \in 1..4 : n = 1 \/ n = 2 \/ n = 3 \/ n = 4
  OBVIOUS
<1>5. \A n \in 1..4 : table[n][2] \in Int
  BY <1>3, <1>4
<1> QED
  BY <1>1, <1>2, <1>3, <1>5, TierNumber

LEMMA SpreadNumber ==
  ASSUME NEW c \in Quote
  PROVE  SpreadPercent(c) \subseteq Int /\ \A s, u \in SpreadPercent(c) : s = u
<1>1. c.bid \in Int /\ c.ask \in Int /\ c.mid \in Int
  BY DEF Quote
<1>2. CASE SpreadPercent(c) = {}
  BY <1>2
<1>3. CASE SpreadPercent(c) # {}
  <2>1. c.bid + c.ask \in Int
    BY <1>1
  <2>2. OptionMid(c) \in Int
    BY <1>1, <2>1, Quotients DEF OptionMid, None
  <2>3. OptionMid(c) > 0
    BY <1>3, <2>2 DEF SpreadPercent
  <2>4. PICK a \in Int, b \in Nat \ {0} : a = (c.ask - c.bid) * 10000 /\ b = OptionMid(c)
    BY <1>1, <2>2, <2>3
  <2>5. SpreadPercent(c) = {a \div b} /\ a \div b \in Int
    BY <1>3, <2>4, Quotients DEF SpreadPercent
  <2> QED
    BY <2>5
<1> QED
  BY <1>2, <1>3

\* A liquid quote has a quality.
LEMMA LiquidQuality ==
  ASSUME NEW c \in Quote, NEW s \in Int, s \in SpreadPercent(c), s <= 3500
  PROVE  LiquidityQuality(c) \in 0..100
<1>1. c.oi \in Int /\ c.volume \in Int
  BY DEF Quote
<1>2. SpreadPercent(c) # {} /\ (CHOOSE x \in SpreadPercent(c) : TRUE) = s
  BY SpreadNumber
<1>3. PICK i \in Int : i = Tier(Nz(c.oi), <<<<100, 35>>, <<50, 25>>, <<1, 10>>, <<0, 0>>>>)
  BY <1>1, NzNumber, OpenInterestTier
<1>4. PICK j \in Int : j = Tier(Nz(c.volume), <<<<25, 30>>, <<20, 24>>, <<1, 10>>, <<0, 0>>>>)
  BY <1>1, NzNumber, VolumeTier
<1>5. PICK k \in Int :
        k = Tier(-s, <<<<-1500, 35>>, <<-2500, 25>>, <<-3500, 10>>, <<Lowest, 0>>>>)
  <2>1. -s \in Int /\ -s >= -3500
    OBVIOUS
  <2> QED
    BY <2>1, SpreadTier
<1>6. LiquidityQuality(c) = Bound(i + j + k, 0, 100)
  BY <1>2, <1>3, <1>4, <1>5 DEF LiquidityQuality
<1>7. PICK x \in Int : x = i + j + k
  OBVIOUS
<1>8. PICK high \in Nat : high = 100
  OBVIOUS
<1>9. Bound(x, 0, high) \in 0..high
  BY BoundNumber
<1> QED
  BY <1>6, <1>7, <1>8, <1>9

Tight(c) == \E s \in SpreadPercent(c) : s <= 3500

LEMMA TightQuality ==
  ASSUME NEW c \in Quote, Tight(c) PROVE LiquidityQuality(c) \in 0..100
<1>1. PICK s \in Int : s \in SpreadPercent(c) /\ s <= 3500
  BY SpreadNumber DEF Tight
<1> QED
  BY <1>1, LiquidQuality

LEMMA ChainLiquidity ==
  ASSUME NEW chain \in Seq(Quote), NEW today \in Int
  PROVE  OptionLiquidity(chain, today) \subseteq Int
<1> DEFINE usable == {c \in Range(chain) :
                        /\ c.type = "call" /\ c.side = "long"
                        /\ today < c.expiry /\ c.expiry <= today + 45
                        /\ ~c.stale /\ OptionPremium(c) # None
                        /\ \E s \in SpreadPercent(c) : s <= 3500
                        /\ c.oi > 0 \/ c.volume > 0}
           qualities == {LiquidityQuality(c) : c \in usable}
<1>1. OptionLiquidity(chain, today)
        = {q \in {Max(qualities \cup {0})} : usable # {} /\ q >= 45}
  BY DEF OptionLiquidity
<1>2. qualities \subseteq 0..100
  <2>1. \A q \in qualities : \E c \in usable : q = LiquidityQuality(c)
    OBVIOUS
  <2>2. \A c \in usable : c \in Quote /\ Tight(c)
    BY ListMembers DEF Tight
  <2> HIDE DEF usable, qualities
  <2>3. ASSUME NEW c \in usable PROVE LiquidityQuality(c) \in 0..100
    BY <2>2, TightQuality
  <2> QED
    BY <2>1, <2>3
<1>3. IsFiniteSet(0..100)
  <2>1. 0 \in Int /\ 100 \in Int
    OBVIOUS
  <2> QED
    BY <2>1, FS_Interval
<1> HIDE DEF qualities
<1>4. IsFiniteSet(qualities)
  BY <1>2, <1>3, FS_Subset
<1>5. IsFiniteSet(qualities \cup {0}) /\ qualities \cup {0} \subseteq Int /\ qualities \cup {0} # {}
  BY <1>2, <1>4, FS_AddElement
<1>6. Max(qualities \cup {0}) \in Int
  BY <1>5, GreatestMember
<1> QED
  BY <1>1, <1>6

LEMMA Excess ==
  ASSUME NEW p \in Int, NEW limit \in Int, NEW least \in Int
  PROVE  Nz(Min({p, limit}) - least) \in Int
<1>1. PICK m \in Int : m = Min({p, limit})
  BY MinOfTwo
<1>2. Nz(m - least) \in Nat
  BY NzNumber
<1> QED
  BY <1>1, <1>2

LEMMA EventScores ==
  ASSUME NEW f \in Filed, f.day - Today >= Lowest, NEW s \in ActivistMarket, NEW quality \in Int,
         NEW until
  PROVE  EventScore(f, s, quality, until, Today) \in Int
<1>1. /\ f.stake \subseteq Int /\ f.day \in Int /\ f.quality \in Int
      /\ s.relativeVolume \subseteq Int /\ s.five \subseteq Int /\ s.one \subseteq Int
  BY DEF Filed, ActivistMarket
<1>2. \A S \in SUBSET Int : S # {} => The(S) \in Int
  BY DEF The
<1>3. PICK a \in Int : a = IF f.stake = {} THEN 0 ELSE Min({1000, Nz(The(f.stake))})
  BY <1>1, <1>2, NzNumber, MinOfTwo
<1>4. PICK b \in Int : b = IF f.intent THEN 15 ELSE 0
  OBVIOUS
<1>5. PICK c \in Int :
        c = Tier(f.day - Today, <<<<-5, 15>>, <<-10, 10>>, <<-20, 5>>, <<Lowest, 0>>>>)
  <2>1. f.day - Today \in Int
    BY <1>1, Bounds
  <2> QED
    BY <2>1, FilingTier
<1>6. PICK d \in Int :
        d = IF s.relativeVolume = {} THEN 0
            ELSE Nz(Min({The(s.relativeVolume), 40000}) - 10000)
  BY <1>1, <1>2, Excess
<1>7. PICK e \in Int : e = IF s.five = {} THEN 0 ELSE Nz(Min({The(s.five), 1000}))
  BY <1>1, <1>2, NzNumber, MinOfTwo
<1>8. PICK g \in Int : g = Min({100, quality})
  BY MinOfTwo
<1>9. PICK h \in Int : h = IF \E n \in until : n <= 5 THEN 10 ELSE 0
  OBVIOUS
<1>10. PICK i \in Int : i = IF s.one = {} THEN 0 ELSE Nz(Min({The(s.one), 3000}) - 1000)
  BY <1>1, <1>2, Excess
<1>11. PICK j \in Int : j = IF s.sector \in TechnologySector THEN 8 ELSE 0
  OBVIOUS
<1>12. PICK k \in Int : k = f.quality
  BY <1>1
<1>13. PICK x \in Int : x = 240 * a + 12000 * b + 12000 * c + 12000 * k + 4 * d + 120 * e + 600 * g
                            - (12000 * h + 90 * i + 12000 * j)
  OBVIOUS
<1>14. EventScore(f, s, quality, until, Today) = Bound(x, 0, 1200000)
  <2> DEFINE Of(S, Points(_)) == IF S = {} THEN 0 ELSE Points(The(S))
             tier == Tier(f.day - Today, <<<<-5, 15>>, <<-10, 10>>, <<-20, 5>>, <<Lowest, 0>>>>)
             positive == 240 * Of(f.stake, LAMBDA p : Min({1000, Nz(p)}))
                         + 12000 * (IF f.intent THEN 15 ELSE 0) + 12000 * tier
                         + 12000 * f.quality
                         + 4 * Of(s.relativeVolume, LAMBDA v : Nz(Min({v, 40000}) - 10000))
                         + 120 * Of(s.five, LAMBDA r : Nz(Min({r, 1000})))
                         + 600 * Min({100, quality})
             penalty == 12000 * (IF \E n \in until : n <= 5 THEN 10 ELSE 0)
                        + 90 * Of(s.one, LAMBDA r : Nz(Min({r, 3000}) - 1000))
                        + 12000 * (IF s.sector \in TechnologySector THEN 8 ELSE 0)
  <2>1. EventScore(f, s, quality, until, Today) = Bound(positive - penalty, 0, 1200000)
    BY DEF EventScore
  <2>2. positive = 240 * a + 12000 * b + 12000 * c + 12000 * k + 4 * d + 120 * e + 600 * g
    BY <1>3, <1>4, <1>5, <1>6, <1>7, <1>8, <1>12
  <2>3. penalty = 12000 * h + 90 * i + 12000 * j
    BY <1>9, <1>10, <1>11
  <2> QED
    BY <1>13, <2>1, <2>2, <2>3
<1>15. PICK high \in Nat : high = 1200000
  OBVIOUS
<1>16. Bound(x, 0, high) \in Int
  BY BoundNumber
<1> QED
  BY <1>14, <1>15, <1>16

\* The filings whose company can be followed.
Followed(x) == {f \in Filed : f \in Range(x.filings) /\ f.ticker # "none"}
Selected(x) == [filing : Followed(x), tier : 1..3]

LEMMA FollowedFilings ==
  ASSUME NEW x \in ActivistWorld, NEW tier, NEW form, NEW today, NEW n
  PROVE  Filings(x, tier, form, today, n) \in Seq(Followed(x))
<1> DEFINE headers == Headers(x, tier, form, today, n)
           I == {i \in DOMAIN x.filings :
                   /\ x.filings[i].form = form /\ today - CalendarDays(today, n) <= x.filings[i].day
                   /\ x.filings[i].day <= today}
           J == {i \in DOMAIN headers :
                   /\ headers[i].ticker # "none" /\ headers[i].accession \in x.readable[tier]
                   /\ ParseFiling(headers[i])}
<1>1. x.filings \in Seq(Filed)
  BY ActivistAssumption
<1>2. PICK filings \in Seq(Filed) : filings = x.filings
  BY <1>1
<1>3. headers \in Seq(Filed) /\ Range(headers) \subseteq Range(filings)
  <2>1. CASE ~SecAnswers(x.refusals[tier])
    <3>1. headers = << >>
      BY <2>1 DEF Headers
    <3>2. PICK e \in Seq({}) : e = << >> /\ Range(e) = {}
      BY NoRows
    <3>3. e \in Seq(Filed)
      BY <3>2, Retyped
    <3> QED
      BY <3>1, <3>2, <3>3
  <2>2. CASE SecAnswers(x.refusals[tier])
    <3>1. headers = Kept(x.filings, I)
      BY <2>2 DEF Headers, Where
    <3>2. PICK K : K = I
      OBVIOUS
    <3>3. K \in SUBSET (1..Len(filings))
      BY <1>2, <3>2, ListMembers
    <3>4. Kept(filings, K) \in Seq(Filed) /\ Range(Kept(filings, K)) = {filings[i] : i \in K}
      BY <3>3, KeptRange
    <3>5. \A i \in K : filings[i] \in Range(filings)
      BY <3>3, ListMembers
    <3> QED
      BY <1>2, <3>1, <3>2, <3>4, <3>5
  <2> QED
    BY <2>1, <2>2
<1>4. Filings(x, tier, form, today, n) = Kept(headers, J)
  BY DEF Filings, ParseHeaders, Where
<1>5. J \in SUBSET (1..Len(headers))
  BY <1>3, ListMembers
<1>6. \A i \in J : headers[i].ticker # "none"
  OBVIOUS
<1> HIDE DEF headers, J
<1>7. Kept(headers, J) \in Seq(Filed) /\ Range(Kept(headers, J)) = {headers[i] : i \in J}
  BY <1>3, <1>5, KeptRange
<1>8. \A f \in Range(Kept(headers, J)) : f \in Followed(x)
  <2>1. \A i \in J : headers[i] \in Filed /\ headers[i] \in Range(headers)
    BY <1>3, <1>5, ListMembers
  <2> QED
    BY <1>2, <1>3, <1>6, <1>7, <2>1 DEF Followed
<1> QED
  BY <1>4, <1>7, <1>8, Retyped

LEMMA TierTaken ==
  ASSUME NEW x, NEW selected \in Seq(Selected(x)), NEW limit, NEW tier \in 1..3,
         NEW filings \in Seq(Followed(x))
  PROVE  WithTier(selected, limit, tier, filings) \in Seq(Selected(x))
<1> DEFINE existing == {e.filing.accession : e \in Range(selected)}
           I == {i \in DOMAIN filings :
                   filings[i].accession \notin existing /\ IsSubstantive(filings[i])}
           taken == Kept(filings, I)
           more == [i \in DOMAIN taken |-> [filing |-> taken[i], tier |-> tier]]
<1>1. I \in SUBSET (1..Len(filings))
  BY ListMembers
<1>2. WithTier(selected, limit, tier, filings)
        = IF tier > 1 /\ Len(selected) >= limit THEN selected ELSE selected \o more
  BY DEF WithTier, Where
<1> HIDE DEF I
<1>3. taken \in Seq(Followed(x))
  BY <1>1, KeptRange
<1> HIDE DEF taken
<1>4. PICK n \in Nat : n = Len(taken) /\ DOMAIN taken = 1..n
  BY <1>3, ListMembers
<1>5. \A i \in 1..n : taken[i] \in Followed(x)
  BY <1>3, <1>4, ListMembers
<1>6. more \in [1..n -> Selected(x)]
  BY <1>4, <1>5 DEF Selected
<1> HIDE DEF more
<1>7. more \in Seq(Selected(x))
  BY <1>6, Mapped
<1>8. selected \o more \in Seq(Selected(x))
  BY <1>7, ConcatProperties
<1> QED
  BY <1>2, <1>8

LEMMA SelectedFilings ==
  ASSUME NEW x \in ActivistWorld, NEW limit, NEW today
  PROVE  SelectFilings(x, limit, today) \in Seq(Selected(x))
<1>1. PICK none \in Seq(Selected(x)) : none = << >>
  <2>1. << >> \in Seq(Selected(x))
    BY EmptySeq
  <2> QED
    BY <2>1
<1>2. 1 \in 1..3 /\ 2 \in 1..3 /\ 3 \in 1..3
  OBVIOUS
<1>3. PICK one \in Seq(Selected(x)) :
        one = WithTier(none, limit, 1, Filings(x, 1, "SC 13D", today, 5))
  BY <1>2, FollowedFilings, TierTaken
<1>4. PICK two \in Seq(Selected(x)) :
        two = WithTier(one, limit, 2, Filings(x, 2, "SC 13D/A", today, 10))
  BY <1>2, FollowedFilings, TierTaken
<1>5. WithTier(two, limit, 3, Filings(x, 3, "SC 13D", today, 20)) \in Seq(Selected(x))
  BY <1>2, FollowedFilings, TierTaken
<1> QED
  BY <1>1, <1>3, <1>4, <1>5 DEF SelectFilings

ActivistRow ==
  [ticker : STRING, company : BOOLEAN, cap : Int, price : Int, change : SUBSET Int,
   sector : STRING, day : Int, verified : BOOLEAN, rank : Int, from : {{"sec_edgar"}},
   event : SUBSET [score : Int, supportive : BOOLEAN]]
EventRow == [score : Int, record : ActivistRow]

LEMMA EnrichedFilings ==
  ASSUME NEW x \in ActivistWorld, NEW e \in Selected(x)
  PROVE  EnrichFiling(e, x, Today) \subseteq EventRow
<1>1. PICK f \in Filed : f = e.filing /\ f \in Range(x.filings) /\ f.ticker # "none"
  BY DEF Selected, Followed
<1>2. PICK t \in STRING : t = f.ticker
  BY DEF Filed
<1>3. f.day - Today >= Lowest /\ x.market[t] \in SUBSET ActivistMarket /\ x.chain[t] \in Seq(Quote)
  BY <1>1, <1>2, ActivistAssumption
<1>4. ASSUME NEW r \in EnrichFiling(e, x, Today) PROVE r \in EventRow
  <2>0. PICK until : until = {day - Today : day \in NextEarnings(x, t, Today)}
    OBVIOUS
  <2>1. PICK p \in x.market[t] \X OptionLiquidity(x.chain[t], Today) :
          r = [score |-> EventScore(f, p[1], p[2], until, Today),
               record |-> RecordFor(t, p[1], EventScore(f, p[1], p[2], until, Today))]
    BY <1>1, <1>2, <1>4, <2>0 DEF EnrichFiling
  <2>2. OptionLiquidity(x.chain[t], Today) \subseteq Int
    BY <1>3, ChainLiquidity, Bounds
  <2>3. PICK s \in ActivistMarket : s = p[1]
    BY <1>3
  <2>4. PICK quality \in Int : quality = p[2]
    BY <2>2
  <2>5. PICK score \in Int : score = EventScore(f, s, quality, until, Today)
    BY <1>3, EventScores
  <2>6. PICK points \in Int : points = score \div 12000
    BY Quotients
  <2>7. r = [score |-> score,
             record |-> [ticker |-> t, company |-> TRUE, cap |-> s.cap, price |-> s.price,
                         change |-> s.one, sector |-> s.sector, day |-> NoDay, verified |-> FALSE,
                         rank |-> None, from |-> {"sec_edgar"},
                         event |-> {[score |-> points, supportive |-> TRUE]}]]
    BY <2>1, <2>3, <2>4, <2>5, <2>6 DEF RecordFor
  <2>8. PICK event \in SUBSET [score : Int, supportive : BOOLEAN] :
          event = {[score |-> points, supportive |-> TRUE]}
    <3>1. {[score |-> points, supportive |-> TRUE]} \in SUBSET [score : Int, supportive : BOOLEAN]
      OBVIOUS
    <3> QED
      BY <3>1
  <2>9. /\ NoDay \in Int /\ None \in Int /\ s.cap \in Int /\ s.price \in Int
         /\ s.one \in SUBSET Int /\ s.sector \in STRING
    BY DEF NoDay, None, ActivistMarket
  <2>10. PICK record \in ActivistRow :
           record = [ticker |-> t, company |-> TRUE, cap |-> s.cap, price |-> s.price,
                     change |-> s.one, sector |-> s.sector, day |-> NoDay, verified |-> FALSE,
                     rank |-> None, from |-> {"sec_edgar"}, event |-> event]
    BY <2>9 DEF ActivistRow
  <2>11. r = [score |-> score, record |-> record]
    BY <2>7, <2>8, <2>10
  <2> QED
    BY <2>11 DEF EventRow
<1> QED
  BY <1>4

\* The activist arm offers what it read at the SEC.
LEMMA ActivistWell ==
  ASSUME NEW x \in ActivistWorld, NEW report, report = ActivistReport(x, Limit, Today)
  PROVE  /\ IsReport(report)
         /\ \A r \in Range(report.rows) : r.from = {"sec_edgar"}
<1> DEFINE selected == SelectFilings(x, Limit, Today)
           some == [i \in DOMAIN selected |-> EnrichFiling(selected[i], x, Today)]
           rows == Present(some)
           key == [i \in DOMAIN rows |-> rows[i].score]
           sorted == Sorted(rows, key)
           records == [i \in DOMAIN sorted |-> sorted[i].record]
           once == WithoutRepeatedTickers(records)
           best == First(once, Limit)
<1>1. report = Reported(best)
  BY DEF ActivistReport, TopUniqueByTicker, ActivistRows, Descending
<1>2. selected \in Seq(Selected(x))
  BY SelectedFilings
<1> HIDE DEF selected
<1>3. PICK n \in Nat : n = Len(selected) /\ DOMAIN selected = 1..n
  BY <1>2, ListMembers
<1>4. ASSUME NEW i \in 1..n PROVE some[i] \in SUBSET EventRow
  <2>1. PICK e \in Selected(x) : e = selected[i]
    BY <1>2, <1>3, ListMembers
  <2>2. EnrichFiling(e, x, Today) \in SUBSET EventRow
    BY EnrichedFilings
  <2> QED
    BY <1>3, <2>1, <2>2
<1>5. some \in [1..n -> SUBSET EventRow]
  BY <1>3, <1>4
<1> HIDE DEF some
<1>6. some \in Seq(SUBSET EventRow)
  BY <1>5, Mapped
<1>7. rows \in Seq(EventRow)
  BY <1>6, PresentOf
<1> HIDE DEF rows
<1>8. \A i \in 1..Len(rows) : rows[i] \in EventRow /\ i \in DOMAIN rows
  BY <1>7, ListMembers
<1>9. \A i \in 1..Len(rows) : key[i] \in Int
  BY <1>8 DEF EventRow
<1> HIDE DEF key
<1>10. sorted \in Seq(EventRow)
  BY <1>7, <1>9, SortedRange
<1> HIDE DEF sorted
<1>11. PICK m \in Nat : m = Len(sorted) /\ DOMAIN sorted = 1..m
  BY <1>10, ListMembers
<1>12. \A i \in 1..m : sorted[i] \in EventRow
  BY <1>10, <1>11, ListMembers
<1>13. records \in [1..m -> ActivistRow]
  BY <1>11, <1>12 DEF EventRow
<1> HIDE DEF records
<1>14. records \in Seq(ActivistRow)
  BY <1>13, Mapped
<1>15. once \in Seq(ActivistRow)
  BY <1>14, TickersOnce
<1> HIDE DEF once
<1>16. best \in Seq(ActivistRow) /\ Len(best) <= Limit
  BY <1>15, FirstOf, Bounds
<1> HIDE DEF best
<1>17. \A r \in Range(best) : r \in ActivistRow
  BY <1>16, ListMembers
<1> QED
  BY <1>1, <1>16, <1>17, ReportedWell DEF ActivistRow

-----------------------------------------------------------------------------
(* The catalysts.  A day is verified when all the sources that say one say   *)
(* the same.                                                                *)

LEMMA Undated ==
  ASSUME NEW records, NEW fallback, \A i \in DOMAIN records : records[i].day = NoDay
  PROVE  ResolveDate(records, fallback) = {[day |-> d, verified |-> FALSE] : d \in fallback}
BY DEF ResolveDate

\* The place of a record that the most agree with.
DatedPlaces(records) == {i \in DOMAIN records : records[i].day # NoDay}
Agreeing(records, i) == {j \in DatedPlaces(records) : records[j].day = records[i].day}
Best(records) ==
  Min({i \in DatedPlaces(records) : \A j \in DatedPlaces(records) :
         Cardinality(Agreeing(records, j)) <= Cardinality(Agreeing(records, i))})

LEMMA BestSupported ==
  ASSUME NEW n \in Nat, NEW records, DOMAIN records = 1..n, DatedPlaces(records) # {}
  PROVE  /\ Best(records) \in DatedPlaces(records)
         /\ \A i \in DatedPlaces(records) : IsFiniteSet(Agreeing(records, i))
<1> DEFINE I == DatedPlaces(records)
           support == [i \in I |-> Cardinality(Agreeing(records, i))]
           B == {i \in I : \A j \in I :
                   Cardinality(Agreeing(records, j)) <= Cardinality(Agreeing(records, i))}
<1>1. IsFiniteSet(1..n)
  <2>1. 1 \in Int /\ n \in Int
    OBVIOUS
  <2> QED
    BY <2>1, FS_Interval
<1>2. I \subseteq 1..n
  BY DEF DatedPlaces
<1>3. IsFiniteSet(I) /\ I \subseteq Int
  BY <1>1, <1>2, FS_Subset
<1>4. \A i \in I : Agreeing(records, i) \subseteq I
  BY DEF Agreeing
<1>5. \A i \in I : IsFiniteSet(Agreeing(records, i))
  BY <1>3, <1>4, FS_Subset
<1>6. \A i \in I : support[i] \in Int
  BY <1>5, FS_CardinalityType
<1>7. B \in SUBSET I /\ \A i \in I : i \in B <=> \A j \in I : support[j] <= support[i]
  OBVIOUS
<1>8. Best(records) = Min(B)
  BY DEF Best
<1> HIDE DEF I, support, B
<1>9. Min(B) \in B
  BY <1>3, <1>6, <1>7, BestMember DEF I
<1> QED
  BY <1>5, <1>7, <1>8, <1>9 DEF I

LEMMA Resolved ==
  ASSUME NEW records, NEW fallback, DatedPlaces(records) # {}
  PROVE  ResolveDate(records, fallback)
           = IF \/ Cardinality({records[i].day : i \in DatedPlaces(records)}) = 1
                \/ Cardinality(Agreeing(records, Best(records))) >= 2
             THEN {[day |-> records[Best(records)].day, verified |-> TRUE]}
             ELSE {[day |-> d, verified |-> FALSE] : d \in fallback}
BY DEF ResolveDate, FirstBest, DatedPlaces, Agreeing, Best

LEMMA Agreed ==
  ASSUME NEW n \in Nat, NEW records, DOMAIN records = 1..n, NEW fallback, NEW day, day # NoDay,
         \A i \in 1..n : records[i].day \in {day, NoDay}, NEW m \in 1..n, records[m].day = day
  PROVE  ResolveDate(records, fallback) = {[day |-> day, verified |-> TRUE]}
<1>1. DatedPlaces(records) # {} /\ \A i \in DatedPlaces(records) : records[i].day = day
  BY DEF DatedPlaces
<1>2. {records[i].day : i \in DatedPlaces(records)} = {day}
  BY <1>1
<1>3. Cardinality({records[i].day : i \in DatedPlaces(records)}) = 1
  BY <1>2, FS_Singleton
<1>4. records[Best(records)].day = day
  BY <1>1, BestSupported
<1> QED
  BY <1>1, <1>3, <1>4, Resolved

LEMMA Disputed ==
  ASSUME NEW n \in Nat, NEW records, DOMAIN records = 1..n, NEW fallback,
         NEW i \in 1..n, NEW j \in 1..n,
         records[i].day # NoDay, records[j].day # NoDay, records[i].day # records[j].day,
         \A k \in 1..n : k # i /\ k # j => records[k].day = NoDay
  PROVE  ResolveDate(records, fallback) = {[day |-> d, verified |-> FALSE] : d \in fallback}
<1>1. DatedPlaces(records) = {i, j}
  BY DEF DatedPlaces
<1>2. {records[k].day : k \in DatedPlaces(records)} = {records[i].day, records[j].day}
  BY <1>1
<1>3. Cardinality({records[i].day, records[j].day}) # 1
  <2>1. PICK S : S = {records[i].day, records[j].day}
    OBVIOUS
  <2>2. ~ \E x : S = {x}
    BY <2>1
  <2>3. IsFiniteSet(S)
    <3>1. IsFiniteSet({records[i].day})
      BY FS_Singleton
    <3>2. IsFiniteSet({records[i].day} \cup {records[j].day})
      BY <3>1, FS_AddElement
    <3>3. S = {records[i].day} \cup {records[j].day}
      BY <2>1
    <3> QED
      BY <3>2, <3>3
  <2>4. Cardinality(S) # 1
    BY <2>2, <2>3, FS_Singleton
  <2> QED
    BY <2>1, <2>4
<1>4. PICK b \in {i, j} : b = Best(records)
  BY <1>1, BestSupported
<1>5. Agreeing(records, b) = {b}
  BY <1>1 DEF Agreeing
<1>6. Cardinality(Agreeing(records, Best(records))) = 1
  BY <1>4, <1>5, FS_Singleton
<1>7. /\ Cardinality({records[k].day : k \in DatedPlaces(records)}) # 1
      /\ ~(Cardinality(Agreeing(records, Best(records))) >= 2)
  <2>1. ~(1 >= 2)
    OBVIOUS
  <2> QED
    BY <1>2, <1>3, <1>6, <2>1
<1>8. DatedPlaces(records) # {}
  BY <1>1
<1> QED
  BY <1>7, <1>8, Resolved

\* y is x with another day, that is not verified.
Redated(x, y, day) ==
  y.ticker = x.ticker /\ y.from = x.from /\ y.day = day /\ ~y.verified

LEMMA Reconciled ==
  ASSUME NEW records, NEW fallback, NEW x \in ReconcileAll(records, fallback)
  PROVE  /\ \E d \in ResolveDate(records, fallback) : x.day = d.day /\ x.verified = d.verified
         /\ x.ticker = records[1].ticker /\ x.from = UNION {n.from : n \in Range(records)}
         /\ \A start : Redated(x, [x EXCEPT !.day = start, !.verified = FALSE], start)
<1>1. PICK d \in ResolveDate(records, fallback) : \E company, cap, price, change, sector :
        x = [ticker |-> records[1].ticker, company |-> company, cap |-> cap, price |-> price,
             change |-> change, sector |-> sector, day |-> d.day, verified |-> d.verified,
             rank |-> records[1].rank, from |-> UNION {n.from : n \in Range(records)},
             event |-> {}]
  BY DEF ReconcileAll
<1>2. PICK ticker, from, rank, day, verified :
        /\ ticker = records[1].ticker /\ from = UNION {n.from : n \in Range(records)}
        /\ rank = records[1].rank /\ day = d.day /\ verified = d.verified
  OBVIOUS
<1>3. PICK company, cap, price, change, sector :
        x = [ticker |-> ticker, company |-> company, cap |-> cap, price |-> price,
             change |-> change, sector |-> sector, day |-> day, verified |-> verified,
             rank |-> rank, from |-> from, event |-> {}]
  BY <1>1, <1>2
<1>4. x.day = day /\ x.verified = verified /\ x.ticker = ticker /\ x.from = from
  BY <1>3
<1>5. ASSUME NEW start PROVE Redated(x, [x EXCEPT !.day = start, !.verified = FALSE], start)
  <2>1. PICK y : y = [x EXCEPT !.day = start, !.verified = FALSE]
    OBVIOUS
  <2>2. y.ticker = ticker /\ y.from = from
    BY <1>3, <2>1
  <2>3. y.day = start /\ ~y.verified
    BY <1>3, <2>1
  <2> QED
    BY <1>4, <2>1, <2>2, <2>3 DEF Redated
<1> QED
  BY <1>2, <1>4, <1>5

\* What the sources say of tickers, once the calendar dates Finnhub's records.
SourceWell(source, name, tickers) ==
  /\ DOMAIN source = tickers
  /\ \A t \in tickers : \A r, u \in source[t] :
       u = r /\ r \in CandidateRow /\ r.ticker = t /\ r.from = {name}
DetailsWell(d, known, tickers) ==
  /\ d = [yfinance |-> d.yfinance, finnhub |-> d.finnhub]
  /\ SourceWell(d.yfinance, "yfinance", tickers) /\ SourceWell(d.finnhub, "finnhub", tickers)
  /\ \A c \in known :
       /\ c \in Seq([ticker : STRING, day : Int])
       /\ \A a \in Range(c) : a.ticker \in tickers /\ \A u \in d.finnhub[a.ticker] : u.day # NoDay

LEMMA WorldWell ==
  ASSUME NEW w \in CatalystWorld
  PROVE  /\ w = [yfinance |-> w.yfinance, finnhub |-> w.finnhub]
         /\ SourceWell(w.yfinance, "yfinance", DOMAIN w.yfinance)
         /\ SourceWell(w.finnhub, "finnhub", DOMAIN w.yfinance)
<1>1. PICK y, f, D : y = w.yfinance /\ f = w.finnhub /\ D = DOMAIN w.yfinance
  OBVIOUS
<1>2. w = [yfinance |-> y, finnhub |-> f] /\ DOMAIN f = D /\ DOMAIN y = D
  BY <1>1, CatalystAssumption
<1>3. w["yfinance"] = y /\ w["finnhub"] = f
  BY <1>2
<1>4. "yfinance" \in Range(Sources) /\ "finnhub" \in Range(Sources)
  BY DEF Sources, Range
<1>5. \A n \in Range(Sources) : \A t \in DOMAIN w[n] : \A r, u \in w[n][t] :
        u = r /\ r \in CandidateRow /\ r.ticker = t /\ r.from = {n}
  BY CatalystAssumption
<1>6. SourceWell(y, "yfinance", D) /\ SourceWell(f, "finnhub", D)
  BY <1>2, <1>3, <1>4, <1>5 DEF SourceWell
<1> QED
  BY <1>1, <1>2, <1>6

\* The day that a calendar gives a ticker.
AnnouncedDay(c, t) ==
  IF \E i \in DOMAIN c : c[i].ticker = t THEN (CHOOSE e \in Range(c) : e.ticker = t).day ELSE NoDay

LEMMA DatedDetails ==
  ASSUME NEW w \in CatalystWorld, NEW known \in Calendar, NEW d, d = Dated(w, known)
  PROVE  DetailsWell(d, known, DOMAIN w.yfinance)
<1> DEFINE f == [t \in DOMAIN w.finnhub |->
                   {[r EXCEPT !.day = AnnouncedDay(c, t)] : r \in w.finnhub[t], c \in known}]
<1>1. PICK y, g, D : y = w.yfinance /\ g = w.finnhub /\ D = DOMAIN w.yfinance
  OBVIOUS
<1>2. /\ w = [yfinance |-> y, finnhub |-> g]
      /\ SourceWell(y, "yfinance", D) /\ SourceWell(g, "finnhub", D)
  BY <1>1, WorldWell
<1>3. d = [w EXCEPT !.finnhub = f]
  BY DEF Dated, AnnouncedDay
<1>4. d = [yfinance |-> y, finnhub |-> f]
  <2> HIDE DEF f
  <2> QED
    BY <1>2, <1>3
<1>5. \A c, e \in known : e = c /\ c \in Seq([ticker : STRING, day : Int])
                          /\ \A a \in Range(c) : a.day # NoDay
  BY CatalystAssumption
<1>6. \A c \in known : TickersOf(c) \subseteq D
  BY <1>1, CatalystAssumption
<1>7. ASSUME NEW t \in D, NEW u \in f[t]
      PROVE  \E r \in g[t], c \in known : r \in CandidateRow /\ u = [r EXCEPT !.day = AnnouncedDay(c, t)]
  <2>1. t \in DOMAIN w.finnhub
    BY <1>1, <1>2 DEF SourceWell
  <2>2. PICK r \in w.finnhub[t], c \in known : u = [r EXCEPT !.day = AnnouncedDay(c, t)]
    BY <1>7, <2>1
  <2>3. r \in g[t] /\ r \in CandidateRow
    BY <1>1, <1>2, <2>2 DEF SourceWell
  <2> QED
    BY <2>2, <2>3
<1>8. DOMAIN f = D
  BY <1>1, <1>2 DEF SourceWell
<1> HIDE DEF f
<1>9. ASSUME NEW t \in D, NEW c \in known
      PROVE  /\ AnnouncedDay(c, t) \in Int
             /\ (\E a \in Range(c) : a.ticker = t) => AnnouncedDay(c, t) # NoDay
  <2>1. c \in Seq([ticker : STRING, day : Int]) /\ \A a \in Range(c) : a.day # NoDay
    BY <1>5
  <2>2. CASE \E i \in DOMAIN c : c[i].ticker = t
    <3>1. \E e \in Range(c) : e.ticker = t
      BY <2>2 DEF Range
    <3>2. PICK e \in Range(c) : e = CHOOSE a \in Range(c) : a.ticker = t
      BY <3>1
    <3>3. e \in [ticker : STRING, day : Int]
      BY <2>1, ListMembers
    <3>4. e.day \in Int /\ e.day # NoDay
      BY <2>1, <3>3
    <3> QED
      BY <2>2, <3>2, <3>4 DEF AnnouncedDay
  <2>3. CASE ~ \E i \in DOMAIN c : c[i].ticker = t
    <3>1. ~ \E a \in Range(c) : a.ticker = t
      BY <2>3 DEF Range
    <3>2. NoDay \in Int
      BY DEF NoDay
    <3> QED
      BY <2>3, <3>1, <3>2 DEF AnnouncedDay
  <2> QED
    BY <2>2, <2>3
<1>10. ASSUME NEW t \in D, NEW u \in f[t]
       PROVE  /\ u \in CandidateRow /\ u.ticker = t /\ u.from = {"finnhub"}
              /\ \A c \in known : (\E a \in Range(c) : a.ticker = t) => u.day # NoDay
  <2>1. PICK r \in g[t], c \in known : r \in CandidateRow /\ u = [r EXCEPT !.day = AnnouncedDay(c, t)]
    BY <1>7, <1>10
  <2>2. PICK day \in Int :
          u = [r EXCEPT !.day = day] /\ ((\E a \in Range(c) : a.ticker = t) => day # NoDay)
    BY <1>9, <2>1
  <2>3. r.ticker = t /\ r.from = {"finnhub"}
    BY <1>2 DEF SourceWell
  <2>4. u \in CandidateRow /\ u.ticker = r.ticker /\ u.from = r.from /\ u.day = day
    BY <2>1, <2>2 DEF CandidateRow
  <2>5. \A e \in known : e = c
    BY <1>5
  <2> QED
    BY <2>2, <2>3, <2>4, <2>5
<1>11. ASSUME NEW t \in D, NEW u \in f[t], NEW v \in f[t] PROVE u = v
  <2>1. \A r, e \in g[t] : r = e
    BY <1>2 DEF SourceWell
  <2>2. \A c, e \in known : c = e
    BY <1>5
  <2>3. PICK r \in g[t], c \in known : u = [r EXCEPT !.day = AnnouncedDay(c, t)]
    BY <1>7
  <2>4. PICK p \in g[t], q \in known : v = [p EXCEPT !.day = AnnouncedDay(q, t)]
    BY <1>7
  <2>5. p = r /\ q = c
    BY <2>1, <2>2
  <2> QED
    BY <2>3, <2>4, <2>5
<1>12. SourceWell(f, "finnhub", D)
  BY <1>8, <1>10, <1>11 DEF SourceWell
<1>13. d.yfinance = y /\ d.finnhub = f
  BY <1>4
<1>14. ASSUME NEW c \in known
       PROVE  /\ c \in Seq([ticker : STRING, day : Int])
              /\ \A a \in Range(c) : a.ticker \in D /\ \A u \in f[a.ticker] : u.day # NoDay
  <2>1. \A a \in Range(c) : a.ticker \in D
    BY <1>6 DEF TickersOf
  <2> QED
    BY <1>5, <1>10, <2>1
<1> QED
  BY <1>1, <1>2, <1>4, <1>12, <1>13, <1>14 DEF DetailsWell

\* The days that the sources give a ticker.
Days(said, t) == {e[2] : e \in {x \in said : x[1] = t}}

LEMMA SaidDays ==
  ASSUME NEW d, NEW known, NEW tickers, DetailsWell(d, known, tickers), NEW t \in tickers
  PROVE  /\ \A n \in Range(Sources) : \A u \in d[n][t] : u.day # NoDay => u.day \in Days(Said(d), t)
         /\ \A a \in Days(Said(d), t) :
              a # NoDay /\ \E n \in Range(Sources) : \E u \in d[n][t] : u.day = a
<1>1. PICK y, f : y = d.yfinance /\ f = d.finnhub
  OBVIOUS
<1>2. /\ d = [yfinance |-> y, finnhub |-> f]
      /\ SourceWell(y, "yfinance", tickers) /\ SourceWell(f, "finnhub", tickers)
  BY <1>1 DEF DetailsWell
<1>3. Range(Sources) = {"yfinance", "finnhub"}
  BY DEF Sources, Range
<1>4. d["yfinance"] = y /\ d["finnhub"] = f
  BY <1>2
<1>5. DOMAIN d.yfinance = tickers
  BY <1>1, <1>2 DEF SourceWell
<1>6. \A n \in Range(Sources) : \A k \in tickers : \A u \in d[n][k] : u.ticker = k
  BY <1>2, <1>3, <1>4 DEF SourceWell
<1>7. ASSUME NEW n \in Range(Sources), NEW u \in d[n][t], u.day # NoDay
      PROVE  u.day \in Days(Said(d), t)
  <2>1. <<u.ticker, u.day>> \in Said(d)
    BY <1>5, <1>7 DEF Said
  <2>2. PICK e \in Said(d) : e = <<t, u.day>>
    BY <1>6, <2>1
  <2>3. e[1] = t /\ e[2] = u.day
    BY <2>2
  <2> QED
    BY <2>3 DEF Days
<1>8. ASSUME NEW a \in Days(Said(d), t)
      PROVE  a # NoDay /\ \E n \in Range(Sources) : \E u \in d[n][t] : u.day = a
  <2>1. PICK e \in Said(d) : e[1] = t /\ e[2] = a
    BY DEF Days
  <2>2. PICK n \in Range(Sources), k \in tickers :
          \E u \in d[n][k] : u.day # NoDay /\ e = <<u.ticker, u.day>>
    BY <1>5, <2>1 DEF Said
  <2>6. PICK u \in d[n][k] : u.day # NoDay /\ e = <<u.ticker, u.day>>
    BY <2>2
  <2>3. PICK ticker, day : ticker = u.ticker /\ day = u.day
    OBVIOUS
  <2>4. e[1] = ticker /\ e[2] = day
    BY <2>3, <2>6
  <2>5. k = t /\ u.day = a
    BY <1>6, <2>1, <2>3, <2>4
  <2> QED
    BY <2>5, <2>6
<1> QED
  BY <1>7, <1>8

\* What the sources asked say of a ticker.
Answers(d, asked, t) == Present([i \in DOMAIN asked |-> d[asked[i]][t]])

LEMMA Backups ==
  ASSUME NEW d, NEW known, NEW tickers, DetailsWell(d, known, tickers), NEW t \in tickers,
         NEW asked \in Seq(Range(Sources)), NEW b,
         b = Answers(d, asked, t)
  PROVE  /\ b \in Seq(CandidateRow) /\ Len(b) <= Len(asked)
         /\ \A x \in Range(b) : \E n \in Range(asked) : x \in d[n][t] /\ x.from = {n}
         /\ \A n \in Range(asked) : \A u \in d[n][t] : u \in Range(b)
<1> DEFINE some == [i \in DOMAIN asked |-> d[asked[i]][t]]
<1>1. PICK y, f : y = d.yfinance /\ f = d.finnhub
  OBVIOUS
<1>2. /\ d = [yfinance |-> y, finnhub |-> f]
      /\ SourceWell(y, "yfinance", tickers) /\ SourceWell(f, "finnhub", tickers)
  BY <1>1 DEF DetailsWell
<1>3. Range(Sources) = {"yfinance", "finnhub"} /\ d["yfinance"] = y /\ d["finnhub"] = f
  BY <1>2 DEF Sources, Range
<1>4. \A n \in Range(Sources) : \A u, v \in d[n][t] :
        u = v /\ u \in CandidateRow /\ u.from = {n}
  BY <1>2, <1>3 DEF SourceWell
<1>5. PICK m \in Nat : m = Len(asked) /\ DOMAIN asked = 1..m
  BY ListMembers
<1>6. \A i \in 1..m : asked[i] \in Range(asked) /\ asked[i] \in Range(Sources)
  BY <1>5, ListMembers
<1>7. \A i \in 1..m : some[i] = d[asked[i]][t]
  BY <1>5
<1>8. some \in [1..m -> SUBSET CandidateRow]
  <2>1. \A i \in 1..m : d[asked[i]][t] \subseteq CandidateRow
    BY <1>4, <1>6
  <2> QED
    BY <1>5, <2>1
<1>9. b = Present(some)
  BY DEF Answers
<1> HIDE DEF some
<1>10. some \in Seq(SUBSET CandidateRow) /\ Len(some) = m
  BY <1>8, Mapped
<1>11. /\ b \in Seq(CandidateRow)
       /\ \A x \in Range(b) : \E i \in 1..m : x \in some[i]
       /\ \A i \in 1..m : some[i] # {} => \E x \in Range(b) : x \in some[i]
       /\ Len(b) <= m
  BY <1>9, <1>10, PresentOf
<1>12. \A x \in Range(b) : \E n \in Range(asked) : x \in d[n][t] /\ x.from = {n}
  BY <1>4, <1>6, <1>7, <1>11
<1>13. ASSUME NEW n \in Range(asked), NEW u \in d[n][t] PROVE u \in Range(b)
  <2>1. PICK i \in 1..m : asked[i] = n
    BY <1>5, ListMembers
  <2>2. PICK x \in Range(b) : x \in some[i]
    BY <1>7, <1>11, <1>13, <2>1
  <2> QED
    BY <1>4, <1>6, <1>7, <1>13, <2>1, <2>2
<1> QED
  BY <1>5, <1>11, <1>12, <1>13

Records(row, backups) == <<row>> \o backups

LEMMA Headed ==
  ASSUME NEW row, NEW S, NEW b \in Seq(S), NEW records, records = Records(row, b)
  PROVE  /\ DOMAIN records = 1..(Len(b) + 1) /\ records[1] = row
         /\ \A i \in 2..(Len(b) + 1) : i - 1 \in 1..Len(b) /\ records[i] = b[i - 1]
         /\ \A i \in 1..Len(b) : i + 1 \in 2..(Len(b) + 1) /\ records[i + 1] = b[i]
         /\ Range(records) = {row} \cup Range(b)
<1> DEFINE T == {row} \cup Range(b)
           one == [i \in 1..1 |-> row]
<1>1. one = <<row>> /\ one \in [1..1 -> T] /\ 1 \in Nat
  OBVIOUS
<1> HIDE DEF one
<1>2. <<row>> \in Seq(T) /\ Len(<<row>>) = 1
  BY <1>1, Mapped
<1>3. b \in Seq(T)
  BY Retyped
<1>4. PICK h \in Seq(T) : h = <<row>> /\ Len(h) = 1 /\ h[1] = row
  BY <1>2
<1>5. PICK n \in Nat : n = Len(b)
  BY ListMembers
<1>6. /\ records \in Seq(T) /\ Len(records) = n + 1
      /\ \A i \in 1..(n + 1) : records[i] = IF i <= 1 THEN h[i] ELSE b[i - 1]
  BY <1>3, <1>4, <1>5, ConcatProperties DEF Records
<1>7. DOMAIN records = 1..(n + 1) /\ Range(records) \subseteq T
  BY <1>6, ListMembers
<1>8. records[1] = row
  BY <1>4, <1>5, <1>6
<1>9. \A i \in 2..(n + 1) : i - 1 \in 1..n /\ records[i] = b[i - 1]
  BY <1>5, <1>6
<1>10. \A i \in 1..n : i + 1 \in 2..(n + 1) /\ records[i + 1] = b[i]
  BY <1>5, <1>6
<1>11. T \subseteq Range(records)
  <2>1. row \in Range(records)
    BY <1>5, <1>7, <1>8 DEF Range
  <2>2. ASSUME NEW x \in Range(b) PROVE x \in Range(records)
    <3>1. PICK i \in 1..n : b[i] = x
      BY <1>5, ListMembers
    <3>2. i + 1 \in 1..(n + 1) /\ records[i + 1] = b[i]
      BY <1>5, <1>10, <3>1
    <3>3. PICK k \in 1..(n + 1) : records[k] = b[i]
      BY <3>2
    <3>4. PICK m \in DOMAIN records : records[m] = x
      BY <1>7, <3>1, <3>3
    <3> QED
      BY <3>4 DEF Range
  <2> QED
    BY <2>1, <2>2
<1> QED
  BY <1>5, <1>7, <1>8, <1>9, <1>10, <1>11

\* records is row, followed by b.
HeadedBy(records, row, b) ==
  /\ DOMAIN records = 1..(Len(b) + 1) /\ records[1] = row
  /\ \A i \in 2..(Len(b) + 1) : i - 1 \in 1..Len(b) /\ records[i] = b[i - 1]
  /\ \A i \in 1..Len(b) : i + 1 \in 2..(Len(b) + 1) /\ records[i + 1] = b[i]
  /\ Range(records) = {row} \cup Range(b)

LEMMA HeadedList ==
  ASSUME NEW row, NEW S, NEW b \in Seq(S), NEW records, records = Records(row, b)
  PROVE  HeadedBy(records, row, b)
BY Headed DEF HeadedBy

LEMMA WindowStart ==
  Window[1] \in Int /\ InWindow(Window[1], Window)
<1>1. PICK t \in Int : t = Today
  BY Bounds
<1>2. PICK start \in Int : start = t + (7 - (t % 7))
  OBVIOUS
<1>3. Window = <<start, start + 6>>
  BY <1>1, <1>2 DEF Window, NextWeekWindow
<1>4. Window[1] = start /\ Window[2] = start + 6
  BY <1>3
<1> QED
  BY <1>4 DEF InWindow

LEMMA SourcesAsked ==
  ASSUME NEW from, NEW asked,
         asked = Kept(Sources, {i \in DOMAIN Sources : Sources[i] \notin from})
  PROVE  /\ asked \in Seq(Range(Sources))
         /\ from = {"finviz"} => Range(asked) = Range(Sources) /\ Len(asked) = 2
         /\ from = {"finnhub"} => Range(asked) = {"yfinance"} /\ Len(asked) = 1
<1> DEFINE I == {i \in DOMAIN Sources : Sources[i] \notin from}
<1>1. Range(Sources) = {"yfinance", "finnhub"} /\ DOMAIN Sources = 1..2
      /\ Sources[1] = "yfinance" /\ Sources[2] = "finnhub"
  BY DEF Sources, Range
<1>2. Sources \in [1..2 -> Range(Sources)]
  BY <1>1 DEF Sources
<1>3. Sources \in Seq(Range(Sources)) /\ Len(Sources) = 2
  BY <1>2, Mapped
<1>4. I \in SUBSET (1..Len(Sources))
  BY <1>1, <1>3
<1>5. asked = Kept(Sources, I)
  OBVIOUS
<1>6. /\ asked \in Seq(Range(Sources)) /\ Len(asked) = Cardinality(I)
      /\ Range(asked) = {Sources[i] : i \in I}
  <2>1. PICK s, S : s = Sources /\ S = Range(Sources)
    OBVIOUS
  <2>2. PICK J : J = I
    OBVIOUS
  <2>3. s \in Seq(S) /\ J \in SUBSET (1..Len(s))
    BY <1>3, <1>4, <2>1, <2>2
  <2>4. Kept(s, J) \in Seq(S) /\ Len(Kept(s, J)) = Cardinality(J)
    BY <2>3, KeptSequence
  <2>5. Range(Kept(s, J)) = {s[i] : i \in J}
    BY <2>3, KeptRange
  <2> QED
    BY <1>5, <2>1, <2>2, <2>4, <2>5
<1>7. IsFiniteSet(1..2) /\ Cardinality(1..2) = 2
  <2>1. PICK one \in Int, two \in Int : one = 1 /\ two = 2
    OBVIOUS
  <2>2. IsFiniteSet(one..two) /\ Cardinality(one..two) = IF one <= two THEN two - one + 1 ELSE 0
    BY FS_Interval
  <2> QED
    BY <2>1, <2>2
<1>10. from = {"finviz"} => I = 1..2
  BY <1>1
<1>11. from = {"finnhub"} => I = {1}
  BY <1>1
<1> HIDE DEF I
<1>12. from = {"finnhub"} => Cardinality(I) = 1
  BY <1>11, FS_Singleton
<1>9. from = {"finviz"} => Cardinality(I) = 2
  BY <1>7, <1>10
<1>13. from = {"finviz"} => Range(asked) = Range(Sources) /\ Len(asked) = 2
  <2>1. from = {"finviz"} => Range(asked) = {Sources[i] : i \in 1..2}
    BY <1>6, <1>10
  <2>2. {Sources[i] : i \in 1..2} = {Sources[1], Sources[2]}
    OBVIOUS
  <2> QED
    BY <1>1, <1>6, <1>9, <2>1, <2>2
<1>14. from = {"finnhub"} => Range(asked) = {"yfinance"} /\ Len(asked) = 1
  <2>1. from = {"finnhub"} => Range(asked) = {Sources[i] : i \in {1}}
    BY <1>6, <1>11
  <2>2. {Sources[i] : i \in {1}} = {"yfinance"}
    BY <1>1
  <2> QED
    BY <1>6, <1>12, <2>1, <2>2
<1> QED
  BY <1>6, <1>13, <1>14

\* A row is dated by the days that the sources asked give its ticker.
LEMMA DatedBy ==
  ASSUME NEW said, NEW x, NEW t, x.ticker = t, InWindow(x.day, Window),
         \/ x.verified /\ Days(said, t) = {x.day}
         \/ ~x.verified /\ Days(said, t) # {x.day} /\ x.day = Window[1] /\ "finviz" \in x.from
  PROVE  DatedWell(x, said)
BY DEF DatedWell, Days

\* The choice of a day, when there is no second day to dispute it.
LEMMA OneDay ==
  ASSUME NEW n \in Nat, NEW records, DOMAIN records = 1..n, NEW fallback, NEW day, day # NoDay,
         \A i \in 1..n : records[i].day \in {day, NoDay}, \E i \in 1..n : records[i].day = day,
         NEW v \in ResolveDate(records, fallback)
  PROVE  v.day = day /\ v.verified
<1>1. ResolveDate(records, fallback) = {[day |-> day, verified |-> TRUE]}
  BY Agreed
<1> QED
  BY <1>1

LEMMA FallenBack ==
  ASSUME NEW v, NEW start, v \in {[day |-> d, verified |-> FALSE] : d \in {start}}
  PROVE  v.day = start /\ ~v.verified
OBVIOUS

LEMMA NoneOrOneOrTwo ==
  ASSUME NEW D PROVE D = {} \/ (\E day : D = {day}) \/ \E a, c \in D : a # c
<1>1. CASE D # {}
  <2>1. PICK day \in D : TRUE
    BY <1>1
  <2>2. CASE \E c \in D : day # c
    BY <2>1, <2>2
  <2>3. CASE ~ \E c \in D : day # c
    <3>1. D = {day}
      BY <2>1, <2>3
    <3> QED
      BY <3>1
  <2> QED
    BY <2>2, <2>3
<1> QED
  BY <1>1

LEMMA ScreenedDated ==
  ASSUME NEW d, NEW known, NEW tickers, DetailsWell(d, known, tickers),
         NEW row, row.ticker \in tickers, row.from = {"finviz"}, row.day = NoDay,
         NEW x \in ValidateRow(row, d, Window)
  PROVE  DatedWell(x, Said(d)) /\ x.ticker = row.ticker
<1>1. PICK t, start : t = row.ticker /\ start = Window[1]
  OBVIOUS
<1>3. PICK asked \in Seq(Range(Sources)) :
        /\ asked = Kept(Sources, {i \in DOMAIN Sources : Sources[i] \notin row.from})
        /\ Range(asked) = Range(Sources) /\ Len(asked) = 2
  BY SourcesAsked
<1>16. PICK b : b = Answers(d, asked, t)
  OBVIOUS
<1>6. PICK r : r = Records(row, b)
  OBVIOUS
<1>2. PICK y \in ReconcileAll(r, {start}) :
        x = IF InWindow(y.day, Window) THEN y ELSE [y EXCEPT !.day = start, !.verified = FALSE]
  BY <1>1, <1>3, <1>16, <1>6 DEF ValidateRow, Reconcile, Where, Answers, Records
<1>4. /\ b \in Seq(CandidateRow) /\ Len(b) <= 2
      /\ \A e \in Range(b) : \E n \in Range(Sources) : e \in d[n][t]
      /\ \A n \in Range(Sources) : \A u \in d[n][t] : u \in Range(b)
  <2>1. t \in tickers
    BY <1>1
  <2>2. /\ b \in Seq(CandidateRow) /\ Len(b) <= Len(asked)
        /\ \A e \in Range(b) : \E n \in Range(asked) : e \in d[n][t] /\ e.from = {n}
        /\ \A n \in Range(asked) : \A u \in d[n][t] : u \in Range(b)
    <3>1. asked \in Seq(Range(Sources))
      BY <1>3
    <3> QED
      BY <1>16, <2>1, <3>1, Backups
  <2> QED
    BY <1>3, <2>2
<1>5. PICK n \in Nat : n = Len(b) /\ n <= 2
  BY <1>4, ListMembers
<1>7. /\ DOMAIN r = 1..(n + 1) /\ r[1] = row
      /\ \A i \in 2..(n + 1) : i - 1 \in 1..n /\ r[i] = b[i - 1]
      /\ \A i \in 1..n : i + 1 \in 2..(n + 1) /\ r[i + 1] = b[i]
      /\ Range(r) = {row} \cup Range(b)
  <2>1. b \in Seq(CandidateRow)
    BY <1>4
  <2>2. /\ DOMAIN r = 1..(Len(b) + 1) /\ r[1] = row
        /\ \A i \in 2..(Len(b) + 1) : i - 1 \in 1..Len(b) /\ r[i] = b[i - 1]
        /\ \A i \in 1..Len(b) : i + 1 \in 2..(Len(b) + 1) /\ r[i + 1] = b[i]
        /\ Range(r) = {row} \cup Range(b)
    <3>1. HeadedBy(r, row, b)
      BY <1>6, <2>1, HeadedList
    <3> QED
      BY <3>1 DEF HeadedBy
  <2> QED
    BY <1>5, <2>2
<1>8. /\ \E v \in ResolveDate(r, {start}) : y.day = v.day /\ y.verified = v.verified
      /\ y.ticker = t /\ "finviz" \in y.from
      /\ Redated(y, [y EXCEPT !.day = start, !.verified = FALSE], start)
  <2>1. /\ \E v \in ResolveDate(r, {start}) : y.day = v.day /\ y.verified = v.verified
        /\ y.ticker = r[1].ticker /\ y.from = UNION {e.from : e \in Range(r)}
        /\ \A s : Redated(y, [y EXCEPT !.day = s, !.verified = FALSE], s)
    BY <1>2, Reconciled
  <2>2. row \in Range(r)
    BY <1>7
  <2>3. "finviz" \in UNION {e.from : e \in Range(r)}
    BY <2>2
  <2> QED
    BY <1>1, <1>7, <2>1, <2>3
<1>9. PICK v \in ResolveDate(r, {start}) : y.day = v.day /\ y.verified = v.verified
  BY <1>8
<1>10. /\ \A i \in 1..n : b[i].day # NoDay => b[i].day \in Days(Said(d), t)
       /\ \A a \in Days(Said(d), t) : a # NoDay /\ \E i \in 1..n : b[i].day = a
  <2>1. /\ \A m \in Range(Sources) : \A u \in d[m][t] :
             u.day # NoDay => u.day \in Days(Said(d), t)
        /\ \A a \in Days(Said(d), t) :
             a # NoDay /\ \E m \in Range(Sources) : \E u \in d[m][t] : u.day = a
    BY <1>1, SaidDays
  <2>2. /\ \A i \in 1..n : b[i] \in Range(b)
        /\ \A e \in Range(b) : \E i \in 1..n : b[i] = e
    BY <1>4, <1>5, ListMembers
  <2> QED
    BY <1>4, <2>1, <2>2
<1>11. InWindow(start, Window)
  BY <1>1, WindowStart
<1>12. \A i \in 1..(n + 1) : i # 1 => i \in 2..(n + 1)
  BY <1>5
<1>13. CASE Days(Said(d), t) = {}
  <2>1. \A i \in DOMAIN r : r[i].day = NoDay
    BY <1>7, <1>10, <1>12, <1>13
  <2>2. ResolveDate(r, {start}) = {[day |-> a, verified |-> FALSE] : a \in {start}}
    BY <2>1, Undated
  <2>3. v.day = start /\ ~v.verified
    BY <2>2, FallenBack
  <2> QED
    BY <1>1, <1>2, <1>8, <1>9, <1>11, <1>13, <2>3, DatedBy
<1>14. CASE \E day : Days(Said(d), t) = {day}
  <2>1. PICK day : Days(Said(d), t) = {day} /\ day # NoDay
    BY <1>10, <1>14
  <2>2. \A i \in 1..(n + 1) : r[i].day \in {day, NoDay}
    <3>1. \A i \in 1..n : b[i].day \in {day, NoDay}
      BY <1>10, <2>1
    <3> QED
      BY <1>7, <1>12, <3>1
  <2>3. \E i \in 1..(n + 1) : r[i].day = day
    <3>1. PICK i \in 1..n : b[i].day = day
      BY <1>10, <2>1
    <3>2. i + 1 \in 1..(n + 1) /\ r[i + 1].day = day
      BY <1>5, <1>7, <3>1
    <3> QED
      BY <3>2
  <2>4. n + 1 \in Nat
    BY <1>5
  <2>5. v.day = day /\ v.verified
    BY <1>7, <2>1, <2>2, <2>3, <2>4, OneDay
  <2>6. CASE InWindow(day, Window)
    BY <1>1, <1>2, <1>8, <1>9, <2>1, <2>5, <2>6, DatedBy
  <2>7. CASE ~InWindow(day, Window)
    <3>1. Redated(y, x, start)
      BY <1>2, <1>8, <1>9, <2>5, <2>7
    <3>2. day # start
      BY <1>11, <2>7
    <3>3. x.ticker = t /\ "finviz" \in x.from /\ x.day = start /\ ~x.verified
      BY <1>8, <3>1 DEF Redated
    <3>4. Days(Said(d), t) # {start}
      BY <2>1, <3>2
    <3>5. InWindow(x.day, Window) /\ x.day = Window[1] /\ Days(Said(d), t) # {x.day}
      BY <1>1, <1>11, <3>3, <3>4
    <3> QED
      BY <1>1, <3>3, <3>5, DatedBy
  <2> QED
    BY <2>6, <2>7
<1>15. CASE \E a, c \in Days(Said(d), t) : a # c
  <2>1. PICK a \in Days(Said(d), t), c \in Days(Said(d), t) : a # c
    BY <1>15
  <2>2. PICK i \in 1..n, j \in 1..n : b[i].day = a /\ b[j].day = c
    BY <1>10, <2>1
  <2>3. a # NoDay /\ c # NoDay
    BY <1>10, <2>1
  <2>4. \A k \in 1..n : k = i \/ k = j
    BY <1>5, <2>1, <2>2
  <2>5. \A k \in 1..(n + 1) : k # i + 1 /\ k # j + 1 => k = 1
    BY <1>5, <2>4
  <2>6. PICK p \in 1..(n + 1), q \in 1..(n + 1) : p = i + 1 /\ q = j + 1
    BY <1>5
  <2>7. r[p].day = a /\ r[q].day = c
    BY <1>7, <2>2, <2>6
  <2>8. \A k \in 1..(n + 1) : k # p /\ k # q => r[k].day = NoDay
    BY <1>7, <2>5, <2>6
  <2>9. n + 1 \in Nat
    BY <1>5
  <2>10. ResolveDate(r, {start}) = {[day |-> e, verified |-> FALSE] : e \in {start}}
    <3>1. DOMAIN r = 1..(n + 1)
      BY <1>7
    <3>2. r[p].day # NoDay /\ r[q].day # NoDay /\ r[p].day # r[q].day
      BY <2>1, <2>3, <2>7
    <3> QED
      BY <2>8, <2>9, <3>1, <3>2, Disputed
  <2>11. v.day = start /\ ~v.verified
    BY <2>10, FallenBack
  <2>12. Days(Said(d), t) # {start}
    BY <2>1
  <2> QED
    BY <1>1, <1>2, <1>8, <1>9, <1>11, <2>11, <2>12, DatedBy
<1> QED
  BY <1>13, <1>14, <1>15, NoneOrOneOrTwo

\* A row that Finnhub lists carries the day of its record.
IsListed(r, d, tickers) ==
  /\ r.ticker \in tickers /\ r.from = {"finnhub"} /\ r.day # NoDay
  /\ \E u \in d.finnhub[r.ticker] : u.day = r.day

LEMMA ListedDated ==
  ASSUME NEW d, NEW known, NEW tickers, DetailsWell(d, known, tickers),
         NEW row, IsListed(row, d, tickers), NEW x \in ValidateRow(row, d, Window)
  PROVE  DatedWell(x, Said(d)) /\ "finviz" \notin x.from
<1>1. PICK t, start, day : t = row.ticker /\ start = Window[1] /\ day = row.day
  OBVIOUS
<1>2. t \in tickers /\ row.from = {"finnhub"} /\ day # NoDay /\ \E u \in d.finnhub[t] : u.day = day
  BY <1>1 DEF IsListed
<1>3. PICK asked \in Seq(Range(Sources)) :
        /\ asked = Kept(Sources, {i \in DOMAIN Sources : Sources[i] \notin row.from})
        /\ Range(asked) = {"yfinance"} /\ Len(asked) = 1
  BY <1>2, SourcesAsked
<1>4. PICK b : b = Answers(d, asked, t)
  OBVIOUS
<1>5. PICK r : r = Records(row, b)
  OBVIOUS
<1>6. "finviz" \notin row.from
  BY <1>2
<1>7. PICK y \in ReconcileAll(r, {}) : x = y /\ InWindow(y.day, Window)
  <2>1. x \in {IF InWindow(e.day, Window) THEN e ELSE [e EXCEPT !.day = start, !.verified = FALSE] :
                 e \in {u \in ReconcileAll(r, {}) : InWindow(u.day, Window)}}
    BY <1>1, <1>3, <1>4, <1>5, <1>6 DEF ValidateRow, Reconcile, Where, Answers, Records
  <2> QED
    BY <2>1
<1>8. /\ b \in Seq(CandidateRow) /\ Len(b) <= 1
      /\ \A e \in Range(b) : e \in d["yfinance"][t] /\ e.from = {"yfinance"}
      /\ \A u \in d["yfinance"][t] : u \in Range(b)
  <2>1. asked \in Seq(Range(Sources))
    BY <1>3
  <2>2. /\ b \in Seq(CandidateRow) /\ Len(b) <= Len(asked)
        /\ \A e \in Range(b) : \E n \in Range(asked) : e \in d[n][t] /\ e.from = {n}
        /\ \A n \in Range(asked) : \A u \in d[n][t] : u \in Range(b)
    BY <1>2, <1>4, <2>1, Backups
  <2> QED
    BY <1>3, <2>2
<1>9. PICK n \in Nat : n = Len(b) /\ n <= 1
  BY <1>8, ListMembers
<1>10. /\ DOMAIN r = 1..(n + 1) /\ r[1] = row
       /\ \A i \in 2..(n + 1) : i - 1 \in 1..n /\ r[i] = b[i - 1]
       /\ \A i \in 1..n : i + 1 \in 2..(n + 1) /\ r[i + 1] = b[i]
       /\ Range(r) = {row} \cup Range(b)
  <2>1. b \in Seq(CandidateRow)
    BY <1>8
  <2>2. /\ DOMAIN r = 1..(Len(b) + 1) /\ r[1] = row
        /\ \A i \in 2..(Len(b) + 1) : i - 1 \in 1..Len(b) /\ r[i] = b[i - 1]
        /\ \A i \in 1..Len(b) : i + 1 \in 2..(Len(b) + 1) /\ r[i + 1] = b[i]
        /\ Range(r) = {row} \cup Range(b)
    BY <1>5, <2>1, Headed
  <2> QED
    BY <1>9, <2>2
<1>11. /\ \E v \in ResolveDate(r, {}) : y.day = v.day /\ y.verified = v.verified
       /\ y.ticker = t /\ "finviz" \notin y.from
  <2>1. /\ \E v \in ResolveDate(r, {}) : y.day = v.day /\ y.verified = v.verified
        /\ y.ticker = r[1].ticker /\ y.from = UNION {e.from : e \in Range(r)}
    <3>1. y \in ReconcileAll(r, {})
      BY <1>7
    <3>2. /\ \E v \in ResolveDate(r, {}) : y.day = v.day /\ y.verified = v.verified
          /\ y.ticker = r[1].ticker /\ y.from = UNION {e.from : e \in Range(r)}
          /\ \A s : Redated(y, [y EXCEPT !.day = s, !.verified = FALSE], s)
      BY <3>1, Reconciled
    <3> QED
      BY <3>2
  <2>2. \A e \in Range(r) : "finviz" \notin e.from
    BY <1>6, <1>8, <1>10
  <2> QED
    BY <1>1, <1>10, <2>1, <2>2
<1>12. PICK v \in ResolveDate(r, {}) : y.day = v.day /\ y.verified = v.verified
  BY <1>11
<1>13. /\ day \in Days(Said(d), t)
       /\ \A i \in 1..n : b[i].day # NoDay => b[i].day \in Days(Said(d), t)
       /\ \A a \in Days(Said(d), t) : a = day \/ \E i \in 1..n : b[i].day = a /\ a # NoDay
  <2>1. PICK f, g : f = d.finnhub /\ g = d.yfinance
    OBVIOUS
  <2>2. /\ d = [yfinance |-> g, finnhub |-> f]
        /\ SourceWell(f, "finnhub", tickers)
    BY <2>1 DEF DetailsWell
  <2>3. d["finnhub"] = f /\ Range(Sources) = {"yfinance", "finnhub"}
    BY <2>2 DEF Sources, Range
  <2>4. /\ \A m \in Range(Sources) : \A u \in d[m][t] :
             u.day # NoDay => u.day \in Days(Said(d), t)
        /\ \A a \in Days(Said(d), t) :
             a # NoDay /\ \E m \in Range(Sources) : \E u \in d[m][t] : u.day = a
    BY <1>2, SaidDays
  <2>5. /\ \A i \in 1..n : b[i] \in Range(b)
        /\ \A e \in Range(b) : \E i \in 1..n : b[i] = e
    BY <1>8, <1>9, ListMembers
  <2>6. PICK u \in f[t] : u.day = day
    BY <1>2, <2>1
  <2>7. \A e \in f[t] : e.day = day
    BY <1>2, <2>2, <2>6 DEF SourceWell
  <2>8. day \in Days(Said(d), t)
    BY <1>2, <2>3, <2>4, <2>6
  <2>9. \A i \in 1..n : b[i].day # NoDay => b[i].day \in Days(Said(d), t)
    BY <1>8, <2>3, <2>4, <2>5
  <2>10. ASSUME NEW a \in Days(Said(d), t)
         PROVE  a = day \/ \E i \in 1..n : b[i].day = a /\ a # NoDay
    <3>1. a # NoDay /\ \E m \in {"yfinance", "finnhub"} : \E e \in d[m][t] : e.day = a
      BY <2>3, <2>4
    <3>2. CASE \E e \in d["yfinance"][t] : e.day = a
      BY <1>8, <2>5, <3>1, <3>2
    <3>3. CASE \E e \in d["finnhub"][t] : e.day = a
      BY <2>3, <2>7, <3>3
    <3> QED
      BY <3>1, <3>2, <3>3
  <2> QED
    BY <2>8, <2>9, <2>10
<1>14. \A i \in 1..(n + 1) : i # 1 => i \in 2..(n + 1)
  BY <1>9
<1>15. 1 \in 1..(n + 1) /\ r[1].day = day
  BY <1>1, <1>9, <1>10
<1>16. CASE Days(Said(d), t) = {day}
  <2>1. \A i \in 1..(n + 1) : r[i].day \in {day, NoDay}
    <3>1. \A i \in 1..n : b[i].day \in {day, NoDay}
      BY <1>13, <1>16
    <3> QED
      BY <1>10, <1>14, <1>15, <3>1
  <2>2. n + 1 \in Nat
    BY <1>9
  <2>3. v.day = day /\ v.verified
    <3>1. day # NoDay /\ DOMAIN r = 1..(n + 1) /\ \E i \in 1..(n + 1) : r[i].day = day
      BY <1>2, <1>10, <1>15
    <3>2. v \in ResolveDate(r, {})
      BY <1>12
    <3> QED
      BY <2>1, <2>2, <3>1, <3>2, OneDay
  <2> QED
    BY <1>1, <1>7, <1>11, <1>12, <1>16, <2>3, DatedBy
<1>17. CASE Days(Said(d), t) # {day}
  <2>1. PICK a \in Days(Said(d), t) : a # day
    BY <1>13, <1>17
  <2>2. PICK j \in 1..n : b[j].day = a /\ a # NoDay
    BY <1>13, <2>1
  <2>3. n = 1 /\ j = 1
    BY <1>9
  <2>4. 2 \in 1..(n + 1) /\ r[2].day = a
    BY <1>10, <2>2, <2>3
  <2>5. \A k \in 1..(n + 1) : k = 1 \/ k = 2
    BY <2>3
  <2>6. PICK one \in 1..(n + 1), two \in 1..(n + 1) : one = 1 /\ two = 2
    BY <1>15, <2>4
  <2>7. /\ r[one].day # NoDay /\ r[two].day # NoDay /\ r[one].day # r[two].day
        /\ \A k \in 1..(n + 1) : k # one /\ k # two => r[k].day = NoDay
    BY <1>2, <1>15, <2>1, <2>2, <2>4, <2>5, <2>6
  <2>8. n + 1 \in Nat /\ DOMAIN r = 1..(n + 1)
    BY <1>9, <1>10
  <2>9. ResolveDate(r, {}) = {[day |-> e, verified |-> FALSE] : e \in {}}
    BY <2>7, <2>8, Disputed
  <2> QED
    BY <1>12, <2>9
<1> QED
  BY <1>16, <1>17

LEMMA ReconciledAlone ==
  ASSUME NEW d, NEW tickers, NEW row, IsListed(row, d, tickers), NEW x \in Reconcile(row, << >>, {})
  PROVE  IsListed(x, d, tickers)
<1>1. PICK none \in Seq({}) : none = << >> /\ Len(none) = 0 /\ Range(none) = {}
  BY NoRows
<1>2. PICK r : r = Records(row, none)
  OBVIOUS
<1>3. x \in ReconcileAll(r, {})
  BY <1>1, <1>2 DEF Reconcile, Records
<1>4. DOMAIN r = 1..(Len(none) + 1) /\ r[1] = row /\ Range(r) = {row} \cup Range(none)
  <2>1. /\ DOMAIN r = 1..(Len(none) + 1) /\ r[1] = row
        /\ \A i \in 2..(Len(none) + 1) : i - 1 \in 1..Len(none) /\ r[i] = none[i - 1]
        /\ \A i \in 1..Len(none) : i + 1 \in 2..(Len(none) + 1) /\ r[i + 1] = none[i]
        /\ Range(r) = {row} \cup Range(none)
    <3>1. none \in Seq({})
      BY <1>1
    <3> QED
      BY <1>2, <3>1, Headed
  <2> QED
    BY <2>1
<1>5. /\ \E v \in ResolveDate(r, {}) : x.day = v.day /\ x.verified = v.verified
      /\ x.ticker = r[1].ticker /\ x.from = UNION {e.from : e \in Range(r)}
      /\ \A s : Redated(x, [x EXCEPT !.day = s, !.verified = FALSE], s)
  BY <1>3, Reconciled
<1>6. PICK v \in ResolveDate(r, {}) : x.day = v.day
  BY <1>5
<1>7. x.ticker = row.ticker /\ x.from = {"finnhub"}
  <2>1. row.from = {"finnhub"} /\ Range(r) = {row}
    BY <1>1, <1>4 DEF IsListed
  <2>2. UNION {e.from : e \in Range(r)} = {"finnhub"}
    BY <2>1
  <2> QED
    BY <1>4, <1>5, <2>2
<1>8. PICK n \in Nat : n = 1 /\ DOMAIN r = 1..n
  <2>1. 1 \in Nat /\ DOMAIN r = 1..1
    BY <1>1, <1>4
  <2> QED
    BY <2>1
<1>9. PICK day : day = row.day /\ day # NoDay
  BY DEF IsListed
<1>10. (\A i \in 1..n : r[i].day \in {day, NoDay}) /\ \E i \in 1..n : r[i].day = day
  BY <1>4, <1>8, <1>9
<1>11. v.day = day
  <2>1. n \in Nat /\ DOMAIN r = 1..n /\ day # NoDay /\ v \in ResolveDate(r, {})
    BY <1>6, <1>8, <1>9
  <2>2. v.day = day /\ v.verified
    BY <1>10, <2>1, OneDay
  <2> QED
    BY <2>2
<1> QED
  BY <1>6, <1>7, <1>9, <1>11 DEF IsListed

\* Of a list, the members that satisfy a condition, in descending order of their size.
LEMMA KeptOf ==
  ASSUME NEW S, NEW s \in Seq(S), NEW I, I \subseteq DOMAIN s
  PROVE  Kept(s, I) \in Seq(S) /\ Range(Kept(s, I)) \subseteq Range(s)
<1>1. PICK J : J = I
  OBVIOUS
<1>2. J \in SUBSET (1..Len(s))
  BY <1>1, ListMembers
<1>3. Kept(s, J) \in Seq(S) /\ Range(Kept(s, J)) = {s[i] : i \in J}
  BY <1>2, KeptRange
<1>4. \A i \in J : s[i] \in Range(s)
  BY <1>2, ListMembers
<1> QED
  BY <1>1, <1>3, <1>4

LEMMA LongestList ==
  ASSUME NEW a \in Nat, NEW b \in Nat PROVE Max({a, b}) \in Nat
BY MaxOfTwo

LEMMA ListedUpcoming ==
  ASSUME NEW d, NEW known, NEW tickers, DetailsWell(d, known, tickers), NEW c \in known,
         NEW limit \in Nat, NEW listed, listed = ListUpcoming(d, c, limit)
  PROVE  listed \in Seq(CandidateRow) /\ \A r \in Range(listed) : IsListed(r, d, tickers)
<1> DEFINE announced == First(c, Max({16 * limit, 64}))
           some == [i \in DOMAIN announced |-> d.finnhub[announced[i].ticker]]
           known1 == Present(some)
           I == {i \in DOMAIN known1 : known1[i].cap >= 2000}
           profiled == Kept(known1, I)
           key == [i \in DOMAIN profiled |-> profiled[i].cap]
           sorted == Sorted(profiled, key)
           shortlisted == First(sorted, Max({3 * limit, 12}))
           J == {i \in DOMAIN shortlisted : shortlisted[i].price >= 2000}
           priced == Kept(shortlisted, J)
<1>1. listed = First(priced, limit)
  BY Zenon DEF ListUpcoming, Where, Descending
<1>2. /\ SourceWell(d.finnhub, "finnhub", tickers)
      /\ c \in Seq([ticker : STRING, day : Int])
      /\ \A a \in Range(c) : a.ticker \in tickers /\ \A u \in d.finnhub[a.ticker] : u.day # NoDay
  BY DEF DetailsWell
<1>3. announced \in Seq([ticker : STRING, day : Int]) /\ Range(announced) \subseteq Range(c)
  <2>1. PICK most \in Nat : most = Max({16 * limit, 64})
    <3>1. 16 * limit \in Nat /\ 64 \in Nat
      OBVIOUS
    <3> QED
      BY <3>1, LongestList
  <2>2. announced = First(c, most)
    BY <2>1
  <2>3. /\ First(c, most) \in Seq([ticker : STRING, day : Int])
        /\ Range(First(c, most)) \subseteq Range(c)
    BY <1>2, FirstOf
  <2> QED
    BY <2>2, <2>3
<1> HIDE DEF announced
<1>4. PICK n \in Nat : n = Len(announced) /\ DOMAIN announced = 1..n
  BY <1>3, ListMembers
<1>5. ASSUME NEW i \in 1..n
      PROVE  some[i] \in SUBSET CandidateRow /\ \A u \in some[i] : IsListed(u, d, tickers)
  <2>1. PICK a \in Range(c) : a = announced[i]
    BY <1>3, <1>4, ListMembers
  <2>2. PICK t \in tickers : t = a.ticker /\ \A u \in d.finnhub[t] : u.day # NoDay
    BY <1>2, <2>1
  <2>3. some[i] = d.finnhub[t]
    BY <1>4, <2>1, <2>2
  <2>4. \A u \in d.finnhub[t] : u \in CandidateRow /\ u.ticker = t /\ u.from = {"finnhub"}
    BY <1>2, <2>2 DEF SourceWell
  <2> QED
    BY <2>2, <2>3, <2>4 DEF IsListed
<1>6. some \in [1..n -> SUBSET CandidateRow]
  BY <1>4, <1>5
<1> HIDE DEF some
<1>7. some \in Seq(SUBSET CandidateRow) /\ Len(some) = n
  BY <1>6, Mapped
<1>8. known1 \in Seq(CandidateRow) /\ \A x \in Range(known1) : \E i \in 1..n : x \in some[i]
  BY <1>7, PresentOf
<1>9. \A x \in Range(known1) : IsListed(x, d, tickers)
  BY <1>5, <1>8
<1> HIDE DEF known1
<1>10. I \subseteq DOMAIN known1
  OBVIOUS
<1> HIDE DEF I
<1>11. profiled \in Seq(CandidateRow) /\ Range(profiled) \subseteq Range(known1)
  BY <1>8, <1>10, KeptOf
<1> HIDE DEF profiled
<1>12. \A i \in 1..Len(profiled) : key[i] \in Int
  <2>1. ASSUME NEW i \in 1..Len(profiled) PROVE key[i] \in Int
    <3>1. profiled[i] \in CandidateRow /\ i \in DOMAIN profiled
      BY <1>11, ListMembers
    <3> QED
      BY <3>1 DEF CandidateRow
  <2> QED
    BY <2>1
<1> HIDE DEF key
<1>13. sorted \in Seq(CandidateRow) /\ Range(sorted) = Range(profiled)
  BY <1>11, <1>12, SortedRange
<1> HIDE DEF sorted
<1>14. shortlisted \in Seq(CandidateRow) /\ Range(shortlisted) \subseteq Range(sorted)
  <2>1. PICK most \in Nat : most = Max({3 * limit, 12})
    <3>1. 3 * limit \in Nat /\ 12 \in Nat
      OBVIOUS
    <3> QED
      BY <3>1, LongestList
  <2>2. shortlisted = First(sorted, most)
    BY <2>1
  <2>3. First(sorted, most) \in Seq(CandidateRow) /\ Range(First(sorted, most)) \subseteq Range(sorted)
    BY <1>13, FirstOf
  <2> QED
    BY <2>2, <2>3
<1> HIDE DEF shortlisted
<1>15. J \subseteq DOMAIN shortlisted
  OBVIOUS
<1> HIDE DEF J
<1>16. priced \in Seq(CandidateRow) /\ Range(priced) \subseteq Range(shortlisted)
  BY <1>14, <1>15, KeptOf
<1> HIDE DEF priced
<1>17. listed \in Seq(CandidateRow) /\ Range(listed) \subseteq Range(priced)
  BY <1>1, <1>16, FirstOf
<1> QED
  BY <1>9, <1>11, <1>13, <1>14, <1>16, <1>17

\* What is listed without a screen, one row of each record that tells enough.
LEMMA BackupsListed ==
  ASSUME NEW d, NEW known, NEW tickers, DetailsWell(d, known, tickers), NEW limit \in Nat,
         NEW rows, rows = LoadBackupCandidates(d, known, limit)
  PROVE  rows \in Seq(Range(rows)) /\ \A r \in Range(rows) : IsListed(r, d, tickers)
<1> DEFINE L == {x \in UNION {Reconcile(u, << >>, {}) : u \in CandidateRow} : IsListed(x, d, tickers)}
<1>1. PICK listed \in Seq(CandidateRow) :
        /\ \A r \in Range(listed) : IsListed(r, d, tickers)
        /\ rows = Present([i \in DOMAIN listed |-> Reconcile(listed[i], << >>, {})])
  <2>1. CASE known = {}
    <3>1. PICK e \in Seq({}) : e = << >> /\ Range(e) = {}
      BY NoRows
    <3>2. e \in Seq(CandidateRow) /\ \A r \in Range(e) : IsListed(r, d, tickers)
      BY <3>1, Retyped
    <3> QED
      BY <2>1, <3>1, <3>2 DEF LoadBackupCandidates
  <2>2. CASE known # {}
    <3>1. PICK c \in known : c = CHOOSE e \in known : TRUE
      BY <2>2
    <3>2. PICK listed : listed = ListUpcoming(d, c, limit)
      OBVIOUS
    <3>3. listed \in Seq(CandidateRow) /\ \A r \in Range(listed) : IsListed(r, d, tickers)
      BY <3>2, ListedUpcoming
    <3> QED
      BY <2>2, <3>1, <3>2, <3>3 DEF LoadBackupCandidates
  <2> QED
    BY <2>1, <2>2
<1>2. PICK n \in Nat : n = Len(listed) /\ DOMAIN listed = 1..n
  BY <1>1, ListMembers
<1> DEFINE some == [i \in DOMAIN listed |-> Reconcile(listed[i], << >>, {})]
<1>3. ASSUME NEW i \in 1..n PROVE some[i] \in SUBSET L
  <2>1. PICK u \in CandidateRow : u = listed[i] /\ IsListed(u, d, tickers)
    BY <1>1, <1>2, ListMembers
  <2>2. some[i] = Reconcile(u, << >>, {})
    BY <1>2, <2>1
  <2>3. \A x \in Reconcile(u, << >>, {}) : IsListed(x, d, tickers)
    BY <2>1, ReconciledAlone
  <2> QED
    BY <2>2, <2>3
<1>4. some \in [1..n -> SUBSET L]
  BY <1>2, <1>3
<1>5. rows = Present(some)
  BY <1>1
<1>6. \A x \in L : IsListed(x, d, tickers)
  OBVIOUS
<1> HIDE DEF some, L
<1>7. some \in Seq(SUBSET L)
  BY <1>4, Mapped
<1>8. rows \in Seq(L)
  BY <1>5, <1>7, PresentOf
<1>9. \A x \in Range(rows) : x \in L
  BY <1>8, ListMembers
<1> QED
  BY <1>6, <1>8, <1>9, Retyped

\* The rows that an arm may offer: dated, and shown by the screener only if it
\* is one of T.
Offers(x, said, T) == DatedWell(x, said) /\ ("finviz" \in x.from => x.ticker \in T)
IsOffered(r, d, tickers, T) ==
  \/ IsListed(r, d, tickers)
  \/ r.from = {"finviz"} /\ r.day = NoDay /\ r.ticker \in T /\ r.ticker \in tickers

LEMMA Admitted ==
  ASSUME NEW d, NEW known, NEW tickers, DetailsWell(d, known, tickers), NEW T,
         NEW R, NEW rows \in Seq(R), \A r \in Range(rows) : IsOffered(r, d, tickers, T),
         NEW U, NEW taken \in Seq(U), \A x \in Range(taken) : Offers(x, Said(d), T),
         NEW limit \in Nat, NEW out, out = Admit(rows, taken, limit, d, Window)
  PROVE  /\ out \in Seq(Range(out)) /\ Len(out) <= limit
         /\ \A x \in Range(out) : Offers(x, Said(d), T)
<1> DEFINE V == UNION {ValidateRow(r, d, Window) : r \in Range(rows)}
           some == [i \in DOMAIN rows |-> ValidateRow(rows[i], d, Window)]
           valid == Present(some)
           all == taken \o valid
           once == WithoutRepeatedTickers(all)
           G == {x \in Range(taken) \cup V : Offers(x, Said(d), T)}
<1>1. out = First(once, limit)
  BY DEF Admit
<1>2. ASSUME NEW r \in Range(rows), NEW x \in ValidateRow(r, d, Window)
      PROVE  Offers(x, Said(d), T)
  <2>1. CASE IsListed(r, d, tickers)
    <3>1. DatedWell(x, Said(d)) /\ "finviz" \notin x.from
      BY <2>1, <1>2, ListedDated
    <3> QED
      BY <3>1 DEF Offers
  <2>2. CASE r.from = {"finviz"} /\ r.day = NoDay /\ r.ticker \in T /\ r.ticker \in tickers
    <3>1. DatedWell(x, Said(d)) /\ x.ticker = r.ticker
      BY <2>2, <1>2, ScreenedDated
    <3> QED
      BY <2>2, <3>1 DEF Offers
  <2> QED
    BY <2>1, <2>2 DEF IsOffered
<1>3. PICK n \in Nat : n = Len(rows) /\ DOMAIN rows = 1..n
  BY ListMembers
<1>4. \A i \in 1..n : some[i] = ValidateRow(rows[i], d, Window) /\ rows[i] \in Range(rows)
  BY <1>3, ListMembers
<1>5. \A i \in 1..n : some[i] \in SUBSET G
  BY <1>2, <1>4
<1>6. some \in [1..n -> SUBSET G]
  BY <1>3, <1>5
<1>7. \A x \in G : Offers(x, Said(d), T)
  OBVIOUS
<1>8. \A x \in Range(taken) : x \in G
  OBVIOUS
<1> HIDE DEF some, G
<1>9. taken \in Seq(G) /\ some \in Seq(SUBSET G)
  BY <1>6, <1>8, Mapped, Retyped
<1>10. valid \in Seq(G)
  BY <1>9, PresentOf
<1> HIDE DEF valid
<1>11. all \in Seq(G)
  BY <1>9, <1>10, ConcatProperties
<1> HIDE DEF all
<1>12. once \in Seq(G)
  BY <1>11, TickersOnce
<1> HIDE DEF once
<1>13. out \in Seq(G) /\ Len(out) <= limit
  BY <1>1, <1>12, FirstOf
<1>14. \A x \in Range(out) : x \in G
  BY <1>13, ListMembers
<1>15. out \in Seq(Range(out))
  BY <1>13, Retyped
<1> QED
  BY <1>7, <1>13, <1>14, <1>15

LEMMA RowsValidated ==
  ASSUME NEW d, NEW known, NEW tickers, DetailsWell(d, known, tickers), NEW T,
         NEW R, NEW rows \in Seq(R), \A r \in Range(rows) : IsOffered(r, d, tickers, T),
         NEW out, out = ValidateRows(rows, d, known, Limit, Window)
  PROVE  /\ out \in Seq(Range(out)) /\ Len(out) <= Limit
         /\ \A x \in Range(out) : Offers(x, Said(d), T)
<1>1. PICK none \in Seq({}) : none = << >> /\ \A x \in Range(none) : Offers(x, Said(d), T)
  <2>1. PICK e \in Seq({}) : e = << >> /\ Range(e) = {}
    BY NoRows
  <2> QED
    BY <2>1
<1>2. Limit \in Nat
  BY Bounds
<1>3. PICK first : first = Admit(rows, none, Limit, d, Window)
  OBVIOUS
<1>4. /\ first \in Seq(Range(first)) /\ Len(first) <= Limit
      /\ \A x \in Range(first) : Offers(x, Said(d), T)
  <2>1. none \in Seq({}) /\ \A x \in Range(none) : Offers(x, Said(d), T)
    BY <1>1
  <2> QED
    BY <1>2, <1>3, <2>1, Admitted
<1>5. out = Supplemented(first, d, known, Limit, Window)
  BY <1>1, <1>3 DEF ValidateRows
<1>6. PICK remaining \in Nat : remaining = Limit - Len(first)
  <2>1. PICK n \in Nat : n = Len(first)
    BY <1>4, ListMembers
  <2> QED
    BY <1>2, <1>4, <2>1
<1>7. CASE remaining = 0
  <2>1. out = first
    BY <1>5, <1>6, <1>7 DEF Supplemented
  <2> QED
    BY <1>4, <2>1
<1>8. CASE remaining # 0
  <2>1. PICK most \in Nat : most = Max({2 * remaining, remaining + 2})
    <3>1. 2 * remaining \in Nat /\ remaining + 2 \in Nat
      OBVIOUS
    <3> QED
      BY <3>1, LongestList
  <2>2. PICK more : more = LoadBackupCandidates(d, known, most)
    OBVIOUS
  <2>3. more \in Seq(Range(more)) /\ \A r \in Range(more) : IsListed(r, d, tickers)
    BY <2>2, BackupsListed
  <2>4. \A r \in Range(more) : IsOffered(r, d, tickers, T)
    BY <2>3 DEF IsOffered
  <2>5. out = Admit(more, first, Limit, d, Window)
    BY <1>5, <1>6, <1>8, <2>1, <2>2 DEF Supplemented
  <2>6. more \in Seq(Range(more))
    BY <2>3
  <2>7. first \in Seq(Range(first)) /\ \A x \in Range(first) : Offers(x, Said(d), T)
    BY <1>4
  <2> QED
    BY <1>2, <2>4, <2>5, <2>6, <2>7, Admitted
<1> QED
  BY <1>7, <1>8

LEMMA OutcomeWell ==
  ASSUME NEW rows, rows \in Seq(Range(rows)), Len(rows) <= Limit, NEW gone,
         gone => \A r \in Range(rows) : "finviz" \notin r.from,
         NEW x, x = CatalystOutcome(rows, gone)
  PROVE  IsReport(x) /\ x.rows = rows
<1>1. CASE rows = << >>
  <2>1. \/ x = Report(<< >>, "failed")
        \/ x = [Report(<< >>, "failed") EXCEPT !.raised = TRUE]
    BY <1>1 DEF CatalystOutcome, Raised
  <2>2. x.rows = << >> /\ x.status = "failed"
    BY <2>1 DEF Report
  <2>3. x.rows \in Seq(Range(x.rows)) /\ Len(x.rows) <= Limit
    BY <1>1, <2>2
  <2> QED
    BY <1>1, <2>2, <2>3 DEF IsReport
<1>2. CASE rows # << >>
  <2>1. PICK fallback : x = [Report(rows, IF gone THEN "fallback" ELSE "success") EXCEPT
                               !.fallback = fallback]
    BY <1>2 DEF CatalystOutcome
  <2>2. x.rows = rows /\ x.status = (IF gone THEN "fallback" ELSE "success") /\ ~x.raised
    BY <2>1 DEF Report
  <2>3. \E r \in Range(rows) : TRUE
    <3>1. Len(rows) \in Nat /\ Len(rows) # 0
      BY <1>2, ListMembers
    <3>2. 1 \in 1..Len(rows)
      BY <3>1
    <3>3. rows[1] \in Range(rows)
      BY <3>2, ListMembers
    <3> QED
      BY <3>3
  <2> QED
    BY <1>2, <2>2, <2>3 DEF IsReport
<1> QED
  BY <1>1, <1>2

\* The catalyst arm offers rows that are dated, of its own screen when the
\* screener shows any.
LEMMA CatalystWell ==
  ASSUME NEW w \in CatalystWorld, NEW known \in Calendar, NEW said, said = Said(Dated(w, known)),
         NEW screen, screen.rows \in Seq(ScreenedRow),
         TickersOf(screen.rows) \subseteq DOMAIN w.yfinance,
         NEW x, x = CatalystReport(screen, w, known, Limit, Window)
  PROVE  /\ IsReport(x)
         /\ \A r \in Range(x.rows) : Offers(r, said, TickersOf(screen.rows))
<1>1. PICK d, tickers : d = Dated(w, known) /\ tickers = DOMAIN w.yfinance
  OBVIOUS
<1>2. DetailsWell(d, known, tickers) /\ said = Said(d)
  BY <1>1, DatedDetails
<1>3. PICK gone \in BOOLEAN : gone <=> screen.failed \/ screen.rows = << >>
  OBVIOUS
<1>4. PICK T : T = IF gone THEN {} ELSE TickersOf(screen.rows)
  OBVIOUS
<1>5. PICK rows : rows = IF gone THEN LoadBackupCandidates(d, known, Limit) ELSE screen.rows
  OBVIOUS
<1>6. \E R : rows \in Seq(R) /\ \A r \in Range(rows) : IsOffered(r, d, tickers, T)
  <2>1. CASE gone
    <3>1. Limit \in Nat /\ rows = LoadBackupCandidates(d, known, Limit)
      BY <1>5, <2>1, Bounds
    <3>2. rows \in Seq(Range(rows)) /\ \A r \in Range(rows) : IsListed(r, d, tickers)
      BY <1>2, <3>1, BackupsListed
    <3> QED
      BY <3>2 DEF IsOffered
  <2>2. CASE ~gone
    <3>1. rows = screen.rows /\ T = TickersOf(rows)
      BY <1>4, <1>5, <2>2
    <3>2. rows \in Seq(ScreenedRow)
      BY <3>1
    <3>3. ASSUME NEW r \in Range(rows) PROVE IsOffered(r, d, tickers, T)
      <4>1. r \in ScreenedRow
        BY <3>2, ListMembers
      <4>2. r.ticker \in T /\ r.ticker \in tickers
        BY <1>1, <3>1 DEF TickersOf
      <4> QED
        BY <4>1, <4>2 DEF IsOffered, ScreenedRow
    <3> QED
      BY <3>2, <3>3
  <2> QED
    BY <2>1, <2>2
<1>7. PICK R : rows \in Seq(R) /\ \A r \in Range(rows) : IsOffered(r, d, tickers, T)
  BY <1>6
<1>8. PICK out : out = ValidateRows(rows, d, known, Limit, Window)
  OBVIOUS
<1>9. /\ out \in Seq(Range(out)) /\ Len(out) <= Limit
      /\ \A r \in Range(out) : Offers(r, Said(d), T)
  BY <1>2, <1>7, <1>8, RowsValidated
<1>10. gone => \A r \in Range(out) : "finviz" \notin r.from
  BY <1>4, <1>9 DEF Offers
<1>11. x = CatalystOutcome(out, gone)
  BY <1>1, <1>3, <1>5, <1>8 DEF CatalystReport, CatalystChoice
<1>12. IsReport(x) /\ x.rows = out
  BY <1>9, <1>10, <1>11, OutcomeWell
<1>13. \A r \in Range(out) : Offers(r, said, TickersOf(screen.rows))
  BY <1>2, <1>4, <1>9 DEF Offers
<1> QED
  BY <1>12, <1>13

-----------------------------------------------------------------------------
(* The arms.  fetches are the fetches of the screener: a row that an arm     *)
(* offers from them stays, since only an answered fetch has rows, and an arm *)
(* asks only what it has not asked before, or what was answered.             *)

Stages == {"idle", "running", "first", "second", "done"}

RowEarned(fetches, s, a, r, said) ==
  /\ a = "catalyst" => DatedWell(r, said)
  /\ a = "pead" => r.day < Today
  /\ "finviz" \in r.from =>
       \E q \in Query : ArmOf[q] = a /\ r.ticker \in TickersOf(fetches[<<s, q>>].rows)

\* What an arm has not asked is idle.
Quiet(fetches, s, a, x) ==
  \A q \in Query : ArmOf[q] = a /\ fetches[<<s, q>>].stage # "idle" =>
    /\ x.stage # "idle"
    /\ a = "sector" => /\ x.stage # "running"
                       /\ x.stage = "first" => q = Screened(x.ranked)[1].sector

\* What the sector arm screens, from its ranking on.
SectorsWell(x) ==
  x.stage \in {"first", "second"} =>
    /\ x.ranked \in Seq(Rated) /\ Screened(x.ranked) # << >>
    /\ x.stage = "second" => Len(Screened(x.ranked)) = 2

ArmWell(fetches, s, a, x) ==
  /\ x = [stage |-> x.stage, ranked |-> x.ranked, report |-> x.report, said |-> x.said]
  /\ x.stage \in Stages
  /\ x.stage # "done" => x.report.rows = << >>
  /\ IsReport(x.report)
  /\ \A r \in Range(x.report.rows) : RowEarned(fetches, s, a, r, x.said)
  /\ Quiet(fetches, s, a, x)
  /\ SectorsWell(x)

Reports(arms) == [a \in DOMAIN arms |-> arms[a].report]
AllArmsDone(arms) == \A a \in DOMAIN arms : arms[a].stage = "done"
BatchWell(arms, b) == b = {} \/ (AllArmsDone(arms) /\ b = {BatchOf(Arms, Reports(arms))})

ArmsWell ==
  /\ arm = [s \in setup.scans |-> [a \in setup.arms |-> arm[s][a]]]
  /\ \A s \in setup.scans : \A a \in setup.arms : ArmWell(fetch, s, a, arm[s][a])
DiscoveryInv ==
  /\ ScreenerWell /\ setup \in Setup /\ ArmsWell
  /\ calendar = {} \/ calendar \in Calendar
  /\ batch = [s \in setup.scans |-> batch[s]]
  /\ \A s \in setup.scans : BatchWell(arm[s], batch[s])

\* What an arm reads of the fetches stays.
Stays(F, G, s, a) ==
  \A q \in Query : ArmOf[q] = a =>
    /\ F[<<s, q>>].rows # << >> => G[<<s, q>>].rows = F[<<s, q>>].rows
    /\ F[<<s, q>>].stage = "idle" <=> G[<<s, q>>].stage = "idle"

LEMMA NoTickers == TickersOf(<< >>) = {}
<1>1. PICK e \in Seq({}) : e = << >> /\ Range(e) = {}
  BY NoRows
<1> QED
  BY <1>1 DEF TickersOf

LEMMA ArmStays ==
  ASSUME NEW F, NEW G, NEW s, NEW a, NEW x, ArmWell(F, s, a, x), Stays(F, G, s, a)
  PROVE  ArmWell(G, s, a, x)
<1>1. ASSUME NEW r \in Range(x.report.rows) PROVE RowEarned(G, s, a, r, x.said)
  <2>1. RowEarned(F, s, a, r, x.said)
    BY DEF ArmWell
  <2>2. ASSUME NEW q \in Query, ArmOf[q] = a, r.ticker \in TickersOf(F[<<s, q>>].rows)
        PROVE  r.ticker \in TickersOf(G[<<s, q>>].rows)
    <3>1. F[<<s, q>>].rows # << >>
      BY <2>2, NoTickers
    <3>2. G[<<s, q>>].rows = F[<<s, q>>].rows
      BY <2>2, <3>1 DEF Stays
    <3> QED
      BY <2>2, <3>2
  <2> QED
    BY <2>1, <2>2 DEF RowEarned
<1>2. Quiet(G, s, a, x)
  BY DEF ArmWell, Quiet, Stays
<1> QED
  BY <1>1, <1>2 DEF ArmWell

LEMMA StaysSame == ASSUME NEW F, NEW s, NEW a PROVE Stays(F, F, s, a)
BY DEF Stays

LEMMA ScansAndQueries ==
  ASSUME setup \in Setup
  PROVE  /\ setup.scans \subseteq Scan /\ setup.arms \subseteq Range(ArmOrder)
         /\ \A s \in setup.scans : \A q \in Query : <<s, q>> \in Fetch
BY SetupAssumption DEF Fetch

LEMMA AnswersStayFor ==
  ASSUME ScreenerWell, AnswersStay, NEW s \in Scan, NEW a PROVE Stays(fetch, fetch', s, a)
<1>1. ASSUME NEW q \in Query
      PROVE  /\ fetch[<<s, q>>].rows # << >> => fetch'[<<s, q>>].rows = fetch[<<s, q>>].rows
             /\ fetch[<<s, q>>].stage = "idle" <=> fetch'[<<s, q>>].stage = "idle"
  <2>1. PICK f \in Fetch : f = <<s, q>>
    BY DEF Fetch
  <2>2. FetchWell(f[2], fetch[f])
    BY DEF ScreenerWell
  <2> QED
    BY <2>1, <2>2 DEF AnswersStay, FetchWell
<1> QED
  BY <1>1 DEF Stays

\* One arm goes on; a batch waits for the arms that are not over.
LEMMA ArmChanged ==
  ASSUME DiscoveryInv, ScreenerWell', setup' = setup, calendar' = {} \/ calendar' \in Calendar,
         batch' = batch, NEW s \in setup.scans, NEW a \in setup.arms, NEW x,
         arm[s][a].stage # "done", arm' = [arm EXCEPT ![s][a] = x],
         ArmWell(fetch', s, a, x),
         \A z \in setup.scans : \A e \in setup.arms :
           (z # s \/ e # a) => Stays(fetch, fetch', z, e)
  PROVE  DiscoveryInv'
<1>1. PICK A : arm = A /\ A = [z \in setup.scans |-> [e \in setup.arms |-> arm[z][e]]]
  BY DEF DiscoveryInv, ArmsWell
<1>2. /\ DOMAIN arm = setup.scans /\ \A z \in setup.scans : DOMAIN arm[z] = setup.arms
      /\ \A z \in setup.scans : arm[z] = [e \in setup.arms |-> arm[z][e]]
  BY <1>1
<1>3. PICK y : y = [arm[s] EXCEPT ![a] = x]
  OBVIOUS
<1>4. arm' = [z \in setup.scans |-> IF z = s THEN y ELSE arm[z]]
  BY <1>1, <1>3
<1>5. y = [e \in setup.arms |-> IF e = a THEN x ELSE arm[s][e]]
  BY <1>2, <1>3
<1>6. /\ \A z \in setup.scans : arm'[z] = IF z = s THEN y ELSE arm[z]
      /\ arm'[s][a] = x
      /\ \A z \in setup.scans : \A e \in setup.arms : (z # s \/ e # a) => arm'[z][e] = arm[z][e]
  BY <1>4, <1>5
<1>7. arm' = [z \in setup.scans |-> [e \in setup.arms |-> arm'[z][e]]]
  <2>1. ASSUME NEW z \in setup.scans PROVE arm'[z] = [e \in setup.arms |-> arm'[z][e]]
    <3>1. CASE z = s
      BY <1>5, <1>6, <3>1
    <3>2. CASE z # s
      BY <1>2, <1>6, <3>2
    <3> QED
      BY <3>1, <3>2
  <2>2. arm' = [z \in setup.scans |-> arm'[z]]
    BY <1>4
  <2> QED
    BY <2>1, <2>2
<1>8. ASSUME NEW z \in setup.scans, NEW e \in setup.arms PROVE ArmWell(fetch', z, e, arm'[z][e])
  <2>1. CASE z = s /\ e = a
    BY <1>6, <2>1
  <2>2. CASE z # s \/ e # a
    <3>1. ArmWell(fetch, z, e, arm[z][e]) /\ Stays(fetch, fetch', z, e)
      BY <2>2 DEF DiscoveryInv, ArmsWell
    <3>2. ArmWell(fetch', z, e, arm[z][e])
      BY <3>1, ArmStays
    <3> QED
      BY <1>6, <2>2, <3>2
  <2> QED
    BY <2>1, <2>2
<1>9. ArmsWell'
  BY <1>7, <1>8 DEF ArmsWell
<1>10. ASSUME NEW z \in setup.scans PROVE BatchWell(arm[z], batch[z])' 
  <2>1. BatchWell(arm[z], batch[z]) /\ batch'[z] = batch[z] /\ Arms' = Arms
    BY DEF DiscoveryInv, Arms
  <2>2. CASE z = s
    <3>1. ~AllArmsDone(arm[z])
      BY <1>2, <2>2 DEF AllArmsDone
    <3>2. batch'[z] = {}
      BY <2>1, <3>1 DEF BatchWell
    <3> QED
      BY <3>2 DEF BatchWell
  <2>3. CASE z # s
    <3>1. arm'[z] = arm[z]
      BY <1>6, <2>3
    <3> QED
      BY <2>1, <3>1 DEF BatchWell
  <2> QED
    BY <2>2, <2>3
<1>11. batch' = [z \in setup.scans |-> batch'[z]] /\ setup' \in Setup
  BY DEF DiscoveryInv
<1> QED
  BY <1>9, <1>10, <1>11 DEF DiscoveryInv

LEMMA Finished ==
  ASSUME DiscoveryInv, UNCHANGED <<screenerVars, setup, batch>>,
         calendar' = {} \/ calendar' \in Calendar,
         NEW s \in setup.scans, NEW a \in setup.arms, arm[s][a].stage # "done",
         NEW report, NEW said, Finish(s, a, report, said), IsReport(report),
         \A r \in Range(report.rows) : RowEarned(fetch, s, a, r, said),
         \A q \in Query : ArmOf[q] = a /\ fetch[<<s, q>>].stage # "idle" =>
           arm[s][a].stage # "idle"
  PROVE  DiscoveryInv'
<1>1. PICK x : x = [arm[s][a] EXCEPT !.stage = "done", !.report = report, !.said = said]
  OBVIOUS
<1>2. arm' = [arm EXCEPT ![s][a] = x]
  BY <1>1 DEF Finish
<1>3. PICK y, ranked, stage, old, told :
        y = arm[s][a] /\ y = [stage |-> stage, ranked |-> ranked, report |-> old, said |-> told]
  <2>1. PICK y : y = arm[s][a]
    OBVIOUS
  <2>2. ArmWell(fetch, s, a, y)
    BY <2>1 DEF DiscoveryInv, ArmsWell
  <2>3. y = [stage |-> y.stage, ranked |-> y.ranked, report |-> y.report, said |-> y.said]
    BY <2>2 DEF ArmWell
  <2> QED
    BY <2>1, <2>3
<1>4. x = [stage |-> "done", ranked |-> ranked, report |-> report, said |-> said]
  <2>1. x = [y EXCEPT !.stage = "done", !.report = report, !.said = said]
    BY <1>1, <1>3
  <2>2. y = [stage |-> stage, ranked |-> ranked, report |-> old, said |-> told]
    BY <1>3
  <2> QED
    BY <2>1, <2>2
<1>5. x.stage = "done" /\ x.ranked = ranked /\ x.report = report /\ x.said = said
  BY <1>4
<1>6. fetch' = fetch /\ ScreenerWell'
  BY DEF screenerVars, DiscoveryInv, ScreenerWell, PlacesWell
<1>7. ArmWell(fetch', s, a, x)
  <2>1. Quiet(fetch, s, a, x) /\ SectorsWell(x)
    BY <1>5 DEF Quiet, SectorsWell
  <2> QED
    BY <1>4, <1>5, <1>6, <2>1 DEF ArmWell, Stages
<1>8. \A z \in setup.scans : \A e \in setup.arms : Stays(fetch, fetch', z, e)
  BY <1>6, StaysSame
<1> QED
  BY <1>2, <1>6, <1>7, <1>8, ArmChanged

-----------------------------------------------------------------------------
(* Each step.                                                               *)

LEMMA ReadyArm ==
  ASSUME NEW s, NEW a, Ready(s, a)
  PROVE  /\ s \in setup.scans /\ a \in setup.arms
         /\ arm[s][a].stage \in {"running", "first", "second"}
BY DEF Ready, At

LEMMA QueriesKnown ==
  /\ QueriesOf.catalyst \in Seq(Query) /\ QueriesOf.pead \in Seq(Query)
  /\ QueriesOf.coiled \in Seq(Query)
  /\ \A q \in Range(QueriesOf.catalyst) : ArmOf[q] = "catalyst"
  /\ \A q \in Range(QueriesOf.pead) : ArmOf[q] = "pead"
  /\ \A q \in Range(QueriesOf.coiled) : ArmOf[q] = "coiled"
<1>1. /\ QueriesOf["catalyst"] = <<"A">> /\ QueriesOf["pead"] = <<"C1", "C2">>
      /\ QueriesOf["coiled"] = <<"B">>
      /\ "catalyst" \in DOMAIN QueriesOf /\ "pead" \in DOMAIN QueriesOf
      /\ "coiled" \in DOMAIN QueriesOf
  BY DEF QueriesOf
<1>2. /\ QueriesOf.catalyst = <<"A">> /\ QueriesOf.pead = <<"C1", "C2">>
      /\ QueriesOf.coiled = <<"B">>
  BY DEF QueriesOf
<1>3. \A a \in DOMAIN QueriesOf : \A q \in Range(QueriesOf[a]) : q \in Query /\ ArmOf[q] = a
  BY SetupAssumption
<1>4. /\ \A q \in Range(QueriesOf.catalyst) : q \in Query /\ ArmOf[q] = "catalyst"
      /\ \A q \in Range(QueriesOf.pead) : q \in Query /\ ArmOf[q] = "pead"
      /\ \A q \in Range(QueriesOf.coiled) : q \in Query /\ ArmOf[q] = "coiled"
  BY <1>1, <1>2, <1>3
<1>5. ASSUME NEW s, NEW n \in Nat, s \in [1..n -> Range(s)], \A q \in Range(s) : q \in Query
      PROVE  s \in Seq(Query)
  <2>1. s \in Seq(Range(s))
    BY <1>5, Mapped
  <2> QED
    BY <1>5, <2>1, Retyped
<1>6. /\ <<"A">> \in [1..1 -> Range(<<"A">>)] /\ <<"C1", "C2">> \in [1..2 -> Range(<<"C1", "C2">>)]
      /\ <<"B">> \in [1..1 -> Range(<<"B">>)]
  BY DEF Range
<1>7. 1 \in Nat /\ 2 \in Nat
  OBVIOUS
<1> QED
  BY <1>2, <1>4, <1>5, <1>6, <1>7

\* What the rows of an arm's screen are, and where they were found.
FoundFor(screen, s, a, queries) ==
  /\ screen.rows \in Seq(ScreenedRow)
  /\ \A t \in TickersOf(screen.rows) : \E q \in Range(queries) :
       /\ q \in Query /\ ArmOf[q] = a /\ t \in TickersOf(fetch[<<s, q>>].rows)
       /\ \E page \in Page[q] : t \in TickersOf(page)

LEMMA ScreenOf ==
  ASSUME DiscoveryInv, NEW s \in setup.scans, NEW a, NEW queries \in Seq(Query),
         \A q \in Range(queries) : ArmOf[q] = a, NEW limit \in Nat,
         NEW screen, screen = RunWithSwap(s, queries, limit)
  PROVE  FoundFor(screen, s, a, queries)
<1>1. s \in Scan /\ ScreenerWell
  BY ScansAndQueries DEF DiscoveryInv
<1>2. /\ screen.rows \in Seq(ScreenedRow) /\ Len(screen.rows) <= limit
      /\ \A r \in Range(screen.rows) : \E q \in Range(queries) :
           /\ q \in Query /\ r.ticker \in TickersOf(fetch[<<s, q>>].rows)
           /\ \E page \in Page[q] : r.ticker \in TickersOf(page)
  BY <1>1, Swapped
<1>3. ASSUME NEW t \in TickersOf(screen.rows)
      PROVE  \E q \in Range(queries) :
               /\ q \in Query /\ ArmOf[q] = a /\ t \in TickersOf(fetch[<<s, q>>].rows)
               /\ \E page \in Page[q] : t \in TickersOf(page)
  <2>1. PICK r \in Range(screen.rows) : r.ticker = t
    BY DEF TickersOf
  <2>2. PICK q \in Range(queries) :
          /\ q \in Query /\ t \in TickersOf(fetch[<<s, q>>].rows)
          /\ \E page \in Page[q] : t \in TickersOf(page)
    BY <1>2, <2>1
  <2> QED
    BY <2>2
<1> QED
  BY <1>2, <1>3 DEF FoundFor

LEMMA FinishCatalystKeeps ==
  ASSUME DiscoveryInv, NEW s \in Scan, FinishCatalyst(s)
  PROVE  DiscoveryInv'
<1>1. /\ s \in setup.scans /\ "catalyst" \in setup.arms
      /\ arm[s]["catalyst"].stage \in {"running", "first", "second"}
  BY ReadyArm DEF FinishCatalyst
<1>2. PICK queries, screen :
        queries = QueriesOf.catalyst /\ screen = RunWithSwap(s, queries, Limit)
  OBVIOUS
<1>3. PICK w \in CatalystWorld, load \in Calendar :
        LET known == IF calendar # {} THEN calendar ELSE load
        IN /\ calendar' = known
           /\ Finish(s, "catalyst", CatalystReport(screen, w, known, Limit, Window),
                     Said(Dated(w, known)))
  BY <1>2 DEF FinishCatalyst
<1>4. PICK known \in Calendar : known = IF calendar # {} THEN calendar ELSE load
  BY DEF DiscoveryInv
<1>5. PICK report, said :
        report = CatalystReport(screen, w, known, Limit, Window) /\ said = Said(Dated(w, known))
  OBVIOUS
<1>6. calendar' = known /\ Finish(s, "catalyst", report, said)
  BY <1>3, <1>4, <1>5
<1>7. /\ screen.rows \in Seq(ScreenedRow)
      /\ \A t \in TickersOf(screen.rows) : \E q \in Range(queries) :
           /\ q \in Query /\ ArmOf[q] = "catalyst" /\ t \in TickersOf(fetch[<<s, q>>].rows)
           /\ \E page \in Page[q] : t \in TickersOf(page)
  <2>1. queries \in Seq(Query) /\ \A q \in Range(queries) : ArmOf[q] = "catalyst"
    BY <1>2, QueriesKnown
  <2>2. Limit \in Nat
    BY Bounds
  <2>3. s \in setup.scans /\ screen = RunWithSwap(s, queries, Limit)
    BY <1>1, <1>2
  <2>4. FoundFor(screen, s, "catalyst", queries)
    BY <2>1, <2>2, <2>3, ScreenOf
  <2> QED
    BY <2>4 DEF FoundFor
<1>8. TickersOf(screen.rows) \subseteq DOMAIN w.yfinance
  <2>1. \A q \in Range(QueriesOf.catalyst) : \A page \in Page[q] :
          TickersOf(page) \subseteq DOMAIN w.yfinance
    BY CatalystAssumption
  <2> QED
    BY <1>2, <1>7, <2>1
<1>9. IsReport(report) /\ \A r \in Range(report.rows) : Offers(r, said, TickersOf(screen.rows))
  BY <1>5, <1>7, <1>8, CatalystWell
<1>10. \A r \in Range(report.rows) : RowEarned(fetch, s, "catalyst", r, said)
  BY <1>7, <1>9 DEF RowEarned, Offers
<1>11. UNCHANGED <<screenerVars, setup, batch>>
  BY DEF FinishCatalyst
<1>12. calendar' = {} \/ calendar' \in Calendar
  BY <1>6
<1> QED
  BY <1>1, <1>6, <1>9, <1>10, <1>11, <1>12, Finished

LEMMA FinishPeadKeeps ==
  ASSUME DiscoveryInv, NEW s \in Scan, FinishPead(s)
  PROVE  DiscoveryInv'
<1>1. /\ s \in setup.scans /\ "pead" \in setup.arms
      /\ arm[s]["pead"].stage \in {"running", "first", "second"}
  BY ReadyArm DEF FinishPead
<1>2. PICK queries, screen :
        queries = QueriesOf.pead /\ screen = RunWithSwap(s, queries, PeadLimit)
  OBVIOUS
<1>3. PICK x \in PeadWorld : Finish(s, "pead", PeadReport(screen, x, Limit, Today), {})
  BY <1>2 DEF FinishPead
<1>4. PICK report : report = PeadReport(screen, x, Limit, Today) /\ Finish(s, "pead", report, {})
  BY <1>3
<1>5. /\ screen.rows \in Seq(ScreenedRow)
      /\ \A t \in TickersOf(screen.rows) : \E q \in Range(queries) :
           /\ q \in Query /\ ArmOf[q] = "pead" /\ t \in TickersOf(fetch[<<s, q>>].rows)
           /\ \E page \in Page[q] : t \in TickersOf(page)
  <2>1. queries \in Seq(Query) /\ \A q \in Range(queries) : ArmOf[q] = "pead"
    BY <1>2, QueriesKnown
  <2>2. PeadLimit \in Nat
    BY Bounds
  <2>3. s \in setup.scans /\ screen = RunWithSwap(s, queries, PeadLimit)
    BY <1>1, <1>2
  <2>4. FoundFor(screen, s, "pead", queries)
    BY <2>1, <2>2, <2>3, ScreenOf
  <2> QED
    BY <2>4 DEF FoundFor
<1>6. \A u \in Range(screen.rows) : u.ticker \in TickersOf(screen.rows)
  BY DEF TickersOf
<1>7. \A u \in Range(screen.rows) : Told(x, u.ticker)
  <2>1. \A q \in Range(queries) : \A page \in Page[q] : \A t \in TickersOf(page) : Told(x, t)
    BY <1>2, PeadAssumption DEF Told
  <2> QED
    BY <1>5, <1>6, <2>1
<1>8. /\ IsReport(report)
      /\ \A r \in Range(report.rows) :
           r.day < Today /\ \E u \in Range(screen.rows) : r.ticker = u.ticker
  BY <1>4, <1>5, <1>7, PeadWell
<1>9. \A r \in Range(report.rows) : RowEarned(fetch, s, "pead", r, {})
  BY <1>5, <1>6, <1>8 DEF RowEarned
<1>10. UNCHANGED <<screenerVars, setup, batch>> /\ (calendar' = {} \/ calendar' \in Calendar)
  BY DEF FinishPead, DiscoveryInv
<1> QED
  BY <1>1, <1>4, <1>8, <1>9, <1>10, Finished

LEMMA FinishCoiledKeeps ==
  ASSUME DiscoveryInv, NEW s \in Scan, FinishCoiled(s)
  PROVE  DiscoveryInv'
<1>1. /\ s \in setup.scans /\ "coiled" \in setup.arms
      /\ arm[s]["coiled"].stage \in {"running", "first", "second"}
  BY ReadyArm DEF FinishCoiled
<1>2. PICK queries, screen :
        queries = QueriesOf.coiled /\ screen = RunWithSwap(s, queries, Limit)
  OBVIOUS
<1>3. PICK report : report = CoiledReport(screen, Limit) /\ Finish(s, "coiled", report, {})
  BY <1>2 DEF FinishCoiled
<1>4. /\ screen.rows \in Seq(ScreenedRow)
      /\ \A t \in TickersOf(screen.rows) : \E q \in Range(queries) :
           /\ q \in Query /\ ArmOf[q] = "coiled" /\ t \in TickersOf(fetch[<<s, q>>].rows)
           /\ \E page \in Page[q] : t \in TickersOf(page)
  <2>1. queries \in Seq(Query) /\ \A q \in Range(queries) : ArmOf[q] = "coiled"
    BY <1>2, QueriesKnown
  <2>2. Limit \in Nat
    BY Bounds
  <2>3. s \in setup.scans /\ screen = RunWithSwap(s, queries, Limit)
    BY <1>1, <1>2
  <2>4. FoundFor(screen, s, "coiled", queries)
    BY <2>1, <2>2, <2>3, ScreenOf
  <2> QED
    BY <2>4 DEF FoundFor
<1>5. IsReport(report) /\ \A r \in Range(report.rows) : \E u \in Range(screen.rows) : r.ticker = u.ticker
  BY <1>3, <1>4, CoiledWell
<1>6. \A u \in Range(screen.rows) : u.ticker \in TickersOf(screen.rows)
  BY DEF TickersOf
<1>7. \A r \in Range(report.rows) : RowEarned(fetch, s, "coiled", r, {})
  BY <1>4, <1>5, <1>6 DEF RowEarned
<1>8. UNCHANGED <<screenerVars, setup, batch>> /\ (calendar' = {} \/ calendar' \in Calendar)
  BY DEF FinishCoiled, DiscoveryInv
<1> QED
  BY <1>1, <1>3, <1>5, <1>7, <1>8, Finished

LEMMA FinishActivistKeeps ==
  ASSUME DiscoveryInv, NEW s \in Scan, FinishActivist(s)
  PROVE  DiscoveryInv'
<1>1. /\ s \in setup.scans /\ "activist" \in setup.arms
      /\ arm[s]["activist"].stage \in {"running", "first", "second"}
  BY ReadyArm DEF FinishActivist
<1>2. PICK x \in ActivistWorld : Finish(s, "activist", ActivistReport(x, Limit, Today), {})
  BY DEF FinishActivist
<1>3. PICK report : report = ActivistReport(x, Limit, Today) /\ Finish(s, "activist", report, {})
  BY <1>2
<1>4. IsReport(report) /\ \A r \in Range(report.rows) : r.from = {"sec_edgar"}
  BY <1>3, ActivistWell
<1>5. \A r \in Range(report.rows) : RowEarned(fetch, s, "activist", r, {})
  BY <1>4 DEF RowEarned
<1>6. UNCHANGED <<screenerVars, setup, batch>> /\ (calendar' = {} \/ calendar' \in Calendar)
  BY DEF FinishActivist, DiscoveryInv
<1> QED
  BY <1>1, <1>3, <1>4, <1>5, <1>6, Finished

\* A sector is asked for: the places of the semaphore stay as they are.
LEMMA SectorAsked ==
  ASSUME ScreenerWell, NEW s \in Scan, NEW q \in SectorQuery, NEW limit \in 1..Limit,
         fetch[<<s, q>>].stage # "capturing", UNCHANGED <<now, cache, held>>,
         NEW queries, queries = <<q>>, fetch' = Requested(fetch, s, queries, limit)
  PROVE  /\ ScreenerWell'
         /\ \A z \in Scan, p \in Query : z # s \/ p # q => fetch'[<<z, p>>] = fetch[<<z, p>>]
<1>1. fetch \in [Fetch -> FetchRecord] /\ q \in Query /\ ArmOf[q] = "sector"
  BY DEF ScreenerWell, SectorQuery
<1>2. PICK f \in Fetch : f = <<s, q>> /\ f[1] = s /\ f[2] = q
  BY <1>1 DEF Fetch
<1>3. Range(queries) = {q}
  BY DEF Range
<1>4. PICK r : r = [Idle EXCEPT !.stage = "loading", !.limit = limit]
  OBVIOUS
<1>5. /\ r.stage = "loading" /\ r.limit = limit /\ r.rows = << >> /\ r.loads = 0 /\ r.age = 0
      /\ r.of = "none"
      /\ r = [stage |-> "loading", limit |-> limit, loads |-> 0, rows |-> << >>, age |-> 0,
              of |-> "none"]
  BY <1>4 DEF Idle
<1>6. << >> \in Seq(CandidateRow) /\ limit \in Nat
  BY EmptySeq, Bounds
<1>7. r \in FetchRecord
  BY <1>5, <1>6, Loads DEF FetchRecord, FetchStage
<1>8. \A g \in Fetch : (g[1] = s /\ g[2] \in {q}) <=> g = f
  BY <1>2 DEF Fetch
<1>9. fetch' = [g \in Fetch |-> IF g = f THEN r ELSE fetch[g]]
  <2>1. fetch' = [g \in Fetch |-> IF g[1] = s /\ g[2] \in {q} THEN r ELSE fetch[g]]
    BY <1>1, <1>3, <1>4 DEF Requested
  <2> QED
    BY <1>8, <2>1
<1>10. /\ fetch' \in [Fetch -> FetchRecord] /\ fetch'[f] = r
       /\ \A g \in Fetch : g # f => fetch'[g] = fetch[g]
  BY <1>1, <1>7, <1>9
<1>11. limit \in LimitsOf(q)
  BY <1>1 DEF LimitsOf
<1>12. FetchWell(q, r)
  BY <1>5, <1>11 DEF FetchWell
<1>13. \A g \in Fetch : FetchWell(g[2], fetch'[g])
  BY <1>2, <1>10, <1>12 DEF ScreenerWell
<1>14. \A g \in Fetch : fetch'[g].stage = "capturing" <=> fetch[g].stage = "capturing"
  BY <1>2, <1>5, <1>10
<1>15. PlacesWell'
  BY <1>14 DEF ScreenerWell, PlacesWell
<1>16. \A z \in Scan, p \in Query : z # s \/ p # q => fetch'[<<z, p>>] = fetch[<<z, p>>]
  <2>1. ASSUME NEW z \in Scan, NEW p \in Query, z # s \/ p # q
        PROVE  <<z, p>> \in Fetch /\ <<z, p>> # <<s, q>>
    BY <2>1 DEF Fetch
  <2> QED
    BY <1>2, <1>10, <2>1
<1>17. ScreenerWell'
  BY <1>10, <1>13, <1>15 DEF ScreenerWell
<1> QED
  BY <1>16, <1>17

\* The arms that did not ask for the sector see nothing of it.
LEMMA OthersStay ==
  ASSUME setup \in Setup, NEW s \in setup.scans, NEW q \in SectorQuery,
         \A z \in Scan, p \in Query : z # s \/ p # q => fetch'[<<z, p>>] = fetch[<<z, p>>]
  PROVE  \A z \in setup.scans : \A e \in setup.arms :
           (z # s \/ e # "sector") => Stays(fetch, fetch', z, e)
<1>1. setup.scans \subseteq Scan /\ ArmOf[q] = "sector"
  BY ScansAndQueries DEF SectorQuery
<1> QED
  BY <1>1 DEF Stays

\* What the sector arm is known to hold.
LEMMA SectorArm ==
  ASSUME DiscoveryInv, NEW s \in setup.scans, "sector" \in setup.arms
  PROVE  /\ ArmWell(fetch, s, "sector", arm[s].sector)
         /\ arm[s].sector = arm[s]["sector"]
<1>1. arm[s].sector = arm[s]["sector"]
  OBVIOUS
<1> QED
  BY <1>1 DEF DiscoveryInv, ArmsWell

LEMMA RankKeeps ==
  ASSUME DiscoveryInv, NEW s \in Scan, Rank(s)
  PROVE  DiscoveryInv'
<1>1. /\ s \in setup.scans /\ "sector" \in setup.arms /\ arm[s]["sector"].stage = "running"
  BY DEF Rank, At
<1>2. PICK h, ranked, screened :
        /\ h \in History /\ ranked = RankSectors(h) /\ screened = Screened(ranked)
        /\ IF screened = << >>
           THEN Finish(s, "sector", Report(<< >>, "empty"), {}) /\ UNCHANGED fetch
           ELSE /\ arm' = [arm EXCEPT ![s].sector =
                             [@ EXCEPT !.stage = "first", !.ranked = ranked]]
                /\ fetch' = Requested(fetch, s, <<screened[1].sector>>, Limit)
  BY DEF Rank
<1>3. UNCHANGED <<now, cache, held, setup, calendar, batch>>
  BY DEF Rank
<1>4. ranked \in Seq(Rated) /\ screened \in Seq(Rated) /\ Len(screened) <= 2
  BY <1>2, RankedSectors, ScreenedSectors
<1>5. CASE screened = << >>
  <2>1. PICK e \in Seq({}) : e = << >> /\ Len(e) <= Limit /\ Range(e) = {}
    BY NoRows
  <2>2. PICK report : report = Report(e, "empty")
    OBVIOUS
  <2>3. report = Reported(e) /\ report.rows = e
    BY <2>1, <2>2 DEF Reported, Report
  <2>4. IsReport(report)
    BY <2>1, <2>3, ReportedWell
  <2>5. \A r \in Range(report.rows) : RowEarned(fetch, s, "sector", r, {})
    BY <2>1, <2>3
  <2>6. Finish(s, "sector", report, {}) /\ UNCHANGED <<screenerVars, setup, batch>>
    BY <1>2, <1>3, <1>5, <2>1, <2>2 DEF screenerVars
  <2>7. calendar' = {} \/ calendar' \in Calendar
    BY <1>3 DEF DiscoveryInv
  <2> QED
    BY <1>1, <2>4, <2>5, <2>6, <2>7, Finished
<1>6. CASE screened # << >>
  <2>1. PICK q \in SectorQuery : q = screened[1].sector
    <3>1. Len(screened) \in Nat /\ Len(screened) # 0
      BY <1>4, <1>6, ListMembers
    <3>2. 1 \in 1..Len(screened)
      BY <3>1
    <3>3. screened[1] \in Rated
      BY <1>4, <3>2, ListMembers
    <3> QED
      BY <3>3 DEF Rated
  <2>2. PICK y, stage, old, report, said :
          /\ y = arm[s]["sector"]
          /\ y = [stage |-> stage, ranked |-> old, report |-> report, said |-> said]
          /\ report.rows = << >> /\ IsReport(report)
    <3>1. PICK y : y = arm[s]["sector"]
      OBVIOUS
    <3>2. ArmWell(fetch, s, "sector", y) /\ y.stage = "running"
      BY <1>1, <3>1 DEF DiscoveryInv, ArmsWell
    <3> QED
      BY <3>1, <3>2 DEF ArmWell
  <2>3. PICK x : x = [y EXCEPT !.stage = "first", !.ranked = ranked]
    OBVIOUS
  <2>4. x = [stage |-> "first", ranked |-> ranked, report |-> report, said |-> said]
    <3>1. y = [stage |-> stage, ranked |-> old, report |-> report, said |-> said]
      BY <2>2
    <3> QED
      BY <2>3, <3>1
  <2>5. x.stage = "first" /\ x.ranked = ranked /\ x.report = report /\ x.said = said
    BY <2>4
  <2>6. arm' = [arm EXCEPT ![s]["sector"] = x]
    <3>1. arm' = [arm EXCEPT ![s].sector = [@ EXCEPT !.stage = "first", !.ranked = ranked]]
      BY <1>2, <1>6
    <3> QED
      BY <2>2, <2>3, <3>1
  <2>7. \A p \in Query : ArmOf[p] = "sector" => fetch[<<s, p>>].stage = "idle"
    BY <1>1 DEF DiscoveryInv, ArmsWell, ArmWell, Quiet
  <2>8. fetch' = Requested(fetch, s, <<q>>, Limit) /\ Limit \in 1..Limit
    BY <1>2, <1>6, <2>1, Bounds
  <2>9. fetch[<<s, q>>].stage = "idle" /\ q \in Query
    BY <2>7 DEF SectorQuery
  <2>10. /\ ScreenerWell'
         /\ \A z \in Scan, p \in Query : z # s \/ p # q => fetch'[<<z, p>>] = fetch[<<z, p>>]
    <3>1. PICK queries : queries = <<q>>
      OBVIOUS
    <3>2. fetch' = Requested(fetch, s, queries, Limit) /\ fetch[<<s, q>>].stage # "capturing"
      BY <2>8, <2>9, <3>1
    <3>3. ScreenerWell /\ UNCHANGED <<now, cache, held>>
      BY <1>3 DEF DiscoveryInv
    <3> QED
      BY <2>8, <3>1, <3>2, <3>3, SectorAsked
  <2>11. Quiet(fetch', s, "sector", x)
    <3>1. \A p \in Query : ArmOf[p] = "sector" /\ p # q => fetch'[<<s, p>>].stage = "idle"
      BY <2>7, <2>10
    <3> QED
      BY <1>2, <2>1, <2>5, <3>1 DEF Quiet
  <2>12. SectorsWell(x)
    BY <1>2, <1>4, <1>6, <2>5 DEF SectorsWell
  <2>13. \A r \in Range(x.report.rows) : RowEarned(fetch', s, "sector", r, x.said)
    <3>1. PICK e \in Seq({}) : e = << >> /\ Range(e) = {}
      BY NoRows
    <3> QED
      BY <2>2, <2>5, <3>1
  <2>14. ArmWell(fetch', s, "sector", x)
    BY <2>2, <2>4, <2>5, <2>11, <2>12, <2>13 DEF ArmWell, Stages
  <2>15. \A z \in setup.scans : \A e \in setup.arms :
           (z # s \/ e # "sector") => Stays(fetch, fetch', z, e)
    BY <1>1, <2>10, OthersStay DEF DiscoveryInv
  <2>16. setup' = setup /\ batch' = batch /\ (calendar' = {} \/ calendar' \in Calendar)
    BY <1>3 DEF DiscoveryInv
  <2>17. PICK a \in setup.arms : a = "sector"
    BY <1>1
  <2>18. /\ arm[s][a].stage # "done" /\ arm' = [arm EXCEPT ![s][a] = x]
         /\ ArmWell(fetch', s, a, x)
         /\ \A z \in setup.scans : \A e \in setup.arms :
              (z # s \/ e # a) => Stays(fetch, fetch', z, e)
    BY <1>1, <2>6, <2>14, <2>15, <2>17
  <2>19. ScreenerWell'
    BY <2>10
  <2> QED
    BY <1>1, <2>16, <2>18, <2>19, ArmChanged
<1> QED
  BY <1>5, <1>6

LEMMA OneOrTwo == ASSUME NEW n \in Nat, n # 0, n <= 2 PROVE n \in 1..2
OBVIOUS

LEMMA NotShort ==
  ASSUME NEW m \in 1..2, NEW n \in Nat \ {0}, NEW k \in Nat, k = IF n <= m THEN n ELSE m
  PROVE  1 \in 1..k
OBVIOUS

\* The sectors that the sector arm has asked for are the first of those it screens.
LEMMA SectorsAsked ==
  ASSUME DiscoveryInv, NEW s \in setup.scans, "sector" \in setup.arms,
         arm[s]["sector"].stage \in {"first", "second"},
         NEW screened, screened = Screened(arm[s].sector.ranked)
  PROVE  /\ screened \in Seq(Rated) /\ Len(screened) \in 1..2
         /\ arm[s]["sector"].stage = "second" => Len(screened) = 2
         /\ Asked(s) \in Seq(Rated) /\ 1 \in 1..Len(Asked(s))
         /\ \A i \in 1..Len(Asked(s)) : i \in 1..Len(screened) /\ Asked(s)[i] = screened[i]
<1>1. PICK x : x = arm[s].sector /\ x = arm[s]["sector"] /\ ArmWell(fetch, s, "sector", x)
  BY SectorArm
<1>2. SectorsWell(x) /\ x.stage \in {"first", "second"} /\ screened = Screened(x.ranked)
  BY <1>1 DEF ArmWell
<1>3. /\ x.ranked \in Seq(Rated) /\ screened # << >>
      /\ x.stage = "second" => Len(screened) = 2
  BY <1>2 DEF SectorsWell
<1>4. screened \in Seq(Rated) /\ Len(screened) <= 2
  BY <1>2, <1>3, ScreenedSectors
<1>5. Len(screened) \in 1..2
  <2>1. PICK m \in Nat : m = Len(screened) /\ m # 0 /\ m <= 2
    BY <1>3, <1>4, ListMembers
  <2>2. m \in 1..2
    BY <2>1, OneOrTwo
  <2> QED
    BY <2>1, <2>2
<1>6. PICK n \in Nat \ {0} : Asked(s) = First(screened, n)
  <2>1. (IF At(s, "sector", "second") THEN 2 ELSE 1) \in Nat \ {0}
    OBVIOUS
  <2>2. Asked(s) = First(screened, IF At(s, "sector", "second") THEN 2 ELSE 1)
    BY DEF Asked
  <2> QED
    BY <2>1, <2>2
<1>7. /\ First(screened, n) \in Seq(Rated)
      /\ Len(First(screened, n)) = IF n <= Len(screened) THEN n ELSE Len(screened)
      /\ \A i \in 1..Len(First(screened, n)) :
           i \in 1..Len(screened) /\ First(screened, n)[i] = screened[i]
  BY <1>4, FirstOf
<1>8. 1 \in 1..Len(First(screened, n))
  <2>1. Len(First(screened, n)) \in Nat
    BY <1>7, ListMembers
  <2> QED
    BY <1>5, <1>7, <2>1, NotShort
<1> QED
  BY <1>1, <1>3, <1>4, <1>5, <1>6, <1>7, <1>8

\* What was found in a sector.
LEMMA SectorFound ==
  ASSUME DiscoveryInv, NEW s \in setup.scans, NEW q \in SectorQuery
  PROVE  /\ RowsIn(s, q) \in Seq(ScreenedRow)
         /\ \A t \in TickersOf(RowsIn(s, q)) : t \in TickersOf(fetch[<<s, q>>].rows)
<1>1. q \in Query /\ ArmOf[q] = "sector"
  BY DEF SectorQuery
<1>2. fetch[<<s, q>>].limit \in Nat
  <2>1. PICK f \in Fetch : f = <<s, q>>
    BY <1>1, ScansAndQueries DEF DiscoveryInv
  <2> QED
    BY <2>1 DEF DiscoveryInv, ScreenerWell, FetchRecord
<1>3. PICK queries : queries = <<q>>
  OBVIOUS
<1>4. queries \in Seq(Query) /\ Range(queries) = {q}
  BY <1>1, <1>3 DEF Range
<1>5. PICK limit \in Nat : limit = fetch[<<s, q>>].limit
  BY <1>2
<1>6. PICK screen : screen = RunWithSwap(s, queries, limit) /\ screen.rows = RowsIn(s, q)
  BY <1>3, <1>5 DEF RowsIn
<1>7. \A p \in Range(queries) : ArmOf[p] = "sector"
  BY <1>1, <1>4
<1>8. FoundFor(screen, s, "sector", queries)
  BY <1>4, <1>6, <1>7, ScreenOf
<1> QED
  BY <1>4, <1>6, <1>8 DEF FoundFor

LEMMA StillMissing ==
  ASSUME NEW limit \in Nat, NEW n \in Nat, NEW k, k = limit - n, k > 0 PROVE k \in 1..limit
OBVIOUS

LEMMA TwoOf == ASSUME NEW n \in 1..2, ~(n < 2) PROVE n = 2 /\ 2 \in 1..n /\ 1 \in 1..n
OBVIOUS

LEMMA ScreenSecondKeeps ==
  ASSUME DiscoveryInv, NEW s \in Scan, ScreenSecond(s)
  PROVE  DiscoveryInv'
<1>1. /\ s \in setup.scans /\ "sector" \in setup.arms /\ arm[s]["sector"].stage = "first"
      /\ Ready(s, "sector") /\ Missing(s) > 0
  BY DEF ScreenSecond, At
<1>2. PICK screened : screened = Screened(arm[s].sector.ranked)
  OBVIOUS
<1>3. /\ screened \in Seq(Rated) /\ Len(screened) \in 1..2
      /\ Asked(s) \in Seq(Rated) /\ 1 \in 1..Len(Asked(s))
      /\ \A i \in 1..Len(Asked(s)) : i \in 1..Len(screened) /\ Asked(s)[i] = screened[i]
  BY <1>1, <1>2, SectorsAsked
<1>4. PICK limit :
        /\ limit = Missing(s) /\ limit > 0
        /\ limit = IF At(s, "sector", "second") \/ Len(screened) < 2 THEN 0
                   ELSE Limit - Len(RowsIn(s, screened[1].sector))
  BY <1>1, <1>2 DEF Missing
<1>5. ~(Len(screened) < 2) /\ limit = Limit - Len(RowsIn(s, screened[1].sector))
  BY <1>4
<1>6. Len(screened) = 2 /\ 2 \in 1..Len(screened) /\ 1 \in 1..Len(screened)
  BY <1>3, <1>5, TwoOf
<1>7. PICK p, q \in SectorQuery : p = screened[1].sector /\ q = screened[2].sector
  <2>1. screened[1] \in Rated /\ screened[2] \in Rated
    BY <1>3, <1>6, ListMembers
  <2> QED
    BY <2>1 DEF Rated
<1>8. limit \in 1..Limit
  <2>1. RowsIn(s, p) \in Seq(ScreenedRow)
    BY <1>1, <1>7, SectorFound
  <2>2. Len(RowsIn(s, p)) \in Nat
    BY <2>1, ListMembers
  <2>3. limit = Limit - Len(RowsIn(s, p)) /\ limit > 0
    BY <1>4, <1>5, <1>7
  <2>4. Limit \in Nat
    BY Bounds
  <2> QED
    BY <2>2, <2>3, <2>4, StillMissing
<1>9. /\ fetch' = Requested(fetch, s, <<q>>, limit)
      /\ arm' = [arm EXCEPT ![s].sector = [@ EXCEPT !.stage = "second"]]
      /\ UNCHANGED <<now, cache, held, setup, calendar, batch>>
  BY <1>2, <1>4, <1>7 DEF ScreenSecond
<1>10. Answered(<<s, p>>)
  <2>1. PICK sectors : sectors = [i \in DOMAIN Asked(s) |-> Asked(s)[i].sector] /\ Over(s, sectors)
    BY <1>1 DEF Ready, At
  <2>2. 1 \in DOMAIN Asked(s) /\ Asked(s)[1] = screened[1]
    BY <1>3, ListMembers
  <2>3. sectors[1] = p /\ 1 \in DOMAIN sectors
    BY <1>7, <2>1, <2>2
  <2>4. p \in Range(sectors)
    BY <2>3 DEF Range
  <2> QED
    BY <2>1, <2>4 DEF Over
<1>11. PICK y, report, ranked, said :
         /\ y = arm[s]["sector"] /\ y = arm[s].sector
         /\ y = [stage |-> "first", ranked |-> ranked, report |-> report, said |-> said]
         /\ report.rows = << >> /\ IsReport(report)
         /\ ranked \in Seq(Rated) /\ Screened(ranked) = screened /\ screened # << >>
         /\ Quiet(fetch, s, "sector", y)
  <2>1. PICK y : y = arm[s].sector /\ y = arm[s]["sector"] /\ ArmWell(fetch, s, "sector", y)
    BY <1>1, SectorArm
  <2>2. y.stage = "first" /\ Screened(y.ranked) = screened
    BY <1>1, <1>2, <2>1
  <2>3. y = [stage |-> "first", ranked |-> y.ranked, report |-> y.report, said |-> y.said]
    BY <2>1, <2>2 DEF ArmWell
  <2>4. y.report.rows = << >> /\ IsReport(y.report) /\ Quiet(fetch, s, "sector", y)
    BY <2>1, <2>2 DEF ArmWell
  <2>5. y.ranked \in Seq(Rated) /\ Screened(y.ranked) # << >>
    BY <2>1, <2>2 DEF ArmWell, SectorsWell
  <2> QED
    BY <2>1, <2>2, <2>3, <2>4, <2>5
<1>12. PICK x : x = [y EXCEPT !.stage = "second"]
  OBVIOUS
<1>13. x = [stage |-> "second", ranked |-> ranked, report |-> report, said |-> said]
  <2>1. y = [stage |-> "first", ranked |-> ranked, report |-> report, said |-> said]
    BY <1>11
  <2> QED
    BY <1>12, <2>1
<1>14. x.stage = "second" /\ x.ranked = ranked /\ x.report = report /\ x.said = said
  BY <1>13
<1>15. fetch[<<s, q>>].stage # "capturing"
  <2>1. CASE fetch[<<s, q>>].stage = "idle"
    BY <2>1
  <2>2. CASE fetch[<<s, q>>].stage # "idle"
    <3>1. q \in Query /\ ArmOf[q] = "sector"
      BY DEF SectorQuery
    <3>2. y.stage = "first" /\ y.ranked = ranked
      BY <1>11
    <3>3. q = Screened(y.ranked)[1].sector
      BY <1>11, <2>2, <3>1, <3>2 DEF Quiet
    <3>4. q = p
      BY <1>7, <1>11, <3>2, <3>3
    <3> QED
      BY <1>10, <3>4 DEF Answered
  <2> QED
    BY <2>1, <2>2
<1>16. /\ ScreenerWell'
       /\ \A z \in Scan, e \in Query : z # s \/ e # q => fetch'[<<z, e>>] = fetch[<<z, e>>]
  <2>1. PICK queries : queries = <<q>>
    OBVIOUS
  <2>2. fetch' = Requested(fetch, s, queries, limit)
    BY <1>9, <2>1
  <2>3. ScreenerWell /\ UNCHANGED <<now, cache, held>>
    BY <1>9 DEF DiscoveryInv
  <2> QED
    BY <1>8, <1>15, <2>1, <2>2, <2>3, SectorAsked
<1>17. Quiet(fetch', s, "sector", x) /\ SectorsWell(x)
  BY <1>6, <1>11, <1>14 DEF Quiet, SectorsWell
<1>18. \A r \in Range(x.report.rows) : RowEarned(fetch', s, "sector", r, x.said)
  <2>1. PICK e \in Seq({}) : e = << >> /\ Range(e) = {}
    BY NoRows
  <2> QED
    BY <1>11, <1>14, <2>1
<1>19. ArmWell(fetch', s, "sector", x)
  BY <1>11, <1>13, <1>14, <1>17, <1>18 DEF ArmWell, Stages
<1>20. PICK a \in setup.arms : a = "sector"
  BY <1>1
<1>21. arm' = [arm EXCEPT ![s][a] = x]
  <2>1. arm' = [arm EXCEPT ![s].sector = [@ EXCEPT !.stage = "second"]]
    BY <1>9
  <2> QED
    BY <1>11, <1>12, <1>20, <2>1
<1>22. \A z \in setup.scans : \A e \in setup.arms :
         (z # s \/ e # a) => Stays(fetch, fetch', z, e)
  <2>1. setup \in Setup
    BY DEF DiscoveryInv
  <2>2. \A z \in setup.scans : \A e \in setup.arms :
          (z # s \/ e # "sector") => Stays(fetch, fetch', z, e)
    BY <1>1, <1>16, <2>1, OthersStay
  <2> QED
    BY <1>20, <2>2
<1>23. setup' = setup /\ batch' = batch /\ (calendar' = {} \/ calendar' \in Calendar)
  BY <1>9 DEF DiscoveryInv
<1>24. arm[s][a].stage # "done" /\ ArmWell(fetch', s, a, x) /\ ScreenerWell'
  BY <1>1, <1>16, <1>19, <1>20
<1> QED
  BY <1>1, <1>21, <1>22, <1>23, <1>24, ArmChanged

LEMMA FinishSectorKeeps ==
  ASSUME DiscoveryInv, NEW s \in Scan, FinishSector(s)
  PROVE  DiscoveryInv'
<1>1. /\ s \in setup.scans /\ "sector" \in setup.arms
      /\ arm[s]["sector"].stage \in {"first", "second"}
  BY DEF FinishSector, At
<1>2. PICK screened : screened = Screened(arm[s].sector.ranked)
  OBVIOUS
<1>3. Asked(s) \in Seq(Rated)
  BY <1>1, <1>2, SectorsAsked
<1>4. PICK asked \in Seq(Rated) : asked = Asked(s)
  BY <1>3
<1>5. PICK n \in Nat : n = Len(asked) /\ DOMAIN asked = 1..n
  BY ListMembers
<1>6. PICK found : found = [i \in DOMAIN asked |-> RowsIn(s, asked[i].sector)]
  OBVIOUS
<1>7. ASSUME NEW i \in 1..n
      PROVE  /\ found[i] \in Seq(ScreenedRow)
             /\ \E q \in SectorQuery :
                  \A t \in TickersOf(found[i]) : t \in TickersOf(fetch[<<s, q>>].rows)
  <2>1. asked[i] \in Rated
    BY <1>5, ListMembers
  <2>2. PICK q \in SectorQuery : q = asked[i].sector
    BY <2>1 DEF Rated
  <2>3. found[i] = RowsIn(s, q)
    BY <1>5, <1>6, <2>2
  <2> QED
    BY <1>1, <2>3, SectorFound
<1>8. found \in [1..n -> Seq(ScreenedRow)]
  BY <1>5, <1>6, <1>7
<1>9. PICK ranked, report :
        /\ report = SectorReport(ranked, asked, found, Limit)
        /\ Finish(s, "sector", report, {})
  BY <1>4, <1>6 DEF FinishSector
<1>10. found \in Seq(Seq(ScreenedRow)) /\ Len(found) = n
  BY <1>8, Mapped
<1>11. OffersFound(report, found)
  <2>1. Len(found) = Len(asked)
    BY <1>5, <1>10
  <2>2. report = SectorReport(ranked, asked, found, Limit)
    BY <1>9
  <2> QED
    BY <1>10, <2>1, <2>2, SectorWell
<1>12. IsReport(report)
  BY <1>11 DEF OffersFound
<1>13. ASSUME NEW r \in Range(report.rows) PROVE RowEarned(fetch, s, "sector", r, {})
  <2>1. PICK i \in 1..n : r.ticker \in TickersOf(found[i])
    BY <1>10, <1>11 DEF OffersFound
  <2>3. PICK q \in SectorQuery :
          \A t \in TickersOf(found[i]) : t \in TickersOf(fetch[<<s, q>>].rows)
    BY <1>7
  <2>4. q \in Query /\ ArmOf[q] = "sector"
    BY DEF SectorQuery
  <2> QED
    BY <2>1, <2>3, <2>4 DEF RowEarned
<1>14. UNCHANGED <<screenerVars, setup, batch>> /\ (calendar' = {} \/ calendar' \in Calendar)
  BY DEF FinishSector, DiscoveryInv
<1>15. arm[s]["sector"].stage # "done" /\ arm[s]["sector"].stage # "idle"
  BY <1>1
<1> QED
  BY <1>1, <1>9, <1>12, <1>13, <1>14, <1>15, Finished

LEMMA MergeBatchKeeps ==
  ASSUME DiscoveryInv, NEW s \in Scan, MergeBatch(s)
  PROVE  DiscoveryInv'
<1>1. s \in setup.scans /\ \A a \in setup.arms : arm[s][a].stage = "done"
  BY DEF MergeBatch, AllDone, At
<1>2. batch' = [batch EXCEPT ![s] = {BatchOf(Arms, [a \in DOMAIN arm[s] |-> arm[s][a].report])}]
  BY DEF MergeBatch
<1>3. UNCHANGED <<now, cache, held, fetch, setup, arm, calendar>>
  BY DEF MergeBatch, screenerVars
<1>4. PICK B : batch = B /\ B = [z \in setup.scans |-> batch[z]]
  BY DEF DiscoveryInv
<1>5. /\ batch' = [z \in setup.scans |-> batch'[z]]
      /\ batch'[s] = {BatchOf(Arms, Reports(arm[s]))}
      /\ \A z \in setup.scans : z # s => batch'[z] = batch[z]
  BY <1>1, <1>2, <1>4 DEF Reports
<1>6. AllArmsDone(arm[s])
  <2>1. DOMAIN arm[s] = setup.arms
    BY <1>1 DEF DiscoveryInv, ArmsWell
  <2> QED
    BY <1>1, <2>1 DEF AllArmsDone
<1>7. \A z \in setup.scans : BatchWell(arm[z], batch'[z])
  BY <1>5, <1>6 DEF BatchWell, DiscoveryInv
<1>8. /\ ScreenerWell' /\ ArmsWell' /\ setup' \in Setup
      /\ (calendar' = {} \/ calendar' \in Calendar)
  BY <1>3 DEF DiscoveryInv, ScreenerWell, PlacesWell, ArmsWell
<1>9. Arms' = Arms
  BY <1>3 DEF Arms
<1>10. \A z \in setup.scans : BatchWell(arm[z], batch[z])'
  BY <1>3, <1>7, <1>9 DEF BatchWell
<1> QED
  BY <1>3, <1>5, <1>8, <1>10 DEF DiscoveryInv

LEMMA ClockKeeps ==
  ASSUME DiscoveryInv, Clock PROVE DiscoveryInv'
<1>1. /\ now < MaxTime /\ now' = now + 1
      /\ UNCHANGED <<cache, held, fetch, setup, arm, calendar, batch>>
  BY DEF Clock, Tick, discoveryVars
<1>2. now' \in 0..MaxTime
  BY <1>1, Bounds DEF DiscoveryInv, ScreenerWell
<1>3. ScreenerWell' /\ ArmsWell'
  BY <1>1, <1>2 DEF DiscoveryInv, ScreenerWell, PlacesWell, ArmsWell
<1>4. Arms' = Arms
  BY <1>1 DEF Arms
<1>5. \A z \in setup.scans : BatchWell(arm[z], batch[z])'
  BY <1>1, <1>4 DEF DiscoveryInv, BatchWell
<1> QED
  BY <1>1, <1>3, <1>5 DEF DiscoveryInv

LEMMA ScreeningKeeps ==
  ASSUME DiscoveryInv, Screening PROVE DiscoveryInv'
<1>1. ScreenerWork /\ UNCHANGED <<setup, arm, calendar, batch>> /\ ScreenerWell
  BY DEF Screening, discoveryVars, DiscoveryInv
<1>2. ScreenerWell' /\ AnswersStay
  BY <1>1, ScreenerKeeps
<1>3. ASSUME NEW s \in setup.scans, NEW a \in setup.arms PROVE ArmWell(fetch', s, a, arm[s][a])
  <2>1. s \in Scan
    BY ScansAndQueries DEF DiscoveryInv
  <2>2. Stays(fetch, fetch', s, a)
    BY <1>1, <1>2, <2>1, AnswersStayFor
  <2>3. ArmWell(fetch, s, a, arm[s][a])
    BY DEF DiscoveryInv, ArmsWell
  <2> QED
    BY <2>2, <2>3, ArmStays
<1>4. ArmsWell'
  BY <1>1, <1>3 DEF ArmsWell, DiscoveryInv
<1>5. Arms' = Arms
  BY <1>1 DEF Arms
<1>6. \A z \in setup.scans : BatchWell(arm[z], batch[z])'
  BY <1>1, <1>5 DEF DiscoveryInv, BatchWell
<1> QED
  BY <1>1, <1>2, <1>4, <1>6 DEF DiscoveryInv

\* A query known at once is asked by the arm it belongs to, which is not the sector arm.
AskedAtOnce(q) == \E a \in setup.arms \cap DOMAIN QueriesOf : q \in Range(QueriesOf[a])

LEMMA AskedAtOnceBy ==
  ASSUME NEW q, AskedAtOnce(q)
  PROVE  q \in Query /\ ArmOf[q] \in setup.arms /\ ArmOf[q] # "sector"
<1>1. PICK a \in setup.arms \cap DOMAIN QueriesOf : q \in Range(QueriesOf[a])
  BY DEF AskedAtOnce
<1>2. q \in Query /\ ArmOf[q] = a
  BY <1>1, SetupAssumption
<1>3. a # "sector"
  <2>1. DOMAIN QueriesOf = {"catalyst", "pead", "coiled"}
    BY DEF QueriesOf
  <2> QED
    BY <2>1
<1> QED
  BY <1>2, <1>3

LEMMA FetchParts == ASSUME NEW f \in Fetch PROVE f[1] \in Scan /\ f[2] \in Query /\ f = <<f[1], f[2]>>
BY DEF Fetch

LEMMA FetchOf == ASSUME NEW s \in Scan, NEW q \in Query
                 PROVE  \E f \in Fetch : f = <<s, q>> /\ f[1] = s /\ f[2] = q
<1>1. PICK f : f = <<s, q>>
  OBVIOUS
<1>2. f \in Fetch /\ f[1] = s /\ f[2] = q
  BY <1>1 DEF Fetch
<1> QED
  BY <1>1, <1>2

LEMMA LimitNatural == ASSUME NEW q \in Query, NEW limit \in LimitsOf(q) PROVE limit \in Nat
<1>1. limit \in 1..(Limit + PeadLimit)
  BY LimitsAreNatural
<1> QED
  BY <1>1, Bounds

\* The queries are asked: those of the scan were idle, so that no place is held by them.
LEMMA QueriesAsked ==
  ASSUME ScreenerWell, NEW s \in Scan, UNCHANGED <<now, cache, held>>,
         \A q \in Query : AskedAtOnce(q) => fetch[<<s, q>>].stage = "idle",
         fetch' = [f \in DOMAIN fetch |->
                     IF f[1] = s /\ AskedAtOnce(f[2])
                     THEN [Idle EXCEPT !.stage = "loading", !.limit = LimitOf(ArmOf[f[2]])]
                     ELSE fetch[f]]
  PROVE  /\ ScreenerWell'
         /\ \A z \in Scan, q \in Query : z # s \/ ~AskedAtOnce(q) => fetch'[<<z, q>>] = fetch[<<z, q>>]
<1>1. fetch \in [Fetch -> FetchRecord]
  BY DEF ScreenerWell
<1>2. \A f \in Fetch : f[1] \in Scan /\ f[2] \in Query /\ f = <<f[1], f[2]>>
  BY FetchParts
<1>3. ASSUME NEW f \in Fetch, f[1] = s, AskedAtOnce(f[2])
      PROVE  /\ fetch'[f] \in FetchRecord /\ FetchWell(f[2], fetch'[f])
             /\ fetch'[f].stage = "loading" /\ fetch[f].stage = "idle"
  <2>1. PICK q \in Query : q = f[2] /\ f = <<s, q>> /\ AskedAtOnce(q)
    BY <1>2, <1>3
  <2>2. PICK limit : limit = LimitOf(ArmOf[q])
    OBVIOUS
  <2>3. PICK r : r = [Idle EXCEPT !.stage = "loading", !.limit = limit]
    OBVIOUS
  <2>4. fetch'[f] = r
    BY <1>1, <1>3, <2>1, <2>2, <2>3
  <2>5. r = [stage |-> "loading", limit |-> limit, loads |-> 0, rows |-> << >>, age |-> 0,
             of |-> "none"]
    BY <2>3 DEF Idle
  <2>6. limit \in LimitsOf(q)
    <3>1. ArmOf[q] # "sector"
      BY <2>1, AskedAtOnceBy
    <3> QED
      BY <2>2, <3>1 DEF LimitsOf
  <2>7. << >> \in Seq(CandidateRow) /\ limit \in Nat
    BY <2>6, EmptySeq, LimitNatural
  <2>8. r \in FetchRecord
    BY <2>5, <2>7, Loads DEF FetchRecord, FetchStage
  <2>9. /\ r.stage = "loading" /\ r.limit = limit /\ r.rows = << >>
    BY <2>5
  <2>10. FetchWell(q, r)
    BY <2>6, <2>9 DEF FetchWell
  <2>11. fetch[f].stage = "idle"
    BY <2>1
  <2> QED
    BY <2>1, <2>4, <2>8, <2>9, <2>10, <2>11
<1>4. ASSUME NEW f \in Fetch, ~(f[1] = s /\ AskedAtOnce(f[2])) PROVE fetch'[f] = fetch[f]
  BY <1>1, <1>4
<1>5. fetch' \in [Fetch -> FetchRecord]
  <2>1. \A f \in Fetch : fetch'[f] \in FetchRecord
    BY <1>1, <1>3, <1>4
  <2>2. fetch' = [f \in Fetch |-> fetch'[f]]
    BY <1>1
  <2> QED
    BY <2>1, <2>2
<1>6. \A f \in Fetch : FetchWell(f[2], fetch'[f])
  BY <1>3, <1>4 DEF ScreenerWell
<1>7. \A f \in Fetch : fetch'[f].stage = "capturing" <=> fetch[f].stage = "capturing"
  BY <1>3, <1>4
<1>8. PlacesWell'
  BY <1>7 DEF ScreenerWell, PlacesWell
<1>9. ASSUME NEW z \in Scan, NEW q \in Query, z # s \/ ~AskedAtOnce(q)
      PROVE  fetch'[<<z, q>>] = fetch[<<z, q>>]
  <2>1. PICK f \in Fetch : f = <<z, q>> /\ f[1] = z /\ f[2] = q
    BY FetchOf
  <2> QED
    BY <1>4, <1>9, <2>1
<1> QED
  BY <1>5, <1>6, <1>8, <1>9 DEF ScreenerWell

LEMMA StartScanKeeps ==
  ASSUME DiscoveryInv, NEW s \in Scan, StartScan(s)
  PROVE  DiscoveryInv'
<1>1. s \in setup.scans /\ \A a \in setup.arms : arm[s][a].stage = "idle"
  BY DEF StartScan, At
<1>2. UNCHANGED <<now, cache, held, setup, calendar, batch>>
  BY DEF StartScan
<1>3. \A a \in setup.arms : \A q \in Query :
        ArmOf[q] = a => fetch[<<s, q>>].stage = "idle"
  <2>1. ASSUME NEW a \in setup.arms, NEW q \in Query, ArmOf[q] = a
        PROVE  fetch[<<s, q>>].stage = "idle"
    <3>1. ArmWell(fetch, s, a, arm[s][a]) /\ arm[s][a].stage = "idle"
      BY <1>1 DEF DiscoveryInv, ArmsWell
    <3> QED
      BY <2>1, <3>1 DEF ArmWell, Quiet
  <2> QED
    BY <2>1
<1>4. \A q \in Query : AskedAtOnce(q) => fetch[<<s, q>>].stage = "idle"
  BY <1>3, AskedAtOnceBy
<1>5. fetch' = [f \in DOMAIN fetch |->
                  IF f[1] = s /\ AskedAtOnce(f[2])
                  THEN [Idle EXCEPT !.stage = "loading", !.limit = LimitOf(ArmOf[f[2]])]
                  ELSE fetch[f]]
  BY DEF StartScan, AskedAtOnce
<1>6. /\ ScreenerWell'
      /\ \A z \in Scan, q \in Query : z # s \/ ~AskedAtOnce(q) => fetch'[<<z, q>>] = fetch[<<z, q>>]
  <2>1. ScreenerWell
    BY DEF DiscoveryInv
  <2> QED
    BY <1>2, <1>4, <1>5, <2>1, QueriesAsked
<1>7. PICK A : arm = A /\ A = [z \in setup.scans |-> [a \in setup.arms |-> arm[z][a]]]
  BY DEF DiscoveryInv, ArmsWell
<1>8. PICK y : y = [a \in setup.arms |-> [arm[s][a] EXCEPT !.stage = "running"]]
  OBVIOUS
<1>9. arm' = [arm EXCEPT ![s] = y]
  BY <1>8 DEF StartScan
<1>10. /\ arm' = [z \in setup.scans |-> IF z = s THEN y ELSE arm[z]]
       /\ arm'[s] = y /\ \A z \in setup.scans : z # s => arm'[z] = arm[z]
  BY <1>1, <1>7, <1>9
<1>11. arm' = [z \in setup.scans |-> [a \in setup.arms |-> arm'[z][a]]]
  <2>1. ASSUME NEW z \in setup.scans PROVE arm'[z] = [a \in setup.arms |-> arm'[z][a]]
    <3>1. CASE z = s
      BY <1>8, <1>10, <3>1
    <3>2. CASE z # s
      BY <1>7, <1>10, <3>2
    <3> QED
      BY <3>1, <3>2
  <2>2. arm' = [z \in setup.scans |-> arm'[z]]
    BY <1>10
  <2> QED
    BY <2>1, <2>2
<1>12. ASSUME NEW a \in setup.arms PROVE ArmWell(fetch', s, a, arm'[s][a])
  <2>1. PICK x : x = arm[s][a] /\ ArmWell(fetch, s, a, x) /\ x.stage = "idle"
    BY <1>1 DEF DiscoveryInv, ArmsWell
  <2>2. PICK stage, ranked, report, said :
          /\ x = [stage |-> stage, ranked |-> ranked, report |-> report, said |-> said]
          /\ report.rows = << >> /\ IsReport(report)
    BY <2>1 DEF ArmWell
  <2>3. PICK r : r = [x EXCEPT !.stage = "running"]
    OBVIOUS
  <2>4. r = [stage |-> "running", ranked |-> ranked, report |-> report, said |-> said]
    <3>1. x = [stage |-> stage, ranked |-> ranked, report |-> report, said |-> said]
      BY <2>2
    <3> QED
      BY <2>3, <3>1
  <2>5. r.stage = "running" /\ r.ranked = ranked /\ r.report = report /\ r.said = said
    BY <2>4
  <2>6. arm'[s][a] = r
    BY <1>8, <1>10, <2>1, <2>3
  <2>7. ASSUME NEW q \in Query, ArmOf[q] = "sector", a = "sector"
        PROVE  fetch'[<<s, q>>].stage = "idle"
    <3>1. ~AskedAtOnce(q)
      BY <2>7, AskedAtOnceBy
    <3>2. fetch'[<<s, q>>] = fetch[<<s, q>>]
      BY <1>6, <3>1
    <3> QED
      BY <1>3, <2>7, <3>2
  <2>8. Quiet(fetch', s, a, r)
    BY <2>5, <2>7 DEF Quiet
  <2>9. SectorsWell(r)
    BY <2>5 DEF SectorsWell
  <2>10. \A u \in Range(r.report.rows) : RowEarned(fetch', s, a, u, r.said)
    <3>1. PICK e \in Seq({}) : e = << >> /\ Range(e) = {}
      BY NoRows
    <3> QED
      BY <2>2, <2>5, <3>1
  <2>11. ArmWell(fetch', s, a, r)
    BY <2>2, <2>4, <2>5, <2>8, <2>9, <2>10 DEF ArmWell, Stages
  <2> QED
    BY <2>6, <2>11
<1>13. ASSUME NEW z \in setup.scans, z # s, NEW a \in setup.arms
       PROVE  ArmWell(fetch', z, a, arm'[z][a])
  <2>1. z \in Scan
    BY ScansAndQueries DEF DiscoveryInv
  <2>2. \A q \in Query : fetch'[<<z, q>>] = fetch[<<z, q>>]
    BY <1>6, <1>13, <2>1
  <2>3. Stays(fetch, fetch', z, a)
    BY <2>2 DEF Stays
  <2>4. ArmWell(fetch, z, a, arm[z][a])
    BY DEF DiscoveryInv, ArmsWell
  <2>5. ArmWell(fetch', z, a, arm[z][a])
    BY <2>3, <2>4, ArmStays
  <2> QED
    BY <1>10, <1>13, <2>5
<1>14. ArmsWell'
  BY <1>2, <1>11, <1>12, <1>13 DEF ArmsWell
<1>15. Arms' = Arms
  BY <1>2 DEF Arms
<1>16. ASSUME NEW z \in setup.scans PROVE BatchWell(arm[z], batch[z])'
  <2>1. BatchWell(arm[z], batch[z]) /\ batch'[z] = batch[z]
    BY <1>2 DEF DiscoveryInv
  <2>2. CASE z # s \/ setup.arms = {}
    <3>1. arm'[z] = arm[z]
      <4>1. CASE z # s
        BY <1>10, <4>1
      <4>2. CASE z = s /\ setup.arms = {}
        BY <1>7, <1>8, <1>10, <4>2
      <4> QED
        BY <2>2, <4>1, <4>2
    <3> QED
      BY <1>15, <2>1, <3>1 DEF BatchWell
  <2>3. CASE z = s /\ setup.arms # {}
    <3>1. DOMAIN arm[s] = setup.arms
      BY <1>1, <1>7
    <3>2. ~AllArmsDone(arm[s])
      BY <1>1, <2>3, <3>1 DEF AllArmsDone
    <3>3. batch'[z] = {}
      BY <2>1, <2>3, <3>2 DEF BatchWell
    <3> QED
      BY <3>3 DEF BatchWell
  <2> QED
    BY <2>2, <2>3
<1> QED
  BY <1>2, <1>6, <1>14, <1>16 DEF DiscoveryInv

-----------------------------------------------------------------------------
(* The invariant.                                                           *)

LEMMA IdleFetch == Idle \in FetchRecord /\ \A q \in Query : FetchWell(q, Idle)
<1>1. PICK r : r = Idle
  OBVIOUS
<1>2. /\ r = [stage |-> "idle", limit |-> 0, loads |-> 0, rows |-> << >>, age |-> 0, of |-> "none"]
      /\ r.stage = "idle" /\ r.rows = << >>
  BY <1>1 DEF Idle
<1>3. << >> \in Seq(CandidateRow) /\ 0 \in Nat
  BY EmptySeq
<1>4. r \in FetchRecord
  BY <1>2, <1>3, Loads DEF FetchRecord, FetchStage
<1>5. \A q \in Query : FetchWell(q, r)
  BY <1>2 DEF FetchWell
<1> QED
  BY <1>1, <1>4, <1>5

LEMMA NothingReported == IsReport(Report(<< >>, "empty"))
<1>1. PICK e \in Seq({}) : e = << >> /\ Len(e) <= Limit
  BY NoRows
<1>2. Report(<< >>, "empty") = Reported(e)
  BY <1>1 DEF Reported
<1> QED
  BY <1>1, <1>2, ReportedWell

LEMMA ScreenerStarts == ASSUME ScreenerInit PROVE ScreenerWell
<1>1. /\ now = 0 /\ cache = [k \in Key |-> {}] /\ held = {}
      /\ fetch = [f \in Fetch |-> Idle]
  BY DEF ScreenerInit, Fetch
<1>2. /\ fetch \in [Fetch -> FetchRecord] /\ \A f \in Fetch : fetch[f] = Idle
  BY <1>1, IdleFetch
<1>3. \A f \in Fetch : FetchWell(f[2], fetch[f])
  BY <1>2, IdleFetch, FetchParts
<1>4. \A f \in Fetch : fetch[f].stage = "idle"
  BY <1>2 DEF Idle
<1>5. PlacesWell
  <2>1. held = {f \in Fetch : fetch[f].stage = "capturing"}
    BY <1>1, <1>4
  <2>2. IsFiniteSet(held) /\ Cardinality(held) = 0
    BY <1>1, FS_EmptySet
  <2> QED
    BY <2>1, <2>2, Bounds DEF PlacesWell
<1>6. 0 \in 0..MaxTime
  BY Bounds
<1>7. \A q \in Query : cache[KeyFor(q)] = {}
  BY <1>1 DEF Key
<1> QED
  BY <1>1, <1>2, <1>3, <1>5, <1>6, <1>7 DEF ScreenerWell

LEMMA DiscoveryStarts == ASSUME Init PROVE DiscoveryInv
<1>1. /\ setup \in Setup /\ ScreenerInit /\ calendar = {}
      /\ arm = [s \in setup.scans |-> [a \in setup.arms |-> Waiting]]
      /\ batch = [s \in setup.scans |-> {}]
  BY DEF Init
<1>2. \A f \in Fetch : fetch[f].stage = "idle"
  BY <1>1 DEF ScreenerInit, Fetch, Idle
<1>3. \A s \in setup.scans : \A q \in Query : fetch[<<s, q>>].stage = "idle"
  BY <1>1, <1>2, ScansAndQueries
<1>4. PICK report : report = Report(<< >>, "empty") /\ IsReport(report) /\ report.rows = << >>
  BY NothingReported DEF Report
<1>5. PICK x : x = Waiting
  OBVIOUS
<1>6. /\ x = [stage |-> "idle", ranked |-> << >>, report |-> report, said |-> {}]
      /\ x.stage = "idle" /\ x.ranked = << >> /\ x.report = report /\ x.said = {}
  BY <1>4, <1>5 DEF Waiting
<1>7. ASSUME NEW s \in setup.scans, NEW a \in setup.arms PROVE ArmWell(fetch, s, a, x)
  <2>1. Quiet(fetch, s, a, x) /\ SectorsWell(x)
    BY <1>3, <1>6 DEF Quiet, SectorsWell
  <2>2. \A u \in Range(x.report.rows) : RowEarned(fetch, s, a, u, x.said)
    <3>1. PICK e \in Seq({}) : e = << >> /\ Range(e) = {}
      BY NoRows
    <3> QED
      BY <1>4, <1>6, <3>1
  <2> QED
    BY <1>4, <1>6, <2>1, <2>2 DEF ArmWell, Stages
<1>8. ArmsWell
  <2>1. \A s \in setup.scans : \A a \in setup.arms : arm[s][a] = x
    BY <1>1, <1>5
  <2>2. arm = [s \in setup.scans |-> [a \in setup.arms |-> arm[s][a]]]
    BY <1>1
  <2> QED
    BY <1>7, <2>1, <2>2 DEF ArmsWell
<1>9. \A s \in setup.scans : BatchWell(arm[s], batch[s])
  BY <1>1 DEF BatchWell
<1>10. batch = [s \in setup.scans |-> batch[s]]
  BY <1>1
<1> QED
  BY <1>1, <1>8, <1>9, <1>10, ScreenerStarts DEF DiscoveryInv

LEMMA DiscoverySteps == ASSUME DiscoveryInv, [Next]_vars PROVE DiscoveryInv'
<1>1. CASE \E s \in Scan : StartScan(s)
  BY <1>1, StartScanKeeps
<1>2. CASE Screening
  BY <1>2, ScreeningKeeps
<1>3. CASE ArmWork
  <2>1. PICK s \in Scan : \/ FinishCatalyst(s) \/ FinishPead(s) \/ FinishCoiled(s)
                          \/ FinishActivist(s) \/ Rank(s) \/ ScreenSecond(s)
                          \/ FinishSector(s) \/ MergeBatch(s)
    BY <1>3 DEF ArmWork
  <2> QED
    BY <2>1, FinishCatalystKeeps, FinishPeadKeeps, FinishCoiledKeeps, FinishActivistKeeps,
       RankKeeps, ScreenSecondKeeps, FinishSectorKeeps, MergeBatchKeeps
<1>4. CASE Clock
  BY <1>4, ClockKeeps
<1>5. CASE UNCHANGED vars
  <2>1. UNCHANGED <<now, cache, held, fetch, setup, arm, calendar, batch>>
    BY <1>5 DEF vars, screenerVars, discoveryVars
  <2>2. ScreenerWell' /\ ArmsWell'
    BY <2>1 DEF DiscoveryInv, ScreenerWell, PlacesWell, ArmsWell
  <2>3. Arms' = Arms
    BY <2>1 DEF Arms
  <2>4. \A z \in setup.scans : BatchWell(arm[z], batch[z])'
    BY <2>1, <2>3 DEF DiscoveryInv, BatchWell
  <2> QED
    BY <2>1, <2>2, <2>4 DEF DiscoveryInv
<1> QED
  BY <1>1, <1>2, <1>3, <1>4, <1>5 DEF Next

\* The invariant that the proofs of the properties rest on: a fetch holds rows
\* of its own query only when it is answered, an arm that has not asked leaves
\* its fetches idle and offers earned rows only, and a batch is what the arms,
\* all of them over, reported.
THEOREM DiscoveryInvariant == Spec => []DiscoveryInv
<1>1. Init => DiscoveryInv
  BY DiscoveryStarts
<1>2. DiscoveryInv /\ [Next]_vars => DiscoveryInv'
  BY DiscoverySteps
<1> QED
  BY <1>1, <1>2, PTL DEF Spec

-----------------------------------------------------------------------------
(* What the invariant says: the shape of the state and the rows.            *)

LEMMA LongestLimit ==
  ASSUME NEW q \in Query, NEW n \in LimitsOf(q)
  PROVE  n \in Nat /\ n <= Max({Limit, PeadLimit})
<1>1. PICK m \in Int : m = Max({Limit, PeadLimit}) /\ m >= Limit /\ m >= PeadLimit
  <2>1. PICK m : m = Max({Limit, PeadLimit})
    OBVIOUS
  <2>2. m = IF Limit >= PeadLimit THEN Limit ELSE PeadLimit
    BY <2>1, Bounds, MaxOfTwo
  <2> QED
    BY <2>1, <2>2, Bounds
<1>2. n \in Nat /\ (n <= Limit \/ n = PeadLimit)
  BY Bounds DEF LimitsOf, LimitOf
<1> QED
  BY <1>1, <1>2, Bounds

LEMMA PageLength ==
  ASSUME NEW q \in Query, NEW rows, FromPage(q, rows)
  PROVE  Len(rows) <= Max({Limit, PeadLimit})
<1>1. PICK page \in Page[q], n \in LimitsOf(q) : rows = First(page, n)
  BY DEF FromPage
<1>2. page \in Seq(CandidateRow)
  BY PageAssumption
<1>3. n \in Nat /\ n <= Max({Limit, PeadLimit})
  BY LongestLimit
<1>4. Len(rows) \in Nat /\ Len(rows) <= n
  BY <1>1, <1>2, <1>3, FirstOf, ListMembers
<1>5. PICK k, m \in Nat : k = Len(rows) /\ m = n /\ k <= m
  BY <1>3, <1>4
<1>6. Max({Limit, PeadLimit}) \in Int
  BY Bounds, MaxOfTwo
<1> QED
  BY <1>3, <1>5, <1>6

LEMMA NoLength == Len(<< >>) <= Max({Limit, PeadLimit})
<1>1. Len(<< >>) = 0
  BY EmptySeq
<1>2. Max({Limit, PeadLimit}) \in Int /\ Max({Limit, PeadLimit}) >= 0
  BY Bounds, MaxOfTwo
<1> QED
  BY <1>1, <1>2

LEMMA TypesHold == ASSUME DiscoveryInv PROVE TypeOK
<1>1. ScreenerWell /\ ArmsWell
  BY DEF DiscoveryInv
<1>2. fetch \in [Fetch -> FetchRecord] /\ DOMAIN fetch = Fetch
  BY <1>1 DEF ScreenerWell
<1>3. /\ now \in 0..MaxTime /\ Cardinality(held) <= MaxCaptures
      /\ held = {f \in DOMAIN fetch : fetch[f].stage = "capturing"}
  BY <1>1, <1>2 DEF ScreenerWell, PlacesWell
<1>4. ASSUME NEW f \in Fetch
      PROVE  /\ fetch[f].stage \in {"idle", "loading", "waiting", "capturing", "ready", "failed"}
             /\ fetch[f].loads \in 0..MaxLoads /\ Len(fetch[f].rows) <= Max({Limit, PeadLimit})
  <2>1. fetch[f].stage \in FetchStage /\ fetch[f].loads \in 0..MaxLoads
    BY <1>2 DEF FetchRecord
  <2>2. f[2] \in Query /\ FetchWell(f[2], fetch[f])
    BY <1>1, FetchParts DEF ScreenerWell
  <2>3. CASE fetch[f].stage = "ready"
    <3>1. FromPage(f[2], fetch[f].rows)
      BY <2>2, <2>3 DEF FetchWell
    <3> QED
      BY <2>1, <2>2, <3>1, PageLength DEF FetchStage
  <2>4. CASE fetch[f].stage # "ready"
    <3>1. fetch[f].rows = << >>
      BY <2>2, <2>4 DEF FetchWell
    <3> QED
      BY <2>1, <3>1, NoLength DEF FetchStage
  <2> QED
    BY <2>3, <2>4
<1>5. ASSUME NEW s \in setup.scans, NEW a \in setup.arms
      PROVE  /\ arm[s][a].stage \in {"idle", "running", "first", "second", "done"}
             /\ Len(arm[s][a].report.rows) <= Limit
             /\ arm[s][a].report.status \in {"success", "empty", "failed", "fallback"}
  <2>1. PICK x : x = arm[s][a] /\ ArmWell(fetch, s, a, x)
    BY <1>1 DEF ArmsWell
  <2>2. x.stage \in Stages /\ IsReport(x.report)
    BY <2>1 DEF ArmWell
  <2> QED
    BY <2>1, <2>2 DEF Stages, IsReport
<1>6. ASSUME NEW s \in setup.scans PROVE DOMAIN arm[s] = setup.arms /\ Cardinality(batch[s]) <= 1
  <2>1. DOMAIN arm[s] = setup.arms
    BY <1>1 DEF ArmsWell
  <2>2. batch[s] = {} \/ \E b : batch[s] = {b}
    BY DEF DiscoveryInv, BatchWell
  <2>3. CASE batch[s] = {}
    <3>1. Cardinality(batch[s]) = 0
      BY <2>3, FS_EmptySet
    <3> QED
      BY <2>1, <3>1
  <2>4. CASE \E b : batch[s] = {b}
    <3>1. PICK b : batch[s] = {b}
      BY <2>4
    <3>2. Cardinality(batch[s]) = 1
      BY <3>1, FS_Singleton
    <3> QED
      BY <2>1, <3>2
  <2> QED
    BY <2>2, <2>3, <2>4
<1> QED
  BY <1>2, <1>3, <1>4, <1>5, <1>6 DEF TypeOK

LEMMA AnswersWell ==
  ASSUME DiscoveryInv, NEW f \in Fetch, fetch[f].stage = "ready" PROVE AnsweredWell(f)
<1>1. PICK q \in Query : q = f[2] /\ FetchWell(q, fetch[f])
  BY FetchParts DEF DiscoveryInv, ScreenerWell
<1>2. /\ fetch[f].of = q /\ fetch[f].age < Ttl /\ fetch[f].limit \in LimitsOf(q)
      /\ FromPage(q, fetch[f].rows)
  BY <1>1 DEF FetchWell
<1>3. PICK page \in Page[q], n \in LimitsOf(q) : fetch[f].rows = First(page, n)
  BY <1>2 DEF FromPage
<1>4. n \in 0..Limit + PeadLimit
  <2>1. n \in 1..(Limit + PeadLimit)
    BY LimitsAreNatural
  <2> QED
    BY <2>1, Bounds
<1>5. n = fetch[f].limit \/ ArmOf[q] = "sector"
  BY <1>2, <1>3 DEF LimitsOf
<1> QED
  BY <1>1, <1>2, <1>3, <1>4, <1>5 DEF AnsweredWell

LEMMA EarnedRows == ASSUME DiscoveryInv PROVE RowsAreEarned
<1>1. ScreenerWell /\ ArmsWell
  BY DEF DiscoveryInv
<1>2. DOMAIN fetch = Fetch
  BY <1>1 DEF ScreenerWell
<1>3. \A f \in DOMAIN fetch : fetch[f].stage = "ready" => AnsweredWell(f)
  BY <1>2, AnswersWell
<1>4. ASSUME NEW s \in setup.scans, NEW a \in DOMAIN arm[s],
             NEW r \in Range(arm[s][a].report.rows)
      PROVE  /\ a = "catalyst" => DatedWell(r, arm[s][a].said)
             /\ a = "pead" => r.day < Today
             /\ "finviz" \in r.from =>
                  \E q \in Query : ArmOf[q] = a /\ r.ticker \in TickersOf(fetch[<<s, q>>].rows)
  <2>1. a \in setup.arms
    BY <1>1 DEF ArmsWell
  <2>2. ArmWell(fetch, s, a, arm[s][a])
    BY <1>1, <2>1 DEF ArmsWell
  <2>3. RowEarned(fetch, s, a, r, arm[s][a].said)
    BY <2>2 DEF ArmWell
  <2> QED
    BY <2>3 DEF RowEarned
<1> QED
  BY <1>3, <1>4 DEF RowsAreEarned

\* The shape of the state, and that a place of the semaphore is held exactly
\* while a page is captured, never more of them than there are.
THEOREM TypeOKHolds == Spec => []TypeOK
<1>1. DiscoveryInv => TypeOK
  BY TypesHold
<1> QED
  BY <1>1, DiscoveryInvariant, PTL

\* The rows of an arm are fresh rows of its own queries, dated as the sources
\* warrant, whatever the other scans cached and the sources failed to say.
THEOREM EarnedRowsHold == Spec => []RowsAreEarned
<1>1. DiscoveryInv => RowsAreEarned
  BY EarnedRows
<1> QED
  BY <1>1, DiscoveryInvariant, PTL

-----------------------------------------------------------------------------
(* What the invariant says: the batch.                                      *)

\* The arms of a service are those of its setup, in their order.
LEMMA ArmsOf ==
  ASSUME setup \in Setup PROVE Arms \in Seq(setup.arms) /\ Range(Arms) = setup.arms
<1> DEFINE I == {i \in DOMAIN ArmOrder : ArmOrder[i] \in setup.arms}
<1>1. PICK order, S : order = ArmOrder /\ S = Range(order) /\ order \in Seq(S)
  <2>1. PICK order, n : order = ArmOrder /\ n = 5
    OBVIOUS
  <2>2. n \in Nat /\ DOMAIN order = 1..n /\ order = [i \in 1..n |-> order[i]]
    BY <2>1 DEF ArmOrder
  <2>3. order \in [1..n -> Range(order)]
    BY <2>2 DEF Range
  <2>4. order \in Seq(Range(order))
    BY <2>2, <2>3, Mapped
  <2> QED
    BY <2>1, <2>4
<1>2. I \in SUBSET (1..Len(order)) /\ \A i \in 1..Len(order) : order[i] \in setup.arms => i \in I
  BY <1>1, ListMembers
<1>3. Arms = Kept(order, I)
  BY <1>1 DEF Arms
<1>4. \A i \in I : order[i] \in setup.arms
  BY <1>1
<1> HIDE DEF I
<1>5. Kept(order, I) \in Seq(S) /\ Range(Kept(order, I)) = {order[i] : i \in I}
  BY <1>1, <1>2, KeptRange
<1>6. PICK arms \in Seq(S) : arms = Arms /\ Range(arms) = {order[i] : i \in I}
  BY <1>3, <1>5
<1>7. setup.arms \subseteq S
  BY <1>1, ScansAndQueries
<1>8. ASSUME NEW a \in setup.arms PROVE a \in Range(arms)
  <2>1. PICK i \in 1..Len(order) : order[i] = a
    BY <1>1, <1>7, ListMembers
  <2> QED
    BY <1>2, <1>6, <2>1
<1>9. Range(arms) = setup.arms
  BY <1>4, <1>6, <1>8
<1>10. arms \in Seq(setup.arms)
  BY <1>9, Retyped
<1> QED
  BY <1>6, <1>9, <1>10

\* The merged rows hold each ticker once, from the first of the arms to offer it.
LEMMA Merged ==
  ASSUME NEW A, NEW arms \in Seq(A), NEW S, NEW reports, \A a \in A : reports[a].rows \in Seq(S),
         NEW merged, merged = MergeDedupe(arms, reports)
  PROVE  /\ merged \in Seq(S) /\ Len(merged) = Cardinality(TickersOf(merged))
         /\ \A t \in TickersOf(merged) : \E a \in Range(arms) : t \in TickersOf(reports[a].rows)
         /\ \A a \in Range(arms) : TickersOf(reports[a].rows) \subseteq TickersOf(merged)
         /\ \A r \in Range(merged) : \E i \in 1..Len(arms) :
              /\ r \in Range(reports[arms[i]].rows)
              /\ \A j \in 1..i - 1 : r.ticker \notin TickersOf(reports[arms[j]].rows)
<1>1. PICK n \in Nat : n = Len(arms) /\ DOMAIN arms = 1..n
  BY ListMembers
<1>2. PICK parts : parts = [i \in 1..n |-> reports[arms[i]].rows]
  OBVIOUS
<1>3. \A i \in 1..n : parts[i] = reports[arms[i]].rows /\ parts[i] \in Seq(S)
  BY <1>1, <1>2, ListMembers
<1>4. parts \in Seq(Seq(S)) /\ Len(parts) = n
  <2>1. parts \in [1..n -> Seq(S)]
    BY <1>2, <1>3
  <2> QED
    BY <2>1, Mapped
<1>5. PICK all : all = FlattenSeq(parts)
  OBVIOUS
<1>6. all \in Seq(S) /\ \E block : Blocks(block, all, parts, n)
  BY <1>4, <1>5, Flattened
<1>7. PICK block : Blocks(block, all, parts, n)
  BY <1>6
<1>8. merged = WithoutRepeatedTickers(all)
  BY <1>1, <1>2, <1>5 DEF MergeDedupe
<1>9. PICK m \in Nat : m = Len(all)
  BY <1>6, ListMembers
<1>10. /\ block \in [1..m -> 1..n]
       /\ \A i, j \in 1..m : i < j => block[i] <= block[j]
       /\ \A i \in 1..m : all[i] \in Range(parts[block[i]])
       /\ \A j \in 1..n : \A x \in Range(parts[j]) : \E i \in 1..m : block[i] = j /\ all[i] = x
  BY <1>7, <1>9 DEF Blocks
<1>11. /\ merged \in Seq(S) /\ TickersOf(merged) = TickersOf(all)
       /\ Len(merged) = Cardinality(TickersOf(all))
       /\ \A r \in Range(merged) :
            \E i \in 1..m : all[i] = r /\ \A j \in 1..i - 1 : all[j].ticker # r.ticker
  BY <1>6, <1>8, <1>9, TickersOnce
<1>12. ASSUME NEW t \in TickersOf(all)
       PROVE  \E a \in Range(arms) : t \in TickersOf(reports[a].rows)
  <2>1. PICK r \in Range(all) : r.ticker = t
    BY DEF TickersOf
  <2>2. PICK i \in 1..m : all[i] = r
    BY <1>6, <1>9, ListMembers
  <2>3. block[i] \in 1..n /\ r \in Range(parts[block[i]])
    BY <1>10, <2>2
  <2>4. arms[block[i]] \in Range(arms) /\ r \in Range(reports[arms[block[i]]].rows)
    BY <1>1, <1>3, <2>3, ListMembers
  <2> QED
    BY <2>1, <2>4 DEF TickersOf
<1>13. ASSUME NEW a \in Range(arms), NEW t \in TickersOf(reports[a].rows)
       PROVE  t \in TickersOf(all)
  <2>1. PICK r \in Range(reports[a].rows) : r.ticker = t
    BY DEF TickersOf
  <2>2. PICK j \in 1..n : arms[j] = a
    BY <1>1, ListMembers
  <2>3. PICK i \in 1..m : all[i] = r
    <3>1. r \in Range(parts[j])
      BY <1>3, <2>1, <2>2
    <3>2. \A x \in Range(parts[j]) : \E i \in 1..m : block[i] = j /\ all[i] = x
      BY <1>10
    <3> QED
      BY <3>1, <3>2
  <2>4. r \in Range(all)
    BY <1>6, <1>9, <2>3, ListMembers
  <2> QED
    BY <2>1, <2>4 DEF TickersOf
<1>14. ASSUME NEW r \in Range(merged)
       PROVE  \E i \in 1..n :
                /\ r \in Range(reports[arms[i]].rows)
                /\ \A j \in 1..i - 1 : r.ticker \notin TickersOf(reports[arms[j]].rows)
  <2>1. PICK k \in 1..m : all[k] = r /\ \A j \in 1..k - 1 : all[j].ticker # r.ticker
    BY <1>11
  <2>2. PICK i \in 1..n : i = block[k]
    BY <1>10
  <2>3. r \in Range(reports[arms[i]].rows)
    BY <1>3, <1>10, <2>1, <2>2
  <2>4. ASSUME NEW j \in 1..i - 1, r.ticker \in TickersOf(reports[arms[j]].rows) PROVE FALSE
    <3>1. j \in 1..n /\ j < i
      OBVIOUS
    <3>2. PICK u \in Range(parts[j]) : u.ticker = r.ticker
      BY <1>3, <2>4, <3>1 DEF TickersOf
    <3>3. PICK p \in 1..m : block[p] = j /\ all[p] = u
      BY <1>10, <3>1, <3>2
    <3>4. ~(k < p) /\ k # p
      BY <1>10, <2>2, <3>1, <3>3
    <3>5. p \in 1..k - 1
      BY <3>4
    <3> QED
      BY <2>1, <3>2, <3>3, <3>5
  <2> QED
    BY <2>3, <2>4
<1> QED
  BY <1>1, <1>11, <1>12, <1>13, <1>14

\* What is said of the batch of reports, in terms of the arms that gave nothing.
BatchTells(b, reports, arms) ==
  LET empty == {a \in arms : reports[a].rows = << >>} IN
  /\ b.status = "failed" <=> b.rows = << >>
  /\ b.status = "success" => empty = {}
  /\ b.warning = "catalyst only" => empty = arms \ {"catalyst"}
  /\ b.warning \in {"coiled only", "catalyst failed"} => empty = arms \ {"coiled"}
  /\ b.warning = "catalyst failed" =>
       "catalyst" \in arms /\ reports["catalyst"].status = "failed"
  /\ b.warning = "legacy arms empty" => Legacy \cap arms \subseteq empty
  /\ b.warning = "fallback" =>
       \E a \in arms : \E r \in Range(reports[a].rows) : "finviz" \notin r.from

LEMMA BatchTold ==
  ASSUME NEW reports, NEW arms, arms = DOMAIN reports, \A a \in arms : IsReport(reports[a]),
         NEW order, NEW b, b = BatchOf(order, reports)
  PROVE  BatchTells(b, reports, arms) /\ b.rows = MergeDedupe(order, reports)
<1>1. PICK merged : merged = MergeDedupe(order, reports)
  OBVIOUS
<1>2. /\ b.rows = merged /\ b.status = BatchStatus(reports, merged)
      /\ b.warning = ResolveWarning(reports, merged)
  BY <1>1 DEF BatchOf
<1>3. PICK empty : empty = {a \in arms : reports[a].rows = << >>}
  OBVIOUS
<1>4. /\ b.status = "failed" <=> merged = << >>
      /\ b.status = "success" =>
           \A a \in arms : reports[a].status \notin {"empty", "failed"}
  BY <1>2 DEF BatchStatus
<1>5. b.status = "success" => empty = {}
  BY <1>3, <1>4 DEF IsReport
<1>6. PICK gives : gives = {a \in arms : reports[a].rows # << >>}
  OBVIOUS
<1>7. \A a : a \in gives <=> (a \in DOMAIN reports /\ reports[a].rows # << >>)
  BY <1>6
<1>8. PICK others \in BOOLEAN : others <=> \E a \in DOMAIN reports \ Legacy : a \in gives
  OBVIOUS
<1>9. others <=> \E a \in DOMAIN reports \ Legacy : a \in DOMAIN reports /\ reports[a].rows # << >>
  BY <1>7, <1>8
<1>10. b.warning =
         IF merged = << >> THEN "both failed"
         ELSE IF "catalyst" \in gives /\ "coiled" \notin gives /\ ~others
         THEN (IF "coiled" \in DOMAIN reports /\ reports["coiled"].raised
               THEN "coiled failed" ELSE "catalyst only")
         ELSE IF "coiled" \in gives /\ "catalyst" \notin gives /\ ~others
         THEN (IF "catalyst" \in DOMAIN reports /\ reports["catalyst"].raised
               THEN "catalyst failed" ELSE "coiled only")
         ELSE IF others /\ "catalyst" \notin gives /\ "coiled" \notin gives
         THEN "legacy arms empty"
         ELSE IF \E a \in DOMAIN reports : reports[a].status = "fallback" THEN "fallback"
         ELSE "none"
  BY <1>2, <1>7, <1>9 DEF ResolveWarning
<1>11. \A a \in arms : a \in empty <=> a \notin gives
  BY <1>3, <1>6
<1>12. empty \subseteq arms /\ gives \subseteq arms
  BY <1>3, <1>6
<1>13. ~others => \A a \in arms : a \in Legacy \/ a \in empty
  BY <1>8, <1>11
<1>14. b.warning = "catalyst only" => empty = arms \ {"catalyst"}
  <2>1. b.warning = "catalyst only" => "catalyst" \in gives /\ "coiled" \notin gives /\ ~others
    BY <1>10
  <2> QED
    BY <1>11, <1>12, <1>13, <2>1 DEF Legacy
<1>15. b.warning \in {"coiled only", "catalyst failed"} => empty = arms \ {"coiled"}
  <2>1. b.warning \in {"coiled only", "catalyst failed"} =>
          "coiled" \in gives /\ "catalyst" \notin gives /\ ~others
    BY <1>10
  <2> QED
    BY <1>11, <1>12, <1>13, <2>1 DEF Legacy
<1>16. b.warning = "catalyst failed" =>
         "catalyst" \in arms /\ reports["catalyst"].status = "failed"
  <2>1. b.warning = "catalyst failed" => "catalyst" \in arms /\ reports["catalyst"].raised
    BY <1>10
  <2> QED
    BY <2>1 DEF IsReport
<1>17. b.warning = "legacy arms empty" => Legacy \cap arms \subseteq empty
  <2>1. b.warning = "legacy arms empty" => "catalyst" \notin gives /\ "coiled" \notin gives
    BY <1>10
  <2> QED
    BY <1>11, <2>1 DEF Legacy
<1>18. b.warning = "fallback" =>
         \E a \in arms : \E r \in Range(reports[a].rows) : "finviz" \notin r.from
  <2>1. b.warning = "fallback" => \E a \in arms : reports[a].status = "fallback"
    BY <1>10
  <2> QED
    BY <2>1 DEF IsReport
<1> QED
  BY <1>1, <1>2, <1>3, <1>4, <1>5, <1>14, <1>15, <1>16, <1>17, <1>18 DEF BatchTells

\* What is merged, in terms of what each arm offers.
BatchHolds(b, reports, arms, order) ==
  LET Offered(a) == TickersOf(reports[a].rows) IN
  /\ TickersOf(b.rows) = UNION {Offered(a) : a \in arms}
  /\ Len(b.rows) = Cardinality(TickersOf(b.rows))
  /\ \A r \in Range(b.rows) : \E a \in arms :
       /\ r \in Range(reports[a].rows)
       /\ \A e \in {order[i] : i \in {j \in DOMAIN order : \A k \in 1..j : order[k] # a}} :
            r.ticker \notin Offered(e)

LEMMA BatchMerged ==
  ASSUME NEW reports, NEW arms, \A a \in arms : IsReport(reports[a]),
         NEW order \in Seq(arms), Range(order) = arms,
         NEW b, b.rows = MergeDedupe(order, reports)
  PROVE  BatchHolds(b, reports, arms, order)
<1>1. PICK S : S = UNION {Range(reports[a].rows) : a \in arms}
  OBVIOUS
<1>2. ASSUME NEW a \in arms PROVE reports[a].rows \in Seq(S)
  <2>1. reports[a].rows \in Seq(Range(reports[a].rows))
    BY DEF IsReport
  <2>2. \A r \in Range(reports[a].rows) : r \in S
    BY <1>1
  <2> QED
    BY <2>1, <2>2, Retyped
<1>3. PICK merged : merged = MergeDedupe(order, reports) /\ merged = b.rows
  OBVIOUS
<1>4. /\ merged \in Seq(S) /\ Len(merged) = Cardinality(TickersOf(merged))
      /\ \A t \in TickersOf(merged) : \E a \in Range(order) : t \in TickersOf(reports[a].rows)
      /\ \A a \in Range(order) : TickersOf(reports[a].rows) \subseteq TickersOf(merged)
      /\ \A r \in Range(merged) : \E i \in 1..Len(order) :
           /\ r \in Range(reports[order[i]].rows)
           /\ \A j \in 1..i - 1 : r.ticker \notin TickersOf(reports[order[j]].rows)
  BY <1>2, <1>3, Merged
<1>5. TickersOf(merged) = UNION {TickersOf(reports[a].rows) : a \in arms}
  BY <1>4
<1>6. PICK n \in Nat : n = Len(order) /\ DOMAIN order = 1..n
  BY ListMembers
<1>7. ASSUME NEW r \in Range(merged)
      PROVE  \E a \in arms :
               /\ r \in Range(reports[a].rows)
               /\ \A e \in {order[i] : i \in {j \in DOMAIN order : \A k \in 1..j : order[k] # a}} :
                    r.ticker \notin TickersOf(reports[e].rows)
  <2>1. PICK i \in 1..n :
          /\ r \in Range(reports[order[i]].rows)
          /\ \A j \in 1..i - 1 : r.ticker \notin TickersOf(reports[order[j]].rows)
    BY <1>4, <1>6
  <2>2. PICK a \in arms : a = order[i]
    BY <1>6, ListMembers
  <2>3. ASSUME NEW j \in DOMAIN order, \A k \in 1..j : order[k] # a PROVE j \in 1..i - 1
    <3>1. j \in 1..n /\ i \notin 1..j
      BY <1>6, <2>2, <2>3
    <3> QED
      BY <3>1
  <2> QED
    BY <2>1, <2>2, <2>3
<1> QED
  BY <1>3, <1>4, <1>5, <1>7 DEF BatchHolds

\* What the property says of a batch of one scan, whose arms are given.
HonestBatch(b, arms, order) ==
  LET rows(a) == Range(arms[a].report.rows)
      empty == {a \in DOMAIN arms : rows(a) = {}}
      offered == UNION {{r.ticker : r \in rows(a)} : a \in DOMAIN arms}
  IN /\ TickersOf(b.rows) = offered /\ Len(b.rows) = Cardinality(offered)
     /\ \A r \in Range(b.rows) : \E a \in DOMAIN arms :
          /\ r \in rows(a)
          /\ \A e \in {order[i] : i \in {j \in DOMAIN order : \A k \in 1..j : order[k] # a}} :
               ~\E u \in rows(e) : u.ticker = r.ticker
     /\ b.status = "failed" <=> b.rows = << >>
     /\ b.status = "success" => empty = {}
     /\ b.warning = "catalyst only" => empty = DOMAIN arms \ {"catalyst"}
     /\ b.warning \in {"coiled only", "catalyst failed"} => empty = DOMAIN arms \ {"coiled"}
     /\ b.warning = "catalyst failed" => arms.catalyst.report.status = "failed"
     /\ b.warning = "legacy arms empty" => Legacy \cap DOMAIN arms \subseteq empty
     /\ b.warning = "fallback" => \E a \in DOMAIN arms : \E r \in rows(a) : "finviz" \notin r.from

LEMMA NothingIn ==
  ASSUME NEW T, NEW rows \in Seq(T), T = Range(rows) PROVE rows = << >> <=> T = {}
<1>1. PICK n \in Nat : n = Len(rows)
  BY ListMembers
<1>2. n # 0 => 1 \in 1..n
  OBVIOUS
<1>3. n # 0 => rows[1] \in T
  BY <1>1, <1>2, ListMembers
<1>4. \A x \in T : \E i \in 1..n : rows[i] = x
  BY <1>1, ListMembers
<1>5. rows = << >> <=> n = 0
  BY <1>1, ListMembers
<1> QED
  BY <1>3, <1>4, <1>5

LEMMA ReportedBatch ==
  ASSUME NEW given, NEW arms, arms = DOMAIN given,
         NEW reports, reports = Reports(given), \A a \in arms : IsReport(reports[a]),
         NEW order \in Seq(arms), Range(order) = arms,
         NEW b, b = BatchOf(order, reports)
  PROVE  HonestBatch(b, given, order)
<1>1. DOMAIN reports = arms /\ \A a \in arms : reports[a] = given[a].report
  BY DEF Reports
<1>2. BatchTells(b, reports, arms) /\ b.rows = MergeDedupe(order, reports)
  BY <1>1, BatchTold
<1>3. BatchHolds(b, reports, arms, order)
  BY <1>2, BatchMerged
<1>4. PICK R : R = [a \in arms |-> Range(given[a].report.rows)]
  OBVIOUS
<1>5. \A a \in arms : R[a] = Range(reports[a].rows) /\ R[a] = Range(given[a].report.rows)
  BY <1>1, <1>4
<1>6. \A a \in arms : TickersOf(reports[a].rows) = {r.ticker : r \in R[a]}
  BY <1>5 DEF TickersOf
<1>7. ASSUME NEW a \in arms PROVE reports[a].rows = << >> <=> R[a] = {}
  <2>1. PICK rows, T : rows = reports[a].rows /\ T = Range(rows) /\ rows \in Seq(T)
    BY DEF IsReport
  <2> QED
    BY <1>5, <2>1, NothingIn
<1>8. PICK empty : empty = {a \in arms : reports[a].rows = << >>}
  OBVIOUS
<1>9. empty = {a \in DOMAIN given : Range(given[a].report.rows) = {}}
  BY <1>5, <1>7, <1>8
<1>10. PICK offered : offered = UNION {TickersOf(reports[a].rows) : a \in arms}
  OBVIOUS
<1>11. offered = UNION {{r.ticker : r \in Range(given[a].report.rows)} : a \in DOMAIN given}
  BY <1>5, <1>6, <1>10
<1>12. TickersOf(b.rows) = offered /\ Len(b.rows) = Cardinality(offered)
  BY <1>3, <1>10 DEF BatchHolds
<1>13. ASSUME NEW r \in Range(b.rows)
       PROVE  \E a \in DOMAIN given :
                /\ r \in Range(given[a].report.rows)
                /\ \A e \in {order[i] : i \in {j \in DOMAIN order : \A k \in 1..j : order[k] # a}} :
                     ~\E u \in Range(given[e].report.rows) : u.ticker = r.ticker
  <2>1. PICK a \in arms :
          /\ r \in Range(reports[a].rows)
          /\ \A e \in {order[i] : i \in {j \in DOMAIN order : \A k \in 1..j : order[k] # a}} :
               r.ticker \notin TickersOf(reports[e].rows)
    BY <1>3 DEF BatchHolds
  <2>2. ASSUME NEW e \in {order[i] : i \in {j \in DOMAIN order : \A k \in 1..j : order[k] # a}}
        PROVE  ~\E u \in Range(given[e].report.rows) : u.ticker = r.ticker
    <3>1. e \in arms
      BY ListMembers
    <3>2. r.ticker \notin {u.ticker : u \in R[e]}
      BY <1>6, <2>1, <3>1
    <3> QED
      BY <1>5, <3>1, <3>2
  <2> QED
    BY <1>5, <2>1, <2>2
<1>14. /\ b.status = "failed" <=> b.rows = << >>
       /\ b.status = "success" => empty = {}
       /\ b.warning = "catalyst only" => empty = arms \ {"catalyst"}
       /\ b.warning \in {"coiled only", "catalyst failed"} => empty = arms \ {"coiled"}
       /\ b.warning = "catalyst failed" =>
            "catalyst" \in arms /\ reports["catalyst"].status = "failed"
       /\ b.warning = "legacy arms empty" => Legacy \cap arms \subseteq empty
       /\ b.warning = "fallback" =>
            \E a \in arms : \E r \in Range(reports[a].rows) : "finviz" \notin r.from
  BY <1>2, <1>8 DEF BatchTells
<1>15. b.warning = "catalyst failed" => given.catalyst.report.status = "failed"
  BY <1>1, <1>14
<1>16. b.warning = "fallback" =>
         \E a \in DOMAIN given : \E r \in Range(given[a].report.rows) : "finviz" \notin r.from
  BY <1>5, <1>14
<1> QED
  BY <1>9, <1>11, <1>12, <1>13, <1>14, <1>15, <1>16 DEF HonestBatch

LEMMA BatchesHonest == ASSUME DiscoveryInv PROVE BatchIsHonest
<1>1. ASSUME NEW s \in setup.scans, NEW b \in batch[s] PROVE HonestBatch(b, arm[s], Arms)
  <2>1. PICK arms : arms = setup.arms /\ arms = DOMAIN arm[s]
    BY DEF DiscoveryInv, ArmsWell
  <2>2. Arms \in Seq(arms) /\ Range(Arms) = arms
    BY <2>1, ArmsOf DEF DiscoveryInv
  <2>3. PICK reports : reports = Reports(arm[s])
    OBVIOUS
  <2>4. ASSUME NEW a \in arms PROVE IsReport(reports[a])
    <3>1. ArmWell(fetch, s, a, arm[s][a]) /\ reports[a] = arm[s][a].report
      BY <2>1, <2>3 DEF DiscoveryInv, ArmsWell, Reports
    <3> QED
      BY <3>1 DEF ArmWell
  <2>5. b = BatchOf(Arms, reports)
    <3>1. BatchWell(arm[s], batch[s]) /\ batch[s] # {}
      BY DEF DiscoveryInv
    <3>2. batch[s] = {BatchOf(Arms, Reports(arm[s]))}
      BY <3>1 DEF BatchWell
    <3> QED
      BY <2>3, <3>2
  <2> QED
    BY <2>1, <2>2, <2>3, <2>4, <2>5, ReportedBatch
<1> QED
  BY <1>1 DEF BatchIsHonest, HonestBatch

\* The batch of a scan holds what its arms offer, each ticker once and as the
\* first of them offers it, and says nothing false of them.
THEOREM HonestBatchesHold == Spec => []BatchIsHonest
<1>1. DiscoveryInv => BatchIsHonest
  BY BatchesHonest
<1> QED
  BY <1>1, DiscoveryInvariant, PTL
=============================================================================
