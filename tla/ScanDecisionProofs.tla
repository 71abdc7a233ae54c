-------------------------- MODULE ScanDecisionProofs --------------------------
(***************************************************************************)
(* Proofs about ScanDecision: what a card says is what its scores warrant, *)
(* within the limits of its user, with a plan that can be followed, and a  *)
(* ticker is offered once.                                                 *)
(***************************************************************************)
EXTENDS ScanDecision, DataTheorems

-----------------------------------------------------------------------------
(* What the operators of Scoring and Decision return.                        *)

LEMMA Clamped ==
  ASSUME NEW x \in Int
  PROVE  Bound(x, 0, 100) \in 0..100
<1>1. Min({100, x}) = IF 100 <= x THEN 100 ELSE x
  BY MinOfTwo
<1> DEFINE m == Min({100, x})
<1>2. m \in Int /\ m <= 100
  BY <1>1
<1> HIDE DEF m
<1>3. Max({0, m}) = IF 0 >= m THEN 0 ELSE m
  BY <1>2, MaxOfTwo
<1>4. Bound(x, 0, 100) = Max({0, m})
  BY DEF Bound, m
<1> QED
  BY <1>2, <1>3, <1>4

-----------------------------------------------------------------------------
(***************************************************************************)
(* An evaluation is sound when its pick is the best of its viable          *)
(* contracts and its action is no stronger than that contract allows.      *)
(***************************************************************************)
Allowed(e, r) ==
  FinalAction(CombineScores(e.direction, r.score), e.confidence, e.blocked, {r}, e.direction)

Counted(e) ==
  /\ e.direction \in 0..100 /\ e.confidence \in 0..100 /\ e.final \in 0..100
  /\ e.ranked \in Seq(Range(e.ranked))
  /\ \A n \in 1..Len(e.ranked) : /\ e.ranked[n].score \in 0..100
                                 /\ e.ranked[n].liquidity \in 0..100
PicksBest(e) ==
  LET r == e.ranked[e.pick] IN
  /\ e.pick \in 1..Len(e.ranked) /\ Viable(r)
  /\ e.final = CombineScores(e.direction, r.score)
  /\ e.action = Allowed(e, r) \/ (e.action = "watchlist" /\ Allowed(e, r) = "recommend")
  /\ \A n \in 1..Len(e.ranked) : Viable(e.ranked[n]) => e.ranked[n].score <= r.score
PicksNone(e) ==
  /\ e.pick = 0 /\ e.action = "no_trade"
  /\ \A n \in 1..Len(e.ranked) : ~Viable(e.ranked[n])
Sound(e) == Counted(e) /\ (PicksBest(e) \/ PicksNone(e))

\* What a card may say of the contract picked of an evaluation.
Warrants(e, pick, action) ==
  LET r == e.ranked[pick] IN
  /\ pick \in 1..Len(e.ranked) /\ Viable(r)
  /\ action \in {"recommend", "watchlist"} /\ Allowed(e, r) # "no_trade"
  /\ action = "recommend" => Allowed(e, r) = "recommend"

LEMMA FinalActionType ==
  ASSUME NEW f, NEW c, NEW b, NEW chosen, NEW d
  PROVE  FinalAction(f, c, b, chosen, d) \in Action
BY DEF FinalAction, Action

\* To act on a sound evaluation as it says is warranted.
LEMMA SoundActs ==
  ASSUME NEW e, Sound(e), e.action # "no_trade"
  PROVE  Warrants(e, e.pick, e.action)
<1>1. PicksBest(e)
  BY DEF Sound, PicksNone
<1>2. Allowed(e, e.ranked[e.pick]) \in Action
  BY FinalActionType DEF Allowed
<1> QED
  BY <1>1, <1>2 DEF PicksBest, Warrants, Action

LEMMA BandOfScore ==
  ASSUME NEW x \in 0..100
  PROVE  BandFromScore(x) = IF x >= 78 THEN "strong" ELSE IF x >= 68 THEN "standard"
                            ELSE IF x >= 60 THEN "watchlist" ELSE "no_trade"
<1> DEFINE table == <<<<78, "strong">>, <<68, "standard">>, <<60, "watchlist">>,
                      <<Lowest, "no_trade">>>>
           I == {i \in DOMAIN table : x >= table[i][1]}
<1>1. DOMAIN table = {1, 2, 3, 4}
  OBVIOUS
<1>2. I = (IF x >= 78 THEN {1} ELSE {}) \cup (IF x >= 68 THEN {2} ELSE {})
          \cup (IF x >= 60 THEN {3} ELSE {}) \cup {4}
  BY <1>1 DEF Lowest
<1>3. Min(I) = IF x >= 78 THEN 1 ELSE IF x >= 68 THEN 2 ELSE IF x >= 60 THEN 3 ELSE 4
  <2>1. CASE x >= 78
    BY <1>2, <2>1 DEF Min
  <2>2. CASE ~(x >= 78) /\ x >= 68
    BY <1>2, <2>2 DEF Min
  <2>3. CASE ~(x >= 68) /\ x >= 60
    BY <1>2, <2>3 DEF Min
  <2>4. CASE ~(x >= 60)
    BY <1>2, <2>4 DEF Min
  <2> QED
    BY <2>1, <2>2, <2>3, <2>4
<1>4. BandFromScore(x) = table[Min(I)][2]
  BY DEF BandFromScore, Tier
<1> QED
  BY <1>3, <1>4

-----------------------------------------------------------------------------
(***************************************************************************)
(* The decision on a sequence of views, each of a sound evaluation and of  *)
(* a ticker of its own.                                                    *)
(***************************************************************************)
Viewed(views) ==
  /\ views \in Seq(Range(views))
  /\ \A n \in 1..Len(views) : /\ Sound(views[n].eval) /\ views[n].stored \in BOOLEAN
                              /\ views[n].cap \in Int /\ views[n].place \in Int
  /\ \A m, n \in 1..Len(views) : m < n => views[m].ticker # views[n].ticker

Watchlist(watch, views) ==
  /\ watch \in Seq(Range(TickersOf(views))) /\ IsInjective(watch) /\ Len(watch) <= 3

Decided(d, views) ==
  /\ d.engine \in {"llm", "heuristic", "llm_blocked"} /\ d.action \in Action
  /\ Watchlist(d.watch, views)
  /\ d.action # "no_trade" =>
       \E n \in 1..Len(views) :
         /\ views[n].ticker = d.ticker
         /\ Warrants(views[n].eval, d.pick, d.action)
         /\ d.engine = "llm" /\ ~views[n].stored => views[n].eval.ranked[d.pick].flags = {}

LEMMA ViewedTickers ==
  ASSUME NEW views, Viewed(views)
  PROVE  /\ DOMAIN views = 1..Len(views) /\ Len(views) \in Nat
         /\ TickersOf(views) \in Seq(Range(TickersOf(views)))
         /\ Len(TickersOf(views)) = Len(views) /\ IsInjective(TickersOf(views))
         /\ \A n \in 1..Len(views) : TickersOf(views)[n] = views[n].ticker
<1>1. DOMAIN views = 1..Len(views) /\ Len(views) \in Nat
  BY LenProperties DEF Viewed
<1>2. TickersOf(views) = [n \in 1..Len(views) |-> views[n].ticker]
  BY <1>1 DEF TickersOf
<1>3. TickersOf(views) \in [1..Len(views) -> Range(TickersOf(views))]
  BY <1>2 DEF Range
<1>4. TickersOf(views) \in Seq(Range(TickersOf(views))) /\ Len(TickersOf(views)) = Len(views)
  BY <1>1, <1>3, SeqDef, LenProperties
<1>5. IsInjective(TickersOf(views))
  <2>1. \A m, n \in 1..Len(views) : m < n => TickersOf(views)[m] # TickersOf(views)[n]
    BY <1>2 DEF Viewed
  <2> QED
    BY <1>4, <2>1, Distinct
<1> QED
  BY <1>1, <1>2, <1>4, <1>5

\* The views of a subset of the tickers, in any order, keep what was viewed.
LEMMA Reviewed ==
  ASSUME NEW views, Viewed(views), NEW others \in Seq(Range(views)),
         NEW order \in [1..Len(others) -> 1..Len(views)],
         \A n \in 1..Len(others) : others[n] = views[order[n]],
         \A m, n \in 1..Len(others) : m < n => order[m] # order[n]
  PROVE  /\ Viewed(others)
         /\ Range(TickersOf(others)) \subseteq Range(TickersOf(views))
<1>1. /\ DOMAIN others = 1..Len(others) /\ Len(others) \in Nat
      /\ DOMAIN views = 1..Len(views) /\ Len(views) \in Nat
  BY LenProperties DEF Viewed
<1>2. others \in Seq(Range(others))
  <2>1. others \in [1..Len(others) -> Range(others)]
    BY <1>1, LenProperties DEF Range
  <2> QED
    BY <1>1, <2>1, SeqDef
<1>3. \A m, n \in 1..Len(views) : m # n => views[m].ticker # views[n].ticker
  BY <1>1 DEF Viewed
<1>4. Viewed(others)
  <2>1. ASSUME NEW n \in 1..Len(others)
        PROVE  /\ Sound(others[n].eval) /\ others[n].stored \in BOOLEAN
               /\ others[n].cap \in Int /\ others[n].place \in Int
    <3>1. order[n] \in 1..Len(views) /\ others[n] = views[order[n]]
      OBVIOUS
    <3> QED
      BY <3>1 DEF Viewed
  <2>2. ASSUME NEW m \in 1..Len(others), NEW n \in 1..Len(others), m < n
        PROVE  others[m].ticker # others[n].ticker
    <3>1. /\ order[m] \in 1..Len(views) /\ order[n] \in 1..Len(views) /\ order[m] # order[n]
          /\ others[m] = views[order[m]] /\ others[n] = views[order[n]]
      BY <2>2
    <3> QED
      BY <1>3, <3>1
  <2> QED
    BY <1>2, <2>1, <2>2 DEF Viewed
<1>5. Range(TickersOf(others)) \subseteq Range(TickersOf(views))
  BY <1>1 DEF Range, TickersOf
<1> QED
  BY <1>4, <1>5

LEMMA RankedCandidates ==
  ASSUME NEW views, Viewed(views)
  PROVE  /\ Viewed(RankCandidates(views)) /\ Len(RankCandidates(views)) = Len(views)
         /\ Range(TickersOf(RankCandidates(views))) \subseteq Range(TickersOf(views))
         /\ \A n \in 1..Len(views) : \E m \in 1..Len(views) : RankCandidates(views)[n] = views[m]
<1> DEFINE key == [i \in DOMAIN views |-> 10000 * views[i].eval.final
                                          + 10 * views[i].eval.confidence + views[i].cap]
           ranked == Sorted(views, key)
<1>1. DOMAIN views = 1..Len(views) /\ Len(views) \in Nat /\ views \in Seq(Range(views))
  BY ViewedTickers DEF Viewed
<1>2. ASSUME NEW i \in 1..Len(views) PROVE key[i] \in Int
  <2>1. Sound(views[i].eval) /\ views[i].cap \in Int
    BY DEF Viewed
  <2>2. views[i].eval.final \in 0..100 /\ views[i].eval.confidence \in 0..100
    BY <2>1 DEF Sound, Counted
  <2>3. PICK f \in Int : views[i].eval.final = f
    BY <2>2
  <2>4. PICK c \in Int : views[i].eval.confidence = c
    BY <2>2
  <2>5. PICK p \in Int : views[i].cap = p
    BY <2>1
  <2> QED
    BY <1>1, <2>3, <2>4, <2>5
<1>3. RankCandidates(views) = ranked
  BY DEF RankCandidates, Descending
<1> HIDE DEF key
<1>4. /\ ranked \in Seq(Range(views)) /\ Len(ranked) = Len(views)
      /\ \E order : Permutes(order, ranked, views, key)
  BY <1>1, <1>2, SortedSequence
<1> HIDE DEF ranked
<1>5. PICK order : Permutes(order, ranked, views, key)
  BY <1>4
<1>6. /\ order \in [1..Len(ranked) -> 1..Len(views)]
      /\ \A n \in 1..Len(ranked) : ranked[n] = views[order[n]]
      /\ \A m, n \in 1..Len(ranked) : m < n => order[m] # order[n]
  BY <1>4, <1>5 DEF Permutes
<1>7. Viewed(ranked) /\ Range(TickersOf(ranked)) \subseteq Range(TickersOf(views))
  BY <1>4, <1>6, Reviewed
<1> QED
  BY <1>3, <1>4, <1>6, <1>7


LEMMA FirstThreeWatched ==
  ASSUME NEW views, NEW s \in Seq(Range(TickersOf(views))), IsInjective(s)
  PROVE  Watchlist(FirstThree(s), views)
BY Firsts DEF FirstThree, Watchlist

LEMMA DefaultWatched ==
  ASSUME NEW views, Viewed(views)
  PROVE  Watchlist(DefaultWatchlist(views), views)
<1> DEFINE ranked == RankCandidates(views)
           T == Range(TickersOf(views))
<1>1. Viewed(ranked) /\ Range(TickersOf(ranked)) \subseteq T
  BY RankedCandidates
<1> HIDE DEF ranked
<1>2. TickersOf(ranked) \in Seq(T) /\ IsInjective(TickersOf(ranked))
  <2>1. TickersOf(ranked) \in Seq(Range(TickersOf(ranked))) /\ IsInjective(TickersOf(ranked))
    BY <1>1, ViewedTickers
  <2> QED
    BY <1>1, <2>1, SeqMonotonic
<1>3. Watchlist(FirstThree(TickersOf(ranked)), views)
  BY <1>2, FirstThreeWatched
<1> QED
  BY <1>3 DEF ranked, DefaultWatchlist

\* Of what is requested, a finalist is watched once, however often it is named.
LEMMA SanitizedWatched ==
  ASSUME NEW views, Viewed(views), NEW S, NEW requested \in Seq(S), NEW exclude
  PROVE  Watchlist(SanitizeWatchlist(views, requested, exclude), views)
<1> DEFINE T == Range(TickersOf(views))
           I == {n \in DOMAIN requested : /\ requested[n] \in T \ {exclude}
                                          /\ \A m \in 1..n - 1 : requested[m] # requested[n]}
           kept == Kept(requested, I)
<1>1. Len(requested) \in Nat /\ DOMAIN requested = 1..Len(requested)
  BY LenProperties
<1>2. I \in SUBSET (1..Len(requested))
  BY <1>1
<1>3. /\ \A n \in I : n \in 1..Len(requested) /\ requested[n] \in T
      /\ \A m, n \in I : m < n => requested[m] # requested[n]
  BY <1>1
<1>4. SanitizeWatchlist(views, requested, exclude) = FirstThree(kept)
  BY DEF SanitizeWatchlist
<1> HIDE DEF I
<1>5. /\ Cardinality(I) \in Nat /\ kept \in Seq(S) /\ Len(kept) = Cardinality(I)
      /\ \E order : Skips(order, kept, requested, I)
  BY <1>2, KeptSequence
<1> HIDE DEF kept
<1>6. PICK order : Skips(order, kept, requested, I)
  BY <1>5
<1>7. ASSUME NEW n \in 1..Len(kept) PROVE order[n] \in I /\ kept[n] = requested[order[n]]
  BY <1>5, <1>6 DEF Skips
<1>8. kept \in Seq(T)
  <2>1. kept \in [1..Len(kept) -> T]
    BY <1>3, <1>5, <1>7, LenProperties
  <2> QED
    BY <1>5, <2>1, SeqDef
<1>9. ASSUME NEW m \in 1..Len(kept), NEW n \in 1..Len(kept), m < n PROVE kept[m] # kept[n]
  <2>1. order[m] < order[n]
    BY <1>5, <1>6, <1>9 DEF Skips
  <2> QED
    BY <1>3, <1>7, <2>1
<1>10. IsInjective(kept)
  BY <1>8, <1>9, Distinct
<1>11. Watchlist(FirstThree(kept), views)
  BY <1>8, <1>10, FirstThreeWatched
<1> QED
  BY <1>4, <1>11

\* What waits for a catalyst comes after what is watched, and only if it is not.
LEMMA AugmentedWatched ==
  ASSUME NEW views, Viewed(views), NEW watch, Watchlist(watch, views), NEW exclude
  PROVE  Watchlist(AugmentWithCatalystPending(views, watch, exclude), views)
<1> DEFINE T == Range(TickersOf(views))
           I == {n \in DOMAIN views : /\ views[n].pending /\ ~HasViable(views[n])
                                      /\ views[n].ticker \notin Range(watch) \cup {exclude}}
           waiting == Kept(views, I)
           key == [i \in DOMAIN waiting |-> 100 * waiting[i].eval.confidence + waiting[i].place]
           ranked == Sorted(waiting, key)
           more == TickersOf(ranked)
<1>1. /\ Len(views) \in Nat /\ DOMAIN views = 1..Len(views) /\ views \in Seq(Range(views))
  BY ViewedTickers DEF Viewed
<1>2. /\ I \in SUBSET (1..Len(views))
      /\ \A n \in I : n \in 1..Len(views) /\ views[n].ticker \notin Range(watch)
  BY <1>1
<1>3. AugmentWithCatalystPending(views, watch, exclude) = FirstThree(watch \o more)
  BY DEF AugmentWithCatalystPending, Descending
<1> HIDE DEF I
<1>4. /\ Cardinality(I) \in Nat /\ waiting \in Seq(Range(views)) /\ Len(waiting) = Cardinality(I)
      /\ \E order : Skips(order, waiting, views, I)
  BY <1>1, <1>2, KeptSequence
<1> HIDE DEF waiting
<1>5. PICK order : Skips(order, waiting, views, I)
  BY <1>4
<1>6. /\ order \in [1..Len(waiting) -> I]
      /\ \A n \in 1..Len(waiting) : waiting[n] = views[order[n]]
      /\ \A m, n \in 1..Len(waiting) : m < n => order[m] < order[n]
  BY <1>4, <1>5 DEF Skips
<1>7. /\ order \in [1..Len(waiting) -> 1..Len(views)]
      /\ \A m, n \in 1..Len(waiting) : m < n => order[m] # order[n]
  <2>1. \A n \in 1..Len(waiting) : order[n] \in 1..Len(views)
    BY <1>2, <1>6
  <2>2. \A m, n \in 1..Len(waiting) : m < n => order[m] # order[n]
    BY <1>1, <1>6, <2>1
  <2> QED
    BY <1>6, <2>1, <2>2
<1>8. Viewed(waiting) /\ Range(TickersOf(waiting)) \subseteq T
  BY <1>4, <1>6, <1>7, Reviewed
<1>9. \A n \in 1..Len(waiting) : waiting[n].ticker \notin Range(watch)
  BY <1>2, <1>6
<1>10. /\ DOMAIN waiting = 1..Len(waiting) /\ Len(waiting) \in Nat
       /\ waiting \in Seq(Range(waiting))
  BY <1>8, ViewedTickers DEF Viewed
<1>11. ASSUME NEW i \in 1..Len(waiting) PROVE key[i] \in Int
  <2>1. Sound(waiting[i].eval) /\ waiting[i].place \in Int
    BY <1>8 DEF Viewed
  <2>2. waiting[i].eval.confidence \in 0..100
    BY <2>1 DEF Sound, Counted
  <2>3. PICK c \in Int : waiting[i].eval.confidence = c
    BY <2>2
  <2>4. PICK p \in Int : waiting[i].place = p
    BY <2>1
  <2> QED
    BY <1>10, <2>3, <2>4
<1> HIDE DEF key
<1>12. /\ ranked \in Seq(Range(waiting)) /\ Len(ranked) = Len(waiting)
       /\ \E turn : Permutes(turn, ranked, waiting, key)
  BY <1>10, <1>11, SortedSequence
<1> HIDE DEF ranked
<1>13. PICK turn : Permutes(turn, ranked, waiting, key)
  BY <1>12
<1>14. /\ turn \in [1..Len(ranked) -> 1..Len(waiting)]
       /\ \A n \in 1..Len(ranked) : ranked[n] = waiting[turn[n]]
       /\ \A m, n \in 1..Len(ranked) : m < n => turn[m] # turn[n]
  BY <1>12, <1>13 DEF Permutes
<1>15. Viewed(ranked) /\ Range(more) \subseteq T
  BY <1>8, <1>12, <1>14, Reviewed
<1>16. /\ more \in Seq(Range(more)) /\ IsInjective(more) /\ Len(more) = Len(ranked)
       /\ \A n \in 1..Len(more) : more[n] = ranked[n].ticker
  BY <1>15, ViewedTickers
<1>17. \A n \in 1..Len(more) : more[n] \notin Range(watch)
  BY <1>9, <1>14, <1>16
<1> HIDE DEF more
<1>18. more \in Seq(T)
  BY <1>15, <1>16, SeqMonotonic
<1>19. /\ watch \in Seq(T) /\ IsInjective(watch)
       /\ Len(watch) \in Nat /\ Len(more) \in Nat /\ DOMAIN watch = 1..Len(watch)
  BY <1>18, LenProperties DEF Watchlist
<1>20. /\ watch \o more \in Seq(T) /\ Len(watch \o more) = Len(watch) + Len(more)
       /\ \A i \in 1..Len(watch) + Len(more) :
            (watch \o more)[i] = IF i <= Len(watch) THEN watch[i] ELSE more[i - Len(watch)]
  BY <1>18, <1>19, ConcatProperties
<1>21. ASSUME NEW m \in 1..Len(watch) + Len(more), NEW n \in 1..Len(watch) + Len(more), m < n
       PROVE  (watch \o more)[m] # (watch \o more)[n]
  <2>1. CASE n <= Len(watch)
    <3>1. m \in 1..Len(watch) /\ n \in 1..Len(watch)
      BY <1>19, <1>21, <2>1
    <3>2. watch[m] # watch[n]
      BY <1>19, <1>21, <3>1, Distinct
    <3> QED
      BY <1>19, <1>20, <1>21, <2>1, <3>1, <3>2
  <2>2. CASE m <= Len(watch) /\ ~(n <= Len(watch))
    <3>1. m \in 1..Len(watch) /\ n - Len(watch) \in 1..Len(more)
      BY <1>19, <1>21, <2>2
    <3>2. watch[m] \in Range(watch) /\ more[n - Len(watch)] \notin Range(watch)
      BY <1>17, <1>19, <3>1 DEF Range
    <3> QED
      BY <1>19, <1>20, <2>2, <3>1, <3>2
  <2>3. CASE ~(m <= Len(watch))
    <3>1. /\ m - Len(watch) \in 1..Len(more) /\ n - Len(watch) \in 1..Len(more)
          /\ m - Len(watch) < n - Len(watch) /\ ~(n <= Len(watch))
      BY <1>19, <1>21, <2>3
    <3>2. more[m - Len(watch)] # more[n - Len(watch)]
      BY <1>16, <1>18, <3>1, Distinct
    <3> QED
      BY <1>19, <1>20, <2>3, <3>1, <3>2
  <2> QED
    BY <2>1, <2>2, <2>3
<1>22. IsInjective(watch \o more)
  BY <1>20, <1>21, Distinct
<1>23. Watchlist(FirstThree(watch \o more), views)
  BY <1>20, <1>22, FirstThreeWatched
<1> QED
  BY <1>3, <1>23

-----------------------------------------------------------------------------
(***************************************************************************)
(* Whatever the answer, and without one, what is decided is on one of the  *)
(* views, with a contract that is viable there, and no stronger than that  *)
(* contract allows.                                                        *)
(***************************************************************************)
LEMMA NoTradeDecided ==
  ASSUME NEW views, NEW engine \in {"llm", "heuristic", "llm_blocked"},
         NEW watch, Watchlist(watch, views)
  PROVE  Decided(NoTrade(engine, watch), views)
BY DEF Decided, NoTrade, Action

LEMMA NothingWatched ==
  ASSUME NEW views
  PROVE  Watchlist(<< >>, views)
BY DEF Watchlist, IsInjective

LEMMA HeuristicDecided ==
  ASSUME NEW views, Viewed(views)
  PROVE  Decided(HeuristicDecision(views), views)
<1> DEFINE best == RankCandidates(views)[1]
           default == DefaultWatchlist(views)
<1>1. CASE views = << >>
  BY <1>1, NothingWatched, NoTradeDecided DEF HeuristicDecision
<1>2. Watchlist(default, views)
  BY DefaultWatched
<1>3. CASE views # << >> /\ (best.eval.action = "no_trade" \/ best.eval.pick = 0)
  BY <1>2, <1>3, NoTradeDecided DEF HeuristicDecision
<1>4. CASE views # << >> /\ ~(best.eval.action = "no_trade" \/ best.eval.pick = 0)
  <2>1. Len(views) \in Nat /\ views \in Seq(Range(views))
    BY LenProperties DEF Viewed
  <2>2. 1 \in 1..Len(views)
    BY <1>4, <2>1, EmptySeq
  <2>3. PICK m \in 1..Len(views) : best = views[m]
    BY <2>2, RankedCandidates
  <2>4. Sound(best.eval)
    BY <2>3 DEF Viewed
  <2>5. Warrants(best.eval, best.eval.pick, best.eval.action)
    BY <1>4, <2>4, SoundActs
  <2>6. best.eval.action \in Action
    BY <2>5 DEF Warrants, Action
  <2> DEFINE d == HeuristicDecision(views)
  <2>7. /\ d.engine = "heuristic" /\ d.action = best.eval.action /\ d.ticker = best.ticker
        /\ d.pick = best.eval.pick /\ d.watch = default
    BY <1>4 DEF HeuristicDecision
  <2> QED
    BY <1>2, <2>3, <2>5, <2>6, <2>7 DEF Decided
<1> QED
  BY <1>1, <1>3, <1>4

LEMMA HalfEvenType ==
  ASSUME NEW n \in Int, NEW d \in Nat \ {0}
  PROVE  HalfEven(n, d) \in Int
BY DEF HalfEven

LEMMA CombinedScores ==
  ASSUME NEW direction \in 0..100, NEW contract \in 0..100
  PROVE  CombineScores(direction, contract) \in 0..100
<1>1. 45 * direction + 55 * contract \in Int
  OBVIOUS
<1> DEFINE half == HalfEven(45 * direction + 55 * contract, 100)
<1>2. half \in Int
  BY <1>1, HalfEvenType
<1>3. CombineScores(direction, contract) = Bound(half, 0, 100)
  BY DEF CombineScores
<1> HIDE DEF half
<1> QED
  BY <1>2, <1>3, Clamped

\* The band of a contract says what the contract allows.
LEMMA StructuralBandAllows ==
  ASSUME NEW v, NEW r, v.eval.direction \in 0..100, r.score \in 0..100
  PROVE  LET band == StructuralBand(v, r) IN
         /\ band \in Band
         /\ band # "no_trade" => Allowed(v.eval, r) # "no_trade"
         /\ band \in {"standard", "strong"} => Allowed(v.eval, r) = "recommend"
<1> DEFINE final == CombineScores(v.eval.direction, r.score)
           action == FinalAction(final, v.eval.confidence, v.eval.blocked, {r}, v.eval.direction)
<1>1. final \in 0..100
  BY CombinedScores
<1>2. action = Allowed(v.eval, r)
  BY DEF Allowed
<1>3. action \in Action
  BY FinalActionType
<1>4. StructuralBand(v, r) = IF action = "recommend" THEN BandFromScore(final) ELSE action
  BY DEF StructuralBand
<1> HIDE DEF final, action
<1>5. BandFromScore(final) \in Band
  BY <1>1, BandOfScore DEF Band
<1> QED
  BY <1>2, <1>3, <1>4, <1>5 DEF Band, Action

LEMMA LesserBand ==
  ASSUME NEW a \in Band, NEW b \in Band
  PROVE  /\ MinBand(a, b) \in Band
         /\ MinBand(a, b) # "no_trade" => b # "no_trade"
         /\ ActionForBand(MinBand(a, b)) \in Action
         /\ MinBand(a, b) # "no_trade" => ActionForBand(MinBand(a, b)) # "no_trade"
         /\ ActionForBand(MinBand(a, b)) = "recommend" => b \in {"standard", "strong"}
<1>1. /\ BandRank["no_trade"] = 0 /\ BandRank["watchlist"] = 1
      /\ BandRank["standard"] = 2 /\ BandRank["strong"] = 3
  BY DEF BandRank
<1> QED
  BY <1>1 DEF MinBand, Band, ActionForBand, Action

\* What the program parses an answer into.
Parsed(a) ==
  /\ a.action \in Action /\ a.band \in Band \cup {"none"} /\ a.watch \in Seq(Range(a.watch))

LEMMA DefaultBand ==
  ASSUME NEW a, Parsed(a)
  PROVE  BandOrDefault(a) \in Band
BY DEF Parsed, BandOrDefault, Band, Action

LEMMA AcceptedDecided ==
  ASSUME NEW views, Viewed(views), NEW a, Parsed(a), Acceptable(views, a)
  PROVE  Decided(Accepted(views, a), views)
<1> DEFINE v == CHOOSE x \in Named(views, a) : TRUE
           r == CHOOSE x \in SelectedContract(v, a) : TRUE
           band == IF BlockingFlags(v, r) # {} THEN "no_trade"
                   ELSE MinBand(BandOrDefault(a), StructuralBand(v, r))
           OrDefault(watch) == IF watch = << >> THEN DefaultWatchlist(views) ELSE watch
           ToppedUp(watch, exclude) ==
             AugmentWithCatalystPending(views, SanitizeWatchlist(views, watch, exclude), exclude)
           first == IF a.ticker \in Range(a.watch) THEN a.watch ELSE <<a.ticker>> \o a.watch
<1>1. ASSUME NEW watch, Watchlist(watch, views) PROVE Watchlist(OrDefault(watch), views)
  BY <1>1, DefaultWatched
<1>2. ASSUME NEW S, NEW watch \in Seq(S), NEW exclude PROVE Watchlist(ToppedUp(watch, exclude), views)
  <2>1. Watchlist(SanitizeWatchlist(views, watch, exclude), views)
    BY SanitizedWatched
  <2> QED
    BY <2>1, AugmentedWatched
<1>3. a.watch \in Seq(Range(a.watch))
  BY DEF Parsed
<1> DEFINE d == Accepted(views, a)
           served == ToppedUp(a.watch, a.ticker)
           declined == OrDefault(ToppedUp(first, "none"))
           unasked == OrDefault(SanitizeWatchlist(views, a.watch, a.ticker))
<1>4. d = IF a.action = "no_trade" THEN NoTrade("llm", unasked)
          ELSE IF band = "no_trade" THEN NoTrade("llm", declined)
          ELSE [engine |-> "llm", action |-> ActionForBand(band), band |-> band,
                ticker |-> a.ticker, pick |-> a.pick, watch |-> served]
  BY DEF Accepted
<1>5. Watchlist(served, views)
  BY <1>2, <1>3
<1>6. Watchlist(declined, views)
  <2>1. first \in Seq(Range(a.watch) \cup {a.ticker})
    <3>1. a.watch \in Seq(Range(a.watch) \cup {a.ticker})
      BY <1>3, SeqMonotonic
    <3>2. <<a.ticker>> \in Seq(Range(a.watch) \cup {a.ticker})
      OBVIOUS
    <3>3. <<a.ticker>> \o a.watch \in Seq(Range(a.watch) \cup {a.ticker})
      BY <3>1, <3>2, ConcatProperties
    <3> QED
      BY <3>1, <3>3
  <2> HIDE DEF first, ToppedUp, OrDefault
  <2>2. Watchlist(ToppedUp(first, "none"), views)
    BY <1>2, <2>1
  <2> QED
    BY <1>1, <2>2
<1>7. Watchlist(unasked, views)
  <2>1. Watchlist(SanitizeWatchlist(views, a.watch, a.ticker), views)
    BY <1>3, SanitizedWatched
  <2> HIDE DEF OrDefault
  <2> QED
    BY <1>1, <2>1
<1> HIDE DEF d, served, declined, unasked
<1>8. ASSUME a.action = "no_trade" PROVE Decided(d, views)
  BY <1>4, <1>7, <1>8, NoTradeDecided
<1>9. ASSUME a.action # "no_trade", band = "no_trade" PROVE Decided(d, views)
  BY <1>4, <1>6, <1>9, NoTradeDecided
<1>10. ASSUME a.action # "no_trade", band # "no_trade" PROVE Decided(d, views)
  <2>1. \E x \in Named(views, a) : \E y \in SelectedContract(x, a) : TRUE
    BY <1>10 DEF Acceptable
  <2>2. v \in Range(views) /\ v.ticker = a.ticker
    BY <2>1 DEF Named
  <2>3. ASSUME NEW x \in Named(views, a), NEW y \in Named(views, a) PROVE x = y
    <3>1. DOMAIN views = 1..Len(views) /\ Len(views) \in Nat
      BY ViewedTickers
    <3>2. PICK m \in 1..Len(views) : x = views[m]
      BY <3>1 DEF Named, Range
    <3>3. PICK n \in 1..Len(views) : y = views[n]
      BY <3>1 DEF Named, Range
    <3>4. views[m].ticker = views[n].ticker
      BY <3>2, <3>3 DEF Named
    <3>5. m = n \/ m < n \/ n < m
      BY <3>1
    <3> QED
      BY <3>2, <3>3, <3>4, <3>5 DEF Viewed
  <2>4. PICK n \in 1..Len(views) : v = views[n]
    <3>1. DOMAIN views = 1..Len(views)
      BY ViewedTickers
    <3> QED
      BY <2>2, <3>1 DEF Range
  <2>5. v \in Named(views, a)
    BY <2>2 DEF Named
  <2> HIDE DEF v
  <2>6. \E y \in SelectedContract(v, a) : TRUE
    BY <2>1, <2>3, <2>5
  <2>7. r \in SelectedContract(v, a)
    BY <2>6
  <2> HIDE DEF r
  <2>8. Sound(v.eval) /\ v.stored \in BOOLEAN
    BY <2>4 DEF Viewed
  <2>9. v.eval.direction \in 0..100 /\ Len(v.eval.ranked) \in Nat
    BY <2>8, LenProperties DEF Sound, Counted
  <2>10. a.pick \in 1..Len(v.eval.ranked) /\ r = v.eval.ranked[a.pick] /\ Viable(r)
    <3>1. a.pick \in 1..Min({3, Len(v.eval.ranked)}) /\ r = v.eval.ranked[a.pick] /\ Viable(r)
      BY <2>7 DEF SelectedContract, VisibleContract
    <3>2. Min({3, Len(v.eval.ranked)}) \in Nat /\ Min({3, Len(v.eval.ranked)}) <= Len(v.eval.ranked)
      BY <2>9, MinOfTwo
    <3> QED
      BY <2>9, <3>1, <3>2
  <2>11. r.score \in 0..100
    BY <2>8, <2>10 DEF Sound, Counted
  <2> DEFINE sb == StructuralBand(v, r)
  <2>12. /\ sb \in Band
         /\ sb # "no_trade" => Allowed(v.eval, r) # "no_trade"
         /\ sb \in {"standard", "strong"} => Allowed(v.eval, r) = "recommend"
    BY <2>9, <2>11, StructuralBandAllows
  <2> HIDE DEF sb
  <2>13. BandOrDefault(a) \in Band
    BY DefaultBand
  <2>14. BlockingFlags(v, r) = {} /\ band = MinBand(BandOrDefault(a), sb)
    BY <1>10 DEF sb
  <2>15. /\ band \in Band /\ sb # "no_trade" /\ ActionForBand(band) \in Action
         /\ ActionForBand(band) # "no_trade"
         /\ ActionForBand(band) = "recommend" => sb \in {"standard", "strong"}
    BY <1>10, <2>12, <2>13, <2>14, LesserBand
  <2>16. Warrants(v.eval, a.pick, ActionForBand(band))
    BY <2>10, <2>12, <2>15 DEF Warrants, Action
  <2>17. ~v.stored => r.flags = {}
    BY <2>14 DEF BlockingFlags
  <2> HIDE DEF band
  <2>18. /\ d.engine = "llm" /\ d.action = ActionForBand(band) /\ d.ticker = a.ticker
         /\ d.pick = a.pick /\ d.watch = served
    BY <1>4, <1>10
  <2>19. /\ views[n].ticker = d.ticker /\ Warrants(views[n].eval, d.pick, d.action)
         /\ ~views[n].stored => views[n].eval.ranked[d.pick].flags = {}
    BY <2>2, <2>4, <2>10, <2>16, <2>17, <2>18
  <2>20. d.action \in Action /\ Watchlist(d.watch, views)
    BY <1>5, <2>15, <2>18
  <2> QED
    BY <2>18, <2>19, <2>20 DEF Decided
<1> QED
  BY <1>8, <1>9, <1>10 DEF d

-----------------------------------------------------------------------------
(***************************************************************************)
(* The candidate is judged by the best of its viable contracts.            *)
(***************************************************************************)
Graded(ranked) ==
  /\ ranked \in Seq(Range(ranked))
  /\ \A n \in 1..Len(ranked) : /\ ranked[n].score \in 0..100 /\ ranked[n].liquidity \in 0..100

ConfidenceWith(k, c) == DataConfidence(k, {c})
ConfidenceBefore(k) == DataConfidence(k, {})

\* What the rows of a candidate, ranked, and its direction must be for that.
Ranked(k, d, ranked) ==
  /\ d.score \in 0..100 /\ Graded(ranked)
  /\ \A m, n \in 1..Len(ranked) : m < n => ranked[m].score >= ranked[n].score
  /\ ConfidenceBefore(k) \in 0..100
  /\ \A n \in 1..Len(ranked) : ConfidenceWith(k, ranked[n].contract) \in 0..100

LEMMA JudgedSound ==
  ASSUME NEW k, NEW u, NEW d, NEW ranked, Ranked(k, d, ranked)
  PROVE  /\ Sound(Judged(k, u, d, ranked))
         /\ Judged(k, u, d, ranked).ranked = ranked
<1>0. /\ d.score \in 0..100 /\ Graded(ranked)
      /\ \A m, n \in 1..Len(ranked) : m < n => ranked[m].score >= ranked[n].score
      /\ ConfidenceBefore(k) \in 0..100
      /\ \A n \in 1..Len(ranked) : ConfidenceWith(k, ranked[n].contract) \in 0..100
  BY DEF Ranked
<1> DEFINE viable == {n \in DOMAIN ranked : Viable(ranked[n])}
           first == Min(viable)
           chosen == IF viable = {} THEN {} ELSE {ranked[first]}
           confidence == DataConfidence(k, {r.contract : r \in chosen})
           final == IF chosen = {} THEN 0
                    ELSE CombineScores(d.score, (CHOOSE r \in chosen : TRUE).score)
           action == FinalAction(final, confidence, Blocked(k, u), chosen, d.score)
           e == Judged(k, u, d, ranked)
           pick == IF viable = {} THEN 0 ELSE first
           act == IF action = "recommend" /\ k.source \in NoEarningsRequired /\ ~k.news
                  THEN "watchlist" ELSE action
<1>1. e = [direction |-> d.score, confidence |-> confidence, blocked |-> Blocked(k, u),
           ranked |-> ranked, pick |-> pick, final |-> final, action |-> act]
  BY DEF Judged
<1>2. Len(ranked) \in Nat /\ DOMAIN ranked = 1..Len(ranked)
  BY <1>0, LenProperties DEF Graded
<1>3. IsFiniteSet(viable) /\ viable \subseteq 1..Len(ranked)
  <2>1. IsFiniteSet(1..Len(ranked)) /\ viable \subseteq 1..Len(ranked)
    BY <1>2, FS_Interval
  <2> QED
    BY <2>1, FS_Subset
<1>4. \A n \in 1..Len(ranked) : n \in viable <=> Viable(ranked[n])
  BY <1>2
<1> HIDE DEF viable, e
<1>5. CASE viable = {}
  <2>1. chosen = {} /\ pick = 0 /\ final = 0
    BY <1>5
  <2>2. {r.contract : r \in chosen} = {}
    BY <2>1
  <2>3. confidence \in 0..100
    <3>1. confidence = ConfidenceBefore(k)
      BY <2>2 DEF ConfidenceBefore
    <3> QED
      BY <1>0, <3>1
  <2>4. action = "no_trade" /\ act = "no_trade"
    BY <2>1 DEF FinalAction
  <2> HIDE DEF confidence, action
  <2>5. /\ e.direction = d.score /\ e.confidence = confidence /\ e.final = 0
        /\ e.ranked = ranked /\ e.pick = 0 /\ e.action = "no_trade"
    BY <1>1, <2>1, <2>4
  <2>6. Counted(e)
    <3>1. e.final \in 0..100 /\ e.direction \in 0..100 /\ e.confidence \in 0..100
      BY <1>0, <2>3, <2>5
    <3>2. e.ranked = ranked
      BY <2>5
    <3> QED
      BY <1>0, <3>1, <3>2, <1>2 DEF Counted, Graded
  <2>7. PicksNone(e)
    BY <1>4, <1>5, <2>5 DEF PicksNone
  <2> QED
    BY <2>5, <2>6, <2>7 DEF Sound, e
<1>6. CASE viable # {}
  <2>1. first \in viable /\ \A n \in viable : first <= n
    <3>1. viable \subseteq Int
      BY <1>2, <1>3
    <3> QED
      BY <1>3, <1>6, <3>1, LeastMember
  <2>2. first \in 1..Len(ranked) /\ Viable(ranked[first])
    BY <1>3, <1>4, <2>1
  <2> HIDE DEF first
  <2>3. chosen = {ranked[first]} /\ pick = first
    BY <1>6
  <2>4. {r.contract : r \in chosen} = {ranked[first].contract}
    BY <2>3
  <2>5. confidence \in 0..100
    <3>1. confidence = ConfidenceWith(k, ranked[first].contract)
      BY <2>4 DEF ConfidenceWith
    <3> QED
      BY <1>0, <2>2, <3>1
  <2>6. (CHOOSE r \in chosen : TRUE) = ranked[first]
    BY <2>3
  <2>7. final = CombineScores(d.score, ranked[first].score) /\ final \in 0..100
    <3>1. ranked[first].score \in 0..100
      BY <1>0, <2>2 DEF Graded
    <3> QED
      BY <1>0, <2>3, <2>6, <3>1, CombinedScores
  <2>8. action = FinalAction(final, confidence, Blocked(k, u), {ranked[first]}, d.score)
    BY <2>3
  <2> HIDE DEF confidence, action, final, chosen
  <2>9. /\ e.direction = d.score /\ e.confidence = confidence /\ e.final = final
        /\ e.blocked = Blocked(k, u) /\ e.ranked = ranked /\ e.pick = first /\ e.action = act
    BY <1>1, <2>3
  <2>10. Counted(e)
    BY <1>0, <1>2, <2>5, <2>7, <2>9 DEF Counted, Graded
  <2>11. Allowed(e, ranked[first]) = action
    BY <2>7, <2>8, <2>9 DEF Allowed
  <2>12. act = action \/ (act = "watchlist" /\ action = "recommend")
    OBVIOUS
  <2> HIDE DEF act
  <2>13. ASSUME NEW n \in 1..Len(ranked), Viable(ranked[n])
         PROVE  ranked[n].score <= ranked[first].score
    <3>1. first <= n
      BY <1>4, <2>1, <2>13
    <3>2. first = n \/ first < n
      BY <1>2, <2>2, <3>1
    <3>3. ranked[n].score \in 0..100 /\ ranked[first].score \in 0..100
      BY <1>0, <2>2 DEF Graded
    <3>4. CASE first = n
      <4>1. PICK s \in Int : ranked[first].score = s
        BY <3>3
      <4>2. ranked[n].score = s
        BY <3>4, <4>1
      <4> QED
        BY <4>1, <4>2
    <3>5. CASE first < n
      BY <1>0, <2>2, <3>3, <3>5
    <3> QED
      BY <3>2, <3>4, <3>5
  <2>14. PicksBest(e)
    BY <2>2, <2>7, <2>9, <2>11, <2>12, <2>13 DEF PicksBest
  <2> QED
    BY <2>9, <2>10, <2>14 DEF Sound, e
<1> QED
  BY <1>5, <1>6

-----------------------------------------------------------------------------
(* One evaluation: the contracts of the chain, scored and ranked.            *)

\* r is the score of a contract that was considered.
ScoredRow(k, u, r) == \E i \in Range(ConsideredOn(k, u)) : r = ScoreAt(k, u, i)

LEMMA ScoreContractFields ==
  ASSUME NEW k, NEW u, NEW c, NEW d
  PROVE  LET r == ScoreContract(k, u, c, d)
             plan == ExitPlan(k, c, d.score)
             reality == OptionReality(k, c, plan)
         IN /\ r.contract = c /\ r.plan = plan /\ r.flags = reality.flags
            /\ r.vetoed = HardVeto(k, u, c, plan, reality)
            /\ DOMAIN r = {"contract", "plan", "flags", "dte", "vetoed", "liquidity", "score"}
BY DEF ScoreContract, ScoreWithPlan, ScorePlanned

\* The key of the ranking, and that its parts keep to their places.
DaysOf(k, r) == IF k.earnings = NoDay THEN 0 ELSE r.contract.expiry - k.earnings
KeyOf(k, r) == 100000 * r.score + 100 * r.liquidity - DaysOf(k, r)
Near(days) == days \in Int /\ -1000 <= days /\ days <= 1000
Percent(x) == x \in Int /\ 0 <= x /\ x <= 100
LEMMA PercentRange ==
  ASSUME NEW x
  PROVE  Percent(x) <=> x \in 0..100
BY DEF Percent

Ranks(k, u, r) ==
  /\ Percent(r.score) /\ Percent(r.liquidity) /\ Percent(ConfidenceWith(k, r.contract))
  /\ Near(DaysOf(k, r)) /\ ScoredRow(k, u, r)

LEMMA PlaceScores ==
  ASSUME NEW k, NEW u, NEW i, NumbersAt(k, u, i)
  PROVE  /\ ScoreAt(k, u, i).score \in 0..100 /\ ScoreAt(k, u, i).liquidity \in 0..100
         /\ ConfidenceWith(k, k.chain[i]) \in 0..100
BY Zenon DEF NumbersAt, ConfidenceWith

LEMMA PlaceQuote ==
  ASSUME NEW k, NEW u, NEW i, NumbersAt(k, u, i)
  PROVE  /\ Quoted(k.chain[i])
         /\ k.today < k.chain[i].expiry =>
              ExpectedMoveFraction(k, k.chain[i],
                                   Sessions(k.today, PlannedExit(k, k.chain[i].expiry))) \in Int
BY Zenon DEF NumbersAt

LEMMA PlaceDays ==
  ASSUME NEW k, NEW u, NEW i, NumbersAt(k, u, i)
  PROVE  k.earnings # NoDay => Near(k.chain[i].expiry - k.earnings)
<1>1. k.earnings # NoDay => k.chain[i].expiry - k.earnings \in -1000..1000
  BY Zenon DEF NumbersAt
<1>2. \A x : x \in -1000..1000 => Near(x)
  BY DEF Near
<1> QED
  BY <1>1, <1>2, Zenon

LEMMA RowContract ==
  ASSUME NEW k, NEW u, NEW i
  PROVE  ScoreAt(k, u, i).contract = k.chain[i]
BY DEF ScoreAt, ScoreContract, ScoreWithPlan, ScorePlanned

LEMMA RowRanks ==
  ASSUME NEW k, NEW u, NEW i \in Range(ConsideredOn(k, u)), NumbersAt(k, u, i)
  PROVE  Ranks(k, u, ScoreAt(k, u, i))
<1>1. PICK r : r = ScoreAt(k, u, i)
  OBVIOUS
<1>2. PICK c : c = k.chain[i]
  OBVIOUS
<1>3. r.score \in 0..100 /\ r.liquidity \in 0..100 /\ ConfidenceWith(k, c) \in 0..100
  BY <1>1, <1>2, PlaceScores
<1>4. k.earnings # NoDay => Near(k.chain[i].expiry - k.earnings)
  BY PlaceDays
<1>5. r.contract = c
  BY <1>1, <1>2, RowContract
<1>6. ScoredRow(k, u, r)
  BY <1>1 DEF ScoredRow
<1>7. Percent(r.score) /\ Percent(r.liquidity) /\ Percent(ConfidenceWith(k, r.contract))
  BY <1>3, <1>5 DEF Percent
<1>8. DaysOf(k, r) = IF k.earnings = NoDay THEN 0 ELSE k.chain[i].expiry - k.earnings
  BY <1>2, <1>5 DEF DaysOf
<1>9. Near(DaysOf(k, r))
  <2>1. Near(0)
    BY DEF Near
  <2> QED
    BY <1>4, <1>8, <2>1
<1> QED
  BY <1>1, <1>6, <1>7, <1>9 DEF Ranks

LEMMA KeyNumber ==
  ASSUME NEW k, NEW u, NEW r, Ranks(k, u, r)
  PROVE  KeyOf(k, r) \in Int
<1>1. PICK a \in Int : r.score = a
  BY DEF Ranks, Percent
<1>2. PICK b \in Int : r.liquidity = b
  BY DEF Ranks, Percent
<1>3. PICK c \in Int : DaysOf(k, r) = c
  BY DEF Ranks, Near
<1> QED
  BY <1>1, <1>2, <1>3 DEF KeyOf

LEMMA KeyOrders ==
  ASSUME NEW k, NEW u, NEW r, Ranks(k, u, r), NEW q, Ranks(k, u, q), KeyOf(k, r) >= KeyOf(k, q)
  PROVE  r.score >= q.score
<1>1. PICK a \in Int : r.score = a
  BY DEF Ranks, Percent
<1>2. PICK b \in Int : r.liquidity = b /\ 0 <= b /\ b <= 100
  BY DEF Ranks, Percent
<1>3. PICK c \in Int : DaysOf(k, r) = c /\ -1000 <= c /\ c <= 1000
  BY DEF Ranks, Near
<1>4. PICK x \in Int : q.score = x
  BY DEF Ranks, Percent
<1>5. PICK y \in Int : q.liquidity = y /\ 0 <= y /\ y <= 100
  BY DEF Ranks, Percent
<1>6. PICK z \in Int : DaysOf(k, q) = z /\ -1000 <= z /\ z <= 1000
  BY DEF Ranks, Near
<1>7. KeyOf(k, r) = 100000 * a + 100 * b - c /\ KeyOf(k, q) = 100000 * x + 100 * y - z
  BY <1>1, <1>2, <1>3, <1>4, <1>5, <1>6 DEF KeyOf
<1>8. 100000 * a + 100 * b - c >= 100000 * x + 100 * y - z
  BY <1>7
<1>9. a >= x
  BY <1>2, <1>3, <1>5, <1>6, <1>8
<1> QED
  BY <1>1, <1>4, <1>9

LEMMA RankedRows ==
  ASSUME NEW k, NEW u, Numbers(k, u)
  PROVE  LET ranked == RankedContracts(k, u, DirectionOf(k)) IN
         /\ Graded(ranked)
         /\ \A n \in 1..Len(ranked) : /\ ScoredRow(k, u, ranked[n])
                                      /\ ConfidenceWith(k, ranked[n].contract) \in 0..100
         /\ \A m, n \in 1..Len(ranked) : m < n => ranked[m].score >= ranked[n].score
<1> DEFINE d == DirectionOf(k)
           considered == ConsideredOn(k, u)
           scored == ScoredContracts(k, u, d, considered)
           key == [i \in DOMAIN scored |-> KeyOf(k, scored[i])]
           ranked == Sorted(scored, key)
<1>1. RankedContracts(k, u, d) = ranked
  BY DEF RankedContracts, Descending, ConsideredOn, KeyOf, DaysOf, d
<1>2. /\ considered \in Seq(DOMAIN k.chain) /\ DOMAIN considered = 1..Len(considered)
      /\ Len(considered) \in Nat
  BY LenProperties DEF Numbers
<1>3. /\ DOMAIN scored = 1..Len(considered)
      /\ \A n \in 1..Len(considered) : /\ considered[n] \in Range(considered)
                                       /\ scored[n] = ScoreAt(k, u, considered[n])
  BY <1>2 DEF ScoredContracts, ScoreAt, Range
<1>4. scored \in [1..Len(considered) -> Range(scored)]
  BY <1>2, <1>3 DEF ScoredContracts, Range
<1>5. scored \in Seq(Range(scored)) /\ Len(scored) = Len(considered)
  BY <1>2, <1>4, SeqDef, LenProperties
<1>6. ASSUME NEW n \in 1..Len(considered) PROVE Ranks(k, u, scored[n])
  <2>1. considered[n] \in Range(considered) /\ scored[n] = ScoreAt(k, u, considered[n])
    BY <1>3
  <2>2. NumbersAt(k, u, considered[n])
    BY <2>1, Zenon DEF Numbers
  <2> QED
    BY <2>1, <2>2, RowRanks
<1>7. \A n \in 1..Len(considered) : key[n] = KeyOf(k, scored[n])
  BY <1>3
<1> HIDE DEF scored, considered, key
<1>8. ASSUME NEW n \in 1..Len(considered) PROVE key[n] \in Int
  BY <1>6, <1>7, KeyNumber
<1>9. /\ ranked \in Seq(Range(scored)) /\ Len(ranked) = Len(scored)
      /\ \E order : Permutes(order, ranked, scored, key)
  BY <1>5, <1>8, SortedSequence
<1> HIDE DEF ranked
<1>10. PICK order : Permutes(order, ranked, scored, key)
  BY <1>9
<1>11. /\ \A n \in 1..Len(ranked) : order[n] \in 1..Len(considered) /\ ranked[n] = scored[order[n]]
       /\ \A m, n \in 1..Len(ranked) : m < n => key[order[m]] >= key[order[n]]
  BY <1>5, <1>9, <1>10 DEF Permutes
<1>12. ranked \in Seq(Range(ranked))
  <2>1. ranked \in [1..Len(ranked) -> Range(ranked)] /\ Len(ranked) \in Nat
    BY <1>9, LenProperties DEF Range
  <2> QED
    BY <2>1, SeqDef
<1>13. ASSUME NEW n \in 1..Len(ranked) PROVE Ranks(k, u, ranked[n])
  BY <1>6, <1>11
<1>14. ASSUME NEW n \in 1..Len(ranked)
       PROVE  /\ ranked[n].score \in 0..100 /\ ranked[n].liquidity \in 0..100
              /\ ScoredRow(k, u, ranked[n]) /\ ConfidenceWith(k, ranked[n].contract) \in 0..100
  <2>1. Ranks(k, u, ranked[n])
    BY <1>13
  <2>2. PICK r : r = ranked[n]
    OBVIOUS
  <2>3. /\ Percent(r.score) /\ Percent(r.liquidity) /\ ScoredRow(k, u, r)
        /\ Percent(ConfidenceWith(k, r.contract))
    BY <2>1, <2>2 DEF Ranks
  <2>4. /\ r.score \in 0..100 /\ r.liquidity \in 0..100
        /\ ConfidenceWith(k, r.contract) \in 0..100
    BY <2>3, PercentRange, Zenon
  <2> QED
    BY <2>2, <2>3, <2>4
<1>15. Graded(ranked)
  BY <1>12, <1>14 DEF Graded
<1>16. ASSUME NEW m \in 1..Len(ranked), NEW n \in 1..Len(ranked), m < n
       PROVE  ranked[m].score >= ranked[n].score
  <2>1. key[order[m]] >= key[order[n]] /\ order[m] \in 1..Len(considered)
        /\ order[n] \in 1..Len(considered)
    BY <1>11, <1>16
  <2>2. KeyOf(k, ranked[m]) >= KeyOf(k, ranked[n])
    BY <1>7, <1>11, <2>1
  <2> QED
    BY <1>13, <2>2, KeyOrders
<1> QED
  BY <1>1, <1>14, <1>15, <1>16, Zenon DEF d

LEMMA EvaluatedSound ==
  ASSUME NEW k, NEW u, Numbers(k, u)
  PROVE  LET e == ScoreCandidate(k, u) IN
         /\ Sound(e)
         /\ \A n \in 1..Len(e.ranked) : ScoredRow(k, u, e.ranked[n])
         /\ DOMAIN e = {"direction", "confidence", "blocked", "ranked", "pick", "final", "action"}
<1>1. PICK d : d = DirectionOf(k)
  OBVIOUS
<1>2. PICK ranked : ranked = RankedContracts(k, u, d)
  OBVIOUS
<1>3. PICK e : e = Judged(k, u, d, ranked)
  OBVIOUS
<1>4. ScoreCandidate(k, u) = e
  BY <1>1, <1>2, <1>3 DEF ScoreCandidate, ScoreTowards, DirectionOf
<1>5. /\ Graded(ranked)
      /\ \A n \in 1..Len(ranked) : /\ ScoredRow(k, u, ranked[n])
                                   /\ ConfidenceWith(k, ranked[n].contract) \in 0..100
      /\ \A m, n \in 1..Len(ranked) : m < n => ranked[m].score >= ranked[n].score
  BY <1>1, <1>2, RankedRows
<1>6. d.score \in 0..100 /\ ConfidenceBefore(k) \in 0..100
  <2>1. DirectionOf(k).score \in 0..100 /\ ConfidenceBefore(k) \in 0..100
    BY Zenon DEF Numbers, ConfidenceBefore
  <2> QED
    BY <1>1, <2>1
<1>7. Sound(e) /\ e.ranked = ranked
  <2>1. Ranked(k, d, ranked)
    BY <1>5, <1>6 DEF Ranked
  <2> QED
    BY <1>3, <2>1, JudgedSound
<1>8. DOMAIN e = {"direction", "confidence", "blocked", "ranked", "pick", "final", "action"}
  BY <1>3 DEF Judged
<1> QED
  BY <1>4, <1>5, <1>7, <1>8

-----------------------------------------------------------------------------
(* The same evaluation, rebuilt from the rows of the run.                    *)

RowFields(r) ==
  /\ "contract" \in DOMAIN r /\ "score" \in DOMAIN r /\ "liquidity" \in DOMAIN r
  /\ "vetoed" \in DOMAIN r /\ "plan" \in DOMAIN r /\ "flags" \in DOMAIN r
EvalFields(e) ==
  /\ "direction" \in DOMAIN e /\ "confidence" \in DOMAIN e /\ "blocked" \in DOMAIN e
  /\ "ranked" \in DOMAIN e /\ "pick" \in DOMAIN e /\ "final" \in DOMAIN e
  /\ "action" \in DOMAIN e

StoredRow(r) == [r EXCEPT !.contract = Stored(@)]
StoredKey(r) == (IF Viable(r) THEN 1000000 ELSE 0) + 1000 * r.score + r.liquidity

LEMMA StoredFields ==
  ASSUME NEW r, RowFields(r)
  PROVE  LET q == StoredRow(r) IN
         /\ q.contract = Stored(r.contract) /\ q.score = r.score /\ q.liquidity = r.liquidity
         /\ q.vetoed = r.vetoed /\ q.plan = r.plan /\ q.flags = r.flags
         /\ Viable(q) <=> Viable(r)
BY DEF RowFields, StoredRow, Viable

\* A viable row comes before a row that is not, and before one of lower score.
LEMMA StoredKeyOrders ==
  ASSUME NEW q, Percent(q.score), Percent(q.liquidity),
         NEW r, Percent(r.score), Percent(r.liquidity), StoredKey(q) >= StoredKey(r), Viable(r)
  PROVE  Viable(q) /\ r.score <= q.score
<1>1. PICK a \in Int : q.score = a /\ 0 <= a /\ a <= 100
  BY DEF Percent
<1>2. PICK b \in Int : q.liquidity = b /\ 0 <= b /\ b <= 100
  BY DEF Percent
<1>3. PICK x \in Int : r.score = x /\ 0 <= x /\ x <= 100
  BY DEF Percent
<1>4. PICK y \in Int : r.liquidity = y /\ 0 <= y /\ y <= 100
  BY DEF Percent
<1>5. StoredKey(r) = 1000000 + 1000 * x + y
  BY <1>3, <1>4 DEF StoredKey
<1>6. StoredKey(q) = (IF Viable(q) THEN 1000000 ELSE 0) + 1000 * a + b
  BY <1>1, <1>2 DEF StoredKey
<1>7. CASE ~Viable(q)
  <2>1. 1000 * a + b >= 1000000 + 1000 * x + y
    BY <1>5, <1>6, <1>7
  <2> QED
    BY <1>1, <1>2, <1>3, <1>4, <2>1
<1>8. CASE Viable(q)
  <2>1. 1000000 + 1000 * a + b >= 1000000 + 1000 * x + y
    BY <1>5, <1>6, <1>8
  <2>2. x <= a
    BY <1>1, <1>2, <1>3, <1>4, <2>1
  <2> QED
    BY <1>1, <1>3, <1>8, <2>2
<1> QED
  BY <1>7, <1>8

LEMMA StoredKeyNumber ==
  ASSUME NEW q, Percent(q.score), Percent(q.liquidity)
  PROVE  StoredKey(q) \in Int
<1>1. PICK a \in Int : q.score = a
  BY DEF Percent
<1>2. PICK b \in Int : q.liquidity = b
  BY DEF Percent
<1> QED
  BY <1>1, <1>2 DEF StoredKey

\* The rows of e as they are stored, ranked once more.
StoredRows(e) == [n \in DOMAIN e.ranked |-> StoredRow(e.ranked[n])]
StoredKeys(e) == [n \in DOMAIN StoredRows(e) |-> StoredKey(StoredRows(e)[n])]
StoredRanked(e) == Sorted(StoredRows(e), StoredKeys(e))

\* t holds the stored rows of e, the viable ones first, each from a row of e.
Restored(t, e) ==
  /\ t \in Seq(Range(t)) /\ Len(t) = Len(e.ranked)
  /\ \A n \in 1..Len(t) : \E m \in 1..Len(e.ranked) : t[n] = StoredRow(e.ranked[m])
  /\ \A m \in 1..Len(e.ranked) : \E n \in 1..Len(t) : t[n] = StoredRow(e.ranked[m])
  /\ \A m, n \in 1..Len(t) : m < n => StoredKey(t[m]) >= StoredKey(t[n])

LEMMA StoredRanking ==
  ASSUME NEW e, Sound(e), \A n \in 1..Len(e.ranked) : RowFields(e.ranked[n])
  PROVE  Restored(StoredRanked(e), e)
<1> DEFINE N == Len(e.ranked)
           rows == StoredRows(e)
           keys == StoredKeys(e)
           t == StoredRanked(e)
<1>1. N \in Nat /\ DOMAIN e.ranked = 1..N
  BY LenProperties DEF Sound, Counted
<1>2. DOMAIN rows = 1..N /\ \A n \in 1..N : rows[n] = StoredRow(e.ranked[n])
  BY <1>1 DEF StoredRows
<1>3. rows \in Seq(Range(rows)) /\ Len(rows) = N
  <2>1. rows \in [1..N -> Range(rows)]
    BY <1>1, <1>2 DEF StoredRows, Range
  <2> QED
    BY <1>1, <2>1, SeqDef, LenProperties
<1>4. \A n \in 1..N : keys[n] = StoredKey(rows[n])
  BY <1>2 DEF StoredKeys
<1>5. t = Sorted(rows, keys)
  BY DEF StoredRanked
<1>6. ASSUME NEW n \in 1..N PROVE keys[n] \in Int
  <2>1. RowFields(e.ranked[n])
    BY <1>1
  <2>2. Percent(e.ranked[n].score) /\ Percent(e.ranked[n].liquidity)
    BY PercentRange DEF Sound, Counted
  <2>3. PICK q : q = StoredRow(e.ranked[n])
    OBVIOUS
  <2>4. Percent(q.score) /\ Percent(q.liquidity)
    BY <2>1, <2>2, <2>3, StoredFields
  <2> QED
    BY <1>2, <1>4, <2>3, <2>4, StoredKeyNumber
<1> HIDE DEF rows, keys, t
<1>7. /\ t \in Seq(Range(rows)) /\ Len(t) = N
      /\ \E order : Permutes(order, t, rows, keys)
  BY <1>3, <1>5, <1>6, SortedSequence
<1>8. PICK order : Permutes(order, t, rows, keys)
  BY <1>7
<1>9. /\ \A n \in 1..N : order[n] \in 1..N /\ t[n] = rows[order[n]]
      /\ \A m, n \in 1..N : m < n => keys[order[m]] >= keys[order[n]]
      /\ \A i \in 1..N : \E n \in 1..N : order[n] = i
  BY <1>3, <1>8 DEF Permutes
<1>10. t \in Seq(Range(t))
  <2>1. t \in [1..N -> Range(t)]
    BY <1>1, <1>7, LenProperties DEF Range
  <2> QED
    BY <1>1, <2>1, SeqDef
<1>11. ASSUME NEW n \in 1..N PROVE \E m \in 1..N : t[n] = StoredRow(e.ranked[m])
  BY <1>2, <1>9
<1>12. ASSUME NEW m \in 1..N PROVE \E n \in 1..N : t[n] = StoredRow(e.ranked[m])
  <2>1. PICK n \in 1..N : order[n] = m
    BY <1>9
  <2>2. t[n] = StoredRow(e.ranked[m])
    BY <1>2, <1>9, <2>1
  <2> QED
    BY <2>2
<1>13. ASSUME NEW m \in 1..N, NEW n \in 1..N, m < n
       PROVE  StoredKey(t[m]) >= StoredKey(t[n])
  <2>1. keys[order[m]] >= keys[order[n]] /\ order[m] \in 1..N /\ order[n] \in 1..N
    BY <1>9, <1>13
  <2>2. StoredKey(t[m]) = keys[order[m]] /\ StoredKey(t[n]) = keys[order[n]]
    BY <1>4, <1>9, <2>1
  <2> QED
    BY <2>1, <2>2
<1> QED
  BY <1>7, <1>10, <1>11, <1>12, <1>13 DEF Restored, t

\* The parts of a rebuilt evaluation.
LEMMA StoredParts ==
  ASSUME NEW e, EvalFields(e)
  PROVE  LET f == StoredEvaluation(e)
             t == StoredRanked(e)
             any == \E n \in DOMAIN t : Viable(t[n])
         IN /\ f.direction = e.direction /\ f.confidence = e.confidence /\ f.final = e.final
            /\ f.blocked = FALSE /\ f.ranked = t
            /\ f.pick = IF any THEN 1 ELSE 0
            /\ f.action = FinalAction(e.final, e.confidence, FALSE,
                                      IF any THEN {t[1]} ELSE {}, e.direction)
<1> DEFINE f == StoredEvaluation(e)
           t == StoredRanked(e)
           any == \E n \in DOMAIN t : Viable(t[n])
           pick == IF any THEN 1 ELSE 0
           chosen == IF pick = 0 THEN {} ELSE {t[1]}
           act == FinalAction(e.final, e.confidence, FALSE, chosen, e.direction)
<1>1. f = [e EXCEPT !.blocked = FALSE, !.ranked = t, !.pick = pick, !.action = act]
  BY DEF StoredEvaluation, StoredRanked, StoredRows, StoredKeys, StoredRow, StoredKey, Descending
<1>2. chosen = IF any THEN {t[1]} ELSE {}
  OBVIOUS
<1> HIDE DEF f, t, chosen, any
<1>3. act = FinalAction(e.final, e.confidence, FALSE, IF any THEN {t[1]} ELSE {}, e.direction)
  BY <1>2
<1> HIDE DEF act, pick
<1>4. /\ f.direction = e.direction /\ f.confidence = e.confidence /\ f.final = e.final
      /\ f.blocked = FALSE /\ f.ranked = t /\ f.pick = pick /\ f.action = act
  BY <1>1 DEF EvalFields
<1> QED
  BY <1>3, <1>4 DEF f, t, any, pick

\* A rebuilt evaluation is sound, and each of its rows is one of e's, stored.
LEMMA StoredSound ==
  ASSUME NEW e, Sound(e), EvalFields(e), \A n \in 1..Len(e.ranked) : RowFields(e.ranked[n])
  PROVE  /\ Sound(StoredEvaluation(e))
         /\ StoredEvaluation(e).ranked = StoredRanked(e)
         /\ Restored(StoredRanked(e), e)
<1>1. PICK f : f = StoredEvaluation(e)
  OBVIOUS
<1>2. PICK t : t = StoredRanked(e)
  OBVIOUS
<1>3. PICK any \in BOOLEAN : any = \E n \in DOMAIN t : Viable(t[n])
  OBVIOUS
<1>4. /\ f.direction = e.direction /\ f.confidence = e.confidence /\ f.final = e.final
      /\ f.blocked = FALSE /\ f.ranked = t /\ f.pick = (IF any THEN 1 ELSE 0)
      /\ f.action = FinalAction(e.final, e.confidence, FALSE,
                                IF any THEN {t[1]} ELSE {}, e.direction)
  BY <1>1, <1>2, <1>3, StoredParts
<1>5. Restored(t, e)
  BY <1>2, StoredRanking
<1>6. Len(t) \in Nat /\ DOMAIN t = 1..Len(t) /\ Len(t) = Len(e.ranked)
  BY <1>5, LenProperties DEF Restored
<1>7. ASSUME NEW m \in 1..Len(e.ranked)
      PROVE  LET q == StoredRow(e.ranked[m]) IN
             /\ Percent(q.score) /\ Percent(q.liquidity)
             /\ Percent(e.ranked[m].score) /\ q.score = e.ranked[m].score
             /\ Viable(q) <=> Viable(e.ranked[m])
  <2>1. RowFields(e.ranked[m])
    BY <1>7
  <2>2. Percent(e.ranked[m].score) /\ Percent(e.ranked[m].liquidity)
    BY <1>7, PercentRange DEF Sound, Counted
  <2> QED
    BY <2>1, <2>2, StoredFields
<1>8. ASSUME NEW n \in 1..Len(t) PROVE Percent(t[n].score) /\ Percent(t[n].liquidity)
  <2>1. PICK m \in 1..Len(e.ranked) : t[n] = StoredRow(e.ranked[m])
    BY <1>5 DEF Restored
  <2> QED
    BY <1>7, <2>1
<1>9. Counted(f)
  <2>1. f.direction \in 0..100 /\ f.confidence \in 0..100 /\ f.final \in 0..100
    BY <1>4 DEF Sound, Counted
  <2>2. \A n \in 1..Len(t) : t[n].score \in 0..100 /\ t[n].liquidity \in 0..100
    BY <1>8, PercentRange
  <2>3. t \in Seq(Range(t))
    BY <1>5 DEF Restored
  <2> QED
    BY <1>4, <2>1, <2>2, <2>3 DEF Counted
<1>10. ASSUME any PROVE PicksBest(f)
  <2>1. PICK n \in 1..Len(t) : Viable(t[n])
    BY <1>3, <1>6, <1>10
  <2>2. 1 \in 1..Len(t) /\ (n = 1 \/ 1 < n)
    BY <1>6, <2>1
  <2>3. ASSUME NEW i \in 1..Len(t), Viable(t[i])
        PROVE  Viable(t[1]) /\ t[i].score <= t[1].score
    <3>1. StoredKey(t[1]) >= StoredKey(t[i])
      <4>1. CASE i = 1
        <5>1. PICK z \in Int : StoredKey(t[1]) = z
          BY <1>8, <2>2, StoredKeyNumber
        <5> QED
          BY <4>1, <5>1
      <4>2. CASE 1 < i
        BY <1>5, <2>2, <4>2 DEF Restored
      <4> QED
        BY <4>1, <4>2, <1>6
    <3> QED
      BY <1>8, <2>2, <2>3, <3>1, StoredKeyOrders
  <2>4. Viable(t[1])
    BY <2>1, <2>3
  <2>5. PicksBest(e)
    <3>1. PICK m \in 1..Len(e.ranked) : t[1] = StoredRow(e.ranked[m])
      BY <1>5, <2>2 DEF Restored
    <3>2. Viable(e.ranked[m])
      BY <1>7, <2>4, <3>1
    <3> QED
      BY <3>2 DEF Sound, PicksNone
  <2>6. t[1].score = e.ranked[e.pick].score
    <3>1. PICK m \in 1..Len(e.ranked) : t[1] = StoredRow(e.ranked[m])
      BY <1>5, <2>2 DEF Restored
    <3>2. Viable(e.ranked[m]) /\ t[1].score = e.ranked[m].score
      BY <1>7, <2>4, <3>1
    <3>3. e.pick \in 1..Len(e.ranked) /\ Viable(e.ranked[e.pick])
          /\ e.ranked[m].score <= e.ranked[e.pick].score
      BY <2>5, <3>2 DEF PicksBest
    <3>4. PICK i \in 1..Len(t) : t[i] = StoredRow(e.ranked[e.pick])
      BY <1>5, <3>3 DEF Restored
    <3>5. Viable(t[i]) /\ t[i].score = e.ranked[e.pick].score
      BY <1>7, <3>3, <3>4
    <3>6. t[i].score <= t[1].score
      BY <2>3, <3>5
    <3>7. PICK a \in Int : t[1].score = a
      BY <1>8, <2>2 DEF Percent
    <3>8. PICK b \in Int : e.ranked[e.pick].score = b
      BY <1>7, <3>3 DEF Percent
    <3> QED
      BY <3>2, <3>3, <3>5, <3>6, <3>7, <3>8
  <2>7. f.final = CombineScores(f.direction, t[1].score)
    BY <1>4, <2>5, <2>6 DEF PicksBest
  <2>8. f.action = Allowed(f, t[1])
    <3>1. f.action = FinalAction(f.final, f.confidence, f.blocked, {t[1]}, f.direction)
      BY <1>4, <1>10
    <3> QED
      BY <2>7, <3>1 DEF Allowed
  <2>9. f.pick = 1 /\ f.ranked = t
    BY <1>4, <1>10
  <2> QED
    BY <2>2, <2>3, <2>4, <2>7, <2>8, <2>9 DEF PicksBest
<1>11. ASSUME ~any PROVE PicksNone(f)
  <2>1. f.action = FinalAction(e.final, e.confidence, FALSE, {}, e.direction)
    BY <1>4, <1>11
  <2>2. f.action = "no_trade"
    BY <2>1 DEF FinalAction
  <2> QED
    BY <1>3, <1>4, <1>6, <1>11, <2>2 DEF PicksNone
<1> QED
  BY <1>1, <1>2, <1>4, <1>5, <1>9, <1>10, <1>11 DEF Sound

-----------------------------------------------------------------------------
(* The plan of a contract.                                                   *)

LEMMA MaximumOfTwo ==
  ASSUME NEW a \in Int, NEW b \in Int
  PROVE  Max({a, b}) \in Int /\ Max({a, b}) >= a /\ Max({a, b}) >= b
         /\ (Max({a, b}) = a \/ Max({a, b}) = b)
BY MaxOfTwo

LEMMA MinimumOfTwo ==
  ASSUME NEW a \in Int, NEW b \in Int
  PROVE  Min({a, b}) \in Int /\ Min({a, b}) <= a /\ Min({a, b}) <= b
         /\ (Min({a, b}) = a \/ Min({a, b}) = b)
BY MinOfTwo

LEMMA HalfEvenBounds ==
  ASSUME NEW n \in Int, NEW d \in Nat \ {0}
  PROVE  /\ HalfEven(n, d) \in Int
         /\ d * HalfEven(n, d) <= n + d
         /\ n >= 0 => HalfEven(n, d) >= 0
<1>1. PICK q \in Int : q = n \div d
  OBVIOUS
<1>2. PICK r \in Int : r = n % d
  OBVIOUS
<1>3. n = d * q + r /\ 0 <= r /\ r < d
  BY <1>1, <1>2
<1>4. HalfEven(n, d) = IF 2 * r + (q % 2) > d THEN q + 1 ELSE q
  BY <1>1, <1>2 DEF HalfEven
<1>5. d * q <= n /\ d * (q + 1) = d * q + d
  BY <1>3
<1>6. n >= 0 => q >= 0
  BY <1>1
<1> QED
  BY <1>4, <1>5, <1>6

LEMMA Halved ==
  ASSUME NEW n \in Int, n > 0
  PROVE  HalfEven(n, 2) \in Int /\ HalfEven(n, 2) <= n /\ Max({1, HalfEven(n, 2)}) <= n
<1>1. PICK h \in Int : h = HalfEven(n, 2)
  BY HalfEvenBounds
<1>2. 2 * h <= n + 2
  BY <1>1, HalfEvenBounds
<1>3. h <= n
  <2>1. CASE n = 1
    BY <1>1, <2>1 DEF HalfEven
  <2>2. CASE n >= 2
    BY <1>2, <2>2
  <2> QED
    BY <2>1, <2>2
<1>4. Max({1, h}) = 1 \/ Max({1, h}) = h
  BY MaximumOfTwo
<1>5. Max({1, h}) <= n
  BY <1>3, <1>4
<1> QED
  BY <1>1, <1>3, <1>5

LEMMA AnalysisParts ==
  ASSUME NEW c, NEW o, NEW u
  PROVE  Analysis(c, o, u).today = Facts[c].today
BY DEF Analysis, AnalysisFrom, Composed

\* The calendar reaches back from the day of k.
Reaches(day) == day \in Int /\ \E d \in TradingDay : d <= day - 5

LEMMA SessionsCounted ==
  ASSUME NEW a \in Int, NEW b \in Int
  PROVE  /\ Sessions(a, b) \in Nat
         /\ Sessions(a, b) > 0 => a < b
<1>1. SessionsAfterUntil(a, b) \subseteq TradingDay /\ TradingDay \subseteq Int
  BY TradingDayAssumption DEF SessionsAfterUntil, SessionsBetween
<1>2. IsFiniteSet(SessionsAfterUntil(a, b))
  BY <1>1, FactsAssumption, FS_Subset
<1>3. Sessions(a, b) \in Nat
  BY <1>2, FS_CardinalityType DEF Sessions
<1>4. ASSUME ~(a < b) PROVE SessionsAfterUntil(a, b) = {}
  <2>1. ASSUME NEW d \in SessionsAfterUntil(a, b) PROVE FALSE
    <3>1. d \in Int
      BY <1>1
    <3>2. a + 1 <= d /\ d <= b
      BY DEF SessionsAfterUntil, SessionsBetween
    <3> QED
      BY <1>4, <3>1, <3>2
  <2> QED
    BY <2>1
<1>5. Sessions(a, b) > 0 => a < b
  BY <1>3, <1>4, FS_EmptySet DEF Sessions
<1> QED
  BY <1>3, <1>5

\* A session on or before a day is found when the calendar reaches back to it.
LEMMA SessionFound ==
  ASSUME NEW day \in Int, \E d \in TradingDay : d < day
  PROVE  /\ PreviousOrSame(day) \in Int /\ PreviousOrSame(day) <= day
         /\ PreviousSession(day) \in Int /\ PreviousSession(day) < day
<1>1. IsFiniteSet(TradingDay) /\ TradingDay \subseteq Int
  BY TradingDayAssumption, FactsAssumption
<1> DEFINE A == {s \in TradingDay : s <= day}
           B == {s \in TradingDay : s < day}
<1>2. IsFiniteSet(A) /\ IsFiniteSet(B)
  BY <1>1, FS_Subset
<1>3. A \subseteq Int /\ B \subseteq Int /\ A # {} /\ B # {}
  <2>1. PICK d \in TradingDay : d < day
    OBVIOUS
  <2>2. d \in Int
    BY <1>1
  <2>3. d \in A /\ d \in B
    BY <2>1, <2>2
  <2> QED
    BY <1>1, <2>3
<1>4. Max(A) \in A /\ Max(B) \in B
  BY <1>2, <1>3, GreatestMember
<1> QED
  BY <1>1, <1>4 DEF PreviousOrSame, PreviousSession

LEMMA ExitBeforeExpiry ==
  ASSUME NEW k, k.earnings \in Int, Reaches(k.today), NEW expiry \in Int, k.today < expiry
  PROVE  PlannedExit(k, expiry) \in Int /\ PlannedExit(k, expiry) < expiry
<1>1. PICK today \in Int : today = k.today
  BY DEF Reaches
<1>2. PICK d \in TradingDay : d <= today - 5
  BY <1>1 DEF Reaches
<1>3. d \in Int
  BY TradingDayAssumption
<1>4. PICK safe \in Int : safe = PreviousOrSame(expiry - 5) /\ safe <= expiry - 5
  <2>1. d < expiry - 5
    BY <1>1, <1>2, <1>3
  <2> QED
    BY <2>1, SessionFound
<1>5. PICK last \in Int : last = PreviousSession(expiry) /\ last < expiry
  <2>1. d < expiry
    BY <1>1, <1>2, <1>3
  <2> QED
    BY <2>1, SessionFound
<1>6. PICK week \in Int : week = PreviousOrSame(today + 7)
  <2>1. d < today + 7
    BY <1>1, <1>2, <1>3
  <2> QED
    BY <2>1, SessionFound
<1>7. PlannedExit(k, expiry) =
        IF safe <= today THEN Max({last, today})
        ELSE IF EventWithin(k, today, expiry) /\ PreviousOrSame(k.earnings) > today
        THEN Min({PreviousOrSame(k.earnings), safe})
        ELSE IF week <= today THEN safe ELSE Min({week, safe})
  BY <1>1, <1>4, <1>5, <1>6 DEF PlannedExit
<1>8. Max({last, today}) \in Int /\ Max({last, today}) < expiry
  BY <1>1, <1>5, MaximumOfTwo
<1>9. Min({week, safe}) \in Int /\ Min({week, safe}) < expiry
  <2>1. Min({week, safe}) \in Int /\ Min({week, safe}) <= safe
    BY MinimumOfTwo
  <2> QED
    BY <1>4, <2>1
<1>10. ASSUME EventWithin(k, today, expiry)
       PROVE  LET m == Min({PreviousOrSame(k.earnings), safe}) IN m \in Int /\ m < expiry
  <2>1. PICK day \in Int : day = k.earnings
    OBVIOUS
  <2>2. d < day
    BY <1>2, <1>3, <1>10, <2>1 DEF EventWithin
  <2>3. PICK event \in Int : event = PreviousOrSame(k.earnings)
    BY <2>1, <2>2, SessionFound
  <2>4. Min({event, safe}) \in Int /\ Min({event, safe}) <= safe
    BY MinimumOfTwo
  <2> QED
    BY <1>4, <2>3, <2>4
<1>11. safe < expiry
  BY <1>4
<1> QED
  BY <1>7, <1>8, <1>9, <1>10, <1>11

-----------------------------------------------------------------------------
(* What the prices of a plan are.                                            *)

LEMMA QuoteParts ==
  ASSUME NEW c, Quoted(c)
  PROVE  /\ c.bid \in Int /\ c.ask \in Int /\ c.mid \in Int /\ c.strike \in Int /\ c.strike > 0
         /\ c.expiry \in Int /\ c.delta \in Int /\ c.iv \in Int /\ c.delta >= -1
         /\ OptionMid(c) \in Int /\ OptionPremium(c) \in Int
         /\ c.bid > 0 => c.bid <= OptionMid(c)
         /\ c.type = "call" \/ c.type = "put"
         /\ c.side = "long" \/ c.side = "short"
<1>1. /\ c.bid \in Int /\ c.ask \in Int /\ c.mid \in Int /\ c.strike \in Int /\ c.strike > 0
      /\ c.expiry \in Int /\ c.delta \in Int /\ c.iv \in Int /\ c.delta >= -1
      /\ c.bid > 0 => c.bid <= OptionMid(c)
      /\ c.type = "call" \/ c.type = "put"
      /\ c.side = "long" \/ c.side = "short"
  BY DEF Quoted, None
<1>2. OptionMid(c) \in Int
  BY <1>1 DEF OptionMid, None
<1>3. OptionPremium(c) \in Int
  BY <1>1, <1>2 DEF OptionPremium, Taken
<1> QED
  BY <1>1, <1>2, <1>3

\* The target of a long plan is a number.
LEMMA TargetNumber ==
  ASSUME NEW k, k.price \in Int, NEW c, Quoted(c), NEW move \in Int, NEW days \in Int,
         NEW event \in BOOLEAN
  PROVE  TargetOptionPrice(k, c, move, days, event) \in Int
<1>1. /\ c.delta \in Int /\ c.iv \in Int /\ c.strike \in Int /\ OptionMid(c) \in Int
  BY QuoteParts
<1>2. Delta(c) \in Int /\ Delta(c) * move \in Int
  BY <1>1 DEF Delta
<1>3. ASSUME NEW g \in c.greeks PROVE FullGreeksTarget(c, g, move, days, event) \in Int
  <2>1. g.gamma \in Int /\ g.theta \in Int /\ g.vega \in Int /\ g.reprice \in Int
    BY DEF Quoted
  <2>2. HalfEven(Delta(c) * move, 100) \in Int
    BY <1>2, HalfEvenBounds
  <2>3. (g.gamma * move * move) \div 200000 \in Int
    BY <2>1
  <2>4. Max({1, Min({days, 2})}) \in Int
    <3>1. PICK m \in Int : m = Min({days, 2})
      BY MinOfTwo
    <3>2. Max({1, m}) \in Int
      BY MaxOfTwo
    <3> QED
      BY <3>1, <3>2
  <2>5. g.theta * Max({1, Min({days, 2})}) \in Int
    BY <2>1, <2>4
  <2>6. (IF event THEN (g.vega * c.iv) \div 40000 ELSE 0) \in Int
    BY <1>1, <2>1
  <2> DEFINE taylor == OptionMid(c) + HalfEven(Delta(c) * move, 100)
                       + (g.gamma * move * move) \div 200000
                       + g.theta * Max({1, Min({days, 2})})
                       - (IF event THEN (g.vega * c.iv) \div 40000 ELSE 0)
  <2>7. taylor \in Int
    BY <1>1, <2>2, <2>3, <2>5, <2>6
  <2>8. FullGreeksTarget(c, g, move, days, event)
          = IF g.reprice > 0 THEN Min({taylor, g.reprice}) ELSE taylor
    BY DEF FullGreeksTarget
  <2> HIDE DEF taylor
  <2> QED
    BY <2>1, <2>7, <2>8, MinOfTwo
<1>4. DeltaTarget(c, move, event) \in Int
  <2>1. PICK x \in Int : x = Delta(c) * move * (IF event THEN 75 ELSE 100)
    BY <1>2
  <2>2. HalfEven(x, 10000) \in Int
    BY HalfEvenBounds
  <2>3. DeltaTarget(c, move, event) = OptionMid(c) + HalfEven(x, 10000)
    BY <2>1 DEF DeltaTarget
  <2> QED
    BY <1>1, <2>2, <2>3
<1>5. ASSUME NEW price \in Int PROVE Intrinsic(c, price) \in Int
  <2>1. PICK x \in Int : x = IF c.type = "call" THEN price - c.strike ELSE c.strike - price
    BY <1>1
  <2>2. Max({0, x}) \in Int
    BY MaxOfTwo
  <2>3. Intrinsic(c, price) = Max({0, x})
    BY <2>1 DEF Intrinsic
  <2> QED
    BY <2>2, <2>3
<1>6. IntrinsicTarget(c, k.price, move, event) \in Int
  <2>1. Intrinsic(c, k.price + move) \in Int /\ Intrinsic(c, k.price) \in Int
    BY <1>5
  <2>2. PICK x \in Int : x = OptionMid(c) - Intrinsic(c, k.price)
    BY <1>1, <2>1
  <2>3. PICK y \in Int : y = Max({0, x})
    BY MaxOfTwo
  <2>4. PICK z \in Int : z = y * (IF event THEN 50 ELSE 75)
    OBVIOUS
  <2>5. HalfEven(z, 100) \in Int
    BY HalfEvenBounds
  <2>6. IntrinsicTarget(c, k.price, move, event) = Intrinsic(c, k.price + move) + HalfEven(z, 100)
    BY <2>2, <2>3, <2>4 DEF IntrinsicTarget
  <2> QED
    BY <2>1, <2>5, <2>6
<1> DEFINE x == IF c.delta # None /\ c.iv # None /\ c.greeks # {}
                THEN FullGreeksTarget(c, CHOOSE g \in c.greeks : TRUE, move, days, event)
                ELSE IF c.delta # None THEN DeltaTarget(c, move, event)
                ELSE IntrinsicTarget(c, k.price, move, event)
<1>7. x \in Int
  <2>1. c.greeks # {} => (CHOOSE g \in c.greeks : TRUE) \in c.greeks
    OBVIOUS
  <2> QED
    BY <1>3, <1>4, <1>6, <2>1
<1>8. TargetOptionPrice(k, c, move, days, event) = Max({1, x})
  BY DEF TargetOptionPrice
<1> HIDE DEF x
<1>9. PICK y \in Int : y = x
  BY <1>7
<1>10. Max({1, y}) \in Int
  BY MaxOfTwo
<1> QED
  BY <1>8, <1>9, <1>10

\* A plan for entry brackets it.
Brackets(c, p) ==
  LET entry == OptionPremium(c) IN
  IF c.side = "long" THEN p.stop <= entry /\ entry < p.option
                     ELSE p.option <= entry /\ entry <= p.stop

LEMMA BoughtBrackets ==
  ASSUME NEW k, k.price \in Int, NEW c, Quoted(c), OptionPremium(c) > 0, c.side = "long",
         NEW score, NEW exit, NEW days \in Int, ExpectedMoveFraction(k, c, days) \in Int,
         NEW p \in LongPlanOver(k, c, score, exit, days)
  PROVE  Brackets(c, p) /\ p.exit = exit
<1>1. PICK entry \in Int : entry = OptionPremium(c) /\ entry > 0
  BY QuoteParts
<1>2. PICK fraction \in Int : fraction = ExpectedMoveFraction(k, c, days)
  OBVIOUS
<1>3. ConvictionFraction(k, score) \in Int
  <2>1. PICK full \in Int : full = IF score >= 75 THEN 100 ELSE IF score >= 60 THEN 65 ELSE 40
    OBVIOUS
  <2>2. Min({full, 75}) \in Int
    BY MinOfTwo
  <2> QED
    BY <2>1, <2>2 DEF ConvictionFraction
<1>4. PICK size \in Int :
        size = HalfEven(((k.price * fraction) \div 100) * ConvictionFraction(k, score), 10000)
  <2>1. PICK x \in Int : x = ((k.price * fraction) \div 100) * ConvictionFraction(k, score)
    BY <1>3
  <2>2. HalfEven(x, 10000) \in Int
    BY HalfEvenBounds
  <2> QED
    BY <2>1, <2>2
<1>5. PICK stock \in Int :
        stock = IF c.type = "call" THEN k.price + size ELSE Max({1, k.price - size})
  <2>1. PICK x \in Int : x = k.price - size
    OBVIOUS
  <2>2. Max({1, x}) \in Int
    BY MaxOfTwo
  <2> QED
    BY <2>1, <2>2
<1>6. PICK event \in BOOLEAN : event = EventWithin(k, k.today, c.expiry)
  BY DEF EventWithin
<1>7. PICK target \in Int : target = TargetOptionPrice(k, c, stock - k.price, days, event)
  BY TargetNumber
<1>8. PICK higher \in Int : higher = Max({target, HalfEven(120 * entry, 100)}) /\ higher >= target
  <2>1. PICK h \in Int : h = HalfEven(120 * entry, 100)
    BY HalfEvenBounds
  <2>2. Max({target, h}) \in Int /\ Max({target, h}) >= target
    BY MaxOfTwo
  <2> QED
    BY <2>1, <2>2
<1>9. PICK lower : lower = Max({1, HalfEven(entry, 2)}) /\ lower <= entry
  BY <1>1, Halved
<1>10. LongPlanOver(k, c, score, exit, days) =
         IF fraction <= 0 \/ 100 * target < 108 * entry THEN {}
         ELSE {[stock |-> stock, option |-> higher, stop |-> lower, underlyingStop |-> None,
                exit |-> exit, days |-> days, move |-> fraction]}
  BY <1>1, <1>2, <1>4, <1>5, <1>6, <1>7, <1>8, <1>9 DEF LongPlanOver, LongPlanBy
<1>11. /\ p.option = higher /\ p.stop = lower /\ p.exit = exit
       /\ ~(100 * target < 108 * entry)
  BY <1>10
<1>12. entry < higher
  BY <1>1, <1>8, <1>11
<1> QED
  BY <1>1, <1>9, <1>11, <1>12 DEF Brackets

LEMMA SoldBrackets ==
  ASSUME NEW k, k.price \in Int, NEW c, Quoted(c), OptionPremium(c) > 0, c.side = "short",
         c.bid > 0, NEW p \in ShortPlan(k, c)
  PROVE  Brackets(c, p) /\ p.exit = PlannedExit(k, c.expiry)
<1>1. PICK credit \in Int : credit = OptionPremium(c) /\ credit > 0
  BY QuoteParts
<1>2. PICK mid \in Int : mid = OptionMid(c)
  BY QuoteParts
<1>3. credit <= mid
  <2>1. OptionPremium(c) = c.bid
    BY DEF OptionPremium, Taken
  <2> QED
    BY <1>1, <1>2, <2>1, QuoteParts
<1>4. PICK delta \in Int : delta = (IF c.delta = None THEN 30 ELSE c.delta) /\ delta >= 0
  BY QuoteParts DEF None
<1>5. PICK wall \in Int : wall = HalfEven(102 * c.strike, 100)
  <2>1. PICK x \in Int : x = 102 * c.strike
    BY QuoteParts
  <2>2. HalfEven(x, 100) \in Int
    BY HalfEvenBounds
  <2> QED
    BY <2>1, <2>2
<1>6. PICK away \in Int : away = Max({wall - k.price, 0}) /\ away >= 0
  <2>1. PICK x \in Int : x = wall - k.price
    OBVIOUS
  <2> QED
    BY <2>1, MaxOfTwo
<1>7. PICK loss \in Int : loss = HalfEven(delta * away, 100) /\ loss >= 0
  <2>1. PICK x \in Int : x = delta * away /\ x >= 0
    BY <1>4, <1>6
  <2> QED
    BY <2>1, HalfEvenBounds
<1>8. PICK isCall \in BOOLEAN : isCall = (Strategy(c) = "short_call")
  OBVIOUS
<1>9. PICK lower : lower = Max({1, HalfEven(credit, 2)}) /\ lower <= credit
  BY <1>1, Halved
<1>10. ShortPlan(k, c) =
         {[stock |-> None, option |-> lower, stop |-> IF isCall THEN mid + loss ELSE 3 * credit,
           underlyingStop |-> IF isCall THEN wall ELSE None,
           exit |-> PlannedExit(k, c.expiry),
           days |-> Sessions(k.today, PlannedExit(k, c.expiry)), move |-> None]}
  BY ZenonT(60), <1>1, <1>2, <1>4, <1>5, <1>6, <1>7, <1>8, <1>9 DEF ShortPlan
<1>11. /\ p.option = lower /\ p.stop = (IF isCall THEN mid + loss ELSE 3 * credit)
       /\ p.exit = PlannedExit(k, c.expiry)
  BY <1>10
<1>12. credit <= mid + loss /\ credit <= 3 * credit
  BY <1>1, <1>3, <1>7
<1> QED
  BY <1>1, <1>9, <1>11, <1>12 DEF Brackets

-----------------------------------------------------------------------------
(* What a contract that passed the hard vetoes is.                           *)

LEMMA RealityPasses ==
  ASSUME NEW k, NEW reality, ~RealityVeto(k, reality)
  PROVE  /\ "invalid_exit_session" \notin reality.flags
         /\ "no_actionable_exit_window" \notin reality.flags
BY DEF RealityVeto

ExitOf(k, plan) == IF plan = {} THEN k.today ELSE (CHOOSE p \in plan : TRUE).exit

LEMMA RealityFlags ==
  ASSUME NEW k, NEW c, NEW plan
  PROVE  /\ "invalid_exit_session" \in OptionReality(k, c, plan).flags
              <=> ~IsTradingSession(ExitOf(k, plan))
         /\ "no_actionable_exit_window" \in OptionReality(k, c, plan).flags
              <=> Sessions(k.today, ExitOf(k, plan)) <= 0
BY DEF OptionReality, ExitOf

LEMMA VetoesPassed ==
  ASSUME NEW k, NEW u, NEW c, NEW plan, NEW reality, ~HardVeto(k, u, c, plan, reality)
  PROVE  /\ plan # {} /\ ~RealityVeto(k, reality)
         /\ Permits(u, c.side) /\ ~(EstimateMaxContracts(u, c, k.price) <= 0)
         /\ ~(Taken(c) <= 0)
BY DEF HardVeto, UserVeto, QuoteVeto

\* The plan that was made for a contract.
LEMMA PlanBrackets ==
  ASSUME NEW k, NEW c, Quoted(c), Taken(c) > 0, NEW score,
         k.price \in Int, Reaches(k.today), k.earnings \in Int,
         k.today < c.expiry =>
           ExpectedMoveFraction(k, c, Sessions(k.today, PlannedExit(k, c.expiry))) \in Int,
         NEW p \in ExitPlan(k, c, score)
  PROVE  /\ Brackets(c, p) /\ p.exit = PlannedExit(k, c.expiry)
         /\ p.exit \in Int /\ p.exit < c.expiry
<1>1. /\ ~(OptionPremium(c) <= 0 \/ c.expiry <= k.today)
      /\ p \in (IF c.side = "short" THEN ShortPlan(k, c) ELSE LongPlan(k, c, score))
  BY DEF ExitPlan
<1>2. PICK today \in Int : today = k.today
  BY DEF Reaches
<1>3. OptionPremium(c) > 0 /\ c.expiry \in Int /\ today < c.expiry
  BY <1>1, <1>2, QuoteParts
<1>4. PICK exit \in Int : exit = PlannedExit(k, c.expiry) /\ exit < c.expiry
  BY <1>2, <1>3, ExitBeforeExpiry
<1>5. CASE c.side = "short"
  <2>1. c.bid > 0
    BY <1>5 DEF Taken
  <2>2. p \in ShortPlan(k, c)
    BY <1>1, <1>5
  <2>3. Brackets(c, p) /\ p.exit = PlannedExit(k, c.expiry)
    BY <1>3, <1>5, <2>1, <2>2, SoldBrackets
  <2> QED
    BY <1>4, <2>3
<1>6. CASE c.side = "long"
  <2>1. PICK days \in Int : days = Sessions(k.today, exit)
    <3>1. Sessions(today, exit) \in Nat
      BY SessionsCounted
    <3> QED
      BY <1>2, <3>1
  <2>2. ExpectedMoveFraction(k, c, days) \in Int
    BY <1>2, <1>3, <1>4, <2>1
  <2>3. p \in LongPlanOver(k, c, score, exit, days)
    BY <1>1, <1>4, <1>6, <2>1 DEF LongPlan, LongPlanUntil
  <2>4. Brackets(c, p) /\ p.exit = exit
    BY <1>3, <1>6, <2>2, <2>3, BoughtBrackets
  <2> QED
    BY <1>4, <2>4
<1> QED
  BY <1>5, <1>6, QuoteParts

\* What a viable contract of an analysis is: its user can pay it, and its plan
\* can be followed.
Affordable(u, c, price) ==
  /\ Quoted(c) /\ Taken(c) > 0 /\ Permits(u, c.side)
  /\ ~(EstimateMaxContracts(u, c, price) <= 0)

LEMMA ViableRow ==
  ASSUME NEW k, NEW u, Numbers(k, u), Reaches(k.today), NEW r, ScoredRow(k, u, r), Viable(r)
  PROVE  Followable(k.today, r) /\ Affordable(u, r.contract, k.price)
<1>1. PICK i \in Range(ConsideredOn(k, u)) : r = ScoreAt(k, u, i)
  BY DEF ScoredRow
<1>2. PICK c : c = k.chain[i]
  OBVIOUS
<1>3. NumbersAt(k, u, i)
  BY Zenon DEF Numbers
<1>4. /\ Quoted(c)
      /\ k.today < c.expiry =>
           ExpectedMoveFraction(k, c, Sessions(k.today, PlannedExit(k, c.expiry))) \in Int
  BY <1>2, <1>3, PlaceQuote
<1>5. k.price \in Int /\ k.earnings \in Int
  BY Zenon DEF Numbers
<1>6. PICK score : score = DirectionOf(k).score
  OBVIOUS
<1>7. PICK plan : plan = ExitPlan(k, c, score)
  OBVIOUS
<1>8. /\ r.contract = c /\ r.plan = plan
      /\ r.vetoed = HardVeto(k, u, c, plan, OptionReality(k, c, plan))
  BY <1>1, <1>2, <1>6, <1>7 DEF ScoreAt, ScoreContract, ScoreWithPlan, ScorePlanned
<1>9. ~HardVeto(k, u, c, plan, OptionReality(k, c, plan))
  BY <1>8, Zenon DEF Viable
<1>10. PICK reality : reality = OptionReality(k, c, plan)
  OBVIOUS
<1>11. /\ plan # {} /\ ~RealityVeto(k, reality)
       /\ Permits(u, c.side) /\ ~(EstimateMaxContracts(u, c, k.price) <= 0)
       /\ ~(Taken(c) <= 0)
  BY <1>9, <1>10, VetoesPassed
<1>12. Taken(c) > 0
  BY <1>4, <1>11, QuoteParts DEF Taken
<1>13. PICK p \in plan : p = CHOOSE q \in plan : TRUE
  BY <1>11
<1>14. /\ Brackets(c, p) /\ p.exit \in Int /\ p.exit < c.expiry
  BY <1>4, <1>5, <1>7, <1>12, PlanBrackets
<1>15. ExitOf(k, plan) = p.exit
  BY <1>13 DEF ExitOf
<1>16. /\ "invalid_exit_session" \notin reality.flags
       /\ "no_actionable_exit_window" \notin reality.flags
  BY <1>11, RealityPasses
<1>17. IsTradingSession(p.exit) /\ ~(Sessions(k.today, p.exit) <= 0)
  BY <1>10, <1>15, <1>16, RealityFlags
<1>18. k.today < p.exit
  <2>1. PICK today \in Int : today = k.today
    BY DEF Reaches
  <2>2. PICK exit \in Int : exit = p.exit
    BY <1>14
  <2>3. Sessions(today, exit) \in Nat /\ (Sessions(today, exit) > 0 => today < exit)
    BY SessionsCounted
  <2> QED
    BY <1>17, <2>1, <2>2, <2>3
<1>19. Followable(k.today, r)
  BY <1>8, <1>14, <1>17, <1>18 DEF Followable, Brackets
<1>20. Affordable(u, r.contract, k.price)
  BY <1>4, <1>8, <1>11, <1>12 DEF Affordable
<1> QED
  BY <1>19, <1>20

-----------------------------------------------------------------------------
(* How many contracts a card is for.                                         *)

LEMMA RoundedDown ==
  ASSUME NEW a \in Int, NEW b \in Int, b > 0, NEW q \in Int, q <= a \div b
  PROVE  b * q <= a
<1>1. PICK d \in Int : d = a \div b
  OBVIOUS
<1>2. b * d <= a
  BY <1>1
<1>3. b * q <= b * d
  BY <1>1
<1> QED
  BY <1>2, <1>3

\* What the sizing reads of a contract.
Payable(c) ==
  /\ c.side = "long" \/ c.side = "short"
  /\ c.type = "call" \/ c.type = "put"
  /\ c.ask \in Int /\ c.strike \in Int /\ c.strike > 0 /\ OptionPremium(c) \in Int

\* What the sizing reads of the settings.
Limits(u) ==
  /\ u.account \in Int /\ u.maxContracts \in Int /\ u.maxPremium \in Int
  /\ RiskPercent(u) \in Int /\ MaxShortNotional(u) \in Int

LEMMA SettingsLimit ==
  ASSUME NEW u \in Settings
  PROVE  /\ Limits(u) /\ Limits([u EXCEPT !.maxPremium = None])
         /\ RiskPercent([u EXCEPT !.maxPremium = None]) = RiskPercent(u)
         /\ MaxShortNotional([u EXCEPT !.maxPremium = None]) = MaxShortNotional(u)
         /\ [u EXCEPT !.maxPremium = None].maxContracts = u.maxContracts
         /\ [u EXCEPT !.maxPremium = None].account = u.account
         /\ [u EXCEPT !.maxPremium = None].permission = u.permission
<1>1. PICK v : v = [u EXCEPT !.maxPremium = None]
  OBVIOUS
<1>2. /\ v.account = u.account /\ v.risk = u.risk /\ v.custom = u.custom
      /\ v.maxContracts = u.maxContracts /\ v.permission = u.permission /\ v.maxPremium = -1
  BY <1>1 DEF Settings, None
<1>3. /\ u.account \in Int /\ u.custom \in Int /\ u.maxContracts \in Int /\ u.maxPremium \in Int
      /\ u.risk = "Conservative" \/ u.risk = "Balanced" \/ u.risk = "Aggressive"
  BY DEF Settings
<1>4. RiskPercent(u) \in Int /\ RiskPercent(v) = RiskPercent(u)
  BY <1>2, <1>3 DEF RiskPercent
<1>5. MaxShortNotional(u) \in Int /\ MaxShortNotional(v) = MaxShortNotional(u)
  BY <1>2, <1>3 DEF MaxShortNotional
<1>6. Limits(u) /\ Limits(v)
  BY <1>2, <1>3, <1>4, <1>5 DEF Limits
<1> QED
  BY <1>1, <1>2, <1>4, <1>5, <1>6

LEMMA MarginPositive ==
  ASSUME NEW c, Payable(c), NEW price \in Int, UncoveredCallMargin(c, price) # None
  PROVE  UncoveredCallMargin(c, price) \in Int /\ UncoveredCallMargin(c, price) > 0
<1>1. PICK premium \in Int : premium = OptionPremium(c)
  BY DEF Payable
<1>2. PICK strike \in Int : strike = c.strike
  BY DEF Payable
<1>3. price > 0 /\ premium > 0
  BY <1>1 DEF UncoveredCallMargin
<1>4. PICK otm \in Int : otm = Max({strike - price, 0})
  <2>1. PICK x \in Int : x = strike - price
    OBVIOUS
  <2> QED
    BY <2>1, MaxOfTwo
<1>5. PICK x \in Int : x = 10 * premium + 2 * price - 10 * otm
  OBVIOUS
<1>6. PICK y \in Int : y = 10 * premium + price
  OBVIOUS
<1>7. Max({x, y}) = IF x >= y THEN x ELSE y
  BY MaxOfTwo
<1>8. UncoveredCallMargin(c, price) = Max({x, y})
  BY <1>1, <1>2, <1>3, <1>4, <1>5, <1>6 DEF UncoveredCallMargin
<1> QED
  BY <1>3, <1>6, <1>7, <1>8

\* The quantity of a room: a number, at most the room and the user's maximum.
LEMMA QuantityBounds ==
  ASSUME NEW u, Limits(u), NEW room \in Int
  PROVE  LET q == BoundedQuantity(u, room) IN
         q \in Nat /\ (q > 0 => q <= room /\ q <= u.maxContracts)
<1>1. PICK most \in Int : most = u.maxContracts
  BY DEF Limits
<1>2. Min({room, most}) = IF room <= most THEN room ELSE most
  BY MinOfTwo
<1>3. BoundedQuantity(u, room) = IF room <= 0 \/ most <= 0 THEN 0 ELSE Min({room, most})
  BY <1>1 DEF BoundedQuantity
<1> QED
  BY <1>1, <1>2, <1>3

LEMMA RoomKinds ==
  ASSUME NEW u, Limits(u), NEW c, Payable(c), NEW price \in Int
  PROVE  /\ c.ask > 0 => LongRoom(u, c.ask) \in Int
         /\ \A q \in Int : c.ask > 0 /\ q <= LongRoom(u, c.ask) =>
              10000 * c.ask * q <= u.account * RiskPercent(u)
         /\ c.side = "short" /\ ~(Strategy(c) = "short_call" /\ UncoveredCallMargin(c, price) = None)
              => ShortRoom(u, c, price) \in Int
         /\ \A q \in Int : Strategy(c) = "short_put" /\ q <= ShortRoom(u, c, price) =>
              100 * c.strike * q <= MaxShortNotional(u)
<1>1. PICK ask \in Int : ask = c.ask
  BY DEF Payable
<1>2. PICK strike \in Int : strike = c.strike /\ strike > 0
  BY DEF Payable
<1>3. PICK money \in Int : money = u.account * RiskPercent(u)
  BY DEF Limits
<1>4. PICK notional \in Int : notional = MaxShortNotional(u)
  BY DEF Limits
<1>5. LongRoom(u, c.ask) = money \div (ask * 10000)
  BY <1>1, <1>3 DEF LongRoom
<1>6. ASSUME ask > 0 PROVE LongRoom(u, c.ask) \in Int
  BY <1>5, <1>6
<1>7. ASSUME NEW q \in Int, ask > 0, q <= LongRoom(u, c.ask) PROVE 10000 * ask * q <= money
  <2>1. PICK b \in Int : b = ask * 10000 /\ b > 0
    BY <1>7
  <2>2. b * q <= money
    BY <1>5, <1>7, <2>1, RoundedDown
  <2>3. b * q = 10000 * ask * q
    BY <2>1
  <2> QED
    BY <2>2, <2>3
<1>8. ASSUME Strategy(c) = "short_put"
      PROVE  ShortRoom(u, c, price) = notional \div (100 * strike)
  BY <1>2, <1>4, <1>8 DEF ShortRoom
<1>9. ASSUME c.side = "short",
             ~(Strategy(c) = "short_call" /\ UncoveredCallMargin(c, price) = None)
      PROVE  ShortRoom(u, c, price) \in Int
  <2>1. Strategy(c) = "short_put" \/ Strategy(c) = "short_call"
    BY <1>9 DEF Payable, Strategy
  <2>2. CASE Strategy(c) = "short_put"
    BY <1>2, <1>8, <2>2
  <2>3. CASE Strategy(c) = "short_call"
    <3>1. PICK margin \in Int : margin = UncoveredCallMargin(c, price) /\ margin > 0
      BY <1>9, <2>3, MarginPositive
    <3>2. ShortRoom(u, c, price) = notional \div (10 * margin)
      BY <1>4, <2>3, <3>1 DEF ShortRoom
    <3> QED
      BY <3>1, <3>2
  <2> QED
    BY <2>1, <2>2, <2>3
<1>10. ASSUME NEW q \in Int, Strategy(c) = "short_put", q <= ShortRoom(u, c, price)
       PROVE  100 * strike * q <= notional
  <2>1. PICK b \in Int : b = 100 * strike /\ b > 0
    BY <1>2
  <2>2. b * q <= notional
    BY <1>8, <1>10, <2>1, RoundedDown
  <2> QED
    BY <2>1, <2>2
<1> QED
  BY <1>1, <1>2, <1>3, <1>4, <1>6, <1>7, <1>9, <1>10

\* A number of contracts q that is within the limits.
Fits(u, c, q) ==
  q > 0 =>
    /\ Permits(u, c.side) /\ q <= u.maxContracts
    /\ c.side = "long" => 10000 * c.ask * q <= u.account * RiskPercent(u)
    /\ Strategy(c) = "short_put" => 100 * c.strike * q <= MaxShortNotional(u)

LEMMA SizeFits ==
  ASSUME NEW u, Limits(u), NEW c, Payable(c), NEW price \in Int, NEW q \in Size(u, c, price)
  PROVE  q \in Nat /\ Fits(u, c, q)
<1>1. /\ Permits(u, c.side) /\ ~(c.side = "long" /\ c.ask <= 0)
      /\ ~(Strategy(c) = "short_call" /\ UncoveredCallMargin(c, price) = None)
      /\ q = IF c.side = "short" THEN BoundedQuantity(u, ShortRoom(u, c, price))
             ELSE IF u.maxPremium # None /\ c.ask > u.maxPremium THEN 0
             ELSE BoundedQuantity(u, LongRoom(u, c.ask))
  BY DEF Size
<1>2. CASE c.side = "short"
  <2>1. PICK room \in Int : room = ShortRoom(u, c, price)
    BY <1>1, <1>2, RoomKinds
  <2>2. q \in Nat /\ (q > 0 => q <= room /\ q <= u.maxContracts)
    BY <1>1, <1>2, <2>1, QuantityBounds
  <2>3. Strategy(c) = "short_put" /\ q > 0 => 100 * c.strike * q <= MaxShortNotional(u)
    BY <2>1, <2>2, RoomKinds
  <2> QED
    BY <1>1, <1>2, <2>2, <2>3 DEF Fits
<1>3. CASE c.side = "long"
  <2>1. c.ask \in Int /\ c.ask > 0 /\ Strategy(c) # "short_put"
    BY <1>1, <1>3 DEF Payable, Strategy
  <2>2. PICK room \in Int : room = LongRoom(u, c.ask)
    BY <2>1, RoomKinds
  <2>3. q \in Nat /\ (q > 0 => q <= room /\ q <= u.maxContracts)
    BY <1>1, <1>3, <2>2, QuantityBounds
  <2>4. q > 0 => 10000 * c.ask * q <= u.account * RiskPercent(u)
    BY <2>1, <2>2, <2>3, RoomKinds
  <2> QED
    BY <1>1, <2>1, <2>3, <2>4 DEF Fits
<1> QED
  BY <1>2, <1>3 DEF Payable

\* The veto and the sizing agree: what can be afforded has a size, and it is the
\* estimated one.
LEMMA SizedAsEstimated ==
  ASSUME NEW u, Limits(u), NEW c, NEW price \in Int, Affordable(u, c, price)
  PROVE  /\ Payable(c) /\ OptionPremium(c) = Taken(c)
         /\ \A q \in Size(u, c, price) : q > 0
         /\ Size(u, c, price) # {}
         /\ c.side = "long" /\ u.maxPremium # None => c.ask <= u.maxPremium
<1>1. Payable(c)
  BY QuoteParts DEF Affordable, Payable
<1>2. OptionPremium(c) = Taken(c) /\ Taken(c) > 0
  BY DEF Affordable, OptionPremium
<1>3. PICK n : n = EstimateMaxContracts(u, c, price)
  OBVIOUS
<1>4. Permits(u, c.side) /\ ~(n <= 0)
  BY <1>3 DEF Affordable
<1>5. CASE c.side = "long"
  <2>1. OptionPremium(c) = c.ask /\ c.ask > 0 /\ c.side # "short"
    BY <1>2, <1>5 DEF Taken
  <2>2. Strategy(c) # "short_call"
    BY <1>1, <1>5 DEF Strategy, Payable
  <2>3. ~(u.maxPremium # None /\ c.ask > u.maxPremium)
        /\ n = BoundedQuantity(u, LongRoom(u, c.ask))
    BY <1>3, <1>4, <1>5, <2>1 DEF EstimateMaxContracts
  <2>4. Size(u, c, price) = {n}
    BY <1>1, <1>4, <1>5, <2>1, <2>2, <2>3 DEF Size, Payable
  <2>5. n \in Nat /\ c.ask \in Int /\ u.maxPremium \in Int
    BY <1>1, <2>1, <2>3, RoomKinds, QuantityBounds DEF Payable, Limits
  <2> QED
    BY <1>1, <1>2, <1>4, <2>3, <2>4, <2>5
<1>6. CASE c.side = "short"
  <2>1. c.side # "long"
    BY <1>6
  <2>2. /\ ~(Strategy(c) = "short_call" /\ UncoveredCallMargin(c, price) = None)
        /\ n = BoundedQuantity(u, ShortRoom(u, c, price))
    BY <1>3, <1>4, <2>1 DEF EstimateMaxContracts
  <2>3. Size(u, c, price) = {n}
    BY <1>4, <1>6, <2>1, <2>2 DEF Size
  <2>4. n \in Nat
    BY <1>1, <1>6, <2>2, RoomKinds, QuantityBounds
  <2> QED
    BY <1>1, <1>2, <1>4, <2>1, <2>3, <2>4
<1> QED
  BY <1>1, <1>5, <1>6 DEF Payable

\* A stored contract can be sized, and a tap's plan has the entry of the scan's.
LEMMA StoredQuote ==
  ASSUME NEW c, Quoted(c), Taken(c) > 0
  PROVE  /\ Payable(Stored(c)) /\ OptionPremium(Stored(c)) = OptionPremium(c)
         /\ Stored(c).side = c.side /\ Stored(c).expiry = c.expiry
<1>1. PICK d : d = Stored(c)
  OBVIOUS
<1>2. "bid" \in DOMAIN c /\ "ask" \in DOMAIN c /\ "mid" \in DOMAIN c
  BY Zenon DEF Quoted
<1>3. /\ d.bid = Nz(c.bid) /\ d.ask = Nz(c.ask) /\ d.side = c.side /\ d.type = c.type
      /\ d.strike = c.strike /\ d.expiry = c.expiry
  BY <1>1, <1>2 DEF Stored
<1>4. Nz(c.bid) = (IF c.bid >= 0 THEN c.bid ELSE 0) /\ Nz(c.ask) = (IF c.ask >= 0 THEN c.ask ELSE 0)
  <2>1. PICK b \in Int : b = c.bid
    BY QuoteParts
  <2>2. PICK a \in Int : a = c.ask
    BY QuoteParts
  <2>3. Max({b, 0}) = (IF b >= 0 THEN b ELSE 0) /\ Max({a, 0}) = (IF a >= 0 THEN a ELSE 0)
    BY MaxOfTwo
  <2> QED
    BY <2>1, <2>2, <2>3 DEF Nz
<1>5. Taken(d) = Taken(c)
  BY <1>3, <1>4, QuoteParts DEF Taken
<1>6. OptionPremium(d) = OptionPremium(c)
  BY <1>5 DEF OptionPremium
<1>7. d.ask \in Int
  BY <1>3, <1>4, QuoteParts
<1> QED
  BY <1>1, <1>3, <1>6, <1>7, QuoteParts DEF Payable

-----------------------------------------------------------------------------
(* What the evaluations of a candidate are, in the scan and in a tap.        *)

Scanned(c, u, price, e) ==
  /\ Sound(e)
  /\ \A n \in 1..Len(e.ranked) : Viable(e.ranked[n]) =>
       Followable(Facts[c].today, e.ranked[n]) /\ Affordable(u, e.ranked[n].contract, price)
Tapped(c, e) ==
  /\ Sound(e)
  /\ \A n \in 1..Len(e.ranked) : Viable(e.ranked[n]) =>
       Followable(Facts[c].today, e.ranked[n]) /\ Payable(e.ranked[n].contract)

LEMMA RowShape ==
  ASSUME NEW k, NEW u, NEW r, ScoredRow(k, u, r)
  PROVE  RowFields(r)
<1>1. PICK i : r = ScoreAt(k, u, i)
  BY DEF ScoredRow
<1>2. DOMAIN r = {"contract", "plan", "flags", "dte", "vetoed", "liquidity", "score"}
  BY <1>1 DEF ScoreAt, ScoreContract, ScoreWithPlan, ScorePlanned
<1> QED
  BY <1>2, Zenon DEF RowFields

LEMMA AnalysisScanned ==
  ASSUME NEW c \in Ticker, NEW k, NEW u, Numbers(k, u), k.today = Facts[c].today
  PROVE  Scanned(c, u, k.price, ScoreCandidate(k, u))
<1>1. PICK e : e = ScoreCandidate(k, u)
  OBVIOUS
<1>2. Sound(e) /\ \A n \in 1..Len(e.ranked) : ScoredRow(k, u, e.ranked[n])
  BY <1>1, EvaluatedSound
<1>3. Reaches(k.today)
  <2>1. k.today \in Int
    BY Zenon DEF Numbers
  <2>2. \E d \in TradingDay : d <= Facts[c].today - 5
    BY FactsAssumption
  <2> QED
    BY <2>1, <2>2 DEF Reaches
<1>4. ASSUME NEW n \in 1..Len(e.ranked), Viable(e.ranked[n])
      PROVE  Followable(Facts[c].today, e.ranked[n]) /\ Affordable(u, e.ranked[n].contract, k.price)
  BY <1>2, <1>3, <1>4, ViableRow
<1> QED
  BY <1>1, <1>2, <1>4 DEF Scanned

LEMMA AnalysisShape ==
  ASSUME NEW k, NEW u, Numbers(k, u)
  PROVE  LET e == ScoreCandidate(k, u) IN
         EvalFields(e) /\ \A n \in 1..Len(e.ranked) : RowFields(e.ranked[n])
<1>1. PICK e : e = ScoreCandidate(k, u)
  OBVIOUS
<1>2. /\ \A n \in 1..Len(e.ranked) : ScoredRow(k, u, e.ranked[n])
      /\ DOMAIN e = {"direction", "confidence", "blocked", "ranked", "pick", "final", "action"}
  BY <1>1, EvaluatedSound
<1>3. EvalFields(e)
  BY <1>2, Zenon DEF EvalFields
<1>4. \A n \in 1..Len(e.ranked) : RowFields(e.ranked[n])
  BY <1>2, RowShape
<1> QED
  BY <1>1, <1>3, <1>4

LEMMA StoredFollowable ==
  ASSUME NEW today, NEW r, RowFields(r), Followable(today, r), Quoted(r.contract),
         Taken(r.contract) > 0
  PROVE  Followable(today, StoredRow(r)) /\ Payable(StoredRow(r).contract)
<1>1. PICK q : q = StoredRow(r)
  OBVIOUS
<1>2. q.contract = Stored(r.contract) /\ q.plan = r.plan
  BY <1>1, StoredFields
<1>3. /\ Payable(q.contract) /\ OptionPremium(q.contract) = OptionPremium(r.contract)
      /\ q.contract.side = r.contract.side /\ q.contract.expiry = r.contract.expiry
  BY <1>2, StoredQuote
<1>4. Followable(today, q)
  BY <1>2, <1>3 DEF Followable
<1> QED
  BY <1>1, <1>3, <1>4

LEMMA ScannedTapped ==
  ASSUME NEW c, NEW u, NEW price, NEW e, Scanned(c, u, price, e), EvalFields(e),
         \A n \in 1..Len(e.ranked) : RowFields(e.ranked[n])
  PROVE  Tapped(c, StoredEvaluation(e))
<1>1. Sound(e)
  BY DEF Scanned
<1>2. PICK f : f = StoredEvaluation(e)
  OBVIOUS
<1>3. PICK t : t = StoredRanked(e)
  OBVIOUS
<1>4. Sound(f) /\ f.ranked = t /\ Restored(t, e)
  BY <1>1, <1>2, <1>3, StoredSound
<1>5. ASSUME NEW n \in 1..Len(t), Viable(t[n])
      PROVE  Followable(Facts[c].today, t[n]) /\ Payable(t[n].contract)
  <2>1. PICK m \in 1..Len(e.ranked) : t[n] = StoredRow(e.ranked[m])
    BY <1>4 DEF Restored
  <2>2. PICK r : r = e.ranked[m]
    OBVIOUS
  <2>3. RowFields(r) /\ Viable(r)
    BY <1>5, <2>1, <2>2, StoredFields
  <2>4. Followable(Facts[c].today, r) /\ Quoted(r.contract) /\ Taken(r.contract) > 0
    BY <2>2, <2>3 DEF Scanned, Affordable
  <2> QED
    BY <2>1, <2>2, <2>3, <2>4, StoredFollowable
<1> QED
  BY <1>2, <1>4, <1>5 DEF Tapped

LEMMA EvaluationKinds ==
  ASSUME NEW c \in Ticker, NEW o \in Outcome, NEW s \in DOMAIN Profile
  PROVE  /\ Underlying(c, o, Profile[s]) \in Int
         /\ Scanned(c, Profile[s], Underlying(c, o, Profile[s]), Evaluations["scan"][c][o][s])
         /\ Tapped(c, Evaluations["tap"][c][o][s])
         /\ Evaluated[c][o][s] = Evaluations["scan"][c][o][s]
<1>1. PICK u : u = Profile[s]
  OBVIOUS
<1>2. PICK k : k = Analysis(c, o, u)
  OBVIOUS
<1>3. PICK e : e = ScoreCandidate(k, u)
  OBVIOUS
<1>4. Numbers(k, u)
  BY <1>1, <1>2, AnalysisAssumption
<1>5. k.today = Facts[c].today
  BY <1>2, AnalysisParts
<1>6. Scanned(c, u, k.price, e)
  BY <1>3, <1>4, <1>5, AnalysisScanned
<1>7. Tapped(c, StoredEvaluation(e))
  BY <1>3, <1>4, <1>6, AnalysisShape, ScannedTapped
<1>8. Evaluated[c][o][s] = e
  BY <1>1, <1>2, <1>3 DEF Evaluated
<1>9. Evaluations["scan"] = Evaluated
  BY DEF Evaluations, WithRebuilt
<1>10. Evaluations["tap"][c][o][s] = StoredEvaluation(Evaluated[c][o][s])
  BY DEF Evaluations, WithRebuilt
<1>11. k.price \in Int /\ Underlying(c, o, u) = k.price
  BY <1>2, <1>4, Zenon DEF Underlying, Numbers
<1> QED
  BY <1>1, <1>6, <1>7, <1>8, <1>9, <1>10, <1>11

-----------------------------------------------------------------------------
(***************************************************************************)
(* The inductive invariant.  Each record by itself (ScanOK, TapOK); the    *)
(* order of events (InOrder): the taps come after the scan; every card     *)
(* that exists is backed by its evaluation (Backing); and, as long as taps *)
(* are served one at a time, the cards are of different tickers and a tap  *)
(* knows them all (Apart).                                                 *)
(***************************************************************************)
ScanPhase == {"idle", "ranking", "refreshing", "deciding", "sending", "sent", "done", "failed"}
TapPhase == {"idle", "choosing", "deciding", "sending", "sent", "done", "failed"}
Holding(phase) == phase = "sending" \/ phase = "sent"
Begun(phase) == phase = "refreshing" \/ phase = "deciding" \/ Holding(phase) \/ phase = "done"
AtMostOne(S) == \A c, d \in S : c = d
Watches(watch, finalists) ==
  watch \in Seq(Range(finalists)) /\ IsInjective(watch) /\ Len(watch) <= 3

ScanShape(r) == DOMAIN r = {"phase", "user", "outcome", "finalists", "card", "watch"}
TapShape(r) == DOMAIN r = {"phase", "user", "order", "shown", "ticker", "card"}

ScanOK(r) ==
  /\ ScanShape(r)
  /\ r.phase \in ScanPhase /\ r.user \in DOMAIN Profile \cup {"none"}
  /\ r.phase = "ranking" \/ Begun(r.phase) => r.user \in DOMAIN Profile
  /\ Begun(r.phase) => /\ r.outcome \in [Ticker -> Outcome]
                       /\ r.finalists \in Seq(Ticker) /\ IsInjective(r.finalists)
  /\ r.phase = "refreshing" => r.outcome \in [Ticker -> FirstOutcome]
  /\ r.card # {} => Holding(r.phase)
  /\ AtMostOne(r.card)
  /\ ~Holding(r.phase) => r.watch = << >>
  /\ Watches(r.watch, r.finalists)

TapOK(r) ==
  /\ TapShape(r)
  /\ r.phase \in TapPhase /\ r.user \in DOMAIN Profile \cup {"none"}
  /\ r.phase = "choosing" \/ r.phase = "deciding" => r.user \in DOMAIN Profile
  /\ r.order \in Seq(Ticker) /\ r.shown \subseteq Ticker
  /\ r.phase = "deciding" => r.ticker \in Ticker \ r.shown
  /\ r.card # {} => Holding(r.phase)
  /\ AtMostOne(r.card)
  /\ \A c \in r.card : c.ticker \notin r.shown

Question == [attempt : 0..MaxAttempts - 1, corrective : BOOLEAN]
Counters ==
  /\ settings \in DOMAIN Profile /\ edits \in 0..MaxEdits /\ crashes \in 0..MaxCrashes
  /\ call \in [Caller -> Question]
  /\ overlapped \in BOOLEAN /\ lost \in BOOLEAN

Taps == tap = [t \in Tap |-> tap[t]] /\ \A t \in Tap : TapOK(tap[t])

InOrder ==
  /\ cards # {} => scan.phase = "done"
  /\ \A t \in Tap : tap[t].phase # "idle" => scan.phase = "done"
  /\ scan.phase \notin {"sent", "done", "failed"} => chat = {}

\* A card rests on the evaluation e.
BackedBy(card, e) ==
  /\ card.by \in Caller /\ card.ticker \in Ticker /\ card.user \in DOMAIN Profile
  /\ card.quantity \in Nat /\ card.confidence \in 0..100
  /\ Warrants(e, card.pick, card.action)
  /\ card.by = "scan" /\ card.engine = "llm" => e.ranked[card.pick].flags = {}
  /\ WithinLimits(card, e.ranked[card.pick].contract, Profile[card.user])
  /\ Followable(Facts[card.ticker].today, e.ranked[card.pick])
Backed(card) == BackedBy(card, EvaluationOf(card))
Backing ==
  /\ \A c \in chat : Backed(c)
  /\ \A c \in cards : Backed(c)
  /\ \A c \in scan.card : Backed(c)
  /\ \A t \in Tap : \A c \in tap[t].card : Backed(c)

Apart ==
  ~overlapped =>
    /\ \A s, t \in Tap : Served(s) /\ Served(t) => s = t
    /\ \A t \in Tap : Served(t) => \A c \in cards : c.ticker \in tap[t].shown
    /\ \A c, d \in cards : c.ticker = d.ticker => c = d

\* A card that was received is committed, or is about to be.
ToCommit(c) ==
  \/ c \in cards
  \/ scan.phase = "sent" /\ c \in scan.card
  \/ \E t \in Tap : tap[t].phase = "sent" /\ c \in tap[t].card
Received == ~lost => \A c \in chat : ToCommit(c)

Inv == Counters /\ ScanOK(scan) /\ Taps /\ InOrder /\ Backing /\ Apart /\ Received

-----------------------------------------------------------------------------
(* The views on which a caller decides, and the card it makes.               *)

LEMMA StandingNumber ==
  ASSUME NEW e, Sound(e)
  PROVE  Standing(e) \in Int
<1>1. e.final \in 0..100 /\ e.confidence \in 0..100 /\ e.direction \in 0..100
  BY Zenon DEF Sound, Counted
<1>2. PICK f \in 0..100, c \in 0..100, d \in 0..100 :
        f = e.final /\ c = e.confidence /\ d = e.direction
  BY <1>1
<1>3. PICK a \in Int, b \in Int : a = 1000000 * f /\ b = 1000 * c
  OBVIOUS
<1>4. Standing(e) = a + b + d
  BY <1>2, <1>3 DEF Standing
<1> QED
  BY <1>2, <1>3, <1>4

LEMMA FinalistsSelected ==
  ASSUME NEW tickers \in Seq(Ticker), IsInjective(tickers), NEW evals,
         \A c \in Range(tickers) : Sound(evals[c])
  PROVE  LET f == SelectFinalists(tickers, evals) IN
         /\ f \in Seq(Ticker) /\ IsInjective(f)
         /\ \A n \in 1..Len(f) : f[n] \in Range(tickers)
<1> DEFINE N == Len(tickers)
           key == [i \in DOMAIN tickers |-> Standing(evals[tickers[i]])]
           ranked == Sorted(tickers, key)
           f == SelectFinalists(tickers, evals)
<1>1. N \in Nat /\ DOMAIN tickers = 1..N /\ \A n \in 1..N : tickers[n] \in Range(tickers)
  BY LenProperties DEF Range
<1>2. ASSUME NEW i \in 1..N PROVE key[i] \in Int
  <2>1. PICK e : e = evals[tickers[i]]
    OBVIOUS
  <2>2. Sound(e)
    BY <1>1, <2>1
  <2>4. Standing(e) \in Int
    BY <2>2, StandingNumber
  <2> QED
    BY <1>1, <2>1, <2>4
<1>3. f = SubSeq(ranked, 1, Min({FinalistLimit, Len(ranked)}))
  BY DEF SelectFinalists, Descending
<1> HIDE DEF f, ranked, key
<1>4. ranked \in Seq(Ticker) /\ Len(ranked) = N /\ \E order : Permutes(order, ranked, tickers, key)
  BY <1>2, SortedSequence DEF ranked
<1>5. PICK order : Permutes(order, ranked, tickers, key)
  BY <1>4
<1>6. \A n \in 1..N : order[n] \in 1..N /\ ranked[n] = tickers[order[n]]
  BY <1>5 DEF Permutes
<1>7. IsInjective(ranked)
  <2>1. ASSUME NEW m \in 1..N, NEW n \in 1..N, m < n PROVE ranked[m] # ranked[n]
    <3>1. order[m] # order[n]
      BY <1>5, <2>1 DEF Permutes
    <3> QED
      BY <1>1, <1>6, <3>1 DEF IsInjective
  <2> QED
    BY <1>4, <2>1, Distinct
<1>8. PICK limit \in Nat : limit = FinalistLimit
  BY ScanAssumption
<1>9. /\ f \in Seq(Ticker) /\ IsInjective(f)
      /\ \A n \in 1..Len(f) : n \in 1..N /\ f[n] = ranked[n]
  <2>1. f = SubSeq(ranked, 1, Min({limit, Len(ranked)}))
    BY <1>3, <1>8
  <2>2. LET t == SubSeq(ranked, 1, Min({limit, Len(ranked)})) IN
        /\ t \in Seq(Ticker) /\ Len(t) <= limit /\ Len(t) <= Len(ranked)
        /\ Len(t) = IF limit <= Len(ranked) THEN limit ELSE Len(ranked)
        /\ \A n \in 1..Len(t) : n \in 1..Len(ranked) /\ t[n] = ranked[n]
        /\ IsInjective(ranked) => IsInjective(t)
    BY <1>4, Firsts, Zenon
  <2> QED
    BY <1>4, <1>7, <2>1, <2>2
<1> QED
  BY <1>1, <1>6, <1>9 DEF f

\* The scan's views of a sequence of tickers.
ViewsOf(tickers, evals) ==
  [n \in DOMAIN tickers |-> View(tickers[n], evals[tickers[n]], FALSE)]

LEMMA ViewsViewed ==
  ASSUME NEW tickers \in Seq(Ticker), IsInjective(tickers), NEW evals,
         \A n \in 1..Len(tickers) : Sound(evals[tickers[n]]),
         NEW views, views = ViewsOf(tickers, evals)
  PROVE  /\ Viewed(views) /\ Len(views) = Len(tickers)
         /\ \A n \in 1..Len(views) : /\ views[n].ticker = tickers[n]
                                     /\ views[n].eval = evals[tickers[n]]
                                     /\ ~views[n].stored
<1> DEFINE N == Len(tickers)
<1>1. N \in Nat /\ DOMAIN tickers = 1..N /\ \A n \in 1..N : tickers[n] \in Ticker
  BY LenProperties, ElementOfSeq
<1>2. /\ DOMAIN views = 1..N
      /\ \A n \in 1..N : views[n] = View(tickers[n], evals[tickers[n]], FALSE)
  BY <1>1 DEF ViewsOf
<1>3. views \in Seq(Range(views)) /\ Len(views) = N
  <2>1. views \in [1..N -> Range(views)]
    BY <1>1, <1>2 DEF ViewsOf, Range
  <2> QED
    BY <1>1, <2>1, SeqDef, LenProperties
<1>4. ASSUME NEW n \in 1..N
      PROVE  /\ views[n].ticker = tickers[n] /\ views[n].eval = evals[tickers[n]]
             /\ views[n].stored \in BOOLEAN /\ ~views[n].stored
             /\ views[n].cap \in Int /\ views[n].place \in Int
  <2>1. PICK c \in Ticker : c = tickers[n]
    BY <1>1
  <2>2. Facts[c].cap \in Int /\ Facts[c].place \in Int
    BY FactsAssumption
  <2>3. views[n] = View(c, evals[c], FALSE)
    BY <1>2, <2>1
  <2> QED
    BY <2>1, <2>2, <2>3 DEF View
<1>5. \A m, n \in 1..N : m < n => views[m].ticker # views[n].ticker
  <2>1. \A m, n \in 1..Len(tickers) : m < n => tickers[m] # tickers[n]
    BY Distinct
  <2>2. \A n \in 1..N : views[n].ticker = tickers[n]
    BY <1>4
  <2> QED
    BY <2>1, <2>2
<1>6. Viewed(views)
  <2>1. \A n \in 1..Len(views) : Sound(views[n].eval)
    BY <1>3, <1>4
  <2>2. \A n \in 1..Len(views) : /\ views[n].stored \in BOOLEAN
                                 /\ views[n].cap \in Int /\ views[n].place \in Int
    BY <1>3, <1>4
  <2> QED
    BY <1>3, <1>5, <2>1, <2>2 DEF Viewed
<1> QED
  BY <1>3, <1>4, <1>6

\* What a caller decides on: views of its tickers, as they are evaluated there.
Considers(x, views) ==
  /\ Viewed(views)
  /\ \A n \in 1..Len(views) : /\ views[n].ticker \in Ticker
                              /\ views[n].ticker \in TickersOfCall(x)
                              /\ views[n].eval = EvaluationIn(Place(x), views[n].ticker)
                              /\ x = "scan" => ~views[n].stored

LEMMA EvaluatedInPlace ==
  ASSUME ScanOK(scan), Begun(scan.phase), NEW c \in Ticker
  PROVE  /\ scan.outcome[c] \in Outcome /\ scan.user \in DOMAIN Profile
         /\ Underlying(c, scan.outcome[c], Profile[scan.user]) \in Int
         /\ Scanned(c, Profile[scan.user], Underlying(c, scan.outcome[c], Profile[scan.user]),
                    EvaluationIn("scan", c))
         /\ Tapped(c, EvaluationIn("tap", c))
         /\ Sound(EvaluationIn("scan", c)) /\ Sound(EvaluationIn("tap", c))
<1>1. scan.outcome[c] \in Outcome /\ scan.user \in DOMAIN Profile
  BY DEF ScanOK
<1>2. PICK o \in Outcome : o = scan.outcome[c]
  BY <1>1
<1>3. PICK s \in DOMAIN Profile : s = scan.user
  BY <1>1
<1>4. /\ EvaluationIn("scan", c) = Evaluations["scan"][c][o][s]
      /\ EvaluationIn("tap", c) = Evaluations["tap"][c][o][s]
  BY <1>2, <1>3 DEF EvaluationIn
<1>5. /\ Underlying(c, o, Profile[s]) \in Int
      /\ Scanned(c, Profile[s], Underlying(c, o, Profile[s]), Evaluations["scan"][c][o][s])
      /\ Tapped(c, Evaluations["tap"][c][o][s])
  BY EvaluationKinds
<1>6. Sound(EvaluationIn("scan", c)) /\ Sound(EvaluationIn("tap", c))
  BY <1>4, <1>5 DEF Scanned, Tapped
<1> QED
  BY <1>1, <1>2, <1>3, <1>4, <1>5, <1>6

LEMMA ScanConsiders ==
  ASSUME ScanOK(scan), scan.phase = "deciding"
  PROVE  Considers("scan", Views("scan"))
<1>1. Begun(scan.phase)
  BY DEF Begun
<1>2. scan.finalists \in Seq(Ticker) /\ IsInjective(scan.finalists)
  BY <1>1 DEF ScanOK
<1>3. PICK evals : evals = [c \in TickersOfCall("scan") |-> EvaluationIn("scan", c)]
  OBVIOUS
<1>4. TickersOfCall("scan") = Range(scan.finalists) /\ TickersOfCall("scan") \subseteq Ticker
  <2>1. Len(scan.finalists) \in Nat /\ DOMAIN scan.finalists = 1..Len(scan.finalists)
        /\ \A n \in 1..Len(scan.finalists) : scan.finalists[n] \in Ticker
    BY <1>2, LenProperties, ElementOfSeq
  <2> QED
    BY <2>1 DEF TickersOfCall, Range
<1>5. \A c \in Range(scan.finalists) : evals[c] = EvaluationIn("scan", c)
  BY <1>3, <1>4
<1>6. \A c \in Range(scan.finalists) : Sound(evals[c])
  BY <1>1, <1>4, <1>5, EvaluatedInPlace
<1>7. PICK ranked : ranked = SelectFinalists(scan.finalists, evals)
  OBVIOUS
<1>8. /\ ranked \in Seq(Ticker) /\ IsInjective(ranked)
      /\ \A n \in 1..Len(ranked) : ranked[n] \in Range(scan.finalists)
  BY <1>2, <1>6, <1>7, FinalistsSelected
<1>9. Views("scan") = ViewsOf(ranked, evals)
  BY <1>3, <1>7 DEF Views, ViewsFrom, ViewsOf, Place
<1>10. PICK views : views = ViewsOf(ranked, evals)
  OBVIOUS
<1>11. /\ Viewed(views) /\ Len(views) = Len(ranked)
       /\ \A n \in 1..Len(views) : /\ views[n].ticker = ranked[n]
                                   /\ views[n].eval = evals[ranked[n]]
                                   /\ ~views[n].stored
  <2>1. \A n \in 1..Len(ranked) : Sound(evals[ranked[n]])
    BY <1>6, <1>8
  <2> QED
    BY <1>8, <1>10, <2>1, ViewsViewed
<1>12. Place("scan") = "scan"
  BY DEF Place
<1>13. ASSUME NEW n \in 1..Len(views)
       PROVE  /\ views[n].ticker \in Ticker
              /\ views[n].ticker \in TickersOfCall("scan")
              /\ views[n].eval = EvaluationIn(Place("scan"), views[n].ticker)
              /\ ~views[n].stored
  BY <1>4, <1>5, <1>8, <1>11, <1>12
<1> QED
  BY <1>9, <1>10, <1>11, <1>13 DEF Considers

LEMMA TapConsiders ==
  ASSUME ScanOK(scan), Begun(scan.phase), NEW t \in Tap, TapOK(tap[t]), tap[t].phase = "deciding"
  PROVE  Considers(t, Views(t))
<1>1. t # "scan"
  BY ScanAssumption
<1>2. PICK c \in Ticker : c = tap[t].ticker
  BY DEF TapOK
<1>3. PICK evals : evals = [d \in TickersOfCall(t) |-> EvaluationIn("tap", d)]
  OBVIOUS
<1>4. TickersOfCall(t) = {c} /\ Place(t) = "tap"
  BY <1>1, <1>2 DEF TickersOfCall, Place
<1>5. evals[c] = EvaluationIn("tap", c)
  BY <1>3, <1>4
<1>6. Views(t) = <<View(c, evals[c], TRUE)>>
  BY <1>1, <1>2, <1>3, <1>4 DEF Views, ViewsFrom
<1>7. PICK v : v = View(c, evals[c], TRUE)
  OBVIOUS
<1>8. /\ v.ticker = c /\ v.eval = EvaluationIn("tap", c) /\ v.stored = TRUE
      /\ v.cap \in Int /\ v.place \in Int
  BY <1>5, <1>7, FactsAssumption DEF View
<1>9. PICK views : views = <<v>>
  OBVIOUS
<1>10. Len(views) = 1 /\ views[1] = v /\ DOMAIN views = 1..1
  BY <1>9
<1>11. views \in Seq(Range(views))
  BY <1>9, <1>10 DEF Range
<1>12. Sound(v.eval)
  BY <1>8, EvaluatedInPlace
<1>13. \A n \in 1..Len(views) : n = 1 /\ views[n] = v
  BY <1>10
<1>14. Viewed(views)
  <2>1. \A m, n \in 1..Len(views) : ~(m < n)
    BY <1>13
  <2> QED
    BY <1>8, <1>11, <1>12, <1>13, <2>1 DEF Viewed
<1>15. Considers(t, views)
  BY <1>1, <1>2, <1>4, <1>8, <1>13, <1>14 DEF Considers
<1> QED
  BY <1>6, <1>7, <1>9, <1>15

-----------------------------------------------------------------------------
(* The card that is made for a decision.                                     *)

\* What the caller x may make: its own card, of a ticker that it asks about.
MadeBy(x, card) == card.by = x /\ card.ticker \in TickersOfCall(x) /\ Backed(card)

LEMMA CardSized ==
  ASSUME NEW u, Limits(u), NEW k, Payable(k), NEW price \in Int, NEW action, NEW q,
         q = IF action = "watchlist" \/ Size(u, k, price) = {} THEN 0
             ELSE CHOOSE n \in Size(u, k, price) : TRUE
  PROVE  q \in Nat /\ Fits(u, k, q)
<1>1. CASE action = "watchlist" \/ Size(u, k, price) = {}
  BY <1>1 DEF Fits
<1>2. CASE ~(action = "watchlist" \/ Size(u, k, price) = {})
  <2>1. q \in Size(u, k, price)
    BY <1>2
  <2> QED
    BY <2>1, SizeFits
<1> QED
  BY <1>1, <1>2

LEMMA CardMade ==
  ASSUME ScanOK(scan), Begun(scan.phase), NEW x \in Caller, UserOf(x) \in DOMAIN Profile,
         NEW views, Considers(x, views), NEW d, NEW n \in 1..Len(views),
         Warrants(views[n].eval, d.pick, d.action),
         d.engine = "llm" /\ ~views[n].stored => views[n].eval.ranked[d.pick].flags = {}
  PROVE  MadeBy(x, MakeCard(x, views[n], d))
<1>1. PICK v : v = views[n]
  OBVIOUS
<1>2. PICK c \in Ticker : c = v.ticker
  BY <1>1 DEF Considers
<1>3. PICK e : e = v.eval
  OBVIOUS
<1>4. e = EvaluationIn(Place(x), c) /\ (x = "scan" => ~v.stored) /\ c \in TickersOfCall(x)
  BY <1>1, <1>2, <1>3 DEF Considers
<1>5. PICK r : r = e.ranked[d.pick]
  OBVIOUS
<1>6. PICK s \in DOMAIN Profile : s = UserOf(x)
  OBVIOUS
<1>7. PICK price \in Int : price = Underlying(c, scan.outcome[c], Profile[scan.user])
  BY EvaluatedInPlace
<1>8. PICK u : u = IF x = "scan" THEN Profile[s] ELSE [Profile[s] EXCEPT !.maxPremium = None]
  OBVIOUS
<1>9. PICK card : card = MakeCard(x, v, d)
  OBVIOUS
<1>10. /\ card.by = x /\ card.ticker = c /\ card.engine = d.engine /\ card.action = d.action
       /\ card.pick = d.pick /\ card.user = s
       /\ card.quantity = IF d.action = "watchlist" \/ Size(u, r.contract, price) = {} THEN 0
                          ELSE CHOOSE q \in Size(u, r.contract, price) : TRUE
       /\ card.confidence = IF x = "scan" THEN e.final ELSE CombineScores(e.direction, r.score)
  <2>1. price = Underlying(v.ticker, scan.outcome[v.ticker], Profile[scan.user])
    BY <1>2, <1>7
  <2>2. u = (IF x = "scan" THEN Profile[UserOf(x)]
             ELSE [Profile[UserOf(x)] EXCEPT !.maxPremium = None])
    BY <1>6, <1>8
  <2>3. r = v.eval.ranked[d.pick]
    BY <1>3, <1>5
  <2>4. /\ card.by = x /\ card.ticker = v.ticker /\ card.engine = d.engine
        /\ card.action = d.action /\ card.pick = d.pick /\ card.user = UserOf(x)
        /\ card.confidence = IF x = "scan" THEN v.eval.final
                             ELSE CombineScores(v.eval.direction, r.score)
    BY <1>9, <2>3 DEF MakeCard
  <2>5. card.quantity = IF d.action = "watchlist" \/ Size(u, r.contract, price) = {} THEN 0
                        ELSE CHOOSE q \in Size(u, r.contract, price) : TRUE
    BY <1>9, <2>1, <2>2, <2>3 DEF MakeCard
  <2> QED
    BY <1>2, <1>3, <1>6, <2>4, <2>5
<1>11. Warrants(e, d.pick, d.action)
  BY <1>1, <1>3
<1>12. Viable(r) /\ d.pick \in 1..Len(e.ranked) /\ d.action \in {"recommend", "watchlist"}
  BY <1>5, <1>11, Zenon DEF Warrants
<1>13. Sound(e) /\ Followable(Facts[c].today, r) /\ Payable(r.contract)
  <2>1. CASE x = "scan"
    BY <1>4, <1>5, <1>12, <2>1, EvaluatedInPlace, QuoteParts
       DEF Place, Scanned, Affordable, Payable
  <2>2. CASE x # "scan"
    BY <1>4, <1>5, <1>12, <2>2, EvaluatedInPlace DEF Place, Tapped
  <2> QED
    BY <2>1, <2>2
<1>14. x = "scan" => s = scan.user /\ Affordable(Profile[s], r.contract, price)
  <2>1. ASSUME x = "scan" PROVE s = scan.user /\ Place(x) = "scan"
    BY <1>6, <2>1 DEF UserOf, Place
  <2> QED
    BY <1>4, <1>5, <1>7, <1>12, <2>1, EvaluatedInPlace DEF Scanned
<1>15. Counted(e) /\ e.final \in 0..100 /\ e.direction \in 0..100 /\ r.score \in 0..100
  <2>1. Counted(e)
    BY <1>13 DEF Sound
  <2>2. e.final \in 0..100 /\ e.direction \in 0..100
    BY <2>1, Zenon DEF Counted
  <2>3. \A m \in 1..Len(e.ranked) : e.ranked[m].score \in 0..100
    BY <2>1, Zenon DEF Counted
  <2> QED
    BY <1>5, <1>12, <2>1, <2>2, <2>3
<1>16. card.confidence \in 0..100
  BY <1>10, <1>15, CombinedScores
<1>17. /\ Limits(u) /\ Limits(Profile[s])
       /\ RiskPercent(u) = RiskPercent(Profile[s])
       /\ MaxShortNotional(u) = MaxShortNotional(Profile[s])
       /\ u.maxContracts = Profile[s].maxContracts /\ u.account = Profile[s].account
       /\ u.permission = Profile[s].permission
  <2>1. PICK w \in Settings : w = Profile[s]
    BY ProfileAssumption
  <2> QED
    BY <1>8, <2>1, SettingsLimit
<1>18. card.quantity \in Nat /\ Fits(u, r.contract, card.quantity)
  BY <1>7, <1>10, <1>13, <1>17, CardSized
<1>19. Fits(Profile[s], r.contract, card.quantity)
  BY <1>17, <1>18 DEF Fits, Permits
<1>20. ASSUME x = "scan"
       PROVE  /\ d.action = "recommend" => card.quantity > 0
              /\ r.contract.side = "long" /\ Profile[s].maxPremium # None
                   => r.contract.ask <= Profile[s].maxPremium
  <2>1. u = Profile[s] /\ Affordable(u, r.contract, price)
    BY <1>8, <1>14, <1>20
  <2>2. ASSUME d.action = "recommend" PROVE card.quantity > 0
    <3>1. Size(u, r.contract, price) # {} /\ \A q \in Size(u, r.contract, price) : q > 0
      BY <1>7, <1>17, <2>1, SizedAsEstimated
    <3>2. card.quantity = CHOOSE q \in Size(u, r.contract, price) : TRUE
      BY <1>10, <2>2, <3>1
    <3> QED
      BY <3>1, <3>2
  <2> QED
    BY <1>7, <1>17, <2>1, <2>2, SizedAsEstimated
<1>21. WithinLimits(card, r.contract, Profile[s])
  BY <1>10, <1>19, <1>20 DEF WithinLimits, Fits
<1>22. EvaluationOf(card) = e
  BY <1>4, <1>10 DEF EvaluationOf
<1>23. card.by = "scan" /\ card.engine = "llm" => r.flags = {}
  BY <1>1, <1>3, <1>4, <1>5, <1>10
<1>24. BackedBy(card, e)
  BY <1>5, <1>10, <1>11, <1>13, <1>16, <1>18, <1>21, <1>23 DEF BackedBy
<1> QED
  BY <1>1, <1>4, <1>9, <1>10, <1>22, <1>24 DEF MadeBy, Backed

\* Decisions of x, with the card that is made for it.
Suits(x, d, made) ==
  /\ AtMostOne(made) /\ \A c \in made : MadeBy(x, c)
  /\ x = "scan" => Watches(d.watch, scan.finalists)
Proceeds(x) == \E d, made : Suits(x, d, made) /\ Proceed(x, d, made)

\* Only the question to the model goes on.
Rephrases(x) ==
  /\ \E q \in Question : call' = [call EXCEPT ![x] = q]
  /\ UNCHANGED <<settings, edits, crashes, scan, tap, cards, chat, overlapped, lost>>

LEMMA ConcludeProceeds ==
  ASSUME ScanOK(scan), Begun(scan.phase), NEW x \in Caller, UserOf(x) \in DOMAIN Profile,
         NEW views, Considers(x, views), NEW d, Decided(d, views), Conclude(x, views, d)
  PROVE  Proceeds(x)
<1>1. PICK made : /\ made = IF d.action = "no_trade" THEN {}
                            ELSE {MakeCard(x, CHOOSE v \in Range(views) : v.ticker = d.ticker, d)}
                  /\ Proceed(x, d, made)
  BY DEF Conclude
<1>2. /\ Len(views) \in Nat /\ DOMAIN views = 1..Len(views)
      /\ \A m, n \in 1..Len(views) : m < n => views[m].ticker # views[n].ticker
  BY ViewedTickers DEF Considers, Viewed
<1>3. d.action = "no_trade" => made = {}
  BY <1>1
<1>4. ASSUME d.action # "no_trade" PROVE \E c : made = {c} /\ MadeBy(x, c)
  <2>1. PICK n \in 1..Len(views) :
          /\ views[n].ticker = d.ticker
          /\ Warrants(views[n].eval, d.pick, d.action)
          /\ d.engine = "llm" /\ ~views[n].stored => views[n].eval.ranked[d.pick].flags = {}
    BY <1>4 DEF Decided
  <2>2. \A m \in 1..Len(views) : views[m].ticker = d.ticker => m = n
    BY <1>2, <2>1
  <2>3. \A v \in Range(views) : v.ticker = d.ticker => v = views[n]
    BY <1>2, <2>2 DEF Range
  <2>4. views[n] \in Range(views)
    BY <1>2 DEF Range
  <2>5. PICK v : v = CHOOSE w \in Range(views) : w.ticker = d.ticker
    OBVIOUS
  <2>6. v = views[n]
    BY <2>1, <2>3, <2>4, <2>5
  <2>7. MadeBy(x, MakeCard(x, views[n], d))
    BY <2>1, CardMade
  <2> QED
    BY <1>1, <1>4, <2>5, <2>6, <2>7
<1>5. AtMostOne(made) /\ \A c \in made : MadeBy(x, c)
  BY <1>1, <1>3, <1>4 DEF AtMostOne
<1>6. ASSUME x = "scan" PROVE Watches(d.watch, scan.finalists)
  <2>1. Range(TickersOf(views)) \subseteq Range(scan.finalists)
    BY <1>2, <1>6, ViewedTickers DEF Considers, TickersOfCall, TickersOf, Range
  <2>2. Watchlist(d.watch, views)
    BY DEF Decided
  <2> QED
    BY <2>1, <2>2, SeqMonotonic DEF Watches, Watchlist
<1> QED
  BY <1>1, <1>5, <1>6 DEF Proceeds, Suits

LEMMA BackedStays ==
  ASSUME scan'.outcome = scan.outcome, scan'.user = scan.user, NEW card, Backed(card)
  PROVE  Backed(card)'
<1>1. EvaluationOf(card)' = EvaluationOf(card)
  BY DEF EvaluationOf, EvaluationIn
<1> QED
  BY <1>1 DEF Backed

\* Who asks the model considers its views.
LEMMA AskingConsiders ==
  ASSUME Inv, NEW x \in Caller, Asking(x)
  PROVE  /\ ScanOK(scan) /\ Begun(scan.phase) /\ UserOf(x) \in DOMAIN Profile
         /\ Considers(x, Views(x)) /\ call[x].attempt \in 0..MaxAttempts - 1
         /\ call[x].corrective \in BOOLEAN
<1>1. CASE x = "scan"
  BY <1>1, ScanConsiders DEF Inv, Counters, Question, Asking, PhaseOf, UserOf, ScanOK, Begun
<1>2. CASE x # "scan"
  <2>1. x \in Tap /\ tap[x].phase = "deciding" /\ TapOK(tap[x])
    BY <1>2 DEF Caller, Inv, Taps, Asking, PhaseOf
  <2>2. Begun(scan.phase)
    BY <2>1 DEF Inv, InOrder, Begun
  <2> QED
    BY <1>2, <2>1, <2>2, TapConsiders DEF Inv, Counters, Question, UserOf, TapOK
<1> QED
  BY <1>1, <1>2

LEMMA WorkMoves ==
  ASSUME Inv, NEW x \in Caller, Work(x)
  PROVE  \/ Asking(x) /\ (Proceeds(x) \/ Rephrases(x))
         \/ Send(x) \/ SendFails(x) \/ Commit(x)
<1>1. CASE KeyRefused(x)
  <2>1. Asking(x) /\ Conclude(x, << >>, LlmBlocked)
    BY <1>1 DEF KeyRefused
  <2>2. Proceed(x, LlmBlocked, {})
    BY <2>1 DEF Conclude, LlmBlocked, NoTrade
  <2>3. LlmBlocked.watch = << >>
    BY DEF LlmBlocked, NoTrade
  <2>4. Suits(x, LlmBlocked, {})
    BY <2>3 DEF Suits, AtMostOne, Watches, IsInjective
  <2> QED
    BY <2>1, <2>2, <2>4 DEF Proceeds
<1>2. CASE PostAgain(x)
  <2>1. Asking(x) /\ call[x].attempt \in 0..MaxAttempts - 1 /\ call[x].corrective \in BOOLEAN
    BY <1>2, AskingConsiders DEF PostAgain
  <2>2. PICK n \in 0..MaxAttempts - 1 : n = call[x].attempt + 1
    BY <1>2, <2>1, ScanAssumption DEF PostAgain
  <2>3. call[x] \in Question /\ call \in [Caller -> Question]
    BY DEF Inv, Counters
  <2>4. PICK q : q = [call[x] EXCEPT !.attempt = n]
    OBVIOUS
  <2>5. q \in Question
    BY <2>3, <2>4 DEF Question
  <2>6. call' = [call EXCEPT ![x] = q]
    BY <1>2, <2>2, <2>3, <2>4 DEF PostAgain
  <2> QED
    BY <1>2, <2>1, <2>5, <2>6 DEF PostAgain, Rephrases
<1>3. CASE GiveUp(x)
  <2>1. Asking(x) /\ Conclude(x, Views(x), HeuristicDecision(Views(x)))
    BY <1>3 DEF GiveUp, Unanswered
  <2>2. PICK views : views = Views(x)
    OBVIOUS
  <2>3. Decided(HeuristicDecision(views), views)
    BY <2>1, <2>2, AskingConsiders, HeuristicDecided DEF Considers
  <2> QED
    BY <2>1, <2>2, <2>3, AskingConsiders, ConcludeProceeds
<1>4. ASSUME NEW a \in Answer, Answered(x, a) PROVE Asking(x) /\ (Proceeds(x) \/ Rephrases(x))
  <2>1. PICK views : views = Views(x)
    OBVIOUS
  <2>2. Asking(x) /\ TakeUp(x, a, views)
    BY <1>4, <2>1 DEF Answered
  <2>3. Considers(x, views) /\ Viewed(views)
    BY <2>1, <2>2, AskingConsiders DEF Considers
  <2>4. CASE Acceptable(views, a)
    <3>1. Parsed(a)
      BY AnswerAssumption DEF Parsed
    <3>2. Decided(Accepted(views, a), views)
      BY <2>3, <2>4, <3>1, AcceptedDecided
    <3> QED
      BY <2>2, <2>3, <2>4, <3>2, AskingConsiders, ConcludeProceeds DEF TakeUp
  <2>5. CASE ~Acceptable(views, a) /\ call[x].corrective
    <3>1. Decided(HeuristicDecision(views), views)
      BY <2>3, HeuristicDecided
    <3> QED
      BY <2>2, <2>3, <2>5, <3>1, AskingConsiders, ConcludeProceeds DEF TakeUp, Unanswered
  <2>6. CASE ~Acceptable(views, a) /\ ~call[x].corrective
    <3>1. [attempt |-> 0, corrective |-> TRUE] \in Question
      BY ScanAssumption DEF Question
    <3> QED
      BY <2>2, <2>6, <3>1 DEF TakeUp, Rephrases
  <2> QED
    BY <2>4, <2>5, <2>6
<1> QED
  BY <1>1, <1>2, <1>3, <1>4 DEF Work

-----------------------------------------------------------------------------
(* The invariant at the start, and after each step.                          *)

LEMMA FreshQuestion ==
  Fresh \in Question
BY ScanAssumption DEF Fresh, Question

LEMMA InvInit ==
  Init => Inv
<1> SUFFICES ASSUME Init PROVE Inv
  OBVIOUS
<1>1. scan.phase = "idle" /\ scan.card = {} /\ scan.watch = << >> /\ scan.user = "none"
  BY DEF Init
<1>2. ASSUME NEW t \in Tap PROVE tap[t] = Rest("idle")
  BY DEF Init
<1>3. TapOK(Rest("idle"))
  BY EmptySeq DEF TapOK, TapShape, Rest, TapPhase, Holding, AtMostOne
<1>4. Counters
  <2>1. call \in [Caller -> Question]
    BY FreshQuestion DEF Init
  <2>2. settings \in DOMAIN Profile /\ edits \in 0..MaxEdits /\ crashes \in 0..MaxCrashes
    BY ScanAssumption DEF Init
  <2>3. overlapped \in BOOLEAN /\ lost \in BOOLEAN
    BY DEF Init
  <2> QED
    BY <2>1, <2>2, <2>3 DEF Counters
<1>5. Watches(<< >>, scan.finalists)
  BY DEF Watches, IsInjective
<1>6. ScanOK(scan)
  BY <1>1, <1>5 DEF Init, ScanOK, ScanShape, ScanPhase, Begun, Holding, AtMostOne
<1>7. Taps
  BY <1>2, <1>3 DEF Init, Taps
<1>8. InOrder
  BY <1>1, <1>2 DEF Init, InOrder, Rest
<1>9. Backing
  BY <1>1, <1>2 DEF Init, Backing, Rest
<1>10. Apart
  BY <1>2 DEF Init, Apart, Served, Rest
<1>11. Received
  BY DEF Init, Received, ToCommit
<1> QED
  BY <1>4, <1>6, <1>7, <1>8, <1>9, <1>10, <1>11 DEF Inv

\* One tap moves on, to r.
LEMMA TapMoves ==
  ASSUME Taps, NEW t \in Tap, NEW r, TapOK(r), tap' = [tap EXCEPT ![t] = r]
  PROVE  Taps' /\ tap'[t] = r /\ \A s \in Tap : s # t => tap'[s] = tap[s]
<1>1. tap = [s \in Tap |-> tap[s]] /\ \A s \in Tap : TapOK(tap[s])
  BY DEF Taps
<1>2. tap'[t] = r /\ \A s \in Tap : s # t => tap'[s] = tap[s]
  BY <1>1
<1>3. tap' = [s \in Tap |-> tap'[s]]
  BY <1>1
<1>4. \A s \in Tap : TapOK(tap'[s])
  BY <1>1, <1>2
<1> QED
  BY <1>2, <1>3, <1>4 DEF Taps

\* What was backed stays so while the scan keeps its outcome.
LEMMA BackingStays ==
  ASSUME Inv, scan'.outcome = scan.outcome, scan'.user = scan.user,
         \A c \in chat' : Backed(c), \A c \in cards' : Backed(c), \A c \in scan'.card : Backed(c),
         \A t \in Tap : \A c \in tap'[t].card : Backed(c)
  PROVE  Backing'
<1>1. ASSUME NEW c, Backed(c) PROVE Backed(c)'
  BY <1>1, BackedStays
<1> QED
  BY <1>1 DEF Backing

LEMMA StartScanInv ==
  ASSUME Inv, StartScan PROVE Inv'
<1>1. /\ scan.phase = "idle" /\ scan' = [scan EXCEPT !.phase = "ranking", !.user = settings]
      /\ UNCHANGED <<settings, edits, crashes, tap, call, cards, chat, overlapped, lost>>
  BY DEF StartScan
<1>2. ScanOK(scan) /\ settings \in DOMAIN Profile
  BY DEF Inv, Counters
<1>3. /\ scan.card = {} /\ cards = {} /\ chat = {}
      /\ \A t \in Tap : tap[t].phase = "idle" /\ tap[t].card = {}
  BY <1>1 DEF Inv, ScanOK, Taps, TapOK, InOrder, Holding
<1>4. PICK r : r = scan'
  OBVIOUS
<1>5. /\ ScanShape(r) /\ r.phase = "ranking" /\ r.user = settings /\ r.outcome = scan.outcome
      /\ r.finalists = scan.finalists /\ r.card = scan.card /\ r.watch = scan.watch
  BY <1>1, <1>2, <1>4 DEF ScanOK, ScanShape
<1>6. ScanOK(r)
  BY <1>1, <1>2, <1>3, <1>5 DEF ScanOK, ScanPhase, Begun, Holding
<1>7. InOrder' /\ Received'
  BY <1>1, <1>3, <1>4, <1>5 DEF InOrder, Received, ToCommit
<1>8. Backing'
  BY <1>1, <1>3, <1>4, <1>5 DEF Backing
<1>9. Counters' /\ Taps' /\ Apart'
  BY <1>1 DEF Inv, Counters, Taps, Apart, Served
<1> QED
  BY <1>4, <1>6, <1>7, <1>8, <1>9 DEF Inv

LEMMA EditSettingsInv ==
  ASSUME Inv, NEW s \in DOMAIN Profile, EditSettings(s) PROVE Inv'
<1>1. /\ edits < MaxEdits /\ settings' = s /\ edits' = edits + 1
      /\ UNCHANGED <<crashes, scan, tap, call, cards, chat, overlapped, lost>>
  BY DEF EditSettings
<1>2. Counters'
  BY <1>1, ScanAssumption DEF Inv, Counters
<1>3. ScanOK(scan)' /\ Taps' /\ InOrder' /\ Apart' /\ Received'
  BY <1>1 DEF Inv, Taps, InOrder, Apart, Received, ToCommit, Served
<1>4. Backing'
  BY <1>1, BackingStays DEF Inv, Backing
<1> QED
  BY <1>2, <1>3, <1>4 DEF Inv

LEMMA StutterInv ==
  ASSUME Inv, UNCHANGED vars PROVE Inv'
<1>1. UNCHANGED <<settings, edits, crashes, scan, tap, call, cards, chat, overlapped, lost>>
  BY DEF vars
<1>2. Backing'
  BY <1>1, BackingStays DEF Inv, Backing
<1>3. Counters' /\ ScanOK(scan)' /\ Taps' /\ InOrder' /\ Apart' /\ Received'
  BY <1>1 DEF Inv, Counters, Taps, InOrder, Apart, Received, ToCommit, Served
<1> QED
  BY <1>2, <1>3 DEF Inv

LEMMA RephrasesInv ==
  ASSUME Inv, NEW x \in Caller, Rephrases(x) PROVE Inv'
<1>1. PICK q \in Question :
        /\ call' = [call EXCEPT ![x] = q]
        /\ UNCHANGED <<settings, edits, crashes, scan, tap, cards, chat, overlapped, lost>>
  BY DEF Rephrases
<1>2. Backing'
  BY <1>1, BackingStays DEF Inv, Backing
<1>3. ScanOK(scan)' /\ Taps' /\ InOrder' /\ Apart' /\ Received'
  BY <1>1 DEF Inv, Taps, InOrder, Apart, Received, ToCommit, Served
<1>4. Counters'
  BY <1>1 DEF Inv, Counters
<1> QED
  BY <1>2, <1>3, <1>4 DEF Inv

\* Before it sends, the scan has no card and nothing else has happened.
LEMMA NothingYet ==
  ASSUME Inv, scan.phase = "ranking" \/ scan.phase = "refreshing"
  PROVE  /\ scan.card = {} /\ scan.watch = << >> /\ cards = {} /\ chat = {}
         /\ \A t \in Tap : tap[t].phase = "idle" /\ tap[t].card = {}
BY DEF Inv, ScanOK, Taps, TapOK, InOrder, Holding

LEMMA NothingWatchedYet ==
  ASSUME NEW finalists PROVE Watches(<< >>, finalists)
BY DEF Watches, IsInjective

LEMMA RankBatchInv ==
  ASSUME Inv, RankBatch PROVE Inv'
<1>1. PICK o \in [Ticker -> FirstOutcome] :
        /\ scan' = [scan EXCEPT !.phase = "refreshing", !.outcome = o,
                                !.finalists = SelectFinalists(Batch, [c \in Ticker |->
                                                  Evaluated[c][o[c]][scan.user]])]
        /\ scan.phase = "ranking"
        /\ UNCHANGED <<settings, edits, crashes, tap, call, cards, chat, overlapped, lost>>
  BY DEF RankBatch
<1>2. ScanOK(scan) /\ scan.user \in DOMAIN Profile
  BY <1>1 DEF Inv, ScanOK
<1>3. PICK evals : evals = [c \in Ticker |-> Evaluated[c][o[c]][scan.user]]
  OBVIOUS
<1>4. PICK f : f = SelectFinalists(Batch, evals)
  OBVIOUS
<1>5. ASSUME NEW c \in Ticker PROVE Sound(evals[c])
  <2>1. PICK s \in DOMAIN Profile : s = scan.user
    BY <1>2
  <2>2. PICK p \in Outcome : p = o[c]
    BY DEF Outcome
  <2>3. evals[c] = Evaluations["scan"][c][p][s]
    BY <1>3, <2>1, <2>2, EvaluationKinds
  <2>4. Scanned(c, Profile[s], Underlying(c, p, Profile[s]), Evaluations["scan"][c][p][s])
    BY EvaluationKinds
  <2> QED
    BY <2>3, <2>4 DEF Scanned
<1>6. f \in Seq(Ticker) /\ IsInjective(f)
  BY <1>4, <1>5, BatchAssumption, FinalistsSelected DEF Ticker
<1>7. o \in [Ticker -> Outcome]
  BY DEF Outcome
<1>8. PICK r : r = scan'
  OBVIOUS
<1>9. /\ ScanShape(r) /\ r.phase = "refreshing" /\ r.user = scan.user /\ r.outcome = o
      /\ r.finalists = f /\ r.card = scan.card /\ r.watch = scan.watch
  <2>1. r = [scan EXCEPT !.phase = "refreshing", !.outcome = o, !.finalists = f]
    BY <1>1, <1>3, <1>4, <1>8
  <2> QED
    BY <1>2, <2>1 DEF ScanOK, ScanShape
<1>10. ScanOK(r)
  <2>1. scan.card = {} /\ scan.watch = << >>
    BY <1>1, NothingYet
  <2> QED
    BY <1>2, <1>6, <1>7, <1>9, <2>1, NothingWatchedYet
       DEF ScanOK, ScanPhase, Begun, Holding, AtMostOne
<1>11. InOrder' /\ Received' /\ Backing'
  BY <1>1, <1>8, <1>9, NothingYet DEF InOrder, Received, ToCommit, Backing
<1>12. Counters' /\ Taps' /\ Apart'
  BY <1>1 DEF Inv, Counters, Taps, Apart, Served
<1> QED
  BY <1>8, <1>10, <1>11, <1>12 DEF Inv

LEMMA RefreshedOutcome ==
  ASSUME NEW c \in Ticker, NEW first \in FirstOutcome, NEW live \in LiveOutcome,
         NEW s \in DOMAIN Profile
  PROVE  Refreshed[<<c, first, live, s>>] \in Outcome
BY DEF Outcome, Refresh

LEMMA RefreshFinalistsInv ==
  ASSUME Inv, RefreshFinalists PROVE Inv'
<1>1. PICK o \in [Range(scan.finalists) -> LiveOutcome] :
        scan' = [scan EXCEPT !.phase = "deciding",
                             !.outcome = [c \in Ticker |->
                               IF c \in DOMAIN o
                               THEN Refreshed[<<c, scan.outcome[c], o[c], scan.user>>]
                               ELSE scan.outcome[c]]]
  BY Zenon DEF RefreshFinalists
<1>2. /\ scan.phase = "refreshing"
      /\ call' = [call EXCEPT !["scan"] = Fresh]
      /\ UNCHANGED <<settings, edits, crashes, tap, cards, chat, overlapped, lost>>
  BY DEF RefreshFinalists
<1>3. /\ ScanOK(scan) /\ scan.user \in DOMAIN Profile /\ scan.outcome \in [Ticker -> FirstOutcome]
      /\ scan.finalists \in Seq(Ticker) /\ IsInjective(scan.finalists)
  BY <1>2 DEF Inv, ScanOK, Begun
<1>4. PICK outcome : outcome = [c \in Ticker |->
                       IF c \in DOMAIN o
                       THEN Refreshed[<<c, scan.outcome[c], o[c], scan.user>>]
                       ELSE scan.outcome[c]]
  OBVIOUS
<1>5. outcome \in [Ticker -> Outcome]
  <2>1. ASSUME NEW c \in Ticker PROVE outcome[c] \in Outcome
    <3>1. scan.outcome[c] \in FirstOutcome /\ FirstOutcome \subseteq Outcome
      BY <1>3 DEF Outcome
    <3>2. CASE c \in DOMAIN o
      BY <1>3, <1>4, <3>1, <3>2, RefreshedOutcome
    <3>3. CASE c \notin DOMAIN o
      BY <1>4, <3>1, <3>3
    <3> QED
      BY <3>2, <3>3
  <2> QED
    BY <1>4, <2>1
<1>6. PICK r : r = scan'
  OBVIOUS
<1>7. /\ ScanShape(r) /\ r.phase = "deciding" /\ r.user = scan.user /\ r.outcome = outcome
      /\ r.finalists = scan.finalists /\ r.card = scan.card /\ r.watch = scan.watch
  <2>1. r = [scan EXCEPT !.phase = "deciding", !.outcome = outcome]
    BY <1>1, <1>4, <1>6
  <2> QED
    BY <1>3, <2>1 DEF ScanOK, ScanShape
<1>8. ScanOK(r)
  <2>1. scan.card = {} /\ scan.watch = << >>
    BY <1>2, NothingYet
  <2> QED
    BY <1>3, <1>5, <1>7, <2>1, NothingWatchedYet
       DEF ScanOK, ScanPhase, Begun, Holding, AtMostOne
<1>9. InOrder' /\ Received' /\ Backing'
  BY <1>2, <1>6, <1>7, NothingYet DEF InOrder, Received, ToCommit, Backing
<1>10. Taps' /\ Apart'
  BY <1>2 DEF Inv, Taps, Apart, Served
<1>11. Counters'
  BY <1>2, FreshQuestion DEF Inv, Counters, Caller
<1> QED
  BY <1>6, <1>8, <1>9, <1>10, <1>11 DEF Inv

\* A caller starts afresh, or keeps to its question, while nothing else counts.
LEMMA CountersStay ==
  ASSUME Counters, NEW x \in Caller, call' = call \/ call' = [call EXCEPT ![x] = Fresh],
         UNCHANGED <<settings, edits, crashes>>, overlapped' \in BOOLEAN, lost' \in BOOLEAN
  PROVE  Counters'
BY FreshQuestion DEF Counters

LEMMA ScanProceedsInv ==
  ASSUME Inv, Asking("scan"), NEW d, NEW made, Suits("scan", d, made), Proceed("scan", d, made)
  PROVE  Inv'
<1>1. /\ scan' = [scan EXCEPT !.phase = "sending", !.card = made, !.watch = d.watch]
      /\ call' = [call EXCEPT !["scan"] = Fresh]
      /\ UNCHANGED <<settings, edits, crashes, tap, cards, chat, overlapped, lost>>
  BY DEF Proceed
<1>2. ScanOK(scan) /\ scan.phase = "deciding" /\ Begun(scan.phase)
  BY DEF Inv, Asking, PhaseOf, Begun
<1>3. /\ AtMostOne(made) /\ \A c \in made : Backed(c)
      /\ Watches(d.watch, scan.finalists)
  BY DEF Suits, MadeBy
<1>4. /\ cards = {} /\ chat = {}
      /\ \A t \in Tap : tap[t].phase = "idle" /\ tap[t].card = {}
  BY <1>2 DEF Inv, InOrder, Taps, TapOK, Holding
<1>5. PICK r : r = scan'
  OBVIOUS
<1>6. /\ ScanShape(r) /\ r.phase = "sending" /\ r.user = scan.user /\ r.outcome = scan.outcome
      /\ r.finalists = scan.finalists /\ r.card = made /\ r.watch = d.watch
  BY <1>1, <1>2, <1>5 DEF ScanOK, ScanShape
<1>7. ScanOK(r)
  BY <1>2, <1>3, <1>6 DEF ScanOK, ScanPhase, Begun, Holding
<1>8. InOrder' /\ Received'
  BY <1>1, <1>4, <1>5, <1>6 DEF InOrder, Received, ToCommit
<1>9. Backing'
  BY <1>1, <1>3, <1>4, <1>5, <1>6, BackingStays
<1>10. Taps' /\ Apart'
  BY <1>1 DEF Inv, Taps, Apart, Served
<1>11. Counters'
  BY <1>1, CountersStay DEF Inv, Counters, Caller
<1> QED
  BY <1>5, <1>7, <1>8, <1>9, <1>10, <1>11 DEF Inv

\* A tap that is served leaves the scan and the committed cards alone.
LEMMA TapServedInv ==
  ASSUME Inv, NEW t \in Tap, Served(t), NEW r, TapOK(r), tap' = [tap EXCEPT ![t] = r],
         tap[t].phase # "sent", r.phase # "idle",
         tap[t].shown \subseteq r.shown,
         \A c \in r.card : Backed(c),
         call' = call \/ call' = [call EXCEPT ![t] = Fresh],
         UNCHANGED <<settings, edits, crashes, scan, cards, chat, overlapped, lost>>
  PROVE  Inv'
<1>1. /\ Taps' /\ tap'[t] = r /\ \A s \in Tap : s # t => tap'[s] = tap[s]
  BY TapMoves DEF Inv
<1>2. scan.phase = "done"
  BY DEF Inv, InOrder, Served
<1>3. InOrder'
  BY <1>1, <1>2 DEF Inv, InOrder
<1>4. Backing'
  <2>1. ASSUME NEW s \in Tap, NEW c \in tap'[s].card PROVE Backed(c)
    BY <1>1, <2>1 DEF Inv, Backing
  <2> QED
    BY <2>1, BackingStays DEF Inv, Backing
<1>5. \A s \in Tap : Served(s)' => Served(s)
  BY <1>1 DEF Served
<1>6. Apart'
  BY <1>1, <1>5 DEF Inv, Apart
<1>7. Received'
  BY <1>1 DEF Inv, Received, ToCommit
<1>8. Counters'
  BY CountersStay DEF Inv, Counters, Caller
<1> QED
  BY <1>1, <1>3, <1>4, <1>6, <1>7, <1>8 DEF Inv

LEMMA TapProceedsInv ==
  ASSUME Inv, NEW t \in Tap, Asking(t), NEW d, NEW made, Suits(t, d, made), Proceed(t, d, made)
  PROVE  Inv'
<1>1. t # "scan"
  BY ScanAssumption
<1>2. /\ tap' = IF made # {} \/ d.engine = "llm_blocked"
                THEN [tap EXCEPT ![t].phase = "sending", ![t].card = made]
                ELSE [tap EXCEPT ![t].phase = "choosing", ![t].shown = @ \cup {tap[t].ticker}]
      /\ call' = [call EXCEPT ![t] = Fresh]
      /\ UNCHANGED <<settings, edits, crashes, scan, cards, chat, overlapped, lost>>
  BY <1>1 DEF Proceed
<1>3. /\ tap[t].phase = "deciding" /\ Served(t) /\ TapOK(tap[t])
      /\ tap = [s \in Tap |-> tap[s]]
  BY <1>1 DEF Inv, Taps, Asking, PhaseOf, Served, Over
<1>4. tap[t].card = {} /\ tap[t].ticker \in Ticker \ tap[t].shown
  BY <1>3 DEF TapOK, Holding
<1>5. /\ AtMostOne(made)
      /\ \A c \in made : Backed(c) /\ c.ticker = tap[t].ticker
  BY <1>1 DEF Suits, MadeBy, TickersOfCall
<1>6. CASE made # {} \/ d.engine = "llm_blocked"
  <2>1. PICK r : r = [tap[t] EXCEPT !.phase = "sending", !.card = made]
    OBVIOUS
  <2>2. /\ TapShape(r) /\ r.phase = "sending" /\ r.user = tap[t].user /\ r.order = tap[t].order
        /\ r.shown = tap[t].shown /\ r.ticker = tap[t].ticker /\ r.card = made
    BY <1>3, <2>1 DEF TapOK, TapShape
  <2>3. tap' = [tap EXCEPT ![t] = r]
    BY <1>2, <1>3, <1>6, <2>1
  <2>4. TapOK(r)
    BY <1>3, <1>4, <1>5, <2>2 DEF TapOK, TapPhase, Holding
  <2> QED
    BY <1>2, <1>3, <1>5, <2>2, <2>3, <2>4, TapServedInv
<1>7. CASE ~(made # {} \/ d.engine = "llm_blocked")
  <2>1. PICK shown : shown = tap[t].shown \cup {tap[t].ticker}
    OBVIOUS
  <2>2. PICK r : r = [tap[t] EXCEPT !.phase = "choosing", !.shown = shown]
    OBVIOUS
  <2>3. /\ TapShape(r) /\ r.phase = "choosing" /\ r.user = tap[t].user /\ r.order = tap[t].order
        /\ r.shown = shown /\ r.ticker = tap[t].ticker /\ r.card = tap[t].card
    BY <1>3, <2>2 DEF TapOK, TapShape
  <2>4. tap' = [tap EXCEPT ![t] = r]
    BY <1>2, <1>3, <1>7, <2>1, <2>2
  <2>5. TapOK(r)
    BY <1>3, <1>4, <2>1, <2>3 DEF TapOK, TapPhase, Holding
  <2> QED
    BY <1>2, <1>3, <1>4, <2>1, <2>3, <2>4, <2>5, TapServedInv
<1> QED
  BY <1>6, <1>7

LEMMA ChooseRowInv ==
  ASSUME Inv, NEW t \in Tap, ChooseRow(t) PROVE Inv'
<1>1. PICK left : left = {n \in DOMAIN tap[t].order :
                 tap[t].order[n] \notin tap[t].shown /\ Rows[tap[t].order[n]].pick # 0}
  OBVIOUS
<1>2. /\ tap[t].phase = "choosing"
      /\ tap' = IF left = {} THEN [tap EXCEPT ![t].phase = "sending"]
                ELSE [tap EXCEPT ![t].phase = "deciding", ![t].ticker = tap[t].order[Min(left)]]
      /\ call' = [call EXCEPT ![t] = Fresh]
      /\ UNCHANGED <<settings, edits, crashes, scan, cards, chat, overlapped, lost>>
  BY <1>1, Zenon DEF ChooseRow
<1>3. /\ Served(t) /\ TapOK(tap[t]) /\ tap = [s \in Tap |-> tap[s]]
  BY <1>2 DEF Inv, Taps, Served, Over
<1>4. tap[t].card = {} /\ tap[t].order \in Seq(Ticker) /\ tap[t].user \in DOMAIN Profile
  BY <1>2, <1>3 DEF TapOK, Holding
<1>5. CASE left = {}
  <2>1. PICK r : r = [tap[t] EXCEPT !.phase = "sending"]
    OBVIOUS
  <2>2. /\ TapShape(r) /\ r.phase = "sending" /\ r.user = tap[t].user /\ r.order = tap[t].order
        /\ r.shown = tap[t].shown /\ r.ticker = tap[t].ticker /\ r.card = tap[t].card
    BY <1>3, <2>1 DEF TapOK, TapShape
  <2>3. tap' = [tap EXCEPT ![t] = r]
    BY <1>2, <1>3, <1>5, <2>1
  <2>4. TapOK(r)
    BY <1>3, <1>4, <2>2 DEF TapOK, TapPhase, Holding
  <2> QED
    BY <1>2, <1>3, <1>4, <2>2, <2>3, <2>4, TapServedInv
<1>6. CASE left # {}
  <2>1. Len(tap[t].order) \in Nat /\ DOMAIN tap[t].order = 1..Len(tap[t].order)
    BY <1>4, LenProperties
  <2>2. IsFiniteSet(left) /\ left \subseteq Int
    <3>1. IsFiniteSet(1..Len(tap[t].order))
      BY <2>1, FS_Interval
    <3>2. left \in SUBSET (1..Len(tap[t].order))
      BY <1>1, <2>1
    <3>3. IsFiniteSet(left)
      BY <3>1, <3>2, FS_Subset
    <3> QED
      BY <2>1, <3>2, <3>3
  <2>3. PICK n : n = Min(left)
    OBVIOUS
  <2>4. n \in left
    BY <1>6, <2>2, <2>3, LeastMember
  <2>5. PICK c \in Ticker : c = tap[t].order[n] /\ c \notin tap[t].shown
    BY <1>1, <1>4, <2>1, <2>4, ElementOfSeq
  <2>6. PICK r : r = [tap[t] EXCEPT !.phase = "deciding", !.ticker = c]
    OBVIOUS
  <2>7. /\ TapShape(r) /\ r.phase = "deciding" /\ r.user = tap[t].user /\ r.order = tap[t].order
        /\ r.shown = tap[t].shown /\ r.ticker = c /\ r.card = tap[t].card
    BY <1>3, <2>6 DEF TapOK, TapShape
  <2>8. tap' = [tap EXCEPT ![t] = r]
    BY <1>2, <1>3, <1>6, <2>3, <2>5, <2>6
  <2>9. TapOK(r)
    BY <1>3, <1>4, <2>5, <2>7 DEF TapOK, TapPhase, Holding
  <2> QED
    BY <1>2, <1>3, <1>4, <2>7, <2>8, <2>9, TapServedInv
<1> QED
  BY <1>5, <1>6

\* The rows of a run come in some order, the best of them first.
LEMMA OrderOfRows ==
  ASSUME NEW rows, NEW order \in RowOrders(rows)
  PROVE  order \in Seq(Ticker)
<1>1. PICK s \in SetToSeqs(Ticker) : order = SubSeq(s, 1, Min({FinalistLimit, Len(s)}))
  BY Zenon DEF RowOrders
<1>2. s \in [1..Cardinality(Ticker) -> Ticker]
  BY Zenon DEF SetToSeqs
<1>3. IsFiniteSet(Ticker)
  <2>1. DOMAIN Batch = 1..Len(Batch) /\ Len(Batch) \in Nat
    BY BatchAssumption, LenProperties
  <2>2. Batch \in Surjection(DOMAIN Batch, Ticker)
    BY BatchAssumption DEF Ticker, Range, Surjection
  <2>3. IsFiniteSet(DOMAIN Batch)
    BY <2>1, FS_Interval
  <2> QED
    BY <2>2, <2>3, FS_Surjection
<1>4. s \in Seq(Ticker)
  <2>1. Cardinality(Ticker) \in Nat
    BY <1>3, FS_CardinalityType
  <2> QED
    BY <1>2, <2>1, SeqDef
<1>5. PICK limit \in Nat : limit = FinalistLimit
  BY ScanAssumption
<1>6. SubSeq(s, 1, Min({limit, Len(s)})) \in Seq(Ticker)
  BY <1>4, Firsts, Zenon
<1> QED
  BY <1>1, <1>5, <1>6

LEMMA StartTapInv ==
  ASSUME Inv, NEW t \in Tap, StartTap(t) PROVE Inv'
<1>1. PICK order \in RowOrders(Rows) :
        tap' = [tap EXCEPT ![t].phase = "choosing", ![t].user = settings, ![t].order = order,
                           ![t].shown = {c.ticker : c \in cards}]
  BY Zenon DEF StartTap
<1>2. /\ tap[t].phase = "idle" /\ cards # {}
      /\ overlapped' = (overlapped \/ \E s \in Tap : Served(s))
      /\ UNCHANGED <<settings, edits, crashes, scan, call, cards, chat, lost>>
  BY DEF StartTap
<1>3. order \in Seq(Ticker)
  BY OrderOfRows
<1>4. /\ scan.phase = "done" /\ TapOK(tap[t]) /\ tap = [s \in Tap |-> tap[s]]
      /\ settings \in DOMAIN Profile
  BY <1>2 DEF Inv, InOrder, Taps, Counters
<1>5. PICK shown : shown = {c.ticker : c \in cards}
  OBVIOUS
<1>6. shown \subseteq Ticker
  BY <1>5 DEF Inv, Backing, Backed, BackedBy
<1>7. PICK r : r = [tap[t] EXCEPT !.phase = "choosing", !.user = settings, !.order = order,
                                  !.shown = shown]
  OBVIOUS
<1>8. tap' = [tap EXCEPT ![t] = r]
  BY <1>1, <1>4, <1>5, <1>7
<1>9. /\ TapShape(r) /\ r.phase = "choosing" /\ r.user = settings /\ r.order = order
      /\ r.shown = shown /\ r.card = tap[t].card /\ tap[t].card = {}
  BY <1>2, <1>4, <1>7 DEF TapOK, TapShape, Holding
<1>10. TapOK(r)
  BY <1>3, <1>4, <1>6, <1>9 DEF TapOK, TapPhase, Holding, AtMostOne
<1>11. Taps' /\ tap'[t] = r /\ \A s \in Tap : s # t => tap'[s] = tap[s]
  BY <1>8, <1>10, TapMoves DEF Inv
<1>12. InOrder'
  BY <1>2, <1>4 DEF Inv, InOrder
<1>13. Backing'
  <2>1. ASSUME NEW s \in Tap, NEW c \in tap'[s].card PROVE Backed(c)
    BY <1>9, <1>11, <2>1 DEF Inv, Backing
  <2> QED
    BY <1>2, <2>1, BackingStays DEF Inv, Backing
<1>14. ASSUME ~overlapped'
       PROVE  /\ ~overlapped /\ \A s \in Tap : Served(s)' => s = t
              /\ \A c \in cards : c.ticker \in tap'[t].shown
  <2>1. ~overlapped /\ \A s \in Tap : ~Served(s)
    BY <1>2, <1>14
  <2>2. \A s \in Tap : s # t => ~Served(s)'
    BY <1>11, <2>1 DEF Served
  <2> QED
    BY <1>5, <1>9, <1>11, <2>1, <2>2
<1>15. Apart'
  BY <1>2, <1>14 DEF Inv, Apart
<1>16. Received'
  BY <1>2, <1>11 DEF Inv, Received, ToCommit
<1>17. Counters'
  BY <1>2 DEF Inv, Counters
<1>18. ScanOK(scan)'
  BY <1>2 DEF Inv
<1> QED
  BY <1>11, <1>12, <1>13, <1>15, <1>16, <1>17, <1>18 DEF Inv

LEMMA CrashInv ==
  ASSUME Inv, Crash PROVE Inv'
<1>1. /\ crashes < MaxCrashes /\ crashes' = crashes + 1
      /\ lost' = (lost \/ \E x \in Caller : PhaseOf(x) = "sent" /\ CardOf(x) # {})
      /\ IF scan.phase \in {"idle"} \cup Over THEN UNCHANGED scan ELSE EndScan("failed")
      /\ tap' = [t \in Tap |-> IF Served(t) THEN Rest("failed") ELSE tap[t]]
      /\ call' = [x \in Caller |-> Fresh]
      /\ UNCHANGED <<settings, edits, cards, chat, overlapped>>
  BY DEF Crash
<1>2. Counters'
  BY <1>1, ScanAssumption, FreshQuestion DEF Inv, Counters
<1>3. ScanOK(scan)
  BY DEF Inv
<1>4. CASE scan.phase \in {"idle"} \cup Over
  <2>1. scan' = scan /\ ScanOK(scan')
    BY <1>1, <1>3, <1>4
  <2>2. ASSUME NEW t \in Tap
        PROVE  /\ TapOK(tap'[t]) /\ ~Served(t)' /\ tap'[t].phase # "sent"
               /\ tap'[t].phase # "idle" => tap[t].phase # "idle"
               /\ \A c \in tap'[t].card : c \in tap[t].card
    <3>1. CASE Served(t)
      <4>1. tap'[t] = Rest("failed") /\ tap[t].phase # "idle"
        BY <1>1, <3>1 DEF Served
      <4> QED
        BY <4>1, EmptySeq DEF TapOK, TapShape, Rest, TapPhase, Holding, AtMostOne, Served, Over
    <3>2. CASE ~Served(t)
      BY <1>1, <3>2 DEF Inv, Taps, TapOK, Served, Over
    <3> QED
      BY <3>1, <3>2
  <2>3. Taps'
    BY <1>1, <2>2 DEF Taps
  <2>4. InOrder'
    BY <1>1, <2>1, <2>2 DEF Inv, InOrder
  <2>5. Backing'
    BY <1>1, <2>1, <2>2, BackingStays DEF Inv, Backing
  <2>6. Apart'
    BY <1>1, <2>2 DEF Inv, Apart
  <2>7. Received'
    <3>1. ASSUME ~lost', NEW c \in chat' PROVE c \in cards
      <4>1. ~lost /\ \A x \in Caller : PhaseOf(x) = "sent" => CardOf(x) = {}
        BY <1>1, <3>1
      <4>2. scan.phase # "sent"
        BY <1>4 DEF Over
      <4>3. ASSUME NEW t \in Tap, tap[t].phase = "sent" PROVE tap[t].card = {}
        BY <4>1, <4>3, ScanAssumption DEF Caller, PhaseOf, CardOf
      <4> QED
        BY <1>1, <3>1, <4>1, <4>2, <4>3 DEF Inv, Received, ToCommit
    <3>2. cards' = cards
      BY <1>1
    <3> QED
      BY <3>1, <3>2 DEF Received, ToCommit
  <2> QED
    BY <1>2, <2>1, <2>3, <2>4, <2>5, <2>6, <2>7 DEF Inv
<1>5. CASE scan.phase \notin {"idle"} \cup Over
  <2>1. /\ cards = {} /\ \A t \in Tap : tap[t].phase = "idle"
    BY <1>5 DEF Inv, InOrder, Over
  <2>2. PICK r : r = scan'
    OBVIOUS
  <2>3. /\ ScanShape(r) /\ r.phase = "failed" /\ r.user = scan.user /\ r.outcome = scan.outcome
        /\ r.card = {} /\ r.watch = << >>
    BY <1>1, <1>3, <1>5, <2>2 DEF EndScan, ScanOK, ScanShape
  <2>4. ScanOK(r)
    BY <1>3, <2>3, NothingWatchedYet DEF ScanOK, ScanPhase, Begun, Holding, AtMostOne
  <2>5. \A t \in Tap : tap'[t] = tap[t] /\ ~Served(t)
    BY <1>1, <2>1 DEF Served
  <2>6. Taps'
    BY <1>1, <2>5 DEF Inv, Taps
  <2>7. InOrder'
    BY <1>1, <2>1, <2>2, <2>3, <2>5 DEF InOrder
  <2>8. Backing'
    BY <1>1, <2>2, <2>3, <2>5, BackingStays DEF Inv, Backing
  <2>9. Apart'
    BY <1>1, <2>1, <2>5 DEF Inv, Apart, Served
  <2>10. Received'
    <3>1. ASSUME ~lost', NEW c \in chat' PROVE FALSE
      <4>1. ~lost /\ \A x \in Caller : PhaseOf(x) = "sent" => CardOf(x) = {}
        BY <1>1, <3>1
      <4>2. scan.phase = "sent" => scan.card = {}
        BY <4>1 DEF Caller, PhaseOf, CardOf
      <4> QED
        BY <1>1, <2>1, <3>1, <4>1, <4>2 DEF Inv, Received, ToCommit
    <3> QED
      BY <3>1 DEF Received, ToCommit
  <2> QED
    BY <1>2, <2>2, <2>4, <2>6, <2>7, <2>8, <2>9, <2>10 DEF Inv
<1> QED
  BY <1>4, <1>5

\* The scan is over, or has sent: what its phase and its card become.
LEMMA ScanBecomes ==
  ASSUME Inv, Holding(scan.phase), NEW phase \in {"sent", "done", "failed"},
         Become("scan", phase)
  PROVE  /\ ScanOK(scan') /\ scan'.phase = phase /\ UNCHANGED tap
         /\ scan'.user = scan.user /\ scan'.outcome = scan.outcome
         /\ scan'.card = IF phase = "sent" THEN scan.card ELSE {}
         /\ cards = {} /\ \A t \in Tap : tap[t].phase = "idle" /\ tap[t].card = {}
<1>1. ScanOK(scan)
  BY DEF Inv
<1>2. /\ IF phase \in Over THEN EndScan(phase) ELSE scan' = [scan EXCEPT !.phase = phase]
      /\ UNCHANGED tap
  BY DEF Become
<1>3. PICK r : r = scan'
  OBVIOUS
<1>4. /\ ScanShape(r) /\ r.phase = phase /\ r.user = scan.user /\ r.outcome = scan.outcome
      /\ r.finalists = scan.finalists
      /\ r.card = IF phase = "sent" THEN scan.card ELSE {}
      /\ r.watch = IF phase = "sent" THEN scan.watch ELSE << >>
  BY <1>1, <1>2, <1>3 DEF ScanOK, ScanShape, EndScan, Over
<1>5. ScanOK(r)
  BY <1>1, <1>4, NothingWatchedYet DEF ScanOK, ScanPhase, Begun, Holding, AtMostOne
<1>6. cards = {} /\ \A t \in Tap : tap[t].phase = "idle" /\ tap[t].card = {}
  BY DEF Inv, InOrder, Taps, TapOK, Holding
<1> QED
  BY <1>2, <1>3, <1>4, <1>5, <1>6

LEMMA TapBecomes ==
  ASSUME Inv, NEW t \in Tap, Holding(tap[t].phase), NEW phase \in {"sent", "done", "failed"},
         Become(t, phase)
  PROVE  /\ Taps' /\ UNCHANGED scan /\ \A s \in Tap : s # t => tap'[s] = tap[s]
         /\ tap'[t].phase = phase /\ scan.phase = "done" /\ Served(t)
         /\ tap'[t].card = IF phase = "sent" THEN tap[t].card ELSE {}
         /\ phase = "sent" => tap'[t].shown = tap[t].shown
<1>1. t # "scan"
  BY ScanAssumption
<1>2. /\ TapOK(tap[t]) /\ tap = [s \in Tap |-> tap[s]] /\ Taps
      /\ scan.phase = "done" /\ Served(t)
  BY DEF Inv, Taps, InOrder, Holding, Served, Over
<1>3. /\ tap' = [tap EXCEPT ![t] = IF phase \in Over THEN Rest(phase) ELSE [@ EXCEPT !.phase = phase]]
      /\ UNCHANGED scan
  BY <1>1 DEF Become
<1>4. CASE phase = "sent"
  <2>1. PICK r : r = [tap[t] EXCEPT !.phase = "sent"]
    OBVIOUS
  <2>2. /\ TapShape(r) /\ r.phase = "sent" /\ r.user = tap[t].user /\ r.order = tap[t].order
        /\ r.shown = tap[t].shown /\ r.ticker = tap[t].ticker /\ r.card = tap[t].card
    BY <1>2, <2>1 DEF TapOK, TapShape
  <2>3. tap' = [tap EXCEPT ![t] = r]
    BY <1>3, <1>4, <2>1 DEF Over
  <2>4. TapOK(r)
    BY <1>2, <2>2 DEF TapOK, TapPhase, Holding
  <2> QED
    BY <1>2, <1>3, <1>4, <2>2, <2>3, <2>4, TapMoves
<1>5. CASE phase # "sent"
  <2>1. tap' = [tap EXCEPT ![t] = Rest(phase)]
    BY <1>3, <1>5 DEF Over
  <2>2. TapOK(Rest(phase)) /\ Rest(phase).phase = phase /\ Rest(phase).card = {}
    BY <1>5, EmptySeq DEF TapOK, TapShape, Rest, TapPhase, Holding, AtMostOne
  <2> QED
    BY <1>2, <1>3, <1>5, <2>1, <2>2, TapMoves
<1> QED
  BY <1>4, <1>5

LEMMA ScanSendsInv ==
  ASSUME Inv, Send("scan") \/ SendFails("scan") PROVE Inv'
<1>1. scan.phase = "sending" /\ Holding(scan.phase)
  BY DEF Send, SendFails, PhaseOf, Holding
<1>2. PICK phase \in {"sent", "failed"} :
        /\ Become("scan", phase)
        /\ chat' = chat \/ chat' = chat \cup scan.card
        /\ phase = "sent" => lost' = lost /\ chat' = chat \cup scan.card
        /\ phase = "failed" => \/ chat' = chat /\ lost' = lost
                               \/ lost' = (lost \/ scan.card # {})
        /\ UNCHANGED <<settings, edits, crashes, call, cards, overlapped>>
  BY DEF Send, SendFails, CardOf
<1>3. /\ ScanOK(scan') /\ scan'.phase = phase /\ UNCHANGED tap
      /\ scan'.user = scan.user /\ scan'.outcome = scan.outcome
      /\ scan'.card = IF phase = "sent" THEN scan.card ELSE {}
      /\ cards = {} /\ \A t \in Tap : tap[t].phase = "idle" /\ tap[t].card = {}
  BY <1>1, <1>2, ScanBecomes
<1>4. chat = {}
  BY <1>1 DEF Inv, InOrder
<1>5. Backing'
  BY <1>2, <1>3, <1>4, BackingStays DEF Inv, Backing
<1>6. InOrder' /\ Apart' /\ Taps'
  BY <1>2, <1>3 DEF Inv, InOrder, Apart, Taps, Served
<1>7. lost' \in BOOLEAN
  BY <1>2 DEF Inv, Counters
<1>8. Counters'
  BY <1>2, <1>7 DEF Inv, Counters
<1>9. Received'
  BY <1>2, <1>3, <1>4 DEF Received, ToCommit
<1> QED
  BY <1>3, <1>5, <1>6, <1>8, <1>9 DEF Inv

LEMMA TapSendsInv ==
  ASSUME Inv, NEW t \in Tap, Send(t) \/ SendFails(t) PROVE Inv'
<1>1. tap[t].phase = "sending" /\ Holding(tap[t].phase)
  BY ScanAssumption DEF Send, SendFails, PhaseOf, Holding
<1>2. PICK phase \in {"sent", "failed"} :
        /\ Become(t, phase)
        /\ chat' = chat \/ chat' = chat \cup tap[t].card
        /\ phase = "sent" => lost' = lost /\ chat' = chat \cup tap[t].card
        /\ phase = "failed" => \/ chat' = chat /\ lost' = lost
                               \/ lost' = (lost \/ tap[t].card # {})
        /\ UNCHANGED <<settings, edits, crashes, call, cards, overlapped>>
  BY ScanAssumption DEF Send, SendFails, CardOf
<1>3. /\ Taps' /\ UNCHANGED scan /\ \A s \in Tap : s # t => tap'[s] = tap[s]
      /\ tap'[t].phase = phase /\ scan.phase = "done" /\ Served(t)
      /\ tap'[t].card = IF phase = "sent" THEN tap[t].card ELSE {}
      /\ phase = "sent" => tap'[t].shown = tap[t].shown
  BY <1>1, <1>2, TapBecomes
<1>4. Backing'
  BY <1>2, <1>3, BackingStays DEF Inv, Backing
<1>5. InOrder'
  BY <1>2, <1>3 DEF Inv, InOrder
<1>6. \A s \in Tap : Served(s)' => Served(s) /\ (s = t => phase = "sent")
  BY <1>3 DEF Served, Over
<1>7. Apart'
  BY <1>2, <1>3, <1>6 DEF Inv, Apart
<1>8. lost' \in BOOLEAN
  BY <1>2 DEF Inv, Counters
<1>9. Counters'
  BY <1>2, <1>8 DEF Inv, Counters
<1>10. Received'
  <2>1. ASSUME ~lost', NEW c \in chat'
        PROVE  c \in cards \/ \E s \in Tap : tap'[s].phase = "sent" /\ c \in tap'[s].card
    <3>1. ~lost
      BY <1>2, <2>1
    <3>2. CASE c \in chat
      <4>1. c \in cards \/ \E s \in Tap : tap[s].phase = "sent" /\ c \in tap[s].card
        BY <1>3, <3>1, <3>2 DEF Inv, Received, ToCommit
      <4> QED
        BY <1>1, <1>3, <4>1
    <3>3. CASE c \notin chat
      <4>1. c \in tap[t].card /\ phase = "sent"
        BY <1>2, <2>1, <3>3
      <4> QED
        BY <1>3, <4>1
    <3> QED
      BY <3>2, <3>3
  <2> QED
    BY <1>2, <2>1 DEF Received, ToCommit
<1> QED
  BY <1>3, <1>4, <1>5, <1>7, <1>9, <1>10 DEF Inv

LEMMA ScanCommitsInv ==
  ASSUME Inv, Commit("scan") PROVE Inv'
<1>1. scan.phase = "sent" /\ Holding(scan.phase)
  BY DEF Commit, PhaseOf, Holding
<1>2. /\ Become("scan", "done") /\ cards' = cards \cup scan.card
      /\ UNCHANGED <<settings, edits, crashes, call, chat, overlapped, lost>>
  BY DEF Commit, CardOf
<1>3. /\ ScanOK(scan') /\ scan'.phase = "done" /\ UNCHANGED tap
      /\ scan'.user = scan.user /\ scan'.outcome = scan.outcome /\ scan'.card = {}
      /\ cards = {} /\ \A t \in Tap : tap[t].phase = "idle" /\ tap[t].card = {}
  BY <1>1, <1>2, ScanBecomes
<1>4. Backing'
  BY <1>2, <1>3, BackingStays DEF Inv, Backing
<1>5. AtMostOne(scan.card)
  BY DEF Inv, ScanOK
<1>6. InOrder' /\ Apart' /\ Taps'
  BY <1>2, <1>3, <1>5 DEF Inv, InOrder, Apart, Taps, Served, AtMostOne
<1>7. Counters'
  BY <1>2 DEF Inv, Counters
<1>8. Received'
  BY <1>2, <1>3 DEF Inv, Received, ToCommit
<1> QED
  BY <1>3, <1>4, <1>6, <1>7, <1>8 DEF Inv

LEMMA TapCommitsInv ==
  ASSUME Inv, NEW t \in Tap, Commit(t) PROVE Inv'
<1>1. tap[t].phase = "sent" /\ Holding(tap[t].phase)
  BY ScanAssumption DEF Commit, PhaseOf, Holding
<1>2. /\ Become(t, "done") /\ cards' = cards \cup tap[t].card
      /\ UNCHANGED <<settings, edits, crashes, call, chat, overlapped, lost>>
  BY ScanAssumption DEF Commit, CardOf
<1>3. /\ Taps' /\ UNCHANGED scan /\ \A s \in Tap : s # t => tap'[s] = tap[s]
      /\ tap'[t].phase = "done" /\ scan.phase = "done" /\ Served(t) /\ tap'[t].card = {}
  BY <1>1, <1>2, TapBecomes
<1>4. Backing'
  BY <1>2, <1>3, BackingStays DEF Inv, Backing
<1>5. InOrder'
  BY <1>2, <1>3 DEF Inv, InOrder
<1>6. ASSUME ~overlapped'
      PROVE  /\ \A s \in Tap : ~Served(s)'
             /\ \A c, d \in cards' : c.ticker = d.ticker => c = d
  <2>1. /\ \A s \in Tap : Served(s) => s = t
        /\ \A c \in cards : c.ticker \in tap[t].shown
        /\ \A c, d \in cards : c.ticker = d.ticker => c = d
    BY <1>2, <1>3, <1>6 DEF Inv, Apart
  <2>2. AtMostOne(tap[t].card) /\ \A c \in tap[t].card : c.ticker \notin tap[t].shown
    BY DEF Inv, Taps, TapOK
  <2>3. \A s \in Tap : ~Served(s)'
    BY <1>3, <2>1 DEF Served, Over
  <2> QED
    BY <1>2, <2>1, <2>2, <2>3 DEF AtMostOne
<1>7. Apart'
  BY <1>6 DEF Apart
<1>8. Counters'
  BY <1>2 DEF Inv, Counters
<1>9. Received'
  BY <1>1, <1>2, <1>3 DEF Inv, Received, ToCommit
<1> QED
  BY <1>3, <1>4, <1>5, <1>7, <1>8, <1>9 DEF Inv

\* Every step keeps the invariant.
LEMMA InvNext ==
  Inv /\ [Next]_vars => Inv'
<1> SUFFICES ASSUME Inv, [Next]_vars PROVE Inv'
  OBVIOUS
<1>1. ASSUME NEW x \in Caller, Work(x) PROVE Inv'
  <2>1. x = "scan" \/ x \in Tap
    BY DEF Caller
  <2>2. CASE Asking(x) /\ Proceeds(x)
    <3>1. PICK d, made : Suits(x, d, made) /\ Proceed(x, d, made)
      BY <2>2 DEF Proceeds
    <3> QED
      BY <2>1, <2>2, <3>1, ScanProceedsInv, TapProceedsInv
  <2>3. CASE Rephrases(x)
    BY <2>3, RephrasesInv
  <2>4. CASE Send(x) \/ SendFails(x)
    BY <2>1, <2>4, ScanSendsInv, TapSendsInv
  <2>5. CASE Commit(x)
    BY <2>1, <2>5, ScanCommitsInv, TapCommitsInv
  <2> QED
    BY <1>1, <2>2, <2>3, <2>4, <2>5, WorkMoves
<1>2. CASE StartScan
  BY <1>2, StartScanInv
<1>3. CASE ScanWork
  BY <1>1, <1>3, RankBatchInv, RefreshFinalistsInv DEF ScanWork, Caller
<1>4. CASE Crash
  BY <1>4, CrashInv
<1>5. ASSUME NEW t \in Tap, StartTap(t) \/ TapWork(t) PROVE Inv'
  BY <1>1, <1>5, StartTapInv, ChooseRowInv DEF TapWork, Caller
<1>6. ASSUME NEW s \in DOMAIN Profile, EditSettings(s) PROVE Inv'
  BY <1>6, EditSettingsInv
<1>7. CASE UNCHANGED vars
  BY <1>7, StutterInv
<1> QED
  BY <1>2, <1>3, <1>4, <1>5, <1>6, <1>7 DEF Next

-----------------------------------------------------------------------------
(* The theorems.                                                             *)

\* Nothing that a card can be made of, in whatever state, lacks its backing;
\* and cards of one run are apart (orchestrator.py, _build_next).
THEOREM Invariance == Spec => []Inv
<1>1. Init => Inv
  BY InvInit
<1>2. Inv /\ [Next]_vars => Inv'
  BY InvNext
<1> QED
  BY <1>1, <1>2, PTL DEF Spec

LEMMA OneCard ==
  ASSUME NEW S, AtMostOne(S) PROVE Cardinality(S) <= 1
<1>1. CASE S = {}
  BY <1>1, FS_EmptySet
<1>2. CASE S # {}
  <2>1. PICK c : S = {c}
    BY <1>2 DEF AtMostOne
  <2>2. Cardinality({c}) = 1
    BY FS_Singleton
  <2> QED
    BY <2>1, <2>2
<1> QED
  BY <1>1, <1>2

\* Every variable has its type, and a watchlist names finalists, each once and
\* at most three, whatever the model asks for (decide.py: _sanitize_watchlist,
\* _augment_with_catalyst_pending).
THEOREM TypeCorrect == Spec => []TypeOK
<1>1. Inv => TypeOK
  <2> SUFFICES ASSUME Inv PROVE TypeOK
    OBVIOUS
  <2>1. /\ settings \in DOMAIN Profile /\ edits \in 0..MaxEdits /\ crashes \in 0..MaxCrashes
        /\ overlapped \in BOOLEAN /\ lost \in BOOLEAN
    BY DEF Inv, Counters
  <2>2. ASSUME NEW x \in Caller
        PROVE  /\ PhaseOf(x) \in Phase /\ UserOf(x) \in DOMAIN Profile \cup {"none"}
               /\ call[x].attempt \in 0..MaxAttempts - 1
               /\ call[x].corrective \in BOOLEAN
               /\ Cardinality(CardOf(x)) <= 1
    <3>1. call[x].attempt \in 0..MaxAttempts - 1 /\ call[x].corrective \in BOOLEAN
      BY DEF Inv, Counters, Question
    <3>2. CASE x = "scan"
      BY <3>1, <3>2, OneCard
         DEF Inv, ScanOK, ScanPhase, Phase, Over, PhaseOf, UserOf, CardOf
    <3>3. CASE x # "scan"
      <4>1. x \in Tap /\ TapOK(tap[x])
        BY <3>3 DEF Inv, Taps, Caller
      <4> QED
        BY <3>1, <3>3, <4>1, OneCard DEF TapOK, TapPhase, Phase, Over, PhaseOf, UserOf, CardOf
    <3> QED
      BY <3>2, <3>3
  <2>3. \A t \in Tap : tap[t].shown \subseteq Ticker
    BY DEF Inv, Taps, TapOK
  <2>4. ASSUME NEW c \in cards \cup chat
        PROVE  /\ c.action \in {"recommend", "watchlist"}
               /\ c.quantity \in Nat /\ c.confidence \in 0..100
    <3>1. PICK e : BackedBy(c, e)
      BY DEF Inv, Backing, Backed
    <3> QED
      BY <3>1 DEF BackedBy, Warrants
  <2>5. Watches(scan.watch, scan.finalists)
    BY DEF Inv, ScanOK
  <2>6. Range(scan.watch) \subseteq Range(scan.finalists)
    <3>1. DOMAIN scan.watch = 1..Len(scan.watch)
          /\ \A n \in 1..Len(scan.watch) : scan.watch[n] \in Range(scan.finalists)
      BY <2>5, LenProperties, ElementOfSeq DEF Watches
    <3> QED
      BY <3>1 DEF Range
  <2>7. IsInjective(scan.watch) /\ Len(scan.watch) <= 3
    BY <2>5 DEF Watches
  <2> QED
    BY <2>1, <2>2, <2>3, <2>4, <2>6, <2>7 DEF TypeOK
<1> QED
  BY <1>1, Invariance, PTL

\* The user is offered one ticker of a run twice only when two taps were served
\* at once or a card was received whose session rolled back
\* (alternative_recommendation_service.py: build_next).
THEOREM OfferedOnce == Spec => []RepeatsOnlyByOverlap
<1>1. Inv => RepeatsOnlyByOverlap
  <2> SUFFICES ASSUME Inv, ~overlapped, ~lost, NEW c \in chat, NEW d \in chat,
                      c.ticker = d.ticker
               PROVE  c = d
    BY DEF RepeatsOnlyByOverlap
  <2>1. ASSUME NEW e \in chat
        PROVE  \/ e \in cards
               \/ scan.phase = "sent" /\ e \in scan.card
               \/ \E t \in Tap : Served(t) /\ e \in tap[t].card
    BY DEF Inv, Received, ToCommit, Served, Over
  <2>2. scan.phase = "sent" => cards = {} /\ \A t \in Tap : ~Served(t)
    BY DEF Inv, InOrder, Served
  <2>3. AtMostOne(scan.card) /\ \A t \in Tap : AtMostOne(tap[t].card)
    BY DEF Inv, ScanOK, Taps, TapOK
  <2>4. /\ \A s, t \in Tap : Served(s) /\ Served(t) => s = t
        /\ \A t \in Tap : Served(t) => \A e \in cards : e.ticker \in tap[t].shown
        /\ \A e, f \in cards : e.ticker = f.ticker => e = f
    BY DEF Inv, Apart
  <2>5. \A t \in Tap : \A e \in tap[t].card : e.ticker \notin tap[t].shown
    BY DEF Inv, Taps, TapOK
  <2>6. ASSUME NEW e \in cards, NEW t \in Tap, Served(t), NEW f \in tap[t].card
        PROVE  e.ticker # f.ticker
    BY <2>4, <2>5, <2>6
  <2> QED
    BY <2>1, <2>2, <2>3, <2>4, <2>6 DEF AtMostOne
<1> QED
  BY <1>1, Invariance, PTL

\* No card is stronger than what the scores of its own contract, with the
\* confidence in the data, allow; its contract passed every hard veto; and the
\* model cannot have a scan send a contract with a failed reality check
\* (decide.py: validate_llm_decision, _min_band, _blocking_reality_flags).
THEOREM WarrantedByScores == Spec => []NeverStrongerThanScoring
<1>1. Inv => NeverStrongerThanScoring
  <2> SUFFICES ASSUME Inv, NEW c \in chat
               PROVE  Warranted(c, EvaluationOf(c), EvaluationOf(c).ranked[c.pick])
    BY DEF NeverStrongerThanScoring
  <2>1. PICK e : e = EvaluationOf(c)
    OBVIOUS
  <2>2. BackedBy(c, e)
    BY <2>1 DEF Inv, Backing, Backed
  <2> QED
    BY <2>1, <2>2 DEF BackedBy, Warrants, Warranted, Allowed
<1> QED
  BY <1>1, Invariance, PTL

\* What a card tells the user to buy or sell is within the limits of the
\* settings it was made for, and a scan's recommendation is for at least one
\* contract (vetoes.py, sizing.py).
THEOREM SizedWithinLimits == Spec => []SizedForItsUser
<1>1. Inv => SizedForItsUser
  BY DEF Inv, Backing, Backed, BackedBy, SizedForItsUser
<1> QED
  BY <1>1, Invariance, PTL

\* The entry of a card's plan lies between its stop and its target, and its exit
\* is a session after the scan and before the expiry (exit_target.py, vetoes.py).
THEOREM PlansFollowable == Spec => []PlansBracketEntry
<1>1. Inv => PlansBracketEntry
  BY DEF Inv, Backing, Backed, BackedBy, PlansBracketEntry
<1> QED
  BY <1>1, Invariance, PTL
=============================================================================
