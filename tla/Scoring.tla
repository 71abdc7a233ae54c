-------------------------------- MODULE Scoring --------------------------------
(***************************************************************************)
(* The structural score of a candidate: its direction, the confidence in   *)
(* its data, the score of each contract of its chain, and the action these *)
(* allow (scoring/direction.py, confidence.py, penalties.py, expiry.py,    *)
(* strike.py, strategy_select.py, contract.py, final.py).                  *)
(*                                                                         *)
(* A candidate k holds, besides what OptionPlan reads of it: named,        *)
(* asOf, latestVolume, failures (what was known of it and what failed),    *)
(* news (whether any article was found), keyValid, adjust (the snapshot's  *)
(* confidence adjustment) and the returns of the stock, SPY, QQQ and its   *)
(* sector.  A value that may be missing is in a set, {} when it is.        *)
(* Signals are in ten-thousandths.  scoring_fairness_v2 is on, as shipped. *)
(***************************************************************************)
EXTENDS OptionPlan, Sequencing

\* The value of the first row of table, a sequence of <<floor, value>>, whose
\* floor x reaches; the last floor is below every x.
Tier(x, table) == table[Min({i \in DOMAIN table : x >= table[i][1]})][2]
Lowest == -1000000
Nz(x) == Max({x, 0})

-----------------------------------------------------------------------------
(* Direction *)

DirectionWeights(source) ==
  CASE source = "catalyst" -> [trend |-> 20, relative |-> 15, volume |-> 10, earnings |-> 15,
                               event |-> 0, market |-> 10, structure |-> 10]
    [] source = "coiled"   -> [trend |-> 20, relative |-> 18, volume |-> 10, earnings |-> 0,
                               event |-> 7, market |-> 10, structure |-> 15]
    [] source = "pead"     -> [trend |-> 18, relative |-> 15, volume |-> 12, earnings |-> 8,
                               event |-> 7, market |-> 10, structure |-> 10]
    [] source = "sector"   -> [trend |-> 15, relative |-> 18, volume |-> 10, earnings |-> 0,
                               event |-> 15, market |-> 12, structure |-> 10]
    [] source = "activist" -> [trend |-> 15, relative |-> 15, volume |-> 12, earnings |-> 0,
                               event |-> 15, market |-> 10, structure |-> 13]

SignedStrength(o, threshold) == {Bound((v * 10000) \div threshold, -10000, 10000) : v \in o}

\* values and weights are sequences, values of optional signals.
WeightedMean(values, weights) ==
  LET present == {i \in DOMAIN values : values[i] # {}} IN
  IF present = {} THEN {}
  ELSE {MapThenSumSet(LAMBDA i : weights[i] * (CHOOSE v \in values[i] : TRUE), present)
        \div MapThenSumSet(LAMBDA i : weights[i], present)}
Mean(values) == WeightedMean(values, [i \in DOMAIN values |-> 1])

TrendSignal(k) ==
  WeightedMean(<<SignedStrength(k.returns.one, 200), SignedStrength(k.returns.five, 400),
                 SignedStrength(k.returns.twenty, 800), SignedStrength(k.returns.fifty, 1500)>>,
               <<1, 3, 3, 2>>)
RelativeStrengthSignal(k) ==
  Mean(<<SignedStrength(k.relative.spy, 300), SignedStrength(k.relative.qqq, 300),
         SignedStrength(k.relative.sector, 300)>>)
\* A one-day return of zero is taken as missing.
VolumeSignal(k) ==
  LET moved == IF k.returns.one \in {{}, {0}} THEN k.returns.five ELSE k.returns.one IN
  {IF p < 0 THEN p \div 2 ELSE (m * p) \div 10000 :
     m \in SignedStrength(moved, 200),
     p \in SignedStrength({r - 10000 : r \in k.volumeRatio}, 3500)}
EventSignal(k) ==
  {100 * Bound(e.score, 0, 100) * (IF e.supportive THEN 1 ELSE -1) : e \in k.event}
MarketSignal(k) ==
  Mean(<<SignedStrength(k.spy, 200), SignedStrength(k.qqq, 250), SignedStrength(k.sector, 250)>>)
PriceStructureSignal(k) ==
  LET seen == {r \in DOMAIN k.returns : k.returns[r] # {}}
      Value(r) == CHOOSE v \in k.returns[r] : TRUE
      Sign(x) == IF x > 0 THEN 1 ELSE IF x < 0 THEN -1 ELSE 0
      dominant == MapThenSumSet(LAMBDA r : Sign(Value(r)), seen)
      total == MapThenSumSet(LAMBDA r : Distance(Value(r), 0), seen)
  IN IF seen = {} THEN {}
     ELSE {(dominant * Min({10000, 5 * total})) \div Cardinality(seen)}

\* No context of a scan has a previous earnings move.
Signals(k) ==
  [trend |-> TrendSignal(k), relative |-> RelativeStrengthSignal(k), volume |-> VolumeSignal(k),
   earnings |-> {0}, event |-> EventSignal(k), market |-> MarketSignal(k),
   structure |-> PriceStructureSignal(k)]

FactorPoints(signal, weight, polarity) ==
  IF signal = {} THEN HalfUp(45 * weight, 100)
  ELSE HalfUp(weight * ((CHOOSE s \in signal : TRUE) * polarity + 10000), 20000)

\* The direction, from the confidence in the data before a contract is chosen.
Directed(k, confidence, weights, signals) ==
  LET names == DOMAIN weights
      signed == MapThenSumSet(LAMBDA n : weights[n] * (CHOOSE s \in signals[n] : TRUE),
                              {n \in names : signals[n] # {}})
      bar == 1200 * MapThenSumSet(LAMBDA n : weights[n], names)
      class == IF k.price = None \/ confidence < 40 THEN "avoid"
               ELSE IF signed >= bar THEN "bullish"
               ELSE IF signed <= -bar THEN "bearish" ELSE "neutral"
      points == MapThenSumSet(LAMBDA n : FactorPoints(signals[n], weights[n],
                                                      IF signed < 0 THEN -1 ELSE 1), names)
                + Tier(confidence, <<<<85, 5>>, <<70, 4>>, <<55, 3>>, <<40, 2>>, <<Lowest, 0>>>>)
  IN [class |-> class,
      score |-> Bound(IF class = "neutral" THEN Min({points, 54}) ELSE points, 0, 100)]

ScoreDirection(k, confidence) == Directed(k, confidence, DirectionWeights(k.source), Signals(k))

-----------------------------------------------------------------------------
(* Confidence in the data *)

ConfidenceWeights(source) ==
  CASE source = "catalyst" -> [identity |-> 13, earnings |-> 25, event |-> 0, market |-> 20,
                               options |-> 22, sources |-> 10, calculation |-> 7]
    [] source = "pead" -> [identity |-> 13, earnings |-> 20, event |-> 5, market |-> 22,
                           options |-> 22, sources |-> 10, calculation |-> 5]
    [] source \in {"coiled", "sector"} ->
         [identity |-> 13, earnings |-> 0, event |-> 20, market |-> 25,
          options |-> 22, sources |-> 10, calculation |-> 7]
    [] source = "activist" -> [identity |-> 13, earnings |-> 0, event |-> 20, market |-> 22,
                               options |-> 22, sources |-> 10, calculation |-> 10]

Completeness(c) ==
  (IF c.bid # None \/ c.ask # None \/ c.mid # None THEN 4 ELSE 0)
  + (IF c.volume # None THEN 2 ELSE 0) + (IF c.oi # None THEN 2 ELSE 0)
  + (IF c.iv # None THEN 1 ELSE 0) + (IF c.delta # None THEN 1 ELSE 0)

\* The first of the indexes I of a chain whose key is the greatest.
FirstBest(I, key(_)) == Min({i \in I : \A j \in I : key(j) <= key(i)})

OptionsScore(c, selected) ==
  Bound(12 + (IF OptionPremium(c) # None THEN 4 ELSE 0)
        + (IF c.volume # None \/ c.oi # None THEN 2 ELSE 0)
        + (IF c.delta # None \/ c.iv # None THEN 2 ELSE -4)
        - (IF selected /\ \E s \in SpreadPercent(c) : s > 2500 THEN 2 ELSE 0)
        - (IF selected /\ c.yfinance THEN 2 ELSE 0), 0, 20)

\* chosen is in {} or the contract that was selected.
OptionsDataScore(k, chosen) ==
  IF k.chain = << >> THEN 0
  ELSE IF chosen # {} THEN OptionsScore(CHOOSE c \in chosen : TRUE, TRUE)
  ELSE OptionsScore(k.chain[FirstBest(DOMAIN k.chain, LAMBDA i : Completeness(k.chain[i]))], FALSE)

DataConfidence(k, chosen) ==
  LET w == ConfidenceWeights(k.source)
      earnings == IF k.earnings = NoDay
                  THEN (IF k.source \in NoEarningsRequired THEN 20 ELSE 0)
                  ELSE IF k.verified THEN 20 ELSE 12
      event == {HalfEven(20 * Bound(e.score, 0, 100), 100) : e \in k.event}
      market == IF k.price = None THEN 0 ELSE IF ~k.asOf THEN 10
                ELSE IF ~k.latestVolume THEN 12 ELSE 15
      sixtieths == 4 * w.identity * (IF k.named THEN 15 ELSE 8)
                   + 3 * w.earnings * earnings
                   + 3 * w.event * (IF event = {} THEN 0 ELSE CHOOSE e \in event : TRUE)
                   + 4 * w.market * market + 3 * w.options * OptionsDataScore(k, chosen)
                   + 60 * w.sources
                   + 6 * w.calculation * (IF k.failures = {} THEN 10 ELSE 4)
  IN Bound(HalfEven(sixtieths, 60) + k.adjust, 0, 100)

\* What forbids a trade whatever its score.
Blocked(k, u) ==
  \/ k.earnings = NoDay /\ k.source \notin NoEarningsRequired
  \/ k.earnings # NoDay /\ ~k.verified
  \/ k.price = None \/ u.account <= 0 \/ ~k.keyValid

-----------------------------------------------------------------------------
(* The score of a contract *)

LiquidityQuality(c) ==
  Bound(Tier(Nz(c.oi), <<<<100, 35>>, <<50, 25>>, <<1, 10>>, <<0, 0>>>>)
        + Tier(Nz(c.volume), <<<<25, 30>>, <<20, 24>>, <<1, 10>>, <<0, 0>>>>)
        + (IF SpreadPercent(c) = {} THEN (IF OptionPremium(c) > 0 THEN 15 ELSE 0)
           ELSE LET s == CHOOSE x \in SpreadPercent(c) : TRUE IN
                Tier(-s, <<<<-1500, 35>>, <<-2500, 25>>, <<-3500, 10>>, <<Lowest, 0>>>>)),
        0, 100)

\* Preferences for a number of days, in hundredths, after the earnings or,
\* without earnings, until the expiry.
DaysPreference(k, days, long) ==
  IF k.earnings = NoDay
  THEN IF days \in 7..30 THEN 100
       ELSE IF days \in 31..45 \cup (IF long THEN 3..6 ELSE 1..6) THEN 65 ELSE 40
  ELSE IF long
  THEN IF days \in 3..21 THEN 100 ELSE IF days \in 1..2 \cup 22..30 THEN 65 ELSE 0
  ELSE Tier(-days, <<<<-14, 100>>, <<-21, 70>>, <<-30, 40>>, <<Lowest, 0>>>>)
RiskPreference(days, risk) ==
  CASE risk = "Aggressive" -> Tier(-days, <<<<-7, 100>>, <<-14, 75>>, <<Lowest, 45>>>>)
    [] risk = "Conservative" ->
         IF days \in 14..30 THEN 100 ELSE IF days \in 8..13 THEN 70 ELSE 40
    [] risk = "Balanced" ->
         IF days \in 3..21 THEN 100 ELSE IF days \in 0..2 \cup 22..30 THEN 65 ELSE 40

ScoreExpiryFit(k, u, c) ==
  LET days == IF k.earnings = NoDay THEN Max({c.expiry - k.today, 1}) ELSE c.expiry - k.earnings
  IN IF ~IsValidExpiry(k, c.expiry) THEN 0
     ELSE HalfUp(15 * (65 * DaysPreference(k, days, c.side = "long")
                       + 35 * RiskPreference(days, u.risk)), 10000)

ContextMove(k, plan) ==
  LET moves == {p.move : p \in plan} \ {None, 0} IN
  IF moves # {} THEN moves ELSE {k.expectedMove} \ {None, 0}

ScoreBreakeven(k, c, plan) ==
  LET move == ContextMove(k, plan)
      needed == BreakevenMove(c, k.price)
      Need == CHOOSE n \in needed : TRUE
      buffer == (10000 * Max({0, IF c.type = "put" THEN k.price - Breakeven(c)
                                                 ELSE Breakeven(c) - k.price})) \div k.price
      Percent(m, n) == (100 * m) \div Max({n, 1})
      unit == IF c.side = "long"
              THEN IF move = {}
                   THEN Tier(-Need, <<<<-300, 90>>, <<-600, 70>>, <<-1000, 50>>, <<Lowest, 25>>>>)
                   ELSE Tier(Percent(CHOOSE m \in move : TRUE, Need),
                             <<<<125, 100>>, <<100, 80>>, <<85, 60>>, <<70, 40>>, <<0, 20>>>>)
              ELSE IF move = {} THEN (IF buffer >= 400 THEN 100 ELSE 55)
                   ELSE Tier(Percent(buffer, CHOOSE m \in move : TRUE),
                             <<<<120, 100>>, <<100, 80>>, <<85, 60>>, <<0, 30>>>>)
  IN IF needed = {} THEN 0 ELSE HalfUp(20 * unit, 100)

ScoreStrikeFit(c, price) ==
  LET away == (Distance(c.strike, price) * 10000) \div price
      otm == (10000 * Max({0, IF c.type = "put" THEN price - c.strike
                                                ELSE c.strike - price})) \div price
      Within(x, inner, outer, low) == IF x \in inner THEN 15 ELSE IF x \in outer THEN 11 ELSE low
  IN IF c.delta # None
     THEN IF c.side = "long" THEN Within(c.delta, 30..70, 20..80, 5)
                             ELSE Within(c.delta, 15..40, 10..50, 5)
     ELSE IF c.side = "long" THEN Within(away, 0..500, 0..1000, 4)
                             ELSE Within(otm, 200..800, 100..1200, 4)

ScoreIvSetup(c) ==
  IF c.iv = None THEN 8
  ELSE IF c.side = "long"
  THEN Tier(-c.iv, <<<<-4000, 15>>, <<-6000, 12>>, <<-8000, 8>>, <<Lowest, 4>>>>)
  ELSE Tier(c.iv, <<<<6000, 15>>, <<4500, 12>>, <<3000, 8>>, <<0, 4>>>>)

ScorePremiumFit(u, c, underlying) ==
  LET quantity == Size(u, c, underlying)
      price == OptionPremium(c)
      budget == u.account * RiskPercent(u)
  IN IF quantity = {} THEN 0
     ELSE IF quantity # {0} THEN 10
     ELSE IF \/ c.side = "short"
             \/ u.maxPremium # None /\ price > u.maxPremium THEN 0
     ELSE IF 10000 * price <= budget + budget \div 4 THEN 6
     ELSE IF 10000 * price <= budget + budget \div 2 THEN 3 ELSE 0

ScoreDirectionFit(d) ==
  CASE d.class = "neutral" -> 3
    [] d.class = "avoid" -> 0
    [] OTHER -> Tier(d.score, <<<<80, 10>>, <<68, 8>>, <<55, 6>>, <<0, 4>>>>)

SoftPenalties(k, u, c, d) ==
  LET sector == {IF d.class = "bearish" THEN -s ELSE s : s \in k.sector}
      fit == ScoreExpiryFit(k, u, c)
      spread == IF SpreadPercent(c) # {}
                THEN LET s == CHOOSE x \in SpreadPercent(c) : TRUE IN
                     IF s \in 2501..3500 THEN 12 ELSE IF s > 1500 THEN 5 ELSE 0
                ELSE IF c.bid # None /\ c.ask # None
                        /\ c.ask - c.bid > PreferredAbsoluteSpreadLimit(OptionPremium(c))
                     THEN 5 ELSE 0
      iv == IF c.iv = None THEN 0
            ELSE IF c.side = "long" THEN Tier(c.iv, <<<<8000, 15>>, <<6000, 5>>, <<0, 0>>>>)
            ELSE Tier(c.iv, <<<<4500, 0>>, <<3000, 5>>, <<0, 10>>>>)
  IN (IF \E s \in sector : s <= -300 THEN 8 ELSE IF \E s \in sector : s < 0 THEN 3 ELSE 0)
     + (IF Nz(c.volume) < 20 /\ Nz(c.oi) >= 50 THEN 5 ELSE 0)
     + spread + iv
     + (IF fit \in 1..6 THEN 8 ELSE IF fit \in 7..9 THEN 3 ELSE 0)

BaseScore(k, u, c, d, plan) ==
  ScoreBreakeven(k, c, plan) + HalfUp(15 * LiquidityQuality(c), 100)
  + ScoreExpiryFit(k, u, c) + ScoreStrikeFit(c, k.price) + ScoreIvSetup(c)
  + ScorePremiumFit(u, c, k.price) + ScoreDirectionFit(d)

ScorePlanned(k, u, c, d, plan, reality) ==
  LET vetoed == HardVeto(k, u, c, plan, reality) IN
  [contract |-> c, plan |-> plan, flags |-> reality.flags, dte |-> reality.dte,
   vetoed |-> vetoed, liquidity |-> LiquidityQuality(c),
   score |-> IF vetoed THEN 0
             ELSE Bound(BaseScore(k, u, c, d, plan) - SoftPenalties(k, u, c, d), 0, 100)]

ScoreWithPlan(k, u, c, d, plan) == ScorePlanned(k, u, c, d, plan, OptionReality(k, c, plan))
ScoreContract(k, u, c, d) == ScoreWithPlan(k, u, c, d, ExitPlan(k, c, d.score))

Viable(r) == ~r.vetoed /\ r.score > 0

-----------------------------------------------------------------------------
(* Which contracts are considered: strategies in order of preference, each  *)
(* expiry in the order of the chain, six categories of strikes.             *)

MedianIv(chain, strategies) ==
  LET I == {i \in DOMAIN chain : Strategy(chain[i]) \in strategies /\ chain[i].iv # None}
      sorted == Ordered(I, LAMBDA i, j : chain[i].iv < chain[j].iv
                                              \/ (chain[i].iv = chain[j].iv /\ i < j))
      n == Len(sorted)
  IN IF n = 0 THEN None
     ELSE IF n % 2 = 1 THEN chain[sorted[n \div 2 + 1]].iv
     ELSE (chain[sorted[n \div 2]].iv + chain[sorted[n \div 2 + 1]].iv) \div 2

AllowedStrategies(d, u, chain) ==
  LET mapped == CASE d.class = "bullish" -> <<"long_call", "short_put">>
                  [] d.class = "bearish" -> <<"long_put", "short_call">>
                  [] OTHER -> << >>
      allowed == SelectSeq(mapped, LAMBDA s : u.permission = "both"
                             \/ u.permission = (IF s \in {"long_call", "long_put"}
                                                THEN "long" ELSE "short"))
      rich == MedianIv(chain, Range(allowed)) >= 6000 /\ d.score < 80
  IN IF Len(allowed) = 2 /\ rich THEN Reverse(allowed) ELSE allowed

WithoutRepeats(s) ==
  LET first == {n \in DOMAIN s : \A m \in 1..n - 1 : s[m] # s[n]} IN
  [n \in 1..Cardinality(first) |-> s[CHOOSE m \in first : Cardinality(first \cap 1..m) = n]]

\* The indexes of a chain picked among I, in the order of the categories.
StrikeCandidates(chain, I, price) ==
  LET Away(i) == (Distance(chain[i].strike, price) * 10000) \div price
      Itm(i) == Away(i) > 200 /\ (chain[i].type = "call") = (chain[i].strike < price)
      Otm(i) == Away(i) > 200 /\ ~Itm(i)
      Nearest(J) == IF J = {} THEN << >> ELSE <<FirstBest(J, LAMBDA i : -Away(i))>>
      Liquidity(i) == 60 * Nz(chain[i].oi) + 40 * Nz(chain[i].volume)
                      - (IF SpreadPercent(chain[i]) = {} THEN 0
                         ELSE CHOOSE s \in SpreadPercent(chain[i]) : TRUE)
      \* A move of zero counts as a move of 100%.
      Needed(i) == LET m == BreakevenMove(chain[i], price) IN
                   IF m \in {{}, {0}} THEN 10000 ELSE CHOOSE n \in m : TRUE
      Safety(i) == LET m == BreakevenMove(chain[i], price) IN
                   IF m = {} THEN 0 ELSE CHOOSE n \in m : TRUE
      long == \A i \in I : chain[i].side = "long"
      \* 12% itself is out: the code compares it with a float just below.
  IN WithoutRepeats(
       Nearest({i \in I : Away(i) <= 200})
       \o Nearest({i \in I : Itm(i) /\ Away(i) <= 500})
       \o Nearest({i \in I : Otm(i) /\ Away(i) <= 500})
       \o Nearest({i \in I : Otm(i) /\ Away(i) \in 501..1199})
       \o <<FirstBest(I, Liquidity)>>
       \o <<FirstBest(I, LAMBDA i : IF long THEN -Needed(i) ELSE Safety(i))>>)

\* All of them, in the order in which they are scored.
ConsideredOf(k, order) ==
  LET Of(s) == {i \in DOMAIN k.chain : Strategy(k.chain[i]) = s}
      Firsts(s) == Ordered({i \in Of(s) : \A j \in Of(s) :
                                   k.chain[j].expiry = k.chain[i].expiry => i <= j}, <)
      Of2(s, f) == {i \in Of(s) : k.chain[i].expiry = k.chain[f].expiry}
  IN FlattenSeq([n \in DOMAIN order |->
       FlattenSeq([m \in DOMAIN Firsts(order[n]) |->
         StrikeCandidates(k.chain, Of2(order[n], Firsts(order[n])[m]), k.price)])])

Considered(k, u, d) ==
  IF k.price <= 0 THEN << >> ELSE ConsideredOf(k, AllowedStrategies(d, u, k.chain))

ScoredContracts(k, u, d, considered) ==
  [n \in DOMAIN considered |-> ScoreContract(k, u, k.chain[considered[n]], d)]

\* Sorted by score, then liquidity, then the days after the earnings, ascending.
RankedContracts(k, u, d) ==
  LET Days(r) == IF k.earnings = NoDay THEN 0 ELSE r.contract.expiry - k.earnings IN
  Descending(ScoredContracts(k, u, d, Considered(k, u, d)),
             LAMBDA r : 100000 * r.score + 100 * r.liquidity - Days(r))

-----------------------------------------------------------------------------
(* The candidate *)

CombineScores(direction, contract) == Bound(HalfEven(45 * direction + 55 * contract, 100), 0, 100)

\* chosen is in {}, or a scored contract.
FinalAction(final, confidence, blocked, chosen, direction) ==
  IF chosen = {} \/ blocked \/ confidence < 40 THEN "no_trade"
  ELSE IF confidence < 55 THEN (IF final >= 60 THEN "watchlist" ELSE "no_trade")
  ELSE IF final < 60 THEN "no_trade"
  ELSE IF \/ final < 68 \/ direction < 55
          \/ \E r \in chosen :
               \/ r.score < 60
               \/ Strategy(r.contract) = "short_call" /\ (direction < 65 \/ confidence < 60)
       THEN "watchlist"
  ELSE "recommend"

\* pick: the index of the chosen contract in ranked, 0 when there is none.
Judged(k, u, d, ranked) ==
  LET viable == {n \in DOMAIN ranked : Viable(ranked[n])}
      chosen == IF viable = {} THEN {} ELSE {ranked[Min(viable)]}
      confidence == DataConfidence(k, {r.contract : r \in chosen})
      final == IF chosen = {} THEN 0
               ELSE CombineScores(d.score, (CHOOSE r \in chosen : TRUE).score)
      action == FinalAction(final, confidence, Blocked(k, u), chosen, d.score)
  IN [direction |-> d.score, confidence |-> confidence, blocked |-> Blocked(k, u),
      ranked |-> ranked, pick |-> IF viable = {} THEN 0 ELSE Min(viable), final |-> final,
      action |-> IF action = "recommend" /\ k.source \in NoEarningsRequired /\ ~k.news
                 THEN "watchlist" ELSE action]

ScoreTowards(k, u, d) == Judged(k, u, d, RankedContracts(k, u, d))
ScoreCandidate(k, u) == ScoreTowards(k, u, ScoreDirection(k, DataConfidence(k, {})))
=============================================================================
