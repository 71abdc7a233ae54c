------------------------------ MODULE OptionPlan ------------------------------
(***************************************************************************)
(* One option contract seen by the program: its quote, its size, its exit  *)
(* plan, the reality check of that plan and the hard vetoes                *)
(* (scoring/types.py, services/sizing.py, services/exit_target.py,         *)
(* scoring/probability.py, scoring/strategy_policy.py, scoring/vetoes.py). *)
(*                                                                         *)
(* Units: prices are in cents, so that a premium in cents is the price of  *)
(* a contract of 100 shares in dollars; accounts are in dollars; iv, moves *)
(* and risk are in basis points; deltas and required sigmas in hundredths. *)
(* bid + ask of a quote is even, so that a mid is a whole number of cents. *)
(***************************************************************************)
EXTENDS MarketCalendar

None == -1
Source == {"catalyst", "pead", "coiled", "sector", "activist"}
NoEarningsRequired == {"coiled", "sector", "activist"}

Bound(x, low, high) == Max({low, Min({high, x})})
HalfEven(n, d) ==
  LET q == n \div d IN
  IF 2 * (n % d) + (q % 2) > d THEN q + 1 ELSE q
HalfUp(n, d) == (2 * n + d) \div (2 * d)
Distance(a, b) == IF a > b THEN a - b ELSE b - a

\* Square roots in thousandths: of days/252, and of a ratio of days.
Root(n, d) == CHOOSE r \in 0..1000 : r * r * d <= n * 1000000
                                     /\ (r + 1) * (r + 1) * d > n * 1000000
RootOfYear == [n \in 1..45 |-> Root(n, 252)]

-----------------------------------------------------------------------------
(* Quotes *)

Strategy(c) == CASE c.side = "long" -> (IF c.type = "call" THEN "long_call" ELSE "long_put")
                 [] c.side = "short" -> (IF c.type = "put" THEN "short_put" ELSE "short_call")

OptionMid(c) ==
  IF c.mid > 0 THEN c.mid
  ELSE IF c.bid >= 0 /\ c.ask >= 0 THEN (c.bid + c.ask) \div 2
  ELSE IF c.ask > 0 THEN c.ask
  ELSE IF c.bid > 0 THEN c.bid ELSE None

\* The side of the quote the user trades at.
Taken(c) == IF c.side = "long" THEN c.ask ELSE c.bid
OptionPremium(c) == IF Taken(c) > 0 THEN Taken(c) ELSE OptionMid(c)

\* The spread in basis points of the mid, in {} when there is none.
SpreadPercent(c) ==
  IF c.bid = None \/ c.ask = None \/ OptionMid(c) <= 0 THEN {}
  ELSE {((c.ask - c.bid) * 10000) \div OptionMid(c)}
PreferredAbsoluteSpreadLimit(premium) ==
  IF premium < 50 THEN 10 ELSE IF premium <= 200 THEN 25 ELSE 50

Breakeven(c) == IF c.type = "call" THEN c.strike + OptionPremium(c)
                                   ELSE c.strike - OptionPremium(c)
BreakevenMove(c, price) ==
  IF OptionPremium(c) = None THEN {} ELSE {(Distance(Breakeven(c), price) * 10000) \div price}

-----------------------------------------------------------------------------
(* Sizing *)

RiskPercent(u) ==
  IF u.custom > 0 THEN u.custom
  ELSE [Conservative |-> 100, Balanced |-> 200, Aggressive |-> 400][u.risk]
\* In hundredths of a dollar.
MaxShortNotional(u) ==
  u.account * [Conservative |-> 10, Balanced |-> 20, Aggressive |-> 35][u.risk]

\* In tenths of a dollar per contract; underlying is a price in cents.
UncoveredCallMargin(c, underlying) ==
  IF underlying <= 0 \/ OptionPremium(c) <= 0 THEN None
  ELSE Max({10 * OptionPremium(c) + 2 * underlying - 10 * Max({c.strike - underlying, 0}),
            10 * OptionPremium(c) + underlying})

\* How many contracts the risk settings have room for.
ShortRoom(u, c, underlying) ==
  IF Strategy(c) = "short_put" THEN MaxShortNotional(u) \div (100 * c.strike)
  ELSE MaxShortNotional(u) \div (10 * UncoveredCallMargin(c, underlying))
LongRoom(u, price) == (u.account * RiskPercent(u)) \div (price * 10000)

\* Mutant of BoundedQuantity: the user's maximal number is not looked at.
BoundedQuantityByRisk(u, room) == Max({0, room})

BoundedQuantity(u, room) ==
  IF room <= 0 \/ u.maxContracts <= 0 THEN 0 ELSE Min({room, u.maxContracts})

EstimateMaxContracts(u, c, underlying) ==
  IF \/ u.account <= 0
     \/ c.side = "long" /\ OptionPremium(c) <= 0
     \/ c.side = "long" /\ u.maxPremium # None /\ OptionPremium(c) > u.maxPremium
     \/ Strategy(c) = "short_call" /\ UncoveredCallMargin(c, underlying) = None
  THEN 0
  ELSE BoundedQuantity(u, IF c.side = "long" THEN LongRoom(u, OptionPremium(c))
                                             ELSE ShortRoom(u, c, underlying))

Permits(u, side) == u.permission \in {side, "both"}

\* services/sizing.size: {} when it raises, else the quantity.
Size(u, c, underlying) ==
  IF \/ ~Permits(u, c.side)
     \/ c.side = "long" /\ c.ask <= 0
     \/ Strategy(c) = "short_call" /\ UncoveredCallMargin(c, underlying) = None
  THEN {}
  ELSE {IF c.side = "short" THEN BoundedQuantity(u, ShortRoom(u, c, underlying))
        ELSE IF u.maxPremium # None /\ c.ask > u.maxPremium THEN 0
        ELSE BoundedQuantity(u, LongRoom(u, c.ask))}

-----------------------------------------------------------------------------
(* The trade policy of each strategy (touch: the required sigma, in         *)
(* hundredths, from which the probability of a touch is below the floor:    *)
(* 2(1 - Phi(1.29)) < 0.20 and 2(1 - Phi(0.94)) < 0.35).                    *)

CatalystPolicy == [minDte |-> 3, maxDte |-> 30, minExit |-> 1, sigma |-> 135, touch |-> 129,
                   weeklies |-> TRUE, spread |-> 3500, rewardRisk |-> 50, volume |-> 1, oi |-> 1]
StructuralPolicy == [minDte |-> 14, maxDte |-> 45, minExit |-> 4, sigma |-> 100, touch |-> 94,
                     weeklies |-> FALSE, spread |-> 3000, rewardRisk |-> 80,
                     volume |-> 5, oi |-> 10]
TradePolicy(source) ==
  CASE source = "catalyst" -> CatalystPolicy
    [] source = "pead" -> [StructuralPolicy EXCEPT !.maxDte = 35]
    [] source \in NoEarningsRequired -> StructuralPolicy

-----------------------------------------------------------------------------
(* The exit plan.  k is the candidate, score its direction score; a plan is *)
(* in a set that is {} when no realistic one exists.                        *)

EventWithin(k, from, to) == k.earnings # NoDay /\ from <= k.earnings /\ k.earnings <= to

PlannedExit(k, expiry) ==
  LET safe  == PreviousOrSame(expiry - 5)
      event == PreviousOrSame(k.earnings)
      week  == PreviousOrSame(k.today + 7)
  IN IF safe <= k.today THEN Max({PreviousSession(expiry), k.today})
     ELSE IF EventWithin(k, k.today, expiry) /\ event > k.today THEN Min({event, safe})
     ELSE IF week <= k.today THEN safe ELSE Min({week, safe})

Sessions(from, to) == Cardinality(SessionsAfterUntil(from, to))

\* The move expected until the exit, in basis points, or None.
ExpectedMoveFraction(k, c, days) ==
  IF days <= 0 THEN 0
  ELSE IF c.iv > 0 THEN HalfEven(c.iv * RootOfYear[days], 1000)
  ELSE IF k.expectedMove <= 0 THEN None
  ELSE LET dte == Sessions(k.today, c.expiry) IN
       IF dte <= 0 THEN k.expectedMove ELSE HalfEven(k.expectedMove * Root(days, dte), 1000)

ConvictionFraction(k, score) ==
  LET full == IF score >= 75 THEN 100 ELSE IF score >= 60 THEN 65 ELSE 40 IN
  IF k.source \in NoEarningsRequired /\ k.earnings = NoDay THEN Min({full, 75}) ELSE full

Delta(c) == IF c.type = "call" THEN c.delta ELSE -c.delta
Intrinsic(c, price) == Max({0, IF c.type = "call" THEN price - c.strike ELSE c.strike - price})

\* The option's price when the stock has made its move.  c.greeks is {} or holds
\* gamma (thousandths), theta and vega (cents) and reprice, 95% of the option's
\* Black-Scholes value at the target, None when that is not positive.
FullGreeksTarget(c, g, move, days, event) ==
  LET taylor == OptionMid(c) + HalfEven(Delta(c) * move, 100)
                + (g.gamma * move * move) \div 200000
                + g.theta * Max({1, Min({days, 2})})
                - (IF event THEN (g.vega * c.iv) \div 40000 ELSE 0)
  IN IF g.reprice > 0 THEN Min({taylor, g.reprice}) ELSE taylor
DeltaTarget(c, move, event) ==
  OptionMid(c) + HalfEven(Delta(c) * move * (IF event THEN 75 ELSE 100), 10000)
IntrinsicTarget(c, price, move, event) ==
  Intrinsic(c, price + move)
  + HalfEven(Max({0, OptionMid(c) - Intrinsic(c, price)}) * (IF event THEN 50 ELSE 75), 100)

TargetOptionPrice(k, c, move, days, event) ==
  Max({1, IF c.delta # None /\ c.iv # None /\ c.greeks # {}
          THEN FullGreeksTarget(c, CHOOSE g \in c.greeks : TRUE, move, days, event)
          ELSE IF c.delta # None THEN DeltaTarget(c, move, event)
          ELSE IntrinsicTarget(c, k.price, move, event)})

LongPlanBy(k, c, score, exit, days, fraction) ==
  LET size == HalfEven(((k.price * fraction) \div 100) * ConvictionFraction(k, score), 10000)
      stock == IF c.type = "call" THEN k.price + size ELSE Max({1, k.price - size})
      entry == OptionPremium(c)
      target == TargetOptionPrice(k, c, stock - k.price, days,
                                  EventWithin(k, k.today, c.expiry))
  IN IF fraction <= 0 \/ 100 * target < 108 * entry THEN {}
     ELSE {[stock |-> stock, option |-> Max({target, HalfEven(120 * entry, 100)}),
            stop |-> Max({1, HalfEven(entry, 2)}), underlyingStop |-> None,
            exit |-> exit, days |-> days, move |-> fraction]}
LongPlanOver(k, c, score, exit, days) ==
  LongPlanBy(k, c, score, exit, days, ExpectedMoveFraction(k, c, days))
LongPlanUntil(k, c, score, exit) ==
  LongPlanOver(k, c, score, exit, Sessions(k.today, exit))
LongPlan(k, c, score) == LongPlanUntil(k, c, score, PlannedExit(k, c.expiry))

ShortPlan(k, c) ==
  LET exit == PlannedExit(k, c.expiry)
      credit == OptionPremium(c)
      wall == HalfEven(102 * c.strike, 100)
      isCall == Strategy(c) = "short_call"
      delta == IF c.delta = None THEN 30 ELSE c.delta
  IN {[stock |-> None, option |-> Max({1, HalfEven(credit, 2)}),
       stop |-> IF isCall THEN OptionMid(c) + HalfEven(delta * Max({wall - k.price, 0}), 100)
                        ELSE 3 * credit,
       underlyingStop |-> IF isCall THEN wall ELSE None,
       exit |-> exit, days |-> Sessions(k.today, exit), move |-> None]}

\* Mutant of ExitPlan: an option sold is planned like one bought.
ExitPlanAsBought(k, c, score) ==
  IF k.price <= 0 \/ OptionMid(c) <= 0 \/ OptionPremium(c) <= 0 \/ c.expiry <= k.today THEN {}
  ELSE LongPlan(k, c, score)

ExitPlan(k, c, score) ==
  IF k.price <= 0 \/ OptionMid(c) <= 0 \/ OptionPremium(c) <= 0 \/ c.expiry <= k.today THEN {}
  ELSE IF c.side = "short" THEN ShortPlan(k, c) ELSE LongPlan(k, c, score)

-----------------------------------------------------------------------------
(* The reality check *)

SigmaPercent(c, days) == IF c.iv <= 0 THEN None ELSE (c.iv * RootOfYear[Max({days, 1})]) \div 1000
RequiredSigma(price, target, sigma) ==
  IF price <= 0 \/ target <= 0 \/ sigma <= 0 THEN {}
  ELSE {HalfEven(100 * ((Distance(target, price) * 10000) \div price), sigma)}

NamedCatalyst(k, exit) ==
  \/ EventWithin(k, k.today, exit)
  \/ /\ k.source \in {"catalyst", "pead", "activist"}
     /\ \E e \in k.event : e.supportive

IsLongOtm(c, price) ==
  /\ c.side = "long" /\ price > 0
  /\ IF c.type = "call" THEN c.strike > price ELSE c.strike < price

\* Without a usable plan the check runs on the day of the scan.
OptionReality(k, c, plan) ==
  LET exit == IF plan = {} THEN k.today ELSE (CHOOSE p \in plan : TRUE).exit
      days == Sessions(k.today, exit)
      sigma == SigmaPercent(c, days)
      target == IF plan = {} THEN None ELSE (CHOOSE p \in plan : TRUE).stock
      dte == Max({c.expiry - k.today, 0})
      named == NamedCatalyst(k, exit)
      toTarget == RequiredSigma(k.price, target, sigma)
      toBreakeven == IF OptionPremium(c) = None THEN {}
                     ELSE RequiredSigma(k.price, Breakeven(c), sigma)
      structural == ~named /\ k.source \in NoEarningsRequired
  IN [exit |-> exit, days |-> days, dte |-> dte, named |-> named, toTarget |-> toTarget,
      flags |->
        {f \in {"invalid_exit_session", "no_actionable_exit_window", "weekly_otm_no_catalyst",
                "too_few_exit_sessions_no_catalyst", "target_unreachable_by_exit",
                "low_pot_no_catalyst", "breakeven_outside_exit_move"} :
          CASE f = "invalid_exit_session" -> ~IsTradingSession(exit)
            [] f = "no_actionable_exit_window" -> days <= 0
            [] f = "weekly_otm_no_catalyst" -> ~named /\ dte < 10 /\ IsLongOtm(c, k.price)
            [] f = "too_few_exit_sessions_no_catalyst" -> ~named /\ c.side = "long" /\ days < 3
            [] f = "target_unreachable_by_exit" -> structural /\ \E s \in toTarget : s > 100
            [] f = "low_pot_no_catalyst" -> structural /\ \E s \in toTarget : s >= 94
            [] f = "breakeven_outside_exit_move" -> structural /\ \E s \in toBreakeven : s > 100}]

-----------------------------------------------------------------------------
(* Hard vetoes *)

\* Every context of a scan has the timing "unknown", so that an expiry on the
\* day of the earnings is invalid.
IsValidExpiry(k, expiry) ==
  IF k.earnings = NoDay THEN k.today < expiry /\ expiry <= k.today + 45
  ELSE k.earnings < expiry /\ expiry <= k.earnings + 30

CandidateVeto(k) ==
  \/ k.earnings = NoDay /\ k.source \notin NoEarningsRequired
  \/ k.earnings # NoDay /\ ~k.verified
  \/ k.price = None \/ k.chain = << >>

QuoteVeto(k, c) ==
  \/ Taken(c) <= 0
  \/ Max({c.oi, 0}) = 0 /\ Max({c.volume, 0}) = 0
  \/ c.stale
  \/ \E s \in SpreadPercent(c) :
       \/ s > TradePolicy(k.source).spread
       \/ /\ s > 3500
          /\ \/ OptionPremium(c) >= 50
             \/ c.ask - c.bid > PreferredAbsoluteSpreadLimit(OptionPremium(c))

WindowVeto(k, c) ==
  LET dte == Max({c.expiry - k.today, 0}) IN
  \/ ~IsValidExpiry(k, c.expiry)
  \/ dte < TradePolicy(k.source).minDte \/ dte > TradePolicy(k.source).maxDte

RealityVeto(k, r) ==
  LET policy == TradePolicy(k.source) IN
  \/ r.days < policy.minExit
  \/ \E s \in r.toTarget : s > policy.sigma \/ s >= policy.touch
  \/ ~policy.weeklies /\ ~r.named /\ "weekly_otm_no_catalyst" \in r.flags
  \/ r.flags \cap {"invalid_exit_session", "no_actionable_exit_window",
                   "too_few_exit_sessions_no_catalyst", "breakeven_outside_exit_move"} # {}

\* reward / risk, in hundredths, below the floor of the policy.
WeakRewardRisk(c, p, floor) ==
  LET risk == OptionPremium(c) - p.stop
      reward == p.option - OptionPremium(c)
  IN risk > 0 /\ reward > 0 /\ HalfEven(100 * reward, risk) < floor

LongVeto(k, c, plan, r) ==
  LET policy == TradePolicy(k.source) IN
  /\ c.side = "long" /\ ~r.named
  /\ \/ Max({c.volume, 0}) < policy.volume /\ Max({c.oi, 0}) < policy.oi
     \/ \E p \in plan : WeakRewardRisk(c, p, policy.rewardRisk)

UserVeto(u, c, underlying) ==
  EstimateMaxContracts(u, c, underlying) <= 0 \/ ~Permits(u, c.side)

HardVeto(k, u, c, plan, r) ==
  \/ CandidateVeto(k) \/ QuoteVeto(k, c) \/ WindowVeto(k, c) \/ RealityVeto(k, r)
  \/ LongVeto(k, c, plan, r) \/ UserVeto(u, c, k.price)
  \/ plan = {}
=============================================================================
