---------------------------- MODULE MCScanDecision ----------------------------
(* A batch of three candidates of which two are finalists: a catalyst whose   *)
(* best call fails the reality check of weeklies, an activist filing and an   *)
(* earnings drift; days are numbered from a Monday, the scan is on day 7.     *)
(* The answers are those of an earlier scan of the day, of the scan and of    *)
(* its refresh.                                                               *)
EXTENDS ScanDecision

MCTradingDay == {d \in 0..70 : d % 7 \in 0..4}

Quote(type, strike, expiry, bid, ask, iv, delta, volume, oi) ==
  [type |-> type, strike |-> strike, expiry |-> expiry, bid |-> bid, ask |-> ask,
   volume |-> volume, oi |-> oi, iv |-> iv, delta |-> delta, greeks |-> {}]

\* The closes 0, 1, 5, 20 and 50 sessions back, and the last volume.
History(now, one, five, twenty, fifty, volume) ==
  [n \in 0..50 |->
    [close |-> CASE n = 0 -> now [] n \in 1..4 -> one [] n \in 5..19 -> five
                 [] n \in 20..49 -> twenty [] n = 50 -> fifty,
     volume |-> IF n = 0 THEN volume ELSE 1000]]

Spy == History(50000, 49700, 49470, 48600, 47000, 1000)
Qqq == History(40000, 39800, 39600, 38800, 37500, 1000)

Answers(cap, history, other, etf, quotes) ==
  [yfinance |-> [named |-> TRUE, sector |-> TRUE, price |-> history[0].close, cap |-> cap,
                 history |-> history],
   alphavantage |-> [named |-> TRUE, sector |-> TRUE, price |-> None, cap |-> cap,
                     history |-> other],
   spy |-> Spy, qqq |-> Qqq, etf |-> etf,
   quotes |-> [alpaca |-> quotes, yfinance |-> quotes]]

Common == [verified |-> TRUE, named |-> TRUE, today |-> 7, recordVolume |-> TRUE]

CatalystStock == History(2000, 1910, 1873, 1976, 2064, 1280)
CatalystAnswers ==
  Answers(3, CatalystStock, CatalystStock, History(8000, 7950, 7766, 8410, 8200, 1000),
          <<Quote("call", 2050, 15, 19, 21, 3500, 33, 59, 0),
            Quote("call", 2200, 16, 24, 26, 7000, 21, 46, 91),
            Quote("put", 2200, 16, 198, 202, 3500, 96, 19, 106)>>)
Catalyst ==
  [source |-> "catalyst", earnings |-> 11, event |-> {}, recordPrice |-> 2000, cap |-> 3,
   place |-> 1, answers |-> <<CatalystAnswers, CatalystAnswers, CatalystAnswers>>] @@ Common

\* By the refresh the activist's stock has run and its calls are dearer; the
\* daily series of Alpha Vantage lags behind.
ActivistStock(price) == History(price, 4861, 5038, 4628, 4212, None)
ActivistAnswers(price, bid) ==
  Answers(2, ActivistStock(price), ActivistStock(4861), History(6000, 5990, 5975, 6045, 5800, 1000),
          <<Quote("put", 5100, 21, 310, 350, 7000, 53, None, 75),
            Quote("call", 4900, 42, bid, bid + 16, 3500, 60, 41, 179),
            Quote("put", 5500, 42, 723, 767, 7000, 63, 26, 136)>>)
Activist ==
  [source |-> "activist", earnings |-> 17, event |-> {[score |-> 37, supportive |-> TRUE]},
   recordPrice |-> 5000, cap |-> 2, place |-> 2,
   answers |-> <<ActivistAnswers(5000, 262), ActivistAnswers(5000, 262),
                 ActivistAnswers(5200, 462)>>] @@ Common

DriftStock == History(5000, 5029, 5246, 5007, 6452, 1300)
DriftAnswers ==
  Answers(1, DriftStock, DriftStock, History(7000, 7020, 7040, 6600, 6500, 1000),
          <<Quote("put", 4600, 9, 1, 3, 5500, 2, 15, 144),
            Quote("call", 5500, 25, 39, 41, 4200, 16, 15, 30),
            Quote("put", 4600, 25, 44, 46, 4200, 17, 46, 23)>>)
Drift ==
  [source |-> "pead", earnings |-> 6, event |-> {}, recordPrice |-> 5000, cap |-> 1, place |-> 3,
   answers |-> <<DriftAnswers, DriftAnswers, DriftAnswers>>] @@ Common

MCBatch == <<"CAT", "ACT", "PED">>
MCFacts == [CAT |-> Catalyst, ACT |-> Activist, PED |-> Drift]

MCProfile ==
  [wide |-> [account |-> 100000, risk |-> "Balanced", permission |-> "both", maxContracts |-> 3,
             maxPremium |-> None, custom |-> None, key |-> TRUE, alpaca |-> TRUE,
             alphavantage |-> TRUE],
   tight |-> [account |-> 20000, risk |-> "Aggressive", permission |-> "long",
              maxContracts |-> 2, maxPremium |-> 300, custom |-> None, key |-> TRUE,
              alpaca |-> FALSE, alphavantage |-> FALSE]]

\* The first analyses find the snapshot of the earlier scan, or are without
\* Redis; the refresh finds nearly all there is, or is refused by Alpaca.
MCFirst ==
  {[stock |-> [at |-> 1, from |-> {"yfinance", "alphavantage", "spy", "qqq", "etf"}],
    chain |-> [at |-> 2, alpaca |-> "answers", yfinance |-> TRUE],
    news |-> "deferred", redis |-> redis] : redis \in BOOLEAN}
MCLive ==
  {[stock |-> [at |-> 3, from |-> {"yfinance", "alphavantage", "qqq", "etf"}],
    chain |-> [at |-> 3, alpaca |-> "answers", yfinance |-> TRUE],
    news |-> "articles", redis |-> TRUE],
   [stock |-> [at |-> 3, from |-> {"alphavantage", "spy", "etf"}],
    chain |-> [at |-> 3, alpaca |-> "refuses", yfinance |-> TRUE],
    news |-> "failed", redis |-> TRUE]}

Says(action, band, ticker, pick, runway) ==
  [action |-> action, band |-> band, ticker |-> ticker, pick |-> pick, runway |-> runway,
   watch |-> <<"PED", "CAT", "CAT">>]
MCAnswer ==
  {Says("recommend", "strong", t, 1, FALSE) : t \in {"CAT", "ACT"}}
  \cup {Says("recommend", "none", "CAT", 2, FALSE), Says("watchlist", "none", "ACT", 1, FALSE),
        Says("recommend", "none", "ACT", 1, TRUE), Says("no_trade", "none", "CAT", 0, FALSE)}
=============================================================================
