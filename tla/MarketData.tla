------------------------------ MODULE MarketData ------------------------------
(***************************************************************************)
(* What the services make of the answers of the data sources: the snapshot *)
(* of a stock, its option chain, whether there is news, and which of these *)
(* are taken from a cache instead (services/market_data, services/options, *)
(* services/news).                                                         *)
(*                                                                         *)
(* The answers a of one moment are a.yfinance and a.alphavantage, each     *)
(* [named, sector, price, cap, history], the histories a.spy, a.qqq and    *)
(* a.etf, and the listings a.quotes.alpaca and a.quotes.yfinance, in the   *)
(* order the service sorts them.  A history is a function from sessions    *)
(* back, 0 being the last, to [close, volume], << >> when there is none;   *)
(* sector says whether a sector with an ETF is named.                      *)
(*                                                                         *)
(* An outcome o of an analysis says of which moment the answers are and    *)
(* who gave them: o.stock = [at, from], o.chain = [at, alpaca, yfinance],  *)
(* o.news, and whether Redis could be reached, o.redis.                    *)
(***************************************************************************)
EXTENDS OptionPlan, SequencesExt

-----------------------------------------------------------------------------
(* The snapshot of a stock *)

Return(history, periods) ==
  IF periods \notin DOMAIN history \/ history[periods].close = 0 THEN {}
  ELSE {(history[0].close * 10000) \div history[periods].close - 10000}
Returns(history) ==
  [one |-> Return(history, 1), five |-> Return(history, 5),
   twenty |-> Return(history, 20), fifty |-> Return(history, 50)]

\* The last volume in ten-thousandths of the average of the twenty before it.
VolumeVsAverage(history) ==
  IF ~(0..20 \subseteq DOMAIN history) \/ \E n \in 0..20 : history[n].volume = None THEN {}
  ELSE LET total == MapThenSumSet(LAMBDA n : history[n].volume, 1..20) IN
       IF total = 0 THEN {} ELSE {(history[0].volume * 20 * 10000) \div total}

RelativeStrength(stock, benchmark) == {s - b : s \in stock.twenty, b \in benchmark.twenty}

LatestClose(s) == IF s.history = << >> THEN None ELSE s.history[0].close
CurrentPrice(s) == IF s.price > 0 THEN s.price ELSE LatestClose(s)

\* What a disagreement costs in confidence, far apart or merely apart.
Conflict(a, b, warning, severe) ==
  LET apart == (Distance(a, b) * 10000) \div Min({a, b}) IN
  IF Min({a, b}) <= 0 \/ apart < warning.from THEN 0
  ELSE IF apart >= severe.from THEN severe.cost ELSE warning.cost
ConflictNotes(yf, av) ==
  Conflict(CurrentPrice(yf), LatestClose(av),
           [from |-> 200, cost |-> -5], [from |-> 500, cost |-> -15])
  + Conflict(yf.cap, av.cap, [from |-> 1000, cost |-> -3], [from |-> 2500, cost |-> -10])

Stocks(from) == {"yfinance", "alphavantage"} \cap from

\* The source whose history is taken, "unknown" when none has one.
SelectHistory(a, from) ==
  LET with == {s \in Stocks(from) : a[s].history # << >>} IN
  IF "yfinance" \in with THEN "yfinance" ELSE IF with # {} THEN "alphavantage" ELSE "unknown"

SelectCurrentPrice(a, source) ==
  IF source = "yfinance" THEN CurrentPrice(a.yfinance) ELSE LatestClose(a.alphavantage)

\* A benchmark that does not answer has no history; the sector's is asked for
\* when a source names a sector with an ETF.
Benchmarks(a, from) ==
  [b \in {"spy", "qqq"} \cup {e \in {"etf"} : \E s \in Stocks(from) : a[s].sector} |->
     IF b \in from THEN a[b] ELSE << >>]
MissingBenchmarks(histories) == {b \in DOMAIN histories : histories[b] = << >>}

\* In {} when no source has a history, which raises.
Snapshot(a, from) ==
  LET source == SelectHistory(a, from)
      history == a[source].history
      returns == Returns(history)
      benchmarks == Benchmarks(a, from)
      Benchmark(b) == Returns(IF b \in DOMAIN benchmarks THEN benchmarks[b] ELSE << >>)
  IN IF source = "unknown" THEN {}
     ELSE {[price |-> SelectCurrentPrice(a, source),
            named |-> \E s \in Stocks(from) : a[s].named,
            asOf |-> TRUE, latestVolume |-> history[0].volume # None,
            returns |-> returns, volumeRatio |-> VolumeVsAverage(history),
            relative |-> [spy |-> RelativeStrength(returns, Benchmark("spy")),
                          qqq |-> RelativeStrength(returns, Benchmark("qqq")),
                          sector |-> RelativeStrength(returns, Benchmark("etf"))],
            spy |-> Benchmark("spy").five, qqq |-> Benchmark("qqq").five,
            sector |-> Benchmark("etf").five,
            adjust |-> (IF source = "alphavantage" THEN -5 ELSE 0)
                       - 3 * Cardinality(MissingBenchmarks(benchmarks))
                       + (IF Cardinality(Stocks(from)) = 2
                          THEN ConflictNotes(a.yfinance, a.alphavantage) ELSE 0)]}

\* Alpha Vantage is asked with a key only; without Redis nothing is returned.
FetchSnapshot(answers, o, u) ==
  IF ~o.redis THEN {}
  ELSE Snapshot(answers[o.stock.at],
                IF u.alphavantage THEN o.stock.from ELSE o.stock.from \ {"alphavantage"})

-----------------------------------------------------------------------------
(* The option chain *)

\* How many days ahead expiries are asked for.
ExpiryWindow(today, earnings) ==
  IF earnings = NoDay THEN 45 ELSE Bound(Max({earnings - today, 0}) + 30, 21, 60)

QuotedMid(q) ==
  IF q.bid # None /\ q.ask # None THEN (q.bid + q.ask) \div 2
  ELSE IF q.ask > 0 THEN q.ask ELSE q.bid

AlpacaContract(q) == q @@ [mid |-> QuotedMid(q), stale |-> FALSE, yfinance |-> FALSE]
\* yfinance lists no greeks.
YFinanceContract(q) ==
  [q EXCEPT !.delta = None, !.greeks = {}]
  @@ [mid |-> QuotedMid(q), stale |-> FALSE, yfinance |-> TRUE]

Listed(quotes, today, window) == SelectSeq(quotes, LAMBDA q : q.expiry \in today..today + window)

\* What the clients return: nothing, when they fail or have nothing to list.
AlpacaChain(quotes, answer, today, window) ==
  LET listed == IF answer = "answers" THEN Listed(quotes, today, window) ELSE << >>
  IN [n \in DOMAIN listed |-> AlpacaContract(listed[n])]
YFinanceChain(quotes, answers, today, window) ==
  LET listed == IF answers THEN Listed(quotes, today, window) ELSE << >>
  IN [n \in DOMAIN listed |-> YFinanceContract(listed[n])]

\* A refusal or an empty listing of Alpaca's is made up for by yfinance; a
\* connection that fails is not, for its error is not one the service handles.
FetchChain(quotes, chain, keys, today, window) ==
  LET alpaca == IF keys THEN AlpacaChain(quotes.alpaca, chain.alpaca, today, window) ELSE << >>
  IN IF keys /\ chain.alpaca = "unreachable" THEN << >>
     ELSE IF alpaca # << >> THEN alpaca
     ELSE YFinanceChain(quotes.yfinance, chain.yfinance, today, window)

\* Each contract on the permitted sides.
Expanded(contracts, permission) ==
  FlattenSeq([n \in DOMAIN contracts |->
    [m \in 1..(IF permission = "both" THEN 2 ELSE 1) |->
       contracts[n] @@ [side |-> IF permission = "both" THEN <<"long", "short">>[m]
                                 ELSE permission]]])

GetChain(f, o, u) ==
  Expanded(FetchChain(f.answers[o.chain.at].quotes, o.chain, u.alpaca, f.today,
                      ExpiryWindow(f.today, f.earnings)), u.permission)

-----------------------------------------------------------------------------
(* News *)

\* Sources that fail are skipped, a summary that fails is replaced by the
\* headlines, whatever the reason; only the cache, the fetching of articles or a
\* missing key make the whole fail.
NewsFound(o) == IF o.news # "deferred" /\ ~o.redis THEN "failed" ELSE o.news

-----------------------------------------------------------------------------
(* The caches *)

\* A later analysis of the day takes the snapshot of the first that had one, and
\* without keys of Alpaca's the chain of the first that had one, whatever the
\* sources would answer by then.
ReusedStock(f, first, later, u) ==
  IF FetchSnapshot(f.answers, first, u) # {} THEN first.stock ELSE later.stock
ReusedChain(f, first, later, u) ==
  IF ~u.alpaca /\ GetChain(f, first, u) # << >> THEN first.chain ELSE later.chain
Reused(f, first, later, u) ==
  [later EXCEPT !.stock = ReusedStock(f, first, later, u), !.chain = ReusedChain(f, first, later, u)]
=============================================================================
