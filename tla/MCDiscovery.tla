------------------------------- MODULE MCDiscovery -------------------------------
(* Days are numbered from a Monday; the scans are on the second Wednesday.  An *)
(* arm gives at most two rows.  SHR is offered by three arms, BBB by two.      *)
EXTENDS Discovery

MCTradingDay == {d \in -70..70 : d % 7 \in 0..4}

MCArmOf == [A |-> "catalyst", B |-> "coiled", C1 |-> "pead", C2 |-> "pead",
            energy |-> "sector", utilities |-> "sector"]

Row(ticker, sector, change) ==
  [ticker |-> ticker, company |-> TRUE, cap |-> 5000, price |-> 4000, change |-> change,
   sector |-> sector, day |-> NoDay, verified |-> TRUE, rank |-> None, from |-> {"finviz"},
   event |-> {}]
Shown(rows) == [i \in DOMAIN rows |-> [rows[i] EXCEPT !.rank = i]]

MCPage ==
  [A |-> {Shown(<<Row("AAA", "energy", {10000}), Row("SHR", "energy", {20000})>>),
          Shown(<<[Row("SHR", "energy", {20000}) EXCEPT !.price = None]>>)},
   B |-> {Shown(<<Row("SHR", "energy", {20000}), Row("BBB", "utilities", {10000})>>)},
   C1 |-> {Shown(<<Row("PPP", "energy", {70000}), Row("SHR", "energy", {20000})>>)},
   C2 |-> {Shown(<<Row("TEC", "technology", {90000}), Row("PPP", "none", {})>>),
           Shown(<<Row("QQQ", "none", {})>>)},
   energy |-> {Shown(<<Row("AAA", "energy", {10000})>>),
               Shown(<<Row("EEE", "energy", {10000}), Row("AAA", "energy", {10000})>>)},
   utilities |-> {Shown(<<Row("BBB", "utilities", {10000}), Row("UUU", "utilities", {10000})>>)}]

Record(ticker, source, cap, day) ==
  [Row(ticker, "energy", {}) EXCEPT !.cap = cap, !.day = day, !.from = {source}]

\* yfinance agrees with the calendar on AAA, contradicts it, or knows nothing;
\* KKK and LLL are announced, and LLL is too small for a backup.
Known(day, silent) ==
  [yfinance |-> [t \in {"AAA", "SHR", "KKK", "LLL"} |->
                   IF t \in silent THEN {} ELSE {Record(t, "yfinance", 5000, day)}],
   finnhub |-> [t \in {"AAA", "SHR", "KKK", "LLL"} |->
                  {Record(t, "finnhub", IF t = "LLL" THEN 1000 ELSE 3000, NoDay)}]]
MCCatalystWorld == {Known(15, {"LLL"}), Known(25, {"KKK", "SHR"})}
MCCalendar == {{}, {<< >>},
               {<<[ticker |-> "AAA", day |-> 15], [ticker |-> "LLL", day |-> 16],
                  [ticker |-> "KKK", day |-> 17]>>}}

Past(day, percent, actual, estimate) ==
  [day |-> day, percent |-> percent, actual |-> actual, estimate |-> estimate]
Surprises(yfinance, finnhub) ==
  [surprise |-> [yfinance |-> yfinance, finnhub |-> finnhub,
                 alphavantage |-> [t \in {"PPP", "SHR", "QQQ", "TEC"} |-> << >>]],
   snapshot |-> [t \in {"PPP", "SHR", "QQQ", "TEC"} |->
                   {[sector |-> "industrials", cap |-> 4000, price |-> 4100, change |-> {350}]}],
   positions |-> {[ticker |-> "SHR", source |-> "catalyst", entered |-> 3]}]
MCPeadWorld ==
  {Surprises([t \in {"PPP", "SHR", "QQQ", "TEC"} |-> <<Past(8, {1200}, None, None),
                                                       Past(12, {9000}, None, None)>>],
             [t \in {"PPP", "SHR", "QQQ", "TEC"} |-> << >>]),
   Surprises([t \in {"PPP", "SHR", "QQQ", "TEC"} |-> << >>],
             [t \in {"PPP", "SHR", "QQQ", "TEC"} |->
                IF t = "PPP" THEN <<Past(7, {}, 110, 100), Past(7, {}, 90, 100)>>
                ELSE <<Past(9, {800}, None, None)>>])}

Closes(latest, mean) == [sessions |-> 42, latest |-> latest, lookback |-> 1000, mean |-> mean]
MCHistory ==
  {<<<<"energy", Closes(1060, 1020)>>, <<"utilities", Closes(1030, 1010)>>>>,
   <<<<"energy", Closes(1030, 1020)>>, <<"utilities", Closes(1060, 1010)>>>>,
   <<<<"energy", Closes(1060, 1070)>>, <<"utilities", Closes(1030, 1010)>>>>}

Filing(accession, ticker, form, day, stake, intent) ==
  [accession |-> accession, ticker |-> ticker, form |-> form, day |-> day, stake |-> {stake},
   intent |-> intent, change |-> TRUE, quality |-> 6]
Call(expiry, oi) ==
  [type |-> "call", side |-> "long", strike |-> 4000, expiry |-> expiry, bid |-> 98, ask |-> 102,
   mid |-> 100, volume |-> 30, oi |-> oi, stale |-> FALSE]
Markets(refusals) ==
  [filings |-> <<Filing("f1", "BBB", "SC 13D", 8, 900, TRUE),
                 Filing("f2", "WWW", "SC 13D/A", 1, 600, TRUE),
                 Filing("f3", "WWW", "SC 13D", -12, 700, TRUE)>>,
   refusals |-> refusals,
   readable |-> [n \in 1..3 |-> {"f1", "f2", "f3"}],
   market |-> [t \in {"BBB", "WWW"} |->
     {[price |-> 4000, cap |-> 900, averageVolume |-> 800000, one |-> {120}, five |-> {300},
       relativeVolume |-> {15000}, sector |-> "energy"]}],
   chain |-> [t \in {"BBB", "WWW"} |-> <<Call(20, 150), Call(90, 500)>>],
   earnings |-> [yfinance |-> [BBB |-> {12}, WWW |-> {}], finnhub |-> [BBB |-> {3, 16}, WWW |-> {}]]]
MCActivistWorld == {Markets(<<0, 2, 1>>), Markets(<<3, 0, 0>>), Markets(<<3, 3, 3>>)}

MCSetup ==
  {[arms |-> {"catalyst", "coiled"}, scans |-> {1, 2}, ticks |-> 0],
   [arms |-> {"pead"}, scans |-> {1, 2}, ticks |-> 2],
   [arms |-> {"sector"}, scans |-> {1, 2}, ticks |-> 2],
   [arms |-> {"catalyst", "coiled", "sector", "activist"}, scans |-> {1}, ticks |-> 0],
   [arms |-> {"pead", "coiled", "activist"}, scans |-> {1}, ticks |-> 0]}
=============================================================================
