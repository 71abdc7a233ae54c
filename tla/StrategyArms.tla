------------------------------- MODULE StrategyArms -------------------------------
(***************************************************************************)
(* The three arms that qualify their candidates themselves: the drift      *)
(* after earnings (pead_service.py), the strongest sectors                 *)
(* (sector_relative_strength_service.py) and the followers of activists    *)
(* (activist_13d_service.py, sec/).                                        *)
(*                                                                         *)
(* What the services around them answer is data: what is missing or failed *)
(* is {} or not in a set of the answered.  Text is abstracted to what is   *)
(* read of it: whether a sector is a technology, what a filing declares.   *)
(***************************************************************************)
EXTENDS Candidates

TechnologySector == {"technology", "communication services"}

The(S) == CHOOSE x \in S : TRUE
Percentile(n, index, total) == (n * (total - index + 1)) \div total

-----------------------------------------------------------------------------
(* PEAD.  Of each ticker x.surprise gives, by source, the reports it has of  *)
(* past earnings ([day, percent, actual, estimate], << >> when it fails) and *)
(* x.snapshot its market snapshot, if any; x.positions gives the user's open *)
(* positions, {} when they cannot be read.                                   *)

EarningsReport == [day : Int, percent : SUBSET Int, actual : Int, estimate : Int]
Snapshot == [sector : STRING, cap : Int, price : Int, change : SUBSET Int]

SurpriseSources == <<"yfinance", "finnhub", "alphavantage">>

\* A ratio of one or more is taken for a percentage.
NormalizeRatio(v) == IF Distance(v, 0) >= 10000 THEN v \div 100 ELSE v

SurpriseOf(e) ==
  IF e.percent # {} THEN {NormalizeRatio(p) : p \in e.percent}
  ELSE {((e.actual - e.estimate) * 10000) \div Distance(e.estimate, 0) :
          x \in IF None \in {e.actual, e.estimate} \/ e.estimate = 0 THEN {} ELSE {0}}

\* The latest report known by today, of those that tell a surprise; in {} or that report.
LatestEvent(reports, today) ==
  LET told == {i \in DOMAIN reports : reports[i].day <= today /\ SurpriseOf(reports[i]) # {}}
  IN IF told = {} THEN {}
     ELSE {[day |-> e.day, surprise |-> The(SurpriseOf(e))] :
             e \in {reports[FirstBest(told, LAMBDA i : reports[i].day)]}}

\* The first source that has one.
ComputeSurprise(x, ticker, today) ==
  LET Event(i) == LatestEvent(x.surprise[SurpriseSources[i]][ticker], today)
      found == {i \in DOMAIN SurpriseSources : Event(i) # {}}
  IN IF found = {} THEN {} ELSE Event(Min(found))

\* The row with what a snapshot adds to it.
Completed(row, x) ==
  LET snapshot == IF row.sector # "none" /\ row.cap # None /\ row.change # {} THEN {}
                  ELSE x.snapshot[row.ticker]
      Else(value, unknown, others) == IF value # unknown \/ others = {} THEN value ELSE The(others)
  IN [row EXCEPT !.sector = Else(@, "none", {s.sector : s \in snapshot}),
                 !.cap = Else(@, None, {s.cap : s \in snapshot}),
                 !.price = Else(@, None, {s.price : s \in snapshot}),
                 !.change = Else(@, {}, {s.change : s \in snapshot})]

\* event is the latest report, change the reaction of the first day.
PostFilter(row, event, change, today) ==
  /\ event.surprise >= 500
  /\ change >= 300
  /\ row.sector \notin TechnologySector \cup {"none"}
  /\ 300 <= row.cap /\ row.cap <= 10000
  /\ event.day < today

\* The tickers of the catalyst positions opened in the last week.
ActiveCatalystTickers(x, today) ==
  {p.ticker : p \in {q \in x.positions : q.source = "catalyst" /\ q.entered >= today - 7}}

\* In {} or the row, the key of its score and its record.
Enrich(r, x, today) ==
  {[key |-> 100 * (p[1].surprise + p[2]) - r.rank,
    record |-> [r EXCEPT !.day = p[1].day, !.verified = p[1].day # NoDay,
                         !.event = {[score |-> Min({100, (3 * p[1].surprise + 5 * p[2]) \div 30}),
                                     supportive |-> TRUE]}]] :
     p \in {q \in ComputeSurprise(x, r.ticker, today) \X {NormalizeRatio(v) : v \in r.change} :
              PostFilter(r, q[1], q[2], today)}}

Enriched(rows, x, today) ==
  LET open == ActiveCatalystTickers(x, today)
  IN Present([i \in DOMAIN rows |-> {e \in Enrich(Completed(rows[i], x), x, today) :
                                       e.record.ticker \notin open}])
BestEnriched(ranked) == [i \in DOMAIN ranked |-> ranked[i].record]

PeadReport(screen, x, limit, today) ==
  Reported(IF screen.failed THEN << >>
           ELSE BestEnriched(First(Descending(Enriched(screen.rows, x, today), LAMBDA e : e.key),
                                   limit)))

-----------------------------------------------------------------------------
(* Sectors.  A history is [sessions, latest, lookback, mean]: how many closes *)
(* there are, the last, the one 21 sessions back and their mean over at most  *)
(* 50.  Sectors of equal strength are not ordered by their tickers here.      *)

SectorHistory == [sessions : Int, latest : Int, lookback : Nat, mean : Int]

RankSector(sector, h) ==
  IF h.sessions < 21 \/ h.lookback = 0 THEN {}
  ELSE {[sector |-> sector, perf |-> ((h.latest - h.lookback) * 10000) \div h.lookback,
         above |-> h.latest >= h.mean]}

\* histories is a sequence of <<sector, history>>; all the sectors, the strongest first.
RankSectors(histories) ==
  Descending(Present([i \in DOMAIN histories |->
                        RankSector(histories[i][1], histories[i][2])]),
             LAMBDA s : s.perf)

RegimeGate(s) == s.above /\ s.perf >= 200

\* The sectors to screen: the strongest, then the next that passes the gate.
Screened(ranked) ==
  IF ranked = << >> \/ ~RegimeGate(ranked[1]) THEN << >>
  ELSE <<ranked[1]>> \o First(Where(Tail(ranked), RegimeGate), 1)

SectorRows(s, rows) ==
  [i \in DOMAIN rows |-> [record |-> rows[i], sector |-> s, rank |-> rows[i].rank,
                          total |-> Len(rows)]]
\* The score of a row, in ten-thousandths.
ScoreD(r) == Percentile(6000, r.rank, r.total) + (IF r.sector.perf > 500 THEN 4000 ELSE 2000)

SectorSorted(rows) ==
  Descending(Descending(Descending(rows, LAMBDA r : -r.rank), LAMBDA r : r.sector.perf), ScoreD)

WithSectorSignals(rows, ranked) ==
  LET n == Len(ranked)
      m == Len(rows)
      Position(s) == CHOOSE p \in DOMAIN ranked : ranked[p] = s
      Score(i) == (60 * (n - Position(rows[i].sector) + 1) * m + 40 * (m - i + 1) * n) \div (n * m)
  IN [i \in DOMAIN rows |->
        [rows[i].record EXCEPT !.event = {[score |-> Score(i), supportive |-> TRUE]}]]

\* found holds the rows of each sector screened, << >> for one whose screen failed.
SectorReport(ranked, screened, found, limit) ==
  LET all == FlattenSeq([i \in DOMAIN found |-> SectorRows(screened[i], found[i])])
  IN Reported(WithSectorSignals(First(SectorSorted(all), limit), ranked))

-----------------------------------------------------------------------------
(* Activists.  x.filings lists the filings of the index, newest first, each   *)
(* [accession, ticker ("none"), form, day, stake (hundredths of a percent, in *)
(* {} when none is found), intent, change, quality (of the filer)].           *)
(* x.refusals gives how often the SEC refuses the search of each tier before  *)
(* it answers, x.readable, by tier, the filings whose documents could be      *)
(* read; x.market, x.chain and x.earnings, by source, what is known of a      *)
(* ticker.                                                                    *)

Filed == [accession : STRING, ticker : STRING, form : STRING, day : Int, stake : SUBSET Int,
          intent : BOOLEAN, change : BOOLEAN, quality : Int]
ActivistMarket == [price : Int, cap : Int, averageVolume : Int, one : SUBSET Int,
                   five : SUBSET Int, relativeVolume : SUBSET Int, sector : STRING]
Quote == [type : STRING, side : STRING, strike : Int, expiry : Int, bid : Int, ask : Int,
          mid : Int, volume : Int, oi : Int, stale : BOOLEAN]

MaxTries == 3
SecAnswers(refusals) == refusals < MaxTries

\* The calendar days that reach back n sessions, today's included.
CalendarDays(today, n) ==
  LET past == SessionsBetween(today - Max({3 * n, n + 7}), today)
      back == {d \in past : Cardinality({e \in past : e >= d}) = n}
  IN Max({n} \cup {today - d : d \in back})

\* What a parser accepts: a stake and, of an initial filing, an active intent.
ParseFiling(f) == f.stake # {} /\ (f.form = "SC 13D" => f.intent)
IsSubstantive(f) == f.form = "SC 13D" \/ (f.intent /\ f.change)

Headers(x, tier, form, today, n) ==
  IF ~SecAnswers(x.refusals[tier]) THEN << >>
  ELSE Where(x.filings, LAMBDA f :
         f.form = form /\ today - CalendarDays(today, n) <= f.day /\ f.day <= today)

\* A filing whose company has no ticker or whose document cannot be read is dropped.
ParseHeaders(x, tier, headers) ==
  Where(headers, LAMBDA f :
    f.ticker # "none" /\ f.accession \in x.readable[tier] /\ ParseFiling(f))

Filings(x, tier, form, today, n) == ParseHeaders(x, tier, Headers(x, tier, form, today, n))

\* selected, with the filings of a tier that it does not hold; a tier is asked
\* for only while there are fewer than limit.
WithTier(selected, limit, tier, filings) ==
  LET existing == {e.filing.accession : e \in Range(selected)}
      Of(new) == [i \in DOMAIN new |-> [filing |-> new[i], tier |-> tier]]
  IN IF tier > 1 /\ Len(selected) >= limit THEN selected
     ELSE selected \o Of(Where(filings, LAMBDA f :
                                 f.accession \notin existing /\ IsSubstantive(f)))

SelectFilings(x, limit, today) ==
  WithTier(WithTier(WithTier(<< >>, limit, 1, Filings(x, 1, "SC 13D", today, 5)),
                    limit, 2, Filings(x, 2, "SC 13D/A", today, 10)),
           limit, 3, Filings(x, 3, "SC 13D", today, 20))

PassesUniverse(s) == s.price >= 1500 /\ s.cap >= 500 /\ s.averageVolume >= 750000

\* The best quality of its liquid calls, in {} when none is good enough.
OptionLiquidity(chain, today) ==
  LET usable == {c \in Range(chain) :
        /\ c.type = "call" /\ c.side = "long"
        /\ today < c.expiry /\ c.expiry <= today + 45
        /\ ~c.stale /\ OptionPremium(c) # None
        /\ \E s \in SpreadPercent(c) : s <= 3500
        /\ c.oi > 0 \/ c.volume > 0}
  IN {q \in {Max({LiquidityQuality(c) : c \in usable} \cup {0})} : usable # {} /\ q >= 45}

PassesTier3SurvivorGate(s) == ~(\E r \in s.one : r > 1000) /\ ~(\E r \in s.five : r > 2500)

\* The score of an event, in twelve-thousandths of a point so that it is exact.
EventScore(f, s, quality, untilEarnings, today) ==
  LET Of(S, Points(_)) == IF S = {} THEN 0 ELSE Points(The(S))
      positive == 240 * Of(f.stake, LAMBDA p : Min({1000, Nz(p)}))
                  + 12000 * (IF f.intent THEN 15 ELSE 0)
                  + 12000 * Tier(f.day - today, <<<<-5, 15>>, <<-10, 10>>, <<-20, 5>>, <<Lowest, 0>>>>)
                  + 12000 * f.quality
                  + 4 * Of(s.relativeVolume, LAMBDA v : Nz(Min({v, 40000}) - 10000))
                  + 120 * Of(s.five, LAMBDA r : Nz(Min({r, 1000})))
                  + 600 * Min({100, quality})
      penalty == 12000 * (IF \E n \in untilEarnings : n <= 5 THEN 10 ELSE 0)
                 + 90 * Of(s.one, LAMBDA r : Nz(Min({r, 3000}) - 1000))
                 + 12000 * (IF s.sector \in TechnologySector THEN 8 ELSE 0)
  IN Bound(positive - penalty, 0, 1200000)

\* The soonest of what the sources say, in {} when none says anything.
NextEarnings(x, ticker, today) ==
  LET ahead == {d \in UNION {x.earnings[n][ticker] : n \in DOMAIN x.earnings} : d >= today}
  IN {d \in ahead : d = Min(ahead)}

RecordFor(ticker, s, score) ==
  [ticker |-> ticker, company |-> TRUE, cap |-> s.cap, price |-> s.price, change |-> s.one,
   sector |-> s.sector, day |-> NoDay, verified |-> FALSE, rank |-> None, from |-> {"sec_edgar"},
   event |-> {[score |-> score \div 12000, supportive |-> TRUE]}]

\* In {} or the record of a filing and its score.
EnrichFiling(e, x, today) ==
  LET t == e.filing.ticker
      until == {d - today : d \in NextEarnings(x, t, today)}
      Scored(s, score) == [score |-> score, record |-> RecordFor(t, s, score)]
  IN {Scored(p[1], EventScore(e.filing, p[1], p[2], until, today)) :
        p \in {q \in x.market[t] \X OptionLiquidity(x.chain[t], today) :
                 PassesUniverse(q[1]) /\ (e.tier = 3 => PassesTier3SurvivorGate(q[1]))}}

TopUniqueByTicker(rows, limit) ==
  LET sorted == Descending(rows, LAMBDA r : r.score)
  IN First(WithoutRepeatedTickers([i \in DOMAIN sorted |-> sorted[i].record]), limit)

ActivistRows(selected, x, today) ==
  Present([i \in DOMAIN selected |-> EnrichFiling(selected[i], x, today)])

ActivistReport(x, limit, today) ==
  Reported(TopUniqueByTicker(ActivistRows(SelectFilings(x, limit, today), x, today), limit))
=============================================================================
