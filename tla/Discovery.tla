-------------------------------- MODULE Discovery --------------------------------
(***************************************************************************)
(* The discovery of candidates: a scan runs the arms at once, each asks    *)
(* the screener and its own sources, and what they report is merged when   *)
(* the last of them is over (multi_strategy_service.py and the services of *)
(* the arms).  The scans of a process share its screener, its cache and    *)
(* the calendar that the catalyst arm's Finnhub source keeps for good.     *)
(*                                                                         *)
(* Abstractions: what a source answers an arm is chosen when the arm ends  *)
(* its work, at once for all the rows of that arm; a scan's sectors are    *)
(* ranked by what the price source answers at that moment.                 *)
(***************************************************************************)
EXTENDS StrategyArms, Screener

CONSTANTS
  Setup,        \* which arms a service is built with, which scans run, for how long
  Today,        \* the day of the scans, counted from a Monday
  Limit,        \* rows of an arm: 5 in the code
  PeadLimit,    \* rows the drift arm asks for: 20 in the code
  CatalystWorld,   \* what yfinance and Finnhub may know of the tickers
  Calendar,        \* what a load of Finnhub's calendar may give, {} when it fails
  PeadWorld,       \* the surprises, snapshots and positions there may be
  History,         \* the histories of the sectors there may be
  ActivistWorld    \* the filings and markets there may be

\* The queries of an arm whose queries are known at once.
QueriesOf == [catalyst |-> <<"A">>, pead |-> <<"C1", "C2">>, coiled |-> <<"B">>]
LimitOf(a) == IF a = "pead" THEN PeadLimit ELSE Limit
Window == NextWeekWindow(Today)

SectorQuery == {q \in Query : ArmOf[q] = "sector"}

ASSUME SetupAssumption ==
  /\ Today \in Int /\ Limit \in Nat \ {0} /\ PeadLimit \in Nat \ {0}
  /\ \A x \in Setup : x.arms \subseteq Range(ArmOrder) /\ x.scans \subseteq Scan
  /\ \A a \in DOMAIN QueriesOf : \A q \in Range(QueriesOf[a]) : q \in Query /\ ArmOf[q] = a

\* A source describes a ticker at most once, in its own name; the calendar is
\* loaded with days.
ASSUME CatalystAssumption ==
  /\ \A w \in CatalystWorld :
       /\ w = [yfinance |-> w.yfinance, finnhub |-> w.finnhub]
       /\ DOMAIN w.finnhub = DOMAIN w.yfinance
       /\ \A n \in Range(Sources) : \A t \in DOMAIN w[n] : \A r, u \in w[n][t] :
            u = r /\ r \in CandidateRow /\ r.ticker = t /\ r.from = {n}
       /\ \A q \in Range(QueriesOf.catalyst) : \A page \in Page[q] :
            TickersOf(page) \subseteq DOMAIN w.yfinance
       /\ \A load \in Calendar : \A c \in load : TickersOf(c) \subseteq DOMAIN w.yfinance
  /\ \A load \in Calendar : \A c, e \in load :
       e = c /\ c \in Seq([ticker : STRING, day : Int]) /\ \A a \in Range(c) : a.day # NoDay

ASSUME PeadAssumption ==
  \A x \in PeadWorld, q \in Range(QueriesOf.pead) : \A page \in Page[q] : \A t \in TickersOf(page) :
    /\ \A n \in Range(SurpriseSources) : x.surprise[n][t] \in Seq(EarningsReport)
    /\ x.snapshot[t] \in SUBSET Snapshot

ASSUME HistoryAssumption == \A h \in History : h \in Seq(SectorQuery \X SectorHistory)

\* No filing is older than the tiers of its score reach.
ASSUME ActivistAssumption ==
  \A x \in ActivistWorld :
    /\ x.filings \in Seq(Filed)
    /\ \A f \in Range(x.filings) :
         /\ f.day - Today >= Lowest
         /\ f.ticker # "none" => /\ x.market[f.ticker] \in SUBSET ActivistMarket
                                 /\ x.chain[f.ticker] \in Seq(Quote)

VARIABLES
  setup,      \* the one that runs
  arm,        \* each arm of each scan: stage, ranked (sectors), report, said
  calendar,   \* Finnhub's calendar of the window, in {} until it is loaded
  batch       \* what each scan found, in {} until it is merged

discoveryVars == <<setup, arm, calendar, batch>>
vars == <<screenerVars, discoveryVars>>

\* The arms of the service, in the order in which their rows are merged.
Arms == Kept(ArmOrder, {i \in DOMAIN ArmOrder : ArmOrder[i] \in setup.arms})

Waiting == [stage |-> "idle", ranked |-> << >>, report |-> Report(<< >>, "empty"), said |-> {}]

Init ==
  /\ setup \in Setup
  /\ ScreenerInit
  /\ arm = [s \in setup.scans |-> [a \in setup.arms |-> Waiting]]
  /\ calendar = {}
  /\ batch = [s \in setup.scans |-> {}]

At(s, a, stage) == s \in setup.scans /\ a \in setup.arms /\ arm[s][a].stage = stage
Over(s, queries) == \A q \in Range(queries) : Answered(<<s, q>>)

\* The sectors an arm has asked the screener for.
Asked(s) ==
  LET screened == Screened(arm[s].sector.ranked)
  IN First(screened, IF At(s, "sector", "second") THEN 2 ELSE 1)

\* An arm goes on when all that it has asked the screener is answered.
Ready(s, a) ==
  \/ At(s, a, "running") /\ (a \in DOMAIN QueriesOf => Over(s, QueriesOf[a]))
  \/ (At(s, a, "first") \/ At(s, a, "second"))
     /\ Over(s, [i \in DOMAIN Asked(s) |-> Asked(s)[i].sector])

Finish(s, a, report, said) ==
  arm' = [arm EXCEPT ![s][a] = [@ EXCEPT !.stage = "done", !.report = report, !.said = said]]

StartScan(s) ==
  /\ s \in setup.scans /\ \A a \in setup.arms : At(s, a, "idle")
  /\ arm' = [arm EXCEPT ![s] = [a \in setup.arms |-> [arm[s][a] EXCEPT !.stage = "running"]]]
  /\ fetch' = [f \in DOMAIN fetch |->
                 IF f[1] = s /\ \E a \in setup.arms \cap DOMAIN QueriesOf : f[2] \in Range(QueriesOf[a])
                 THEN [Idle EXCEPT !.stage = "loading", !.limit = LimitOf(ArmOf[f[2]])]
                 ELSE fetch[f]]
  /\ UNCHANGED <<now, cache, held, setup, calendar, batch>>

\* The days that the sources give the tickers.
Said(sources) ==
  {<<r.ticker, r.day>> :
     r \in {x \in UNION {sources[n][t] : n \in Range(Sources), t \in DOMAIN sources.yfinance} :
             x.day # NoDay}}

FinishCatalyst(s) ==
  /\ Ready(s, "catalyst")
  /\ \E w \in CatalystWorld, load \in Calendar :
       LET known == IF calendar # {} THEN calendar ELSE load
       IN /\ calendar' = known
          /\ Finish(s, "catalyst",
                    CatalystReport(RunWithSwap(s, QueriesOf.catalyst, Limit), w, known, Limit,
                                   Window),
                    Said(Dated(w, known)))
  /\ UNCHANGED <<screenerVars, setup, batch>>

FinishPead(s) ==
  /\ Ready(s, "pead")
  /\ \E x \in PeadWorld :
       Finish(s, "pead", PeadReport(RunWithSwap(s, QueriesOf.pead, PeadLimit), x, Limit, Today), {})
  /\ UNCHANGED <<screenerVars, setup, calendar, batch>>

FinishCoiled(s) ==
  /\ Ready(s, "coiled")
  /\ Finish(s, "coiled", CoiledReport(RunWithSwap(s, QueriesOf.coiled, Limit), Limit), {})
  /\ UNCHANGED <<screenerVars, setup, calendar, batch>>

FinishActivist(s) ==
  /\ Ready(s, "activist")
  /\ \E x \in ActivistWorld : Finish(s, "activist", ActivistReport(x, Limit, Today), {})
  /\ UNCHANGED <<screenerVars, setup, calendar, batch>>

-----------------------------------------------------------------------------
(* The sector arm screens the strongest sector, and the second if it must *)

RowsIn(s, sector) == RunWithSwap(s, <<sector>>, fetch[<<s, sector>>].limit).rows

\* Ranks the sectors; without a sector to screen the arm is over.
Rank(s) ==
  /\ At(s, "sector", "running") /\ Ready(s, "sector")
  /\ \E h \in History :
       LET ranked == RankSectors(h)
           screened == Screened(ranked)
       IN IF screened = << >>
          THEN Finish(s, "sector", Report(<< >>, "empty"), {}) /\ UNCHANGED fetch
          ELSE /\ arm' = [arm EXCEPT ![s].sector = [@ EXCEPT !.stage = "first", !.ranked = ranked]]
               /\ fetch' = Requested(fetch, s, <<screened[1].sector>>, Limit)
  /\ UNCHANGED <<now, cache, held, setup, calendar, batch>>

\* How many rows a second sector has to give; 0 when there is none to ask.
Missing(s) ==
  LET screened == Screened(arm[s].sector.ranked)
  IN IF At(s, "sector", "second") \/ Len(screened) < 2 THEN 0
     ELSE Limit - Len(RowsIn(s, screened[1].sector))

ScreenSecond(s) ==
  /\ At(s, "sector", "first") /\ Ready(s, "sector") /\ Missing(s) > 0
  /\ fetch' = Requested(fetch, s, <<Screened(arm[s].sector.ranked)[2].sector>>, Missing(s))
  /\ arm' = [arm EXCEPT ![s].sector = [@ EXCEPT !.stage = "second"]]
  /\ UNCHANGED <<now, cache, held, setup, calendar, batch>>

FinishSector(s) ==
  /\ At(s, "sector", "first") \/ At(s, "sector", "second")
  /\ Ready(s, "sector") /\ Missing(s) = 0
  /\ Finish(s, "sector",
            SectorReport(arm[s].sector.ranked, Asked(s),
                         [i \in DOMAIN Asked(s) |-> RowsIn(s, Asked(s)[i].sector)], Limit), {})
  /\ UNCHANGED <<screenerVars, setup, calendar, batch>>

AllDone(s) == s \in setup.scans /\ \A a \in setup.arms : At(s, a, "done")

MergeBatch(s) ==
  /\ AllDone(s) /\ batch[s] = {}
  /\ batch' = [batch EXCEPT ![s] =
                 {BatchOf(Arms, [a \in DOMAIN arm[s] |-> arm[s][a].report])}]
  /\ UNCHANGED <<screenerVars, setup, arm, calendar>>

-----------------------------------------------------------------------------

ArmWork ==
  \E s \in Scan :
    FinishCatalyst(s) \/ FinishPead(s) \/ FinishCoiled(s) \/ FinishActivist(s)
    \/ Rank(s) \/ ScreenSecond(s) \/ FinishSector(s) \/ MergeBatch(s)
Screening == ScreenerWork /\ UNCHANGED discoveryVars
Clock == now < setup.ticks /\ Tick /\ UNCHANGED discoveryVars

Next == (\E s \in Scan : StartScan(s)) \/ Screening \/ ArmWork \/ Clock

Started == {s \in setup.scans : \E a \in DOMAIN arm[s] : arm[s][a].stage # "idle"}

\* Some step of a scan under way can be taken: a query of the screener goes on,
\* an arm goes on, or the batch can be merged.
WorkLeft ==
  \/ \E f \in DOMAIN fetch : CanGoOn(f)
  \/ \E s \in setup.scans :
       (\E a \in setup.arms : Ready(s, a)) \/ (AllDone(s) /\ batch[s] = {})

\* The process goes on with the scans under way.  This is the weak fairness of
\* Screening \/ ArmWork written out, which TLC evaluates faster: WorkLeft says
\* when that action is enabled, and its steps neither tick nor start a scan.
Fairness == []<>~WorkLeft \/ []<><<now' = now /\ Started' = Started>>_vars

Spec == Init /\ [][Next]_vars /\ Fairness

-----------------------------------------------------------------------------
(* Properties *)

\* The shape of the state; a place of the semaphore is held exactly while a
\* page is captured.
TypeOK ==
  /\ now \in 0..MaxTime
  /\ held = {f \in DOMAIN fetch : fetch[f].stage = "capturing"}
  /\ Cardinality(held) <= MaxCaptures
  /\ \A f \in DOMAIN fetch :
       /\ fetch[f].stage \in {"idle", "loading", "waiting", "capturing", "ready", "failed"}
       /\ fetch[f].loads \in 0..MaxLoads /\ Len(fetch[f].rows) <= Max({Limit, PeadLimit})
  /\ \A s \in setup.scans :
       /\ DOMAIN arm[s] = setup.arms
       /\ \A a \in DOMAIN arm[s] :
            /\ arm[s][a].stage \in {"idle", "running", "first", "second", "done"}
            /\ Len(arm[s][a].report.rows) <= Limit
            /\ arm[s][a].report.status \in {"success", "empty", "failed", "fallback"}
       /\ Cardinality(batch[s]) <= 1

\* A fetch is answered with the rows of a page of its own query, read less
\* than Ttl ago, and all that were asked for except by the sector arm, which
\* may find the shorter list it left itself (finviz/cache.py:36-67).
AnsweredWell(f) ==
  /\ fetch[f].of = f[2] /\ fetch[f].age < Ttl
  /\ \E page \in Page[f[2]], n \in 0..Limit + PeadLimit :
       /\ fetch[f].rows = First(page, n)
       /\ n = fetch[f].limit \/ ArmOf[f[2]] = "sector"

\* A catalyst's earnings are in the window; their day is verified exactly when
\* it is all that the sources say, else it is the first of the window and the
\* screener vouches for the row (candidate_service.py:233-283).
DatedWell(r, said) ==
  /\ InWindow(r.day, Window)
  /\ r.verified <=> {e[2] : e \in {x \in said : x[1] = r.ticker}} = {r.day}
  /\ ~r.verified => r.day = Window[1] /\ "finviz" \in r.from

\* Whatever the other scans cached and whatever the sources failed to say, the
\* rows of an arm are earned: fresh rows of its own queries, dated as the
\* sources warrant; the earnings of a drift are over.
RowsAreEarned ==
  /\ \A f \in DOMAIN fetch : fetch[f].stage = "ready" => AnsweredWell(f)
  /\ \A s \in setup.scans : \A a \in DOMAIN arm[s] :
       \A r \in Range(arm[s][a].report.rows) :
         /\ a = "catalyst" => DatedWell(r, arm[s][a].said)
         /\ a = "pead" => r.day < Today
         /\ "finviz" \in r.from =>
              \E q \in Query : ArmOf[q] = a /\ r.ticker \in TickersOf(fetch[<<s, q>>].rows)

\* The batch of a scan holds every ticker its arms offer, once, as the first
\* of them offers it; it is a failure exactly when it is empty, a success only
\* if every arm gave rows, and its warning says nothing false of the arms
\* (multi_strategy_service.py:88-261).
BatchIsHonest ==
  \A s \in setup.scans : \A b \in batch[s] :
    LET rows(a) == Range(arm[s][a].report.rows)
        Offers(a, t) == \E r \in rows(a) : r.ticker = t
        offered == UNION {{r.ticker : r \in rows(a)} : a \in DOMAIN arm[s]}
        Before(a) == {Arms[i] : i \in {j \in DOMAIN Arms : \A k \in 1..j : Arms[k] # a}}
        empty == {a \in DOMAIN arm[s] : rows(a) = {}}
    IN /\ TickersOf(b.rows) = offered /\ Len(b.rows) = Cardinality(offered)
       /\ \A r \in Range(b.rows) : \E a \in DOMAIN arm[s] :
            r \in rows(a) /\ \A e \in Before(a) : ~Offers(e, r.ticker)
       /\ b.status = "failed" <=> b.rows = << >>
       /\ b.status = "success" => empty = {}
       /\ b.warning = "catalyst only" => empty = DOMAIN arm[s] \ {"catalyst"}
       /\ b.warning \in {"coiled only", "catalyst failed"} => empty = DOMAIN arm[s] \ {"coiled"}
       /\ b.warning = "catalyst failed" => arm[s].catalyst.report.status = "failed"
       /\ b.warning = "legacy arms empty" => Legacy \cap DOMAIN arm[s] \subseteq empty
       /\ b.warning = "fallback" => \E a \in DOMAIN arm[s] : \E r \in rows(a) : "finviz" \notin r.from

\* Every scan that starts has its batch in the end, whatever fails on the way:
\* every page that is given up leaves its place to another.
DiscoveriesEnd ==
  \A s \in Scan : s \in Started ~> (s \in setup.scans /\ batch[s] # {})
=============================================================================
