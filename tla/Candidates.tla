------------------------------- MODULE Candidates -------------------------------
(***************************************************************************)
(* Rows of a screener and what becomes of them: reconciled with the        *)
(* earnings sources, and merged into the batch of a scan                   *)
(* (earnings_calendar/reconciler.py, candidate_service.py,                 *)
(* finnhub_source.py, coiled_setup_service.py, multi_strategy_service.py). *)
(*                                                                         *)
(* A row holds ticker, company (whether a name is known), cap (millions),  *)
(* price (cents), change (in {} when missing), sector ("none"), day (of    *)
(* the earnings), verified, rank, from (its sources) and event ({} or its  *)
(* signal).  Ratios are in ten-thousandths.  What an arm reports is        *)
(* [rows, status, raised, fallback]; an arm warns exactly when its status  *)
(* is "fallback".                                                          *)
(***************************************************************************)
EXTENDS Scoring

CandidateRow ==
  [ticker : STRING, company : BOOLEAN, cap : Int, price : Int, change : SUBSET Int,
   sector : STRING, day : Int, verified : BOOLEAN, rank : Int, from : SUBSET STRING,
   event : SUBSET [score : Int, supportive : BOOLEAN]]

ArmOrder == <<"catalyst", "pead", "coiled", "sector", "activist">>
Legacy == {"catalyst", "coiled"}

TickersOf(rows) == {r.ticker : r \in Range(rows)}

Report(rows, status) == [rows |-> rows, status |-> status, raised |-> FALSE, fallback |-> FALSE]
Reported(rows) == Report(rows, IF rows = << >> THEN "empty" ELSE "success")
Raised == [Report(<< >>, "failed") EXCEPT !.raised = TRUE]

-----------------------------------------------------------------------------
(* Reconciliation of one row with the records of other sources *)

FirstKnown(values, unknown) ==
  LET known == {i \in DOMAIN values : values[i] # unknown}
  IN IF known = {} THEN unknown ELSE values[Min(known)]

\* In {}, or with the day chosen and whether it is verified.
ResolveDate(records, fallback) ==
  LET dated == {i \in DOMAIN records : records[i].day # NoDay}
      Support(i) == Cardinality({j \in dated : records[j].day = records[i].day})
      best == FirstBest(dated, Support)
  IN IF dated = {} THEN {[day |-> d, verified |-> FALSE] : d \in fallback}
     ELSE IF Cardinality({records[i].day : i \in dated}) = 1 \/ Support(best) >= 2
     THEN {[day |-> records[best].day, verified |-> TRUE]}
     ELSE {[day |-> d, verified |-> FALSE] : d \in fallback}

ReconcileAll(records, fallback) ==
  LET Known(F(_), unknown) == FirstKnown([i \in DOMAIN records |-> F(records[i])], unknown)
  IN {r \in {[ticker |-> records[1].ticker, company |-> \E n \in Range(records) : n.company,
              cap |-> Known(LAMBDA n : n.cap, None), price |-> Known(LAMBDA n : n.price, None),
              change |-> Known(LAMBDA n : n.change, {}),
              sector |-> Known(LAMBDA n : n.sector, "none"),
              day |-> d.day, verified |-> d.verified, rank |-> records[1].rank,
              from |-> UNION {n.from : n \in Range(records)}, event |-> {}] :
               d \in ResolveDate(records, fallback)} :
        r.company /\ r.cap # None /\ r.price # None}

\* In {} when the company, its size, its price or its earnings remain unknown.
Reconcile(primary, backups, fallback) == ReconcileAll(<<primary>> \o backups, fallback)

-----------------------------------------------------------------------------
(* The catalyst arm.  details gives, by source, the record of each ticker   *)
(* it can describe, in {} when it cannot or fails; calendar is in {} when   *)
(* Finnhub's calendar could not be loaded, else the sequence of the         *)
(* earnings it announces in the window.                                     *)

Sources == <<"yfinance", "finnhub">>

\* The window is next week's, Monday to Sunday.
NextWeekWindow(today) == LET start == today + (7 - (today % 7)) IN <<start, start + 6>>
InWindow(day, window) == window[1] <= day /\ day <= window[2]

\* Finnhub's records carry the day its calendar gives, and need the calendar.
Dated(details, calendar) ==
  [details EXCEPT !.finnhub =
     [t \in DOMAIN details.finnhub |->
        {[r EXCEPT !.day = IF \E i \in DOMAIN c : c[i].ticker = t
                           THEN (CHOOSE e \in Range(c) : e.ticker = t).day ELSE NoDay] :
           r \in details.finnhub[t], c \in calendar}]]

\* In {} when the row is rejected.
ValidateRow(row, details, window) ==
  LET asked == Where(Sources, LAMBDA n : n \notin row.from)
      backups == Present([i \in DOMAIN asked |-> details[asked[i]][row.ticker]])
      screened == "finviz" \in row.from
      start == window[1]
  IN {IF InWindow(r.day, window) THEN r ELSE [r EXCEPT !.day = start, !.verified = FALSE] :
        r \in {x \in Reconcile(row, backups, IF screened THEN {start} ELSE {}) :
                 screened \/ InWindow(x.day, window)}}

WithoutRepeatedTickers(rows) ==
  Kept(rows, {i \in DOMAIN rows : \A j \in 1..i - 1 : rows[j].ticker # rows[i].ticker})

\* taken, followed by the valid rows not yet in it, limit rows at most.
Admit(rows, taken, limit, details, window) ==
  First(WithoutRepeatedTickers(
          taken \o Present([i \in DOMAIN rows |-> ValidateRow(rows[i], details, window)])),
        limit)

\* Only Finnhub lists what is coming; yfinance lists nothing.
ListUpcoming(details, calendar, limit) ==
  LET announced == First(calendar, Max({16 * limit, 64}))
      profiled == Where(Present([i \in DOMAIN announced |->
                                   details.finnhub[announced[i].ticker]]),
                        LAMBDA r : r.cap >= 2000)
      shortlisted == First(Descending(profiled, LAMBDA r : r.cap), Max({3 * limit, 12}))
  IN First(Where(shortlisted, LAMBDA r : r.price >= 2000), limit)

LoadBackupCandidates(details, calendar, limit) ==
  LET listed == IF calendar = {} THEN << >>
                ELSE ListUpcoming(details, CHOOSE c \in calendar : TRUE, limit)
  IN Present([i \in DOMAIN listed |-> Reconcile(listed[i], << >>, {})])

Supplemented(validated, details, calendar, limit, window) ==
  LET remaining == limit - Len(validated)
  IN IF remaining = 0 THEN validated
     ELSE Admit(LoadBackupCandidates(details, calendar, Max({2 * remaining, remaining + 2})),
                validated, limit, details, window)

ValidateRows(rows, details, calendar, limit, window) ==
  Supplemented(Admit(rows, << >>, limit, details, window), details, calendar, limit, window)

CatalystOutcome(rows, gone) ==
  IF rows = << >> THEN (IF gone THEN Report(<< >>, "failed") ELSE Raised)
  ELSE [Report(rows, IF gone THEN "fallback" ELSE "success") EXCEPT
          !.fallback = gone \/ \E r \in Range(rows) : "finviz" \notin r.from]

CatalystChoice(screen, gone, details, calendar, limit, window) ==
  ValidateRows(IF gone THEN LoadBackupCandidates(details, calendar, limit) ELSE screen.rows,
               details, calendar, limit, window)

\* screen: [failed, rows] of the query runner.
CatalystReport(screen, known, calendar, limit, window) ==
  LET gone == screen.failed \/ screen.rows = << >>
  IN CatalystOutcome(CatalystChoice(screen, gone, Dated(known, calendar), calendar, limit, window),
                     gone)

-----------------------------------------------------------------------------
(* The arm of coiled setups *)

WithCoiledSignals(rows) ==
  LET n == Len(rows) IN
  [i \in DOMAIN rows |-> [rows[i] EXCEPT
     !.event = {[score |-> (100 * (n - i + 1)) \div n, supportive |-> TRUE]}]]

CoiledReport(screen, limit) ==
  Reported(IF screen.failed THEN << >> ELSE WithCoiledSignals(First(screen.rows, limit)))

-----------------------------------------------------------------------------
(* The batch.  arms is the sequence of the arms, reports gives the report   *)
(* of each of them.                                                         *)

MergeDedupe(arms, reports) ==
  WithoutRepeatedTickers(FlattenSeq([i \in DOMAIN arms |-> reports[arms[i]].rows]))

\* Mutant of BatchStatus: only an arm that failed makes the batch partial.
BatchStatusByFailure(reports, merged) ==
  IF merged = << >> THEN "failed"
  ELSE IF \E a \in DOMAIN reports : reports[a].status = "failed" THEN "partial"
  ELSE "success"

BatchStatus(reports, merged) ==
  IF merged = << >> THEN "failed"
  ELSE IF \E a \in DOMAIN reports : reports[a].status \in {"empty", "failed"} THEN "partial"
  ELSE "success"

\* The warning of the batch: "fallback" is the text of an arm that fell back.
ResolveWarning(reports, merged) ==
  LET Gives(a) == a \in DOMAIN reports /\ reports[a].rows # << >>
      others == \E a \in DOMAIN reports \ Legacy : Gives(a)
      Failed(a) == a \in DOMAIN reports /\ reports[a].raised
  IN IF merged = << >> THEN "both failed"
     ELSE IF Gives("catalyst") /\ ~Gives("coiled") /\ ~others
     THEN (IF Failed("coiled") THEN "coiled failed" ELSE "catalyst only")
     ELSE IF Gives("coiled") /\ ~Gives("catalyst") /\ ~others
     THEN (IF Failed("catalyst") THEN "catalyst failed" ELSE "coiled only")
     ELSE IF others /\ ~Gives("catalyst") /\ ~Gives("coiled") THEN "legacy arms empty"
     ELSE IF \E a \in DOMAIN reports : reports[a].status = "fallback" THEN "fallback"
     ELSE "none"

BatchOf(arms, reports) ==
  LET merged == MergeDedupe(arms, reports) IN
  [rows |-> merged, status |-> BatchStatus(reports, merged),
   warning |-> ResolveWarning(reports, merged),
   fallback |-> \E a \in DOMAIN reports : reports[a].fallback]
=============================================================================
