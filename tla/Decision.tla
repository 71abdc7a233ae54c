------------------------------- MODULE Decision -------------------------------
(***************************************************************************)
(* The decision step (pipeline/steps/decide.py) as pure operators: the     *)
(* heuristic choice, the validation of the model's answer and the          *)
(* watchlists.  A finalist v holds its ticker, its evaluation eval, its    *)
(* market cap, pending (a catalyst is close: earnings within 14 days or a  *)
(* supportive event) and stored (rebuilt from the rows of the run, without *)
(* the reality check).  An answer of the model a holds action, band (none  *)
(* when omitted), ticker (none), pick (the index of its contract among the *)
(* considered ones, 0 for a contract not there), runway (whether its prose *)
(* speaks of months of runway) and watch.                                  *)
(***************************************************************************)
EXTENDS Scoring

Action == {"recommend", "watchlist", "no_trade"}
Band == {"no_trade", "watchlist", "standard", "strong"}

BandFromScore(score) ==
  Tier(score, <<<<78, "strong">>, <<68, "standard">>, <<60, "watchlist">>, <<Lowest, "no_trade">>>>)
BandRank == [no_trade |-> 0, watchlist |-> 1, standard |-> 2, strong |-> 3]
ActionForBand(band) == IF band \in {"strong", "standard"} THEN "recommend" ELSE band
BandOrDefault(a) ==
  IF a.band # "none" THEN a.band ELSE IF a.action = "recommend" THEN "standard" ELSE a.action
\* Mutant of MinBand: the answer's own band is kept.
MinBandAsAnswered(a, b) == a
MinBand(a, b) == IF BandRank[a] <= BandRank[b] THEN a ELSE b

HasViable(v) == \E n \in DOMAIN v.eval.ranked : Viable(v.eval.ranked[n])
TickersOf(views) == [n \in DOMAIN views |-> views[n].ticker]
FirstThree(s) == SubSeq(s, 1, Min({3, Len(s)}))

-----------------------------------------------------------------------------
(* Watchlists *)

RankCandidates(views) ==
  Descending(views, LAMBDA v : 10000 * v.eval.final + 10 * v.eval.confidence + v.cap)

\* Mutant of SanitizeWatchlist: a ticker named twice stays twice.
SanitizeWatchlistRepeating(views, requested, exclude) ==
  FirstThree(Kept(requested, {n \in DOMAIN requested :
                     requested[n] \in Range(TickersOf(views)) \ {exclude}}))

\* The tickers requested, those of finalists, each once.
SanitizeWatchlist(views, requested, exclude) ==
  FirstThree(Kept(requested, {n \in DOMAIN requested :
                     /\ requested[n] \in Range(TickersOf(views)) \ {exclude}
                     /\ \A m \in 1..n - 1 : requested[m] # requested[n]}))

DefaultWatchlist(views) == FirstThree(TickersOf(RankCandidates(views)))

\* Tops the list up with candidates that wait for a catalyst, by confidence;
\* place is the rank of their tickers in the alphabet.
AugmentWithCatalystPending(views, watch, exclude) ==
  LET waiting == Kept(views, {n \in DOMAIN views :
                        /\ views[n].pending /\ ~HasViable(views[n])
                        /\ views[n].ticker \notin Range(watch) \cup {exclude}})
  IN FirstThree(watch \o TickersOf(Descending(waiting,
                                   LAMBDA v : 100 * v.eval.confidence + v.place)))

NoTrade(engine, watch) ==
  [engine |-> engine, action |-> "no_trade", band |-> "no_trade", ticker |-> "none",
   pick |-> 0, watch |-> watch]

-----------------------------------------------------------------------------
(* The heuristic choice *)

HeuristicDecision(views) ==
  LET best == RankCandidates(views)[1] IN
  IF views = << >> THEN NoTrade("heuristic", << >>)
  ELSE IF best.eval.action = "no_trade" \/ best.eval.pick = 0
  THEN NoTrade("heuristic", DefaultWatchlist(views))
  ELSE [engine |-> "heuristic", action |-> best.eval.action,
        band |-> IF best.eval.action = "recommend" THEN BandFromScore(best.eval.final)
                 ELSE "watchlist",
        ticker |-> best.ticker, pick |-> best.eval.pick, watch |-> DefaultWatchlist(views)]

-----------------------------------------------------------------------------
(* The model's answer *)

BlockingFlags(v, r) == IF v.stored THEN {} ELSE r.flags
ClaimsImpossibleRunway(v, a, r) == a.runway /\ ~v.stored /\ r.dte < 45

StructuralBand(v, r) ==
  LET final == CombineScores(v.eval.direction, r.score)
      action == FinalAction(final, v.eval.confidence, v.eval.blocked, {r}, v.eval.direction)
  IN IF action = "recommend" THEN BandFromScore(final) ELSE action

\* The contract an answer names: in {} unless it is one of the first three and
\* viable.
VisibleContract(v, a) ==
  {v.eval.ranked[n] : n \in {a.pick} \cap 1..Min({3, Len(v.eval.ranked)})}
SelectedContract(v, a) == {r \in VisibleContract(v, a) : Viable(r)}

\* The finalist named, in {} when there is none.
Named(views, a) == {v \in Range(views) : v.ticker = a.ticker}

Acceptable(views, a) ==
  /\ ActionForBand(BandOrDefault(a)) = a.action
  /\ a.action # "no_trade" =>
       \E v \in Named(views, a) : \E r \in SelectedContract(v, a) : ~ClaimsImpossibleRunway(v, a, r)

\* What becomes of an acceptable answer.
Accepted(views, a) ==
  LET v == CHOOSE x \in Named(views, a) : TRUE
      r == CHOOSE x \in SelectedContract(v, a) : TRUE
      band == IF BlockingFlags(v, r) # {} THEN "no_trade"
              ELSE MinBand(BandOrDefault(a), StructuralBand(v, r))
      OrDefault(watch) == IF watch = << >> THEN DefaultWatchlist(views) ELSE watch
      Served(watch, exclude) ==
        AugmentWithCatalystPending(views, SanitizeWatchlist(views, watch, exclude), exclude)
  IN IF a.action = "no_trade"
     THEN NoTrade("llm", OrDefault(SanitizeWatchlist(views, a.watch, a.ticker)))
     ELSE IF band = "no_trade"
     THEN NoTrade("llm", OrDefault(Served(
            IF a.ticker \in Range(a.watch) THEN a.watch ELSE <<a.ticker>> \o a.watch, "none")))
     ELSE [engine |-> "llm", action |-> ActionForBand(band), band |-> band,
           ticker |-> a.ticker, pick |-> a.pick, watch |-> Served(a.watch, a.ticker)]
=============================================================================
