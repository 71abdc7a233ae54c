----------------------------- MODULE ScanDecision -----------------------------
(***************************************************************************)
(* From a batch of candidates to the cards in the user's chat: the scan    *)
(* ranks the batch on what could be fetched, refreshes its finalists,      *)
(* decides with the model or without it, sizes, persists and sends         *)
(* (pipeline/orchestrator.py, pipeline/steps/decide.py, llm/router.py);    *)
(* then every tap on Alternatives decides on the next stored row           *)
(* (services/alternative_recommendation_service.py).                       *)
(*                                                                         *)
(* Abstractions: what the sources would answer of a candidate is data,     *)
(* Facts[c].answers[n] for the n-th moment, the first of them an earlier   *)
(* scan's; an outcome of an analysis says which of these the services work *)
(* on (module MarketData).  The analyses that run concurrently are of      *)
(* different tickers and share nothing, so that each gathering of them is  *)
(* one step.  The conversation with the model is kept, its prompt and      *)
(* prose are not.                                                          *)
(***************************************************************************)
EXTENDS Decision, MarketData

CONSTANTS
  Batch,            \* the tickers of the batch, in its order
  Facts,            \* the record of each of them, and what the sources answer
  Profile,          \* the settings the user may have, by name
  FirstOutcome,     \* outcomes of the first analyses
  LiveOutcome,      \* outcomes of the analyses of finalists, with live news
  Answer,           \* answers of the model that can be parsed
  FinalistLimit,    \* 4 in the code
  MaxAttempts,      \* posts of one question to the model: 3 in the code
  Tap,              \* taps on Alternatives, each of them at most once
  MaxEdits,         \* bound on the user's edits of the settings
  MaxCrashes        \* bound on the crashes of the process

ASSUME ScanAssumption ==
  /\ FinalistLimit \in Nat \ {0} /\ MaxAttempts \in Nat \ {0}
  /\ MaxEdits \in Nat /\ MaxCrashes \in Nat
  /\ "scan" \notin Tap
  /\ \A o \in FirstOutcome : o.news = "deferred"

\* The batch names a ticker once.
ASSUME BatchAssumption == Batch \in Seq(Range(Batch)) /\ IsInjective(Batch)

\* The columns of a user; without a value, None.
Settings ==
  [account : Int, risk : {"Conservative", "Balanced", "Aggressive"},
   permission : {"long", "short", "both"}, maxContracts : Int, maxPremium : Int, custom : Int,
   key : BOOLEAN, alpaca : BOOLEAN, alphavantage : BOOLEAN]

\* An account of exactly zero makes the scoring divide by zero.
ASSUME ProfileAssumption ==
  \A s \in DOMAIN Profile : Profile[s] \in Settings /\ Profile[s].account # 0

\* What the parser of the answer lets through.
ASSUME AnswerAssumption ==
  \A a \in Answer : /\ a.action \in Action /\ a.band \in Band \cup {"none"}
                    /\ a.watch \in Seq(Range(a.watch))

Ticker == Range(Batch)

\* The calendar reaches back from the day of the scan.
ASSUME FactsAssumption ==
  /\ IsFiniteSet(TradingDay)
  /\ \A c \in Ticker : /\ Facts[c].cap \in Int /\ Facts[c].place \in Int
                        /\ \E d \in TradingDay : d <= Facts[c].today - 5

Caller == Tap \cup {"scan"}
Over == {"done", "failed"}

VARIABLES
  settings,     \* the name of the user's settings
  edits,
  crashes,
  scan,         \* the scan: phase, user (settings it read), outcome, finalists, card
  tap,          \* each tap: phase, user, order (of the rows), shown, ticker, card
  call,         \* each caller's question to the model: attempt, corrective
  cards,        \* committed recommendations of the run
  chat,         \* cards the user has received
  overlapped,   \* whether two taps were ever served at once
  lost          \* whether a card was received that was never committed

vars == <<settings, edits, crashes, scan, tap, call, cards, chat, overlapped, lost>>

-----------------------------------------------------------------------------
(* One candidate, as analysed *)

\* 85% of the straddle at the front expiry that is nearest to the money.
ExpectedMove(chain, price, today) ==
  LET later == {n \in DOMAIN chain : chain[n].expiry > today}
      front == {n \in later : /\ \A m \in later : chain[n].expiry <= chain[m].expiry
                              /\ OptionMid(chain[n]) > 0}
      calls == {n \in front : chain[n].type = "call"}
      puts == {n \in front : chain[n].type = "put"}
      pairs == {n \in front : \E c \in calls, p \in puts :
                  chain[c].strike = chain[n].strike /\ chain[p].strike = chain[n].strike}
      best == chain[FirstBest(pairs, LAMBDA n : -Distance(chain[n].strike, price))].strike
      Leg(I) == OptionMid(chain[Min({n \in I : chain[n].strike = best})])
  IN IF price <= 0 \/ pairs = {} THEN None
     ELSE ((Leg(calls) + Leg(puts)) * 8500) \div price

\* Without market data, the candidate's own record.
RecordOnly(f) ==
  [price |-> f.recordPrice, named |-> FALSE, asOf |-> f.earnings # NoDay, latestVolume |-> f.recordVolume,
   adjust |-> -20, returns |-> [one |-> {}, five |-> {}, twenty |-> {}, fifty |-> {}],
   relative |-> [spy |-> {}, qqq |-> {}, sector |-> {}], volumeRatio |-> {},
   spy |-> {}, qqq |-> {}, sector |-> {}]

\* What the scoring gets of a candidate, from its market data and its chain.
Composed(f, o, u, fetched, market, chain) ==
  LET failed == [market |-> fetched = {}, chain |-> chain = << >>,
                 news |-> NewsFound(o) = "failed"]
  IN [source |-> f.source, earnings |-> f.earnings, verified |-> f.verified,
      named |-> f.named \/ market.named, event |-> f.event, today |-> f.today, chain |-> chain,
      expectedMove |-> ExpectedMove(chain, market.price, f.today),
      failures |-> {s \in DOMAIN failed : failed[s]},
      news |-> NewsFound(o) = "articles", keyValid |-> u.key,
      price |-> market.price, asOf |-> market.asOf, latestVolume |-> market.latestVolume,
      adjust |-> market.adjust, returns |-> market.returns, relative |-> market.relative,
      volumeRatio |-> market.volumeRatio, spy |-> market.spy, qqq |-> market.qqq,
      sector |-> market.sector]

\* The news summary swallows a refused key, so that the settings' key stands.
AnalysisFrom(f, o, u, fetched) ==
  Composed(f, o, u, fetched, IF fetched = {} THEN RecordOnly(f) ELSE CHOOSE m \in fetched : TRUE,
           GetChain(f, o, u))
Analysis(c, o, u) == AnalysisFrom(Facts[c], o, u, FetchSnapshot(Facts[c].answers, o, u))

\* A quote as the sources give it: numbers, and never crossed.
Quoted(c) ==
  /\ {"bid", "ask", "mid"} \subseteq DOMAIN c
  /\ c.type \in {"call", "put"} /\ c.side \in {"long", "short"}
  /\ c.bid \in Int /\ c.ask \in Int /\ c.mid \in Int /\ c.strike \in Nat \ {0}
  /\ c.expiry \in Int /\ c.delta \in Int /\ c.iv \in Int
  /\ c.delta >= None /\ (c.bid > 0 => c.bid <= OptionMid(c))
  /\ \A g \in c.greeks : /\ g.gamma \in Int /\ g.theta \in Int
                         /\ g.vega \in Int /\ g.reprice \in Int

\* That what is summed and searched on the way is a number, and a place of the
\* chain: scores in percent, as the code clamps them, square roots and days.
DirectionOf(k) == ScoreDirection(k, DataConfidence(k, {}))
ConsideredOn(k, u) == Considered(k, u, DirectionOf(k))
ScoreAt(k, u, i) == ScoreContract(k, u, k.chain[i], DirectionOf(k))
NumbersAt(k, u, i) ==
  LET c == k.chain[i]
      r == ScoreAt(k, u, i)
  IN /\ r.score \in 0..100 /\ r.liquidity \in 0..100 /\ DataConfidence(k, {c}) \in 0..100
     /\ Quoted(c)
     /\ k.earnings # NoDay => c.expiry - k.earnings \in -1000..1000
     /\ k.today < c.expiry =>
          ExpectedMoveFraction(k, c, Sessions(k.today, PlannedExit(k, c.expiry))) \in Int
Numbers(k, u) ==
  /\ k.price \in Int /\ k.today \in Int /\ k.earnings \in Int
  /\ DirectionOf(k).score \in 0..100 /\ DataConfidence(k, {}) \in 0..100
  /\ ConsideredOn(k, u) \in Seq(DOMAIN k.chain)
  /\ \A i \in Range(ConsideredOn(k, u)) : NumbersAt(k, u, i)

\* What the refreshed analysis of a finalist works on.
Refresh == Ticker \X FirstOutcome \X LiveOutcome \X DOMAIN Profile
Refreshed == [i \in Refresh |-> Reused(Facts[i[1]], i[2], i[3], Profile[i[4]])]
Outcome == FirstOutcome \cup {Refreshed[i] : i \in Refresh}

\* By ticker, outcome of the analysis, and the settings it was made for.
Evaluated == [c \in Ticker |-> [o \in Outcome |-> [s \in DOMAIN Profile |->
                ScoreCandidate(Analysis(c, o, Profile[s]), Profile[s])]]]
Underlying(c, o, u) == Analysis(c, o, u).price

Pending(f) == f.earnings - f.today \in 0..14 \/ \E e \in f.event : e.supportive

View(c, e, stored) ==
  LET f == Facts[c] IN
  [ticker |-> c, eval |-> e, cap |-> f.cap, place |-> f.place, pending |-> Pending(f),
   stored |-> stored]

ASSUME AnalysisAssumption ==
  \A c \in Ticker, o \in Outcome, s \in DOMAIN Profile :
    Numbers(Analysis(c, o, Profile[s]), Profile[s])

\* Opportunity, then confidence, then direction.
Standing(e) == 1000000 * e.final + 1000 * e.confidence + e.direction
SelectFinalists(tickers, evals) ==
  LET ranked == Descending(tickers, LAMBDA c : Standing(evals[c])) IN
  SubSeq(ranked, 1, Min({FinalistLimit, Len(ranked)}))

-----------------------------------------------------------------------------
(* The stored run *)

\* A missing quote is stored as zero, a missing mid as what it comes to.
Stored(c) == [c EXCEPT !.bid = Nz(@), !.ask = Nz(@), !.mid = Nz(OptionMid(c))]

\* A candidate rebuilt from its rows: without blockers, its contracts viable
\* first, then by score and liquidity.
StoredEvaluation(e) ==
  LET rows == [n \in DOMAIN e.ranked |-> [e.ranked[n] EXCEPT !.contract = Stored(@)]]
      ranked == Descending(rows, LAMBDA r : (IF Viable(r) THEN 1000000 ELSE 0)
                                            + 1000 * r.score + r.liquidity)
      pick == IF \E n \in DOMAIN ranked : Viable(ranked[n]) THEN 1 ELSE 0
      chosen == IF pick = 0 THEN {} ELSE {ranked[1]}
  IN [e EXCEPT !.blocked = FALSE, !.ranked = ranked, !.pick = pick,
               !.action = FinalAction(e.final, e.confidence, FALSE, chosen, e.direction)]

\* What each candidate comes to in the scan and, rebuilt from its rows, in a tap.
WithRebuilt(evaluated) ==
  [scan |-> evaluated,
   tap |-> [c \in Ticker |-> [o \in Outcome |-> [s \in DOMAIN Profile |->
              StoredEvaluation(evaluated[c][o][s])]]]]
Evaluations == WithRebuilt(Evaluated)
EvaluationIn(where, c) == Evaluations[where][c][scan.outcome[c]][scan.user]
Rows == [c \in Ticker |-> EvaluationIn("tap", c)]

\* The rows are read without an order, so that equal ones come in any.
RowOrders(rows) ==
  {SubSeq(s, 1, Min({FinalistLimit, Len(s)})) :
     s \in {q \in SetToSeqs(Ticker) : \A i, j \in DOMAIN q :
              i < j => Standing(rows[q[i]]) >= Standing(rows[q[j]])}}

-----------------------------------------------------------------------------
(* The question to the model *)

Fresh == [attempt |-> 0, corrective |-> FALSE]

PhaseOf(x) == IF x = "scan" THEN scan.phase ELSE tap[x].phase
UserOf(x) == IF x = "scan" THEN scan.user ELSE tap[x].user
CardOf(x) == IF x = "scan" THEN scan.card ELSE tap[x].card

\* A tap asks about its row, the scan about its finalists, ordered once more.
TickersOfCall(x) == IF x = "scan" THEN Range(scan.finalists) ELSE {tap[x].ticker}
ViewsFrom(x, evals) ==
  IF x = "scan"
  THEN LET ranked == SelectFinalists(scan.finalists, evals)
       IN [n \in DOMAIN ranked |-> View(ranked[n], evals[ranked[n]], FALSE)]
  ELSE <<View(tap[x].ticker, evals[tap[x].ticker], TRUE)>>
Place(x) == IF x = "scan" THEN "scan" ELSE "tap"
Views(x) == ViewsFrom(x, [c \in TickersOfCall(x) |-> EvaluationIn(Place(x), c)])

\* The evaluation that a card rests on.
EvaluationOf(card) == EvaluationIn(Place(card.by), card.ticker)

LlmBlocked == NoTrade("llm_blocked", << >>)

\* The recommendation that is persisted for a decision d on the view v.  A tap
\* sizes with the current settings but without their maximal premium, and its
\* confidence is that of the contract; that of the scan is the candidate's.
MakeCard(x, v, d) ==
  LET r == v.eval.ranked[d.pick]
      u == Profile[UserOf(x)]
      sized == Size(IF x = "scan" THEN u ELSE [u EXCEPT !.maxPremium = None], r.contract,
                    Underlying(v.ticker, scan.outcome[v.ticker], Profile[scan.user]))
  IN [by |-> x, ticker |-> v.ticker, engine |-> d.engine, action |-> d.action, pick |-> d.pick,
      user |-> UserOf(x),
      quantity |-> IF d.action = "watchlist" \/ sized = {} THEN 0
                   ELSE CHOOSE q \in sized : TRUE,
      confidence |-> IF x = "scan" THEN v.eval.final
                     ELSE CombineScores(v.eval.direction, r.score)]

\* The caller goes on with the decision d: it has a card to send, or a message,
\* or, for a tap whose row came to nothing, the next row.
Proceed(x, d, card) ==
  /\ IF x = "scan"
     THEN /\ scan' = [scan EXCEPT !.phase = "sending", !.card = card, !.watch = d.watch]
          /\ UNCHANGED tap
     ELSE /\ tap' = IF card # {} \/ d.engine = "llm_blocked"
                    THEN [tap EXCEPT ![x].phase = "sending", ![x].card = card]
                    ELSE [tap EXCEPT ![x].phase = "choosing",
                                     ![x].shown = @ \cup {tap[x].ticker}]
          /\ UNCHANGED scan
  /\ call' = [call EXCEPT ![x] = Fresh]
  /\ UNCHANGED <<settings, edits, crashes, cards, chat, overlapped, lost>>

Conclude(x, views, d) ==
  Proceed(x, d, IF d.action = "no_trade" THEN {}
                ELSE {MakeCard(x, CHOOSE v \in Range(views) : v.ticker = d.ticker, d)})

Asking(x) == PhaseOf(x) = "deciding"
Keyed(x) == Profile[UserOf(x)].key

\* The key is empty, or OpenRouter refuses it.
KeyRefused(x) == Asking(x) /\ Conclude(x, << >>, LlmBlocked)

\* A network error, a 429 or a 5xx, with posts left.
PostAgain(x) ==
  /\ Asking(x) /\ Keyed(x)
  /\ call[x].attempt < MaxAttempts - 1
  /\ call' = [call EXCEPT ![x].attempt = @ + 1]
  /\ UNCHANGED <<settings, edits, crashes, scan, tap, cards, chat, overlapped, lost>>

Unanswered(x, views) == Conclude(x, views, HeuristicDecision(views))

\* The last post fails, or any of them for good, or the answer cannot be parsed.
GiveUp(x) == Asking(x) /\ Keyed(x) /\ Unanswered(x, Views(x))

\* Mutant of TakeUp: that it was asked for once more is not remembered.
TakeUpUnmarked(x, a, views) ==
  IF Acceptable(views, a) THEN Conclude(x, views, Accepted(views, a))
  ELSE /\ call' = [call EXCEPT ![x] = Fresh]
       /\ UNCHANGED <<settings, edits, crashes, scan, tap, cards, chat, overlapped, lost>>

\* An answer is taken, or asked for once more with the reason, or given up.
TakeUp(x, a, views) ==
  IF Acceptable(views, a) THEN Conclude(x, views, Accepted(views, a))
  ELSE IF call[x].corrective THEN Unanswered(x, views)
  ELSE /\ call' = [call EXCEPT ![x] = [attempt |-> 0, corrective |-> TRUE]]
       /\ UNCHANGED <<settings, edits, crashes, scan, tap, cards, chat, overlapped, lost>>

Answered(x, a) == Asking(x) /\ Keyed(x) /\ TakeUp(x, a, Views(x))

-----------------------------------------------------------------------------
(* The scan *)

StartScan ==
  /\ scan.phase = "idle"
  /\ scan' = [scan EXCEPT !.phase = "ranking", !.user = settings]
  /\ UNCHANGED <<settings, edits, crashes, tap, call, cards, chat, overlapped, lost>>

RankBatch ==
  /\ scan.phase = "ranking"
  /\ \E o \in [Ticker -> FirstOutcome] :
       scan' = [scan EXCEPT !.phase = "refreshing", !.outcome = o,
                            !.finalists = SelectFinalists(Batch, [c \in Ticker |->
                                              Evaluated[c][o[c]][scan.user]])]
  /\ UNCHANGED <<settings, edits, crashes, tap, call, cards, chat, overlapped, lost>>

RefreshFinalists ==
  /\ scan.phase = "refreshing"
  /\ \E o \in [Range(scan.finalists) -> LiveOutcome] :
       scan' = [scan EXCEPT !.phase = "deciding",
                            !.outcome = [c \in Ticker |->
                              IF c \in DOMAIN o THEN Refreshed[<<c, @[c], o[c], scan.user>>] ELSE @[c]]]
  /\ call' = [call EXCEPT !["scan"] = Fresh]
  /\ UNCHANGED <<settings, edits, crashes, tap, cards, chat, overlapped, lost>>

-----------------------------------------------------------------------------
(* Taps on Alternatives, served by one process, each with a session *)

Served(t) == tap[t].phase \notin {"idle"} \cup Over

\* The button is that of a card; the run it belongs to must be committed.
StartTap(t) ==
  /\ tap[t].phase = "idle" /\ cards # {}
  /\ \E order \in RowOrders(Rows) :
       tap' = [tap EXCEPT ![t].phase = "choosing", ![t].user = settings, ![t].order = order,
                          ![t].shown = {c.ticker : c \in cards}]
  /\ overlapped' = (overlapped \/ \E s \in Tap : Served(s))
  /\ UNCHANGED <<settings, edits, crashes, scan, call, cards, chat, lost>>

\* Mutant of ChooseRow: the next row with a viable contract, shown or not.
ChooseRowAgain(t) ==
  LET left == {n \in DOMAIN tap[t].order : Rows[tap[t].order[n]].pick # 0} IN
  /\ tap[t].phase = "choosing"
  /\ tap' = IF left = {} THEN [tap EXCEPT ![t].phase = "sending"]
            ELSE [tap EXCEPT ![t].phase = "deciding", ![t].ticker = tap[t].order[Min(left)]]
  /\ call' = [call EXCEPT ![t] = Fresh]
  /\ UNCHANGED <<settings, edits, crashes, scan, cards, chat, overlapped, lost>>

\* The next row that was not shown and has a viable contract, or a message that
\* there is none.
ChooseRow(t) ==
  LET left == {n \in DOMAIN tap[t].order :
                 tap[t].order[n] \notin tap[t].shown /\ Rows[tap[t].order[n]].pick # 0} IN
  /\ tap[t].phase = "choosing"
  /\ tap' = IF left = {} THEN [tap EXCEPT ![t].phase = "sending"]
            ELSE [tap EXCEPT ![t].phase = "deciding", ![t].ticker = tap[t].order[Min(left)]]
  /\ call' = [call EXCEPT ![t] = Fresh]
  /\ UNCHANGED <<settings, edits, crashes, scan, cards, chat, overlapped, lost>>

-----------------------------------------------------------------------------
(* Sending, and the commit that follows *)

\* What a request has worked out is gone when it is over; the scan's outcome is
\* in the rows of the run.
Rest(phase) ==
  [phase |-> phase, user |-> "none", order |-> << >>, shown |-> {}, ticker |-> "none", card |-> {}]
EndScan(phase) == scan' = [scan EXCEPT !.phase = phase, !.card = {}, !.watch = << >>]

Become(x, phase) ==
  IF x = "scan"
  THEN /\ IF phase \in Over THEN EndScan(phase) ELSE scan' = [scan EXCEPT !.phase = phase]
       /\ UNCHANGED tap
  ELSE /\ tap' = [tap EXCEPT ![x] = IF phase \in Over THEN Rest(phase) ELSE [@ EXCEPT !.phase = phase]]
       /\ UNCHANGED scan

Send(x) ==
  /\ PhaseOf(x) = "sending"
  /\ Become(x, "sent")
  /\ chat' = chat \cup CardOf(x)
  /\ UNCHANGED <<settings, edits, crashes, call, cards, overlapped, lost>>

\* The send raises, although Telegram may have delivered: the session rolls back.
SendFails(x) ==
  /\ PhaseOf(x) = "sending"
  /\ Become(x, "failed")
  /\ \/ UNCHANGED <<chat, lost>>
     \/ chat' = chat \cup CardOf(x) /\ lost' = (lost \/ CardOf(x) # {})
  /\ UNCHANGED <<settings, edits, crashes, call, cards, overlapped>>

Commit(x) ==
  /\ PhaseOf(x) = "sent"
  /\ Become(x, "done")
  /\ cards' = cards \cup CardOf(x)
  /\ UNCHANGED <<settings, edits, crashes, call, chat, overlapped, lost>>

\* Everything under way is gone; what was sent is not.
Crash ==
  /\ crashes < MaxCrashes
  /\ crashes' = crashes + 1
  /\ lost' = (lost \/ \E x \in Caller : PhaseOf(x) = "sent" /\ CardOf(x) # {})
  /\ IF scan.phase \in {"idle"} \cup Over THEN UNCHANGED scan ELSE EndScan("failed")
  /\ tap' = [t \in Tap |-> IF Served(t) THEN Rest("failed") ELSE tap[t]]
  /\ call' = [x \in Caller |-> Fresh]
  /\ UNCHANGED <<settings, edits, cards, chat, overlapped>>

EditSettings(s) ==
  /\ edits < MaxEdits /\ s # settings
  /\ settings' = s
  /\ edits' = edits + 1
  /\ UNCHANGED <<crashes, scan, tap, call, cards, chat, overlapped, lost>>

-----------------------------------------------------------------------------
Init ==
  /\ settings \in DOMAIN Profile
  /\ edits = 0 /\ crashes = 0
  /\ scan = [phase |-> "idle", user |-> "none", outcome |-> << >>, finalists |-> << >>,
             card |-> {}, watch |-> << >>]
  /\ tap = [t \in Tap |-> Rest("idle")]
  /\ call = [x \in Caller |-> Fresh]
  /\ cards = {} /\ chat = {}
  /\ overlapped = FALSE /\ lost = FALSE

\* What the process does for a caller, whatever the sources and the model do.
Work(x) ==
  \/ KeyRefused(x) \/ PostAgain(x) \/ GiveUp(x)
  \/ \E a \in Answer : Answered(x, a)
  \/ Send(x) \/ SendFails(x) \/ Commit(x)
ScanWork == RankBatch \/ RefreshFinalists \/ Work("scan")
TapWork(t) == ChooseRow(t) \/ Work(t)

Next ==
  \/ StartScan \/ ScanWork \/ Crash
  \/ \E t \in Tap : StartTap(t) \/ TapWork(t)
  \/ \E s \in DOMAIN Profile : EditSettings(s)

\* The process goes on with what is under way, in any order.
Progress == ScanWork \/ \E t \in Tap : TapWork(t)

Spec == Init /\ [][Next]_vars /\ WF_vars(Progress)
-----------------------------------------------------------------------------
(* Properties *)

Phase == {"idle", "ranking", "refreshing", "choosing", "deciding", "sending", "sent"} \cup Over

\* Every variable has its type, and a watchlist names finalists, each once and
\* at most three (decide.py: _sanitize_watchlist, _augment_with_catalyst_pending).
TypeOK ==
  /\ settings \in DOMAIN Profile /\ edits \in 0..MaxEdits /\ crashes \in 0..MaxCrashes
  /\ \A x \in Caller : /\ PhaseOf(x) \in Phase /\ UserOf(x) \in DOMAIN Profile \cup {"none"}
                        /\ call[x].attempt \in 0..MaxAttempts - 1
                        /\ call[x].corrective \in BOOLEAN
                        /\ Cardinality(CardOf(x)) <= 1
  /\ \A t \in Tap : tap[t].shown \subseteq Ticker
  /\ \A c \in cards \cup chat : /\ c.action \in {"recommend", "watchlist"}
                               /\ c.quantity \in Nat /\ c.confidence \in 0..100
  /\ IsInjective(scan.watch) /\ Len(scan.watch) <= 3
  /\ Range(scan.watch) \subseteq Range(scan.finalists)
  /\ overlapped \in BOOLEAN /\ lost \in BOOLEAN

Warranted(card, e, r) ==
  LET allowed == FinalAction(CombineScores(e.direction, r.score), e.confidence, e.blocked,
                             {r}, e.direction)
  IN /\ Viable(r) /\ allowed # "no_trade"
     /\ card.action = "recommend" => allowed = "recommend"
     /\ card.by = "scan" /\ card.engine = "llm" => r.flags = {}

\* Whatever the model answers, however often it is asked, and when it gives no
\* answer: no card is stronger than what the scores of its own contract, with
\* the confidence in the data, allow; its contract passed every hard veto; and
\* the model cannot have a scan send a contract with a failed reality check
\* (validate_llm_decision, _min_band, _blocking_reality_flags).
NeverStrongerThanScoring ==
  \A c \in chat : Warranted(c, EvaluationOf(c), EvaluationOf(c).ranked[c.pick])

WithinLimits(card, k, u) ==
  /\ card.quantity > 0 =>
       /\ Permits(u, k.side) /\ card.quantity <= u.maxContracts
       /\ k.side = "long" => 10000 * k.ask * card.quantity <= u.account * RiskPercent(u)
       /\ Strategy(k) = "short_put" => 100 * k.strike * card.quantity <= MaxShortNotional(u)
  /\ card.by = "scan" /\ card.action = "recommend" => card.quantity > 0
  /\ card.by = "scan" /\ k.side = "long" /\ u.maxPremium # None => k.ask <= u.maxPremium

\* What a card tells the user to buy or sell is within the limits of the
\* settings it was made for, and a scan's recommendation is for at least one
\* contract: the veto that let it pass and the sizing of the card, in different
\* modules and from different quotes, agree (vetoes.py, sizing.py).
SizedForItsUser ==
  \A c \in chat : WithinLimits(c, EvaluationOf(c).ranked[c.pick].contract, Profile[c.user])

Followable(today, r) ==
  LET entry == OptionPremium(r.contract) IN
  \E p \in r.plan :
    /\ IF r.contract.side = "long" THEN p.stop <= entry /\ entry < p.option
                                   ELSE p.option <= entry /\ entry <= p.stop
    /\ IsTradingSession(p.exit)
    /\ today < p.exit /\ p.exit < r.contract.expiry

\* The plan on a card is one the position monitor can follow: the entry lies
\* between the stop and the target, and the exit is a session after the scan
\* and before the expiry (exit_target.py, probability.py, vetoes.py).
PlansBracketEntry ==
  \A c \in chat : Followable(Facts[c.ticker].today, EvaluationOf(c).ranked[c.pick])

\* The user is offered one ticker of a run twice only when two taps were served
\* at once or a card was received whose session rolled back (build_next reads
\* the tickers shown from the committed recommendations).
RepeatsOnlyByOverlap ==
  ~overlapped /\ ~lost => \A c, d \in chat : c.ticker = d.ticker => c = d

\* The scan and every tap come to their end, with a card, a message or an error:
\* neither the posts to the model nor the corrective question nor the rows left
\* to try go on for ever (llm/router.py, _decide_with_retry, build_next).
RequestsEnd == <>[](\A x \in Caller : PhaseOf(x) \in {"idle"} \cup Over)
=============================================================================
