---------------------------- MODULE PositionDrift ----------------------------
(***************************************************************************)
(* The frozen thesis of a position (services/positions/thesis_builder.py), *)
(* the quote it is compared with (snapshots.py), the criteria the          *)
(* comparison fires (drift.py) and what the review makes of the model's    *)
(* answer (revalidation_service.py).  Amounts are whole numbers; every     *)
(* ratio is compared by cross multiplication.                              *)
(***************************************************************************)
EXTENDS MarketCalendar

None == -1   \* an amount the program does not have

Kill == {"option_stop_breach", "underlying_stop_breach", "expiry_imminent_unresolved"}
Degrade == {"adverse_underlying_drift", "premium_trajectory_lag", "iv_adverse_move",
            "time_decay_overshoot", "catalyst_passed_no_follow_through",
            "pead_follow_through_failure"}
Informational == {"data_unavailable"}
Code == Kill \cup Degrade \cup Informational
AutoTrigger(fired) == fired \ Informational

-----------------------------------------------------------------------------
(***************************************************************************)
(* The thesis card.  rec: the recommendation; entry: the fill, the snapshot*)
(* taken with it (of nothing, when it came too late) and what the run has  *)
(* of the ticker: its card's price, the contract's artifact, its SQL row.  *)
(***************************************************************************)
Direction(rec) == IF (rec.type = "put") # (rec.side = "short") THEN "bearish" ELSE "bullish"

\* Straight line from the fill to the target over the sessions of the hold.
HasTrajectory(rec, entry) ==
  /\ rec.target > 0
  /\ SessionsBetween(entry.day, IF rec.exitBy # NoDay THEN rec.exitBy ELSE rec.expiry) # {}
TrajectorySessions(rec, entry) ==
  Cardinality(SessionsBetween(entry.day, IF rec.exitBy # NoDay THEN rec.exitBy ELSE rec.expiry))

\* Underlying and IV at the entry: the snapshot's, else what the run recorded,
\* its JSON artifact of the contract before the SQL rows.
Recorded(entry) ==
  IF entry.artifact # {} THEN [underlying |-> entry.card, iv |-> Max(entry.artifact)]
  ELSE IF entry.sql # {} THEN CHOOSE s \in entry.sql : TRUE
  ELSE [underlying |-> entry.card, iv |-> None]
FirstKnown(a, b) == IF a # None THEN a ELSE b
AtEntry(entry) ==
  [underlying |-> FirstKnown(entry.snap.underlying, Recorded(entry).underlying),
   iv |-> FirstKnown(entry.snap.iv, Recorded(entry).iv)]

\* sector_regime_warning is reserved, and the 13D criterion is for the model alone.
StrategyCriteria(source) ==
  IF source = "pead_continuation" THEN {"pead_follow_through_failure"} ELSE {}

\* The enabled criteria.  Those on headlines never are: no baseline of news is kept.
Criteria(rec, entry) ==
  StrategyCriteria(rec.source) \cup
  {c \in Code \ {"pead_follow_through_failure"} :
     CASE c = "option_stop_breach" -> rec.stop # None
       [] c = "underlying_stop_breach" -> rec.underlyingStop # None
       [] c = "adverse_underlying_drift" -> AtEntry(entry).underlying # None /\ rec.move # None
       [] c = "premium_trajectory_lag" -> HasTrajectory(rec, entry)
       [] c = "iv_adverse_move" -> AtEntry(entry).iv # None
       [] c = "time_decay_overshoot" -> rec.side = "long" /\ rec.holding # None
       [] c = "catalyst_passed_no_follow_through" -> rec.earnings # NoDay /\ rec.move # None
       [] OTHER -> TRUE}

Card(rec, entry) ==
  [side |-> rec.side, source |-> rec.source, direction |-> Direction(rec),
   day |-> entry.day, premium |-> entry.premium, underlying |-> AtEntry(entry).underlying,
   iv |-> AtEntry(entry).iv, expiry |-> rec.expiry, earnings |-> rec.earnings,
   holding |-> rec.holding, move |-> rec.move, target |-> rec.target,
   sessions |-> IF HasTrajectory(rec, entry) THEN TrajectorySessions(rec, entry) ELSE 0,
   criteria |-> Criteria(rec, entry)]

-----------------------------------------------------------------------------
(***************************************************************************)
(* The current quote.  A contract has bid, ask, mid and last; a position   *)
(* is closed at the bid (long) or the ask (short), else at mid or last or  *)
(* the other side, where zero counts as missing.                           *)
(***************************************************************************)
FirstOf(a, b, c) == IF a > 0 THEN a ELSE IF b > 0 THEN b ELSE c
Liquidation(contract, side) ==
  LET near == IF side = "short" THEN contract.ask ELSE contract.bid
      far == IF side = "short" THEN contract.bid ELSE contract.ask
  IN  IF near # None THEN near ELSE FirstOf(contract.mid, contract.last, far)

\* Alpaca's contract, or yfinance's, or none; the underlying on its own.
Snapshot(contracts, underlying, side) ==
  LET known == {c \in contracts : c.source = "alpaca"}
      contract == CHOOSE c \in (IF known # {} THEN known ELSE contracts) : TRUE
  IN  IF contracts = {}
      THEN [underlying |-> underlying, premium |-> None, iv |-> None,
            status |-> "unavailable"]
      ELSE LET premium == Liquidation(contract, side)
               exact == (IF side = "short" THEN contract.ask ELSE contract.bid) # None
           IN [underlying |-> underlying, premium |-> premium, iv |-> contract.iv,
               status |-> IF premium = None THEN "unavailable"
                          ELSE IF underlying = None \/ ~exact THEN "partial"
                          ELSE "complete"]

-----------------------------------------------------------------------------
(***************************************************************************)
(* The drift.                                                              *)
(***************************************************************************)
StopReached(side, now, stop) == IF side = "short" THEN now >= stop ELSE now <= stop
TargetReached(side, now, target) ==
  now # None /\ target # None /\ (IF side = "short" THEN now <= target ELSE now >= target)
UnderlyingStopReached(direction, now, stop) ==
  IF direction = "bearish" THEN now >= stop ELSE now <= stop

\* expected_move_percent is a ratio up to 1 and a percentage above.
MovePercent(move) == IF move <= 1 THEN 100 * move ELSE move

\* Four hundred times the directional drift of the underlying, as a share of its
\* entry price, against quarters of the expected move.
Known(card, snap) == card.underlying > 0 /\ snap.underlying # None
Favour(card, snap) == IF card.direction = "bearish" THEN card.underlying - snap.underlying
                                                    ELSE snap.underlying - card.underlying
DriftAtMost(card, snap, quarters) ==
  400 * Favour(card, snap) <= quarters * MovePercent(card.move) * card.underlying
DriftBelow(card, snap, quarters) ==
  400 * Favour(card, snap) < quarters * MovePercent(card.move) * card.underlying

SessionsHeld(card, day) ==
  LET n == Cardinality(SessionsBetween(card.day, day)) IN IF n > 1 THEN n ELSE 1

\* The trajectory's premium in the session held, times its last index.
LastIndex(card) == IF card.sessions > 2 THEN card.sessions - 1 ELSE 1
ExpectedPremium(card, day) ==
  LET i == Min({SessionsHeld(card, day) - 1, card.sessions - 1})
  IN  card.premium * LastIndex(card) + (card.target - card.premium) * i
Lagged(card, snap, day) ==
  LET expected == ExpectedPremium(card, day)
      now == snap.premium * LastIndex(card)
  IN  expected # 0 /\ (IF card.side = "short" THEN 4 * now > 5 * expected
                                              ELSE 4 * now < 3 * expected)

Fires(c, card, plan, snap, day) ==
  CASE c = "option_stop_breach" ->
         snap.premium # None /\ plan.stop # None
         /\ StopReached(card.side, snap.premium, plan.stop)
    [] c = "underlying_stop_breach" ->
         snap.underlying # None /\ plan.underlyingStop # None
         /\ UnderlyingStopReached(card.direction, snap.underlying, plan.underlyingStop)
    [] c = "adverse_underlying_drift" -> Known(card, snap) /\ DriftAtMost(card, snap, -3)
    [] c = "premium_trajectory_lag" -> snap.premium # None /\ Lagged(card, snap, day)
    [] c = "iv_adverse_move" ->
         /\ snap.iv # None /\ card.iv > 0
         /\ IF card.side = "long" THEN 100 * snap.iv < 65 * card.iv
                                  ELSE 100 * snap.iv > 150 * card.iv
    [] c = "time_decay_overshoot" ->
         /\ card.holding > 0 /\ snap.premium # None
         /\ 2 * SessionsHeld(card, day) > card.holding /\ 2 * snap.premium < card.premium
         /\ ~TargetReached(card.side, snap.premium, plan.target)
    [] c = "catalyst_passed_no_follow_through" ->
         card.earnings < day /\ Known(card, snap) /\ DriftBelow(card, snap, 2)
    [] c = "pead_follow_through_failure" ->
         card.move # None /\ Known(card, snap) /\ DriftBelow(card, snap, 1)
    [] c = "expiry_imminent_unresolved" ->
         /\ Cardinality(SessionsBetween(day, card.expiry)) <= 2 /\ snap.premium # None
         /\ ~TargetReached(card.side, snap.premium, plan.target)
    [] OTHER -> snap.premium = None \/ snap.underlying = None

Drift(card, plan, snap, day) == {c \in card.criteria : Fires(c, card, plan, snap, day)}

-----------------------------------------------------------------------------
(***************************************************************************)
(* What is kept of the model's answer.  raw.evidence cites fired codes,    *)
(* "snapshot" (a field it was given) or "invented".                        *)
(***************************************************************************)
NoProposal == [target |-> None, stop |-> None, underlyingStop |-> None]
Blind(snap) == snap.premium = None /\ snap.underlying = None

\* Mutant of ValidStop: any stop on the right side of the premium will do.
ValidStopAgainstPremium(proposed, side, plan, snap) ==
  /\ proposed.stop > 0
  /\ snap.premium # None => IF side = "short" THEN proposed.stop > snap.premium
                                              ELSE proposed.stop < snap.premium

ValidStop(proposed, side, plan, snap) ==
  /\ proposed.stop > 0
  /\ IF side = "short"
     THEN (snap.premium # None => proposed.stop > snap.premium)
          /\ (plan.stop # None => proposed.stop < plan.stop)
     ELSE (snap.premium # None => proposed.stop < snap.premium)
          /\ (plan.stop # None => proposed.stop > plan.stop)

ValidTarget(proposed, side, snap) ==
  /\ proposed.target > 0
  /\ snap.premium # None => IF side = "short" THEN proposed.target < snap.premium
                                              ELSE proposed.target > snap.premium

Supported(raw) == raw.evidence \ {"invented"}

\* The underlying stop of a proposal is kept as it came.
\*
\* The rules are applied one after the other, each to the model's own action,
\* and a later one may overrule an earlier one.
Normalized(raw, fired, side, plan, snap) ==
  LET kill == fired \cap Kill
      none == "insufficient_data"
      first == IF Supported(raw) = {} \/ Blind(snap) THEN none ELSE raw.action
      stop == ValidStop(raw.proposed, side, plan, snap)
      target == ValidTarget(raw.proposed, side, snap)
  IN  IF raw.action = "close" /\ kill = {}
      THEN [action |-> IF stop THEN "adjust_stop" ELSE none, proposed |-> raw.proposed]
      ELSE IF raw.action = "hold" /\ kill # {} /\ kill \cap Supported(raw) = {}
      THEN [action |-> none, proposed |-> raw.proposed]
      ELSE IF \/ raw.action = "adjust_stop" /\ ~stop
              \/ raw.action = "adjust_target" /\ ~target
      THEN [action |-> none, proposed |-> NoProposal]
      ELSE [action |-> first, proposed |-> raw.proposed]
=============================================================================
