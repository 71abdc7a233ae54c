---------------------------- MODULE MarketCalendar ----------------------------
(***************************************************************************)
(* The NYSE calendar as the program asks for it (services/market_hours.py).*)
(* A day is an integer, a trading session is a day of TradingDay; which    *)
(* days those are comes from pandas_market_calendars.                      *)
(***************************************************************************)
EXTENDS Integers, FiniteSetsExt

CONSTANT TradingDay   \* the session dates
ASSUME TradingDayAssumption == TradingDay \subseteq Int

NoDay == -1000   \* a date column that is NULL

SessionsBetween(a, b) == {d \in TradingDay : a <= d /\ d <= b}
SessionsAfterUntil(a, b) == SessionsBetween(a + 1, b)
IsTradingSession(d) == d \in TradingDay

\* Max and Min below are FiniteSetsExt's.  The program looks 370 days around
\* and raises when there is none; the calendar has one.
PreviousSession(d) == Max({s \in TradingDay : s < d})
PreviousOrSame(d) == Max({s \in TradingDay : s <= d})
NextSession(d) == Min({s \in TradingDay : s > d})
NextOrSame(d) == Min({s \in TradingDay : s >= d})

\* The session the latest regular quote belongs to; opened: whether the day's
\* session has begun at the moment of the scan.
ReferenceDate(d, opened) ==
  IF d \in TradingDay /\ ~opened THEN PreviousSession(d) ELSE PreviousOrSame(d)
=============================================================================
