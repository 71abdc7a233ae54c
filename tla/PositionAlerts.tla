---------------------------- MODULE PositionAlerts ----------------------------
(***************************************************************************)
(* The alerts of the position monitor (services/positions/monitor.py) and  *)
(* the taps of telegram/handlers/position.py that silence or re-arm them.  *)
(*                                                                         *)
(* One poll is one database session: it reads every active row first, then *)
(* works through the tickers awaiting quotes, status checks and Telegram   *)
(* between the rows, and commits once at the end.  Autoflush writes a row  *)
(* before each status check, so from then on PostgreSQL keeps the row      *)
(* locked until the poll ends; before that a tap may change it under the   *)
(* poll.  Where a row drifted from its thesis the poll awaits a review     *)
(* (Revalidation) with its own transaction open.  What the P/L of a closed *)
(* row does is PositionLedger's; overlap of two taps is modelled there too,*)
(* so here one tap runs at a time.                                         *)
(***************************************************************************)
EXTENDS Integers, FiniteSets

CONSTANTS
  Position,       \* open_positions rows
  ShortPosition,  \* those whose recommendation is a short option
  User,           \* owners, each a Telegram chat
  Owner,          \* Owner[p]: the user of row p
  Ticker,         \* Ticker[p]: the underlying of row p
  Price,          \* premiums the market quotes and the user types
  FirstPlan,      \* FirstPlan[p]: the levels of p's recommendation
  ExitBy,         \* ExitBy[p]: the exit-by date of its recommendation, or NoDate
  Expiry,         \* Expiry[p]: the day its contract expires
  Unwritten,      \* rows whose fill left no position_theses row
  Shadow,         \* position_validation_shadow_mode: no review follows a drift
  LastDay,        \* bound on the calendar, days 0..LastDay
  MaxPolls,       \* bound on the polls of a behaviour
  MaxTaps,        \* bound on the taps of a behaviour
  Tapped          \* bound on them: the rows whose buttons are tapped

ASSUME PositionAssumption == ShortPosition \subseteq Position /\ IsFiniteSet(Position)
ASSUME OwnerAssumption == Owner \in [Position -> User]
ASSUME ReviewAssumption == Unwritten \subseteq Position /\ Shadow \in BOOLEAN
ASSUME PriceAssumption ==
  /\ Price \subseteq Nat \ {0}
  /\ FirstPlan \in [Position -> [{"target", "stop"} -> Price \cup {0}]]
ASSUME DateAssumption ==
  Expiry \in [Position -> Nat] /\ ExitBy \in [Position -> Int] /\ LastDay \in Nat
ASSUME BoundAssumption == MaxPolls \in Nat /\ MaxTaps \in Nat /\ Tapped \subseteq Position

VARIABLES
  row,    \* row[p]: the committed open_positions row p
  plan,   \* plan[p]: the levels in force, latest override or recommendation
  today,  \* the date, in New York
  poll,   \* the poll in progress
  tap,    \* the tap in progress
  thesis, \* rows with a committed thesis
  heard,  \* heard[p][a]: alerts a about p delivered to its owner
  stray,  \* stray[p][a]: those delivered to another user; both counts of a
          \*   level restart when the user sets that level
  shared, \* history: rows polled together with another user's
  wish,   \* history: levels the user silenced and that are still silent
  raced,  \* history: levels last set while a poll was under way
  polls, taps, lost  \* polls begun, taps begun, polls rolled back

vars == <<row, plan, today, poll, tap, thesis, heard, stray, shared, wish, raced,
          polls, taps, lost>>
told == <<heard, stray, shared>>

-----------------------------------------------------------------------------
NoPrice == 0     \* NULL in the price columns, and no quote
NoDate == -1     \* NULL in exit_by_date
Level == {"target", "stop"}
DateAlert == {"exit_by_date", "expiry_t_minus_1"}
Alert == Level \cup DateAlert
\* The order in which the alerts of a row go out, and the first of some.
Rank == [target |-> 1, stop |-> 2, exit_by_date |-> 3, expiry_t_minus_1 |-> 4]
First(alerts) == CHOOSE a \in alerts : \A b \in alerts : Rank[a] <= Rank[b]
Quote == Price \cup {NoPrice}
Plan == [Level -> Quote]

\* muted: the level's muted_until is NULL, ahead of now, or behind it.
Muting == {"never", "running", "over"}
Row == [status : {"active", "closed", "gone"}, last : Quote,
        count : [Level -> Nat], muted : [Level -> Muting],
        dismissed : [Level -> BOOLEAN], sent : SUBSET DateAlert]
NewRow == [status |-> "active", last |-> NoPrice,
           count |-> [l \in Level |-> 0], muted |-> [l \in Level |-> "never"],
           dismissed |-> [l \in Level |-> FALSE], sent |-> {}]

\* view: the rows as the poll read them; mine: as it has changed them; drafts:
\* rows whose thesis its session has inserted and not committed.
IdlePoll == [pc |-> "idle", view |-> [p \in Position |-> NewRow],
             mine |-> [p \in Position |-> NewRow],
             today |-> 0, rest |-> {}, group |-> {},
             plans |-> [p \in Position |-> [l \in Level |-> NoPrice]],
             chat |-> {}, at |-> {}, alerts |-> {}, locked |-> {}, quiet |-> {},
             drafts |-> {}]
Poll == [pc : {"idle", "next", "alerting", "reviewing"}, view : [Position -> Row],
         mine : [Position -> Row], today : 0..LastDay,
         rest : SUBSET Position, group : SUBSET Position,
         plans : [Position -> Plan], chat : SUBSET User, at : SUBSET Position,
         alerts : SUBSET Alert, locked : SUBSET Position,
         quiet : SUBSET (Position \X Level), drafts : SUBSET Position]

Tap ==
       [op : {"okay"}, pos : Position, level : Level]
  \cup [op : {"mute"}, pos : Position, level : Level, until : {"running", "over"}]
  \cup [op : {"adjust", "apply"}, pos : Position, levels : (SUBSET Level) \ {{}},
        price : Price]
  \cup [op : {"sell", "delete"}, pos : Position]
NoTap == [op |-> "none"]

TypeOK ==
  /\ row \in [Position -> Row]
  /\ plan \in [Position -> Plan]
  /\ today \in 0..LastDay
  /\ poll \in Poll
  /\ tap.req \in Tap \cup {NoTap} /\ tap.seen \in Row /\ tap.plan \in Plan
  /\ tap.overlap \in BOOLEAN
  /\ thesis \subseteq Position /\ shared \subseteq Position
  /\ heard \in [Position -> [Alert -> Nat]] /\ stray \in [Position -> [Alert -> Nat]]
  /\ wish \subseteq Position \X Level
  /\ raced \subseteq Position \X Level
  /\ polls \in 0..MaxPolls /\ taps \in 0..MaxTaps /\ lost \in Nat

IdleTap == [req |-> NoTap, seen |-> NewRow, plan |-> [l \in Level |-> NoPrice],
            overlap |-> FALSE]

Init ==
  /\ row = [p \in Position |-> NewRow]
  /\ plan = FirstPlan
  /\ today = 0
  /\ poll = IdlePoll
  /\ tap = IdleTap
  /\ thesis = Position \ Unwritten
  /\ heard = [p \in Position |-> [a \in Alert |-> 0]]
  /\ stray = heard /\ shared = {}
  /\ wish = {} /\ raced = {}
  /\ polls = 0 /\ taps = 0 /\ lost = 0

-----------------------------------------------------------------------------
(***************************************************************************)
(* Which alerts a row calls for.                                           *)
(***************************************************************************)
\* The side on which a quote lies beyond level l of a long, or a short, row.
Above(p, l) == (l = "target") # (p \in ShortPosition)
Reached(p, l, q, level) == IF Above(p, l) THEN q >= level ELSE q <= level
Crossed(p, l, before, q, level) ==
  before # NoPrice /\ ~Reached(p, l, before, level) /\ Reached(p, l, q, level)

\* Mutant of LevelDue: the mute is not looked at.
LevelDueIfMuted(p, l, r, level, q) ==
  /\ ~r.dismissed[l] /\ level > 0
  /\ IF r.count[l] = 0 THEN Reached(p, l, q, level)
                       ELSE Crossed(p, l, r.last, q, level)

LevelDue(p, l, r, level, q) ==
  /\ ~r.dismissed[l] /\ r.muted[l] # "running" /\ level > 0
  /\ IF r.count[l] = 0 THEN Reached(p, l, q, level)
                       ELSE Crossed(p, l, r.last, q, level)

DateDue(p, a, day) ==
  IF a = "exit_by_date" THEN ExitBy[p] # NoDate /\ day >= ExitBy[p]
                        ELSE Expiry[p] - day <= 1
PastExpiry(p, day) == day > Expiry[p]

AlertsFor(p, q) ==
  LET r == poll.view[p] IN
  {l \in Level : LevelDue(p, l, r, poll.plans[p][l], q)}
    \cup {d \in DateAlert : d \notin r.sent /\ DateDue(p, d, poll.today)}

-----------------------------------------------------------------------------
(***************************************************************************)
(* The poll.                                                               *)
(***************************************************************************)
Active == {p \in Position : row[p].status = "active"}

PollStart ==
  /\ poll.pc = "idle" /\ polls < MaxPolls
  /\ poll' = [IdlePoll EXCEPT !.pc = "next", !.view = row, !.mine = row,
                              !.today = today, !.rest = Active, !.quiet = wish]
  /\ polls' = polls + 1
  /\ tap' = [tap EXCEPT !.overlap = TRUE]
  /\ UNCHANGED <<row, plan, today, thesis, told, wish, raced, taps, lost>>

\* Mutant of Lenders: the group as it was read, expired rows included.
LendersOfAll(members, live) == members

\* The rows the first of which lends its owner's keys and chat to the group.
Lenders(members, live) == live

\* Rows of a group in which not all are of one user.
Mixed(live) == IF \E p, q \in live : Owner[p] # Owner[q] THEN live ELSE {}

\* One ticker: expired rows are closed and flushed, then the overrides of the
\* others are read.
BeginGroup ==
  /\ poll.pc = "next" /\ poll.group = {} /\ poll.rest # {}
  /\ \E t \in {Ticker[p] : p \in poll.rest} :
       LET members == {p \in poll.rest : Ticker[p] = t}
           expired == {p \in members : PastExpiry(p, poll.today)}
           live == members \ expired
       IN  /\ \A p \in expired : row[p].status # "gone"
           /\ \E chat \in IF live = {} THEN {{}}
                         ELSE {{Owner[p]} : p \in Lenders(members, live)} :
                poll' = [poll EXCEPT
                  !.rest = @ \ members, !.group = live, !.chat = chat,
                  !.plans = [p \in Position |-> IF p \in live THEN plan[p] ELSE @[p]],
                  !.mine = [p \in Position |-> IF p \in expired
                              THEN [@[p] EXCEPT !.status = "closed"] ELSE @[p]],
                  !.locked = @ \cup expired]
           /\ shared' = shared \cup Mixed(live)
  /\ UNCHANGED <<row, plan, today, tap, thesis, heard, stray, wish, raced, polls, taps, lost>>

\* No quote from Alpaca or yfinance, or the row ended meanwhile: nothing is done.
SkipPosition ==
  /\ poll.pc = "next"
  /\ \E p \in poll.group : poll' = [poll EXCEPT !.group = @ \ {p}]
  /\ UNCHANGED <<row, plan, today, tap, thesis, told, wish, raced, polls, taps, lost>>

PollPosition ==
  /\ poll.pc = "next"
  /\ \E p \in poll.group, q \in Price :
       /\ row[p].status = "active"
       /\ poll' = [poll EXCEPT !.pc = "alerting", !.at = {p},
                               !.alerts = AlertsFor(p, q), !.mine[p].last = q]
  /\ UNCHANGED <<row, plan, today, tap, thesis, told, wish, raced, polls, taps, lost>>

\* Mutants of Noted: date alerts are not remembered; levels are kept among them.
NotedLevels(r, a) ==
  IF a \in Level THEN [r EXCEPT !.count[a] = @ + 1] ELSE r
NotedAll(r, a) == [r EXCEPT !.sent = @ \cup {a}]

Noted(r, a) ==
  IF a \in Level THEN [r EXCEPT !.count[a] = @ + 1] ELSE [r EXCEPT !.sent = @ \cup {a}]

\* Autoflush, a last look at the status, Telegram, and the row remembers it.
SendAlert ==
  /\ poll.pc = "alerting" /\ poll.alerts # {}
  /\ \E p \in poll.at :
       /\ row[p].status = "active"
       /\ IF Owner[p] \in poll.chat
          THEN stray' = stray /\ heard' = [heard EXCEPT ![p][First(poll.alerts)] = @ + 1]
          ELSE heard' = heard /\ stray' = [stray EXCEPT ![p][First(poll.alerts)] = @ + 1]
       /\ poll' = [poll EXCEPT !.alerts = @ \ {First(@)}, !.locked = @ \cup {p},
                               !.mine[p] = Noted(@, First(poll.alerts))]
  /\ UNCHANGED <<row, plan, today, tap, thesis, shared, wish, raced, polls, taps, lost>>

\* The row was closed by a tap since the first look: the rest is dropped.
StopAlerting ==
  /\ poll.pc = "alerting" /\ poll.alerts # {}
  /\ \E p \in poll.at :
       /\ row[p].status = "closed"
       /\ poll' = [poll EXCEPT !.alerts = {}, !.locked = @ \cup {p}]
  /\ UNCHANGED <<row, plan, today, tap, thesis, told, wish, raced, polls, taps, lost>>

\* The flush after the alerts (a deleted row makes it raise: see PollFails), and
\* the drift: "none" is compared when the session is over or an input missing;
\* else a missing thesis is inserted, and a criterion that fires asks for a
\* review.  One that is refused before it needs the thesis counts as "quiet".
FinishPosition ==
  /\ poll.pc = "alerting" /\ poll.alerts = {}
  /\ \E p \in poll.at, drift \in {"none", "quiet", "review"} :
       /\ row[p].status # "gone"
       /\ drift = "review" => ~Shadow
       /\ poll' = [poll EXCEPT
            !.pc = IF drift = "review" THEN "reviewing" ELSE "next",
            !.at = IF drift = "review" THEN @ ELSE {},
            !.group = IF drift = "review" THEN @ ELSE @ \ {p}, !.locked = @ \cup {p},
            !.drafts = IF drift = "none" \/ p \in thesis THEN @ ELSE @ \cup {p}]
  /\ UNCHANGED <<row, plan, today, tap, thesis, told, wish, raced, polls, taps, lost>>

\* The review of an active row needs its thesis.  If the poll itself has inserted
\* it, the review's insert of the same unique row waits for the poll's transaction.
Blocked ==
  /\ poll.pc = "reviewing"
  /\ \E p \in poll.at : p \in poll.drafts /\ row[p].status = "active"

ReviewReturns ==
  /\ poll.pc = "reviewing" /\ ~Blocked
  /\ poll' = [poll EXCEPT !.pc = "next", !.at = {}, !.group = @ \ poll.at]
  /\ UNCHANGED <<row, plan, today, tap, thesis, told, wish, raced, polls, taps, lost>>

Written(now, old, new) == IF new # old THEN new ELSE now
\* Mutant of Flushed: the whole row is written back.
FlushedWhole(now, old, new) == new

\* The UPDATE of a flushed row: the columns the poll changed, as it has them.
Flushed(now, old, new) ==
  [status |-> Written(now.status, old.status, new.status),
   last |-> Written(now.last, old.last, new.last),
   count |-> [l \in Level |-> Written(now.count[l], old.count[l], new.count[l])],
   muted |-> now.muted, dismissed |-> now.dismissed,
   sent |-> Written(now.sent, old.sent, new.sent)]

PollCommit ==
  /\ poll.pc = "next" /\ poll.group = {} /\ poll.rest = {}
  /\ row' = [p \in Position |-> IF p \in poll.locked
               THEN Flushed(row[p], poll.view[p], poll.mine[p]) ELSE row[p]]
  /\ poll' = IdlePoll /\ thesis' = thesis \cup poll.drafts
  /\ UNCHANGED <<plan, today, tap, told, wish, raced, polls, taps, lost>>

\* Mutant of PollFails: the session is neither rolled back nor closed.
PollFailsHoldingLocks ==
  /\ poll.pc # "idle" /\ ~Blocked
  /\ poll' = [IdlePoll EXCEPT !.locked = poll.locked]
  /\ lost' = lost + 1
  /\ UNCHANGED <<row, plan, today, tap, thesis, told, wish, raced, polls, taps>>

\* Nothing is committed, what was sent stays sent.
RolledBack ==
  /\ poll' = IdlePoll
  /\ lost' = lost + 1
  /\ UNCHANGED <<row, plan, today, tap, thesis, told, wish, raced, polls, taps>>

\* Telegram refuses a message, a flush finds its row deleted, a statement or the
\* review fails, or the process dies.
PollFails == poll.pc # "idle" /\ ~Blocked /\ RolledBack

\* Only the end of its process ends a poll that waits for itself.
PollKilled == Blocked /\ RolledBack

-----------------------------------------------------------------------------
(***************************************************************************)
(* The taps.                                                               *)
(***************************************************************************)
TapRead ==
  /\ tap.req = NoTap /\ taps < MaxTaps
  /\ \E r \in Tap :
       /\ r.pos \in Tapped /\ row[r.pos].status = "active"
       /\ tap' = [req |-> r, seen |-> row[r.pos], plan |-> plan[r.pos],
                  overlap |-> poll.pc # "idle"]
  /\ taps' = taps + 1
  /\ UNCHANGED <<row, plan, today, poll, thesis, told, wish, raced, polls, lost>>

\* The levels an adjustment re-arms: those whose price changed, and all that a
\* review's proposal covers.
Rearmed(r, old) ==
  IF r.op = "apply" THEN r.levels ELSE {l \in r.levels : old[l] # r.price}

Afresh(seen, again) ==
  [seen EXCEPT !.dismissed = [l \in Level |-> @[l] /\ l \notin again],
               !.muted = [l \in Level |-> IF l \in again THEN "never" ELSE @[l]],
               !.count = [l \in Level |-> IF l \in again THEN 0 ELSE @[l]]]

\* What the handler makes of the row it read.
Answered(r, seen, old) ==
  IF r.op = "okay" THEN [seen EXCEPT !.dismissed[r.level] = TRUE]
  ELSE IF r.op = "mute" THEN [seen EXCEPT !.muted[r.level] = r.until]
  ELSE IF r.op = "sell" THEN [seen EXCEPT !.status = "closed"]
  ELSE IF r.op = "delete" THEN [seen EXCEPT !.status = "gone"]
  ELSE Afresh(seen, Rearmed(r, old))

\* The tap's UPDATE: only the columns that differ from what it read.
Merged(now, old, new) ==
  [status |-> Written(now.status, old.status, new.status), last |-> now.last,
   count |-> [l \in Level |-> Written(now.count[l], old.count[l], new.count[l])],
   muted |-> [l \in Level |-> Written(now.muted[l], old.muted[l], new.muted[l])],
   dismissed |-> [l \in Level |->
                    Written(now.dismissed[l], old.dismissed[l], new.dismissed[l])],
   sent |-> now.sent]

Silenced(p, r) == {<<p, l>> : l \in {k \in Level : r.dismissed[k] \/ r.muted[k] = "running"}}

\* An UPDATE of a row the poll has flushed waits until the poll ends.
MayWrite(p, old, new) == new = old \/ p \notin poll.locked

TapCommit ==
  /\ tap.req # NoTap
  /\ LET r == tap.req
         p == r.pos
         new == Answered(r, tap.seen, tap.plan)
         set == IF r.op \in {"adjust", "apply"} THEN r.levels ELSE {}
         again == IF set = {} THEN {} ELSE Rearmed(r, tap.plan)
     IN  /\ MayWrite(p, tap.seen, new)
         /\ row' = [row EXCEPT ![p] = Merged(@, tap.seen, new)]
         /\ plan' = IF set = {} THEN plan
                    ELSE [plan EXCEPT ![p] = [l \in Level |->
                            IF l \in set THEN r.price ELSE tap.plan[l]]]
         /\ heard' = [heard EXCEPT ![p] = [a \in Alert |-> IF a \in again THEN 0 ELSE @[a]]]
         /\ stray' = [stray EXCEPT ![p] = [a \in Alert |-> IF a \in again THEN 0 ELSE @[a]]]
         /\ wish' = {w \in wish : w[1] # p} \cup Silenced(p, new)
         /\ raced' = LET these == {<<p, l>> : l \in again} IN
                     IF tap.overlap THEN raced \cup these ELSE raced \ these
  /\ tap' = IdleTap
  /\ UNCHANGED <<today, poll, thesis, shared, polls, taps, lost>>

-----------------------------------------------------------------------------
(***************************************************************************)
(* Time.  A poll takes the clock once, when it begins (monitor.py:81-82),  *)
(* so time that passes during a poll passes for it when it is over.        *)
(***************************************************************************)
MuteEnds ==
  /\ poll.pc = "idle"
  /\ \E p \in Position, l \in Level :
       /\ row[p].muted[l] = "running" /\ tap.req = NoTap
       /\ row' = [row EXCEPT ![p].muted[l] = "over"]
       /\ wish' = wish \ (IF row[p].dismissed[l] THEN {} ELSE {<<p, l>>})
  /\ UNCHANGED <<plan, today, poll, tap, thesis, told, raced, polls, taps, lost>>

DayPasses ==
  /\ poll.pc = "idle" /\ today < LastDay
  /\ today' = today + 1
  /\ UNCHANGED <<row, plan, poll, tap, thesis, told, wish, raced, polls, taps, lost>>

PollStep ==
  \/ BeginGroup \/ SkipPosition \/ PollPosition \/ SendAlert \/ StopAlerting
  \/ FinishPosition \/ ReviewReturns \/ PollCommit \/ PollFails
Next ==
  \/ PollStart \/ PollStep \/ PollKilled
  \/ TapRead \/ TapCommit \/ MuteEnds \/ DayPasses

\* An event loop runs every awaiting coroutine on: a poll under way that does not
\* wait for itself goes on or fails, and a tap's transaction ends once its row is
\* free.  Nothing has to kill the process.
Spec == Init /\ [][Next]_vars /\ WF_vars(PollStep) /\ WF_vars(TapCommit)

-----------------------------------------------------------------------------
(***************************************************************************)
(* Properties.                                                             *)
(***************************************************************************)
\* The alerts that went out, to the owner or to another user.
sends == [p \in Position |-> [a \in Alert |-> heard[p][a] + stray[p][a]]]

\* What a row records was delivered to its owner: its counters count alerts about
\* the level now in force, unless the user set it while a poll was under way
\* (monitor.py:321, position.py:573), and a date in alerts_sent was announced.
\* The alerts of a row polled together with another user's go to the owner of
\* the first row read (monitor.py:131): of those somebody heard.
RecordedIsHeard ==
  \A p \in Position :
    LET reached(a) == IF p \in shared THEN sends[p][a] ELSE heard[p][a]
    IN  /\ \A l \in Level : row[p].count[l] <= reached(l) \/ <<p, l>> \in raced
        /\ \A d \in row[p].sent : reached(d) > 0

\* Alerts go out before the poll commits (monitor.py:312, 102): an announced
\* date is repeated at most once for each poll that was rolled back.
DatesAnnouncedOnce ==
  \A p \in Position, d \in DateAlert : sends[p][d] <= 1 + lost

\* Once Okay or Mute is committed, no poll begun later alerts on that level
\* until the mute ends or the level is set anew (position.py:632, 640): no poll
\* loses the choice, whatever it read before.
SilenceIsKept ==
  [][\A p \in Position, l \in Level :
       sends'[p][l] > sends[p][l] => <<p, l>> \notin poll.quiet]_vars

\* The row locks a poll gathers never stop the bot: every tap is committed and
\* every poll ends (monitor.py:102, deps.py:22), unless the poll waits for a
\* review that waits for the thesis the poll inserted (monitor.py:360, 408).
TapsAndPollsEnd ==
  /\ (tap.req # NoTap) ~> (tap.req = NoTap \/ Blocked)
  /\ (poll.pc # "idle") ~> (poll.pc = "idle" \/ Blocked)
=============================================================================
