# Earning Edge: a TLA+ model

Earning Edge scans the market on a user's schedule, sends one options
recommendation to a Telegram chat, and keeps the account of the positions the
user reports. This directory models `src/app` from the page of a screener to the
last alert about a position. Every definition is translated from the source;
`PROJECT.json` (`map`) names the lines each one stands for. Paths and line
numbers below are of `src/app` unless they name a document.

## 1. The system

Two processes share PostgreSQL, Redis and Telegram.

* **API** (`main.py`): starts APScheduler, which runs `run_workflow` at the
  users' schedules and `poll_open_positions` every two minutes of market time,
  each job with `max_instances=1`.
* **Bot** (`telegram/bot.py`): aiogram long polling. Updates are handled
  concurrently, each in one or more `session_scope()` sessions. It never starts
  a scheduler.

PostgreSQL runs at READ COMMITTED. A session of the ORM is a unit of work: it
reads rows, changes objects, and writes at flush time the *columns* that differ
from what it read, as absolute values. No row has a version, none is read
`FOR UPDATE`; a row that was flushed is locked until its transaction ends.

### Inventory

| component (source) | state it keeps | operations | interacts with | what is hard | correct means |
|---|---|---|---|---|---|
| Workflow runner, run lock (`scheduler/jobs.py`, `services/run_lock.py`) | `workflow_runs` row, Redis key `run-lock:<user>` with TTL | acquire, open run, pipeline, commit, mark failed, release | scheduler and bot start it, orchestrator runs inside it | failure of each step, crash, TTL, lost acknowledgement | scans of a user take turns; row, recommendation and answer agree; every scan ends |
| Orchestrator (`pipeline/orchestrator.py`, `services/logging_service.py`) | candidates, contracts, recommendation in the runner's session; the chat | rank, refresh, decide, size, persist, notify, capture | discovery, scoring, decision step | sends before the commit, data that changes between two analyses | a successful scan has what it announced |
| Candidate discovery (`candidate_service.py`, `multi_strategy_service.py`, the services of the five arms, `earnings_calendar/*`, `sec/*`) | the calendar Finnhub's source keeps | arms at once, reconcile, fall back, merge | screener, clients | one arm of several failing, dates nobody confirms | rows backed by what sources said, status and warning honest |
| Screener and caches (`services/finviz/*`) | Redis cache of pages, a semaphore of browsers | query, capture, reload, store | arms | many queries for few places, stale pages | every query is answered, by a page not older than the TTL |
| Scoring, sizing, exit targets (`scoring/*`, `services/sizing.py`, `exit_target.py`) | none | pure functions | orchestrator, alternatives | boundaries, zeros, rounding | limits respected, plans that can be followed |
| Decision and LLM router (`pipeline/steps/decide.py`, `llm/router.py`) | a conversation | ask, retry, correct, fall back | LLM | answers that name what does not exist | the card is never stronger than its scores |
| Market data, options and news (`services/market_data`, `options`, `news`) | snapshots in Redis, yfinance chains in the process | fetch a snapshot, a chain, a bundle of news | analyses of a scan | sources that fail, disagree or are a scan old | what a card rests on is within its limits whatever was found |
| Alternatives (`alternative_recommendation_service.py`) | recommendations of a run | build next | bot taps | concurrent taps, settings changed since the scan | no ticker twice in turn, each card fits its user |
| Positions and account (`services/positions/account.py`, handlers `position`, `history`, `recommendation`, `menu`, `open_position_repo`) | `open_positions`, `users.account_size`, `feedback_events` | buy, sell, edit, erase, delete, expire, resize | monitor poll, bot sessions | overlapping sessions | the account is the user's size plus each settled P/L once |
| Monitor alerts (`services/positions/monitor.py`) | alert counters, mutes, dismissals, premiums | poll, alert, mute, dismiss, re-arm | quotes, Telegram, validation | sends before the commit, whole poll rolled back, row locks | what a row records was heard, what the user silenced stays silent |
| Validation (`revalidation_service.py`, `thesis_builder.py`, `drift.py`, `snapshots.py`) | theses, revalidations, Redis lock | manual and automatic validation, apply | monitor, LLM | lock without Redis, cap and cooldown, one session awaiting another | one validation at a time, cap kept, advice backed, nothing waits for ever |
| Scheduler synchronisation (`scheduler/scheduler.py`, `schedule.py`, `user_service.py`) | `cron_jobs`, APScheduler job store, each process's scheduler | add, edit, delete, pause, resume, time zone, start, sync | bot handlers, API boot | two processes, crash within a sync | jobs are those of the active rows |
| Dialogues (`onboarding.py`, `settings.py`) | FSM state in Redis | steps | user service | abandoned and repeated dialogues | a finished dialogue writes once |

The status of each, with those not modelled and why, is in `PROJECT.json`
(`components`); the hazards, each at its line, in `hazards`.

## 2. Modules

| module | extends | role |
|---|---|---|
| `WorkflowRunner` | | one scan: lock, sessions, pipeline, faults, answers |
| `RunLedger` | | abstract: scans take turns, a record opens and concludes once |
| `PositionLedger` | | one user's positions and account under overlapping sessions |
| `AccountLedger` | | abstract: the balance moves with the positions that move |
| `ScheduleSync` | | schedule rows, job store, both processes, boot and crash |
| `PositionAlerts` | | polls, alerts, counters and the taps that silence them |
| `MarketCalendar` | | the trading sessions, as operators |
| `PositionDrift` | `MarketCalendar` | thesis, drift criteria, normalisation of a review, as operators |
| `Revalidation` | `PositionDrift` | reviews, their lock and throttle, the poll that starts them |
| `Sequencing` | | stable sort, filtered lists, first members, as operators |
| `OptionPlan` | `MarketCalendar` | one contract: quote, size, exit plan, reality check, vetoes |
| `Scoring` | `OptionPlan`, `Sequencing` | direction, confidence, score of a contract and a candidate |
| `Decision` | `Scoring` | heuristic choice, validation of the model's answer, watchlists |
| `MarketData` | `OptionPlan` | snapshot, option chain and news from what the sources answer, and what caches reuse |
| `ScanDecision` | `Decision`, `MarketData` | scan from batch to card, then the taps on Alternatives |
| `Candidates` | `Scoring` | reconciliation, catalyst and coiled arms, merge of the arms |
| `StrategyArms` | `Candidates` | drift after earnings, sectors, activist filings |
| `Screener` | | queries, cache, semaphore, reloads |
| `Discovery` | `StrategyArms`, `Screener` | the arms of concurrent scans, from query to batch |
| `MC*` | | instances for TLC |
| `DataTheorems` | `Sequencing` | lemmas: sorted and filtered lists, sums over a finite set, least members |
| other `*Proofs` | the module named | theorems, checked by TLAPS |

The program is followed in the order of its data: `Discovery` ends in a batch,
`ScanDecision` starts from one and ends in cards, `WorkflowRunner` is the same
scan seen by its lock and its sessions, `PositionLedger`, `PositionAlerts` and
`Revalidation` are the position the user bought from a card. They are separate
machines because their states are independent but for the rows named here.

### WorkflowRunner

An element of `Inv` is one call of `run_workflow`: its lock token, its run id,
its coroutine. `pc` follows the code: `locked` after `acquire`, `opened` after
the first commit, `persisted`, `notified`, `captured` through the pipeline,
`failing` in the except branch, `releasing` in the finally block. `row` is
committed, `tx` is the open session's copy, `cards` and `heard` are what the
chat has seen. Each kind of fault is a constant of the configuration:

* a fault shares the guard of its step (`InsertRaises`, `CommitRaises`,
  `MarkFailedRaises`, ...) and does what the except and finally blocks make of
  it; the failure session can fail too. The handler's answer is a send of its own:
  when it raises (`AnswerRaises`, menu.py:64-77) the call ends `unheard`;
* `ack` is a commit that succeeded and raised;
* `crash` ends all calls of a process: killed (`Crash`) they leave their keys to
  the TTL; stopped (`Shutdown`) they are cancelled, which skips the except branch
  but runs the finally block. `slow` lets the key of a live scan expire. Without
  `slow`, a key only expires when its call no longer holds it.

What the pipeline computes is abstracted to recommendation or no trade;
`ScanDecision` has it. `blockedBy` is history.

### PositionLedger

An element of `Session` is one database session: an update in the bot, or a
poll. It reads the user and the rows in separate steps (`ReadUser`, `ReadRows`;
the poll the other way round), works on `mine`, and `Commit` merges column by
column against what it had read (`MergedRow`, `MergedAccount`). An UPDATE of a
deleted row cannot commit (`NoneStale`). A DELETE of one only warns, so
`Erase` still moves the account. `Interleaved` says whether sessions may
overlap. Amounts count half ticks: an odd price has more decimals than
`Numeric(14,4)` keeps and is rounded when it is written (`OnGrid`), while the
P/L is computed from what was typed. `base` is a ghost: the size the user set
without any P/L. So is `fill`: which session opened a row, and which others had by
then looked for an active row of the same recommendation in vain. Both expiry loops (menu and poll) close row by row on their
copy (`CloseExpired`) and commit together.

### ScheduleSync

`rows` is `cron_jobs`, `store` the API's persistent job store, `pending` the
jobs waiting in the bot's scheduler that never starts. The schedule handlers
commit and then sync (`BotRead`, `BotSync`), settings and onboarding do not.
The API reads the rows once per start; `sync_jobs` then purges and replaces job
by job, each call a transaction of the store, so a crash between `RemoveJob`
and `AddJob` is a state of the model. A job in the store of a started scheduler
starts scans, which are `WorkflowRunner`'s cron calls. A handler's own session
is one step: its writes are single rows of one user.

### PositionAlerts

`poll` is one call of `poll_open_positions`: it read all active rows first
(`poll.mine`), then works through the tickers awaiting quotes and sends, and
commits once. Autoflush writes a row before its status check; from then on
(`poll.locked`) PostgreSQL keeps the row locked and a tap on it waits, and
before it a tap may change the row under the poll. `tap` is one handler session
of the bot (mute, okay, adjust, apply, sold, delete). `row` is committed; `plan`
holds the levels in force. A send, a quote request, a review or the final commit
may fail, and with the commit the counters of a whole poll are lost after their
alerts were heard.

A group of rows of one ticker borrows the chat of its first live row's user
(`monitor.py:131-152`; the query has no order, so the first is any). What goes to
the owner of the row counts in `heard`, what goes to somebody else in `stray`, and
`shared` remembers the rows that were polled together with another user's.

After its alerts a row is compared with its thesis. If the thesis is missing
(`Unwritten`: a fill whose thesis was never committed) the poll inserts it in its
open session (`poll.drafts`), and unless the configuration only logs drifts
(`Shadow`) it awaits the review (`reviewing`) with its locks held. A review that
needs the very thesis the poll has inserted waits for the poll (`Blocked`); only
the end of the process (`PollKilled`) ends that. What the review itself does is
`Revalidation`'s.

### Revalidation

`call[c]` is one review, by tap or by the poll: lock, context read in one
session, quotes, thesis, criteria, model, result stored in another session,
release. `thesis[p]` may be a row, or one inside the poll's still open session:
an insert of the same unique `open_position_id` then waits. `lock[p]` is the
Redis key; a review goes on without it when Redis is down, and it may expire
(`lapsed` is history). The criteria are `PositionDrift`'s operators over the
quote the review found; ratios are compared by cross multiplication. A crash
ends the process that runs a review. A proposal has both premium levels and the
underlying stop, which no rule of the normalisation looks at and which the stop's
button writes with the premium stop (`Apply`, `position.py:285-318`). `plan[p].by`
is the override's `position_revalidation_id`; `review[c].basis` is history: the
premium stop of the plan the review was made of.

### OptionPlan, Scoring, Decision, MarketData, ScanDecision

Prices are cents, ratios basis points or ten-thousandths, days integers; the
rounding of the code is part of the operators (`HalfEven`, `HalfUp`). The
Black-Scholes repricing behind an exit target is an input. The operators were
compared with the Python functions on some 1800 generated inputs while they
were written: they differ by at most one point, where floats round the other way.

`MarketData` composes a snapshot from the answers of yfinance, Alpha Vantage and
the benchmarks (returns, volume against its average, what missing and
conflicting sources cost in confidence) and a chain from the listings of Alpaca
or yfinance within the window of expiries. An answer belongs to a moment
(`Facts[c].answers[n]`): earlier in the day, at the scan, at its refresh. The
snapshot of the first of these that had one is the day's, as the Redis key has
the ticker and the day; without keys of Alpaca's the same holds of the chain
(`Reused`). A scan during which the snapshot cache ends (16:00) is left out.
News is only whether there are articles, none, or a failure.

`ScanDecision` follows a scan (`ranking`, `refreshing`, `choosing`, `deciding`,
`sending`, `sent`) and the taps after it. The concurrent analyses of
a scan are of different tickers and share nothing, so gathering them is one step
that chooses, per ticker, which sources answered and of which moment. The model answers anything in `Answer`, refuses, or
cannot be reached; posts are retried up to `MaxAttempts`, an answer the code
cannot use gets one corrective question. `rows` are the stored candidates;
their order is not given by the query (`candidate_repo.list_for_run` has no
`ORDER BY`) and so is any. A tap reads the tickers shown, decides on the next
row with the settings of that moment, sends, then commits.

Python's stable sort is `Sorted`, which counts the members before each place,
and a comprehension with a condition is `Kept`: neither recurs, so that proofs can
expand them.
The module names what it takes of its constants: a batch without repeated
tickers, settings within their columns and an account that is not zero, answers
that the parser let through, and `AnalysisAssumption`. The last says of every
analysis the constants give that its scores are in 0..100, where the code clamps
them, and that its contracts are places of its chain and its quotes numbers.
One clause is about the market and not checked by the code: a contract with a
bid is not crossed (`Quoted`). A sold call is planned to be bought back at the
mid and more, which is above its entry, the bid, only then.

### Screener, Candidates, StrategyArms, Discovery

`fetch[f]` is one query of one scan: it looks in the cache, waits for a place
of the semaphore (`held`), loads the page and loads it again while its table
does not appear, stores it and answers. `now` moves in ticks, each a part of
the cache's TTL. An arm is over when its queries are (`Ready`) and it has done
its work, and a batch is merged when every arm is. What the sources other than
the screener answer is chosen when the arm ends its work. The calendar of the
Finnhub source is kept for good, also when it was loaded for another scan.

The modules name what they take of their constants, all of it the shape of data
the code builds itself: rows of a page name the screener as their source and no
day (`browser.py:140`, `PageAssumption`); a query belongs to one arm
(`SetupAssumption`); a source describes a ticker at most once and in its own name,
since it is asked by ticker and answers one record (`CatalystAssumption`); reports,
histories, filings and quotes are records of numbers (`PeadAssumption`,
`HistoryAssumption`, `ActivistAssumption`). No filing is older than a million
days, which is the last floor of a table of scores.

Abstractions: one outcome of the calendar's load per scan; capture and store are
one step; all scans happen on one day; exchange filters, `is_tradable` and the
limits on profile and quote requests are not reached; sectors that tie are not
ordered by ticker.

## 3. What TLC checks

| run | bounds | properties |
|---|---|---|
| `scan_safety` | 2 users, 2 calls, all faults | `TypeOK`, `RecordsAgree`, `ReturnedIsRecorded`, `ForeignLockKept` |
| `scan_live` | 1 user, 2 calls, all but `slow`, `ack`; fair | `OneScanPerUser`, `EndedRunIsFinal`, `ImplementsRunLedger`, `RunsConclude`, `LockIsFreed`, `RefusedCallIsAnswered` |
| `ledger_serial` | 2 rows, 2 recommendations (one short), 4 sessions in turn, prices on the grid | `TypeOK`, `LedgerBalanced`, `FillsAreLogged`, `ImplementsAccountLedger` |
| `ledger_overlap` | 2 rows, 1 recommendation, 4 overlapping sessions | `RowsAgree`, `PositionsOnlyEnd`, `TrackedTwiceByOverlap` |
| `ledger_race` | 1 row, 3 overlapping sessions | finding: `LedgerBalanced` |
| `alerts` | a long and a short row of 2 users in one ticker, the long one without a thesis and the one tapped, reviews on, 2 polls, 1 tap, 2 prices, 2 days; fair | `TypeOK`, `RecordedIsHeard`, `DatesAnnouncedOnce`, `SilenceIsKept`, `TapsAndPollsEnd` |
| `review` | 1 position, 2 reviews, cap 1, 2 polls, 2 changes of the plan, 3 answers, 1 lapse, 2 days; fair | `TypeOK`, `OneReviewAtATime`, `AutoReviewsCapped`, `AdviceIsBacked`, `ReviewsEnd` |
| `review_block` | the same | finding: `PollsEnd` |
| `decide` | 3 candidates of 3 strategies, 2 finalists, 2 posts of a question, 2 taps, 2 settings and 1 change, 1 crash; fair | `TypeOK`, `NeverStrongerThanScoring`, `SizedForItsUser`, `PlansBracketEntry`, `RepeatsOnlyByOverlap`, `RequestsEnd` |
| `discover` | 5 setups: 1 or 2 scans of 1 to 4 arms, 6 queries, 2 places, 2 loads, TTL of 2 ticks; fair | `TypeOK`, `RowsAreEarned`, `BatchIsHonest`, `DiscoveriesEnd` |
| `sched_sync` | 2 schedules, 3 edits, 2 stops; fair | `TypeOK`, `SyncedJobs`, `RestartRepairs` |
| `sched_edit` | 1 schedule, 2 edits, no stop | finding: `UpdatesReachScheduler` |

What each property says, and of which lines, is in the comment above it.

**Why the bounds are enough.**

* Scans: a user's lock is contended by two calls; the second may start before,
  during, or after the end, expiry or loss of the first one's key.
* Ledger: a position's life is fill, close, correction, removal. Four sessions
  give each in turn, or two operations against two others on the two rows of
  one recommendation. A short recommendation and a quantity of two make signs
  and factors visible.
* Alerts: one poll flushes before and one after a tap, or is rolled back and
  repeated; two prices cross the levels of a long and of a short row in either
  direction; an exit date and an expiry fall inside and outside the two days. The
  short row expires first: one poll has the rows of both users in a group, a later
  one the long row alone, which must then be alerted in its own chat. Taps are of
  the long row, which has both levels and no thesis.
* Reviews: a cap of one and two reviews show the cap; one lapse lets a second
  review run beside the first; two polls, one before and one after a day's end.
  A proposed stop of 16 tightens the one of the recommendation (12) and widens the
  one set by hand (20); a proposed underlying stop of 85 widens the 90 in force. Two
  changes of the plan let a proposal be applied to the plan it was made of, or after
  the other review's or the user's.
* Decision: three candidates and two finalists leave one that was never
  refreshed, which Alternatives may still offer; two taps overlap or follow one
  another. The candidates were chosen so that one is rejected by the reality
  check of weeklies, one grows dearer between the two analyses, one passes. The
  first analyses have the snapshot of an earlier scan or, Redis failing, none,
  so that an old price meets old and new quotes; the refresh has most sources,
  or Alpha Vantage and the fallback chain without greeks. The second settings
  profile is tighter in every limit and without keys of Alpaca's, so that a
  change of it between a scan and a tap matters.
* Discovery: more queries than places in two setups, caches read before and
  after their TTL, a ticker offered by three arms and one by two. The limits of
  an arm are 2 and 3 (5 and 20 in the code), so that rows are cut; loads are 2
  (3 in the code), so that the last one may fail.
* Schedules: two schedules and three edits leave one job to purge and one to
  replace; two stops allow a full first life, a second one cut short in the
  middle of its sync, and a third that repairs.

Deadlock checking is off: every system here may rest when its calls, sessions,
taps or edits are used up; the liveness properties say what must not rest.
Symmetry is used only in `scan_safety`, `ledger_serial`, `ledger_overlap` and
`sched_edit`, which check no liveness. The models of calls, sessions, scans and
taps use each once, which bounds their number and nothing else.

**Fairness.** Faults are alternatives of the same steps and are never forced.

* `WorkflowRunner!FairSpec`: a coroutine that has started is driven on by its
  event loop (`Proceed` excludes the start itself), and Redis expires keys.
* `ScheduleSync!FairSpec`: the API process is started when it is down and
  `start()` runs on; users never have to edit.
* `PositionAlerts!Spec`: a poll under way goes on or fails (`PollStep`, with the
  return of a review it awaits), and a tap's transaction ends once its row is free
  (`TapCommit`). That a review which does not wait for the poll returns is what
  `ReviewsEnd` checks. Nobody has to kill a process (`PollKilled`), so a poll that
  waits for itself stays `Blocked`, which `TapsAndPollsEnd` excepts.
* `Revalidation!Spec` and `ScanDecision!Spec`: one weak fairness for all the
  work under way (`GoOn`, `Progress`). The work of a behaviour is finite, so
  nothing that can go on for ever is left behind. Neither a tap, a poll nor an
  edit is ever forced.
* `Discovery!Fairness`: the same for the queries and arms of started scans,
  with its enabledness written out (`WorkLeft`) because the
  next-state relation is dear to evaluate. `WorkLeft` was checked to be the
  enabledness of `Screening \/ ArmWork` in every reachable state of the instance.

**Mutants.** Every property of a passing run has a mutated definition (kept next
to the definition it mutates) under which it fails.

## 4. Findings

* `sched_edit`: schedule changes made in the bot do not reach the scheduler that
  runs the jobs until the API restarts (PRD2 12.4).
* `ledger_race`: overlapping sessions lose or double a P/L in `account_size`
  (PRD2 20.6 calls the booking idempotent). A sale sent twice is enough.
* `review_block`: the poll inserts a missing thesis in its open session and then
  awaits a review whose own session inserts the same one and waits for the
  poll's transaction. `validation2.md` says a validation must not block alerts.

Assumptions that show a limit: `OneScanPerUser` needs scans shorter than the TTL
(nothing renews the key); `EndedRunIsFinal` needs commits whose failure is a
rollback, since after a lost acknowledgement the except branch marks a run failed
that has its recommendation; `RecordsAgree` survives both. `ScanAssumption`
excludes accounts of zero, by which the scoring divides.

What the models show of the code besides, each modelled as it is:

* Runs. The user refused by a cron scan that then fails never hears of it (PRD2
  12.5), nor by a manual one that fails and whose own answer is not delivered
  (`menu.py:72`); `RefusedCallIsAnswered` states what is kept of that promise.
* Ledger. A sale books the price as typed and reverses the stored, rounded one
  (`history.py:98`). Positions closed by expiry log no event. Two overlapping
  fill dialogues track one recommendation twice (`recommendation.py:236`);
  `TrackedTwiceByOverlap` states that this is the only way, whatever else overlaps.
* Alerts. Of a group whose rows belong to several users only the first row's user
  is alerted, and the rows of the others record the alert as sent
  (`monitor.py:131-152`), though each was told "I will alert you"
  (`recommendation.py:265`). `RecordedIsHeard` demands the owner for every row
  that was never polled with another user's, and somebody for the rest. A level set
  while a poll is under way may get the old counter back.
* Reviews. The underlying stop of a proposal is stored and applied without any
  check, so Apply may widen it, where `validation2.md:1203` and `:1253` and the
  prompt (`validate_position.md:24`) say that v1 only tightens. Premium stops are
  checked only in an advice to adjust the stop: those proposed with a hold, a close
  or another target are offered and applied as they came. And what was tighter than
  the plan reviewed is applied to whatever plan is in force when the button is
  pressed. `AdviceIsBacked` excepts exactly these. The criterion of a missing reaction fires right at the entry; an
  expected move of one percent or less is read as a ratio; a close without a
  kill criterion and with blind data is still turned into a tighter stop
  (`validate_position.md:23`); Apply is offered for proposals that were not
  validated; the news criterion is never fed.
* Decision. Without news because of a failure the model's path lacks the
  heuristic path's cap to the watchlist; the first answer that is no JSON gets no corrective
  question; the stored confidence is that of the structurally best contract.
* Alternatives. They drop blockers, reality flags and the runway check, ignore
  the maximum premium, check neither quotes nor expiry again, turn a change of
  permissions into a recommendation of quantity zero, and do not remember a
  no trade. Hence `NeverStrongerThanScoring` and `SizedForItsUser` say what
  holds of each kind of card.
* Plans. A long option of one cent gets a stop at its entry; a short call
  more than 2% in the money a stop at its current price; the safe exit, five days
  before expiry, can precede the earnings.
* Discovery. An outage of the SEC is reported as an empty result; a failed
  catalyst screen without backups is reported as an empty one
  (`multi_strategy_service.py:206`); the fallback warnings of PRD2 24.1 are
  hidden when other arms found rows; two failed arms of which others
  succeeded give `partial`; a failure of Redis fails every query, also those a
  browser could answer; the quarter's end is taken for the day of
  the announcement by two sources of the drift arm.

## 5. What is proved

For every value of the constants that satisfies the named assumptions of the
modules; each theorem with its argument.

* `WorkflowRunnerProofs`
  * `TypeCorrect`.
  * `RecordsAlwaysAgree`, under all faults. `RecordsAgree` is not inductive: the
    commit publishes what earlier steps prepared. `RecordsInv` adds, per stage,
    what the session holds: a fresh row until it is persisted, a decided one
    after, with its evidence once captured.
  * `ScansTakeTurns`, if no scan is slow. `LockInv`: a call between acquire and
    release is the one whose token Redis holds.
  * `ReleaseIsOwn`, no assumption on faults: the token comparison suffices, at a
    scan's end and at its cancellation.
  * `RunnerImplementsLedger`, if no scan is slow and no acknowledgement is lost.
    Uses both invariants and `FailingInv` (a call in its except branch has not
    concluded its run), then maps each action to a ledger step or a stutter.
  * `ReturnsAreRecorded`, under all faults. `ReturnInv`: a call that has not
    returned has reported nothing, and what was announced before the return is
    what the row is about to say.
  * `EndedRunsStay`, unless an acknowledgement is lost: only then does the
    except branch run after the commit.
* `PositionLedgerProofs`
  * `TypeCorrect`, `RowsAlwaysAgree` and `PositionsMoveForward`, for any number
    of overlapping sessions. A commit writes what was decided on rows read
    earlier, so `RowsInv` also says that those rows agreed, that a row closed
    then is closed or gone now (`SeenAgrees`), and that what the session made of
    them is a legal change (`Ready`).
  * `TrackedTwice`, for any number of overlapping sessions. `FillInv`: an active row
    was opened by a dialogue that is over (`Opened`), and a dialogue that has made
    its check is among those `looked` remembers of every active row of its
    recommendation (`CheckedBefore`): it saw none, so they came later. The second row is
    committed by such a dialogue; no other commit makes a row active, because
    columns are written only where they changed.
  * `FillsLogged`, when sessions do not overlap. `SerialInv`: one session is in use;
    `FreshInv`: what it read is what is stored. So a fill and its log entry go
    together.
  * `Balanced` and `ContractHonoured` (the ledger implements `AccountLedger`),
    when sessions do not overlap and typed amounts fit the columns (`OnTheGrid`;
    the code rounds what is stored but not what it books). Every operation on a
    session's copy leaves its account less the P/L of its flagged rows as it was
    (`Fair`); `BalanceInv` carries that from the reads to the commit. The P/L is
    a sum over all positions. The library defines it by a recursion over finite
    sets, which `DataTheorems` shows to have a fixpoint, to be a number and to
    take one member at a time, by induction on the size of the set.
* `ScheduleSyncProofs`
  * `TypeCorrect`.
  * `SyncIsExact`: a completed sync leaves exactly the jobs of the active rows it
    read, after any crashes. `AddingInv`: during the adding loop the schedules
    already done have exactly their job and no other job is left.
* `PositionAlertsProofs`: `TypeCorrect`, `DatesOnce`, `RecordsHeard` and
  `SilenceKept`, all from one invariant `IInv`. A poll's rows are those of the
  database but for what it changed itself (`PollKeepsUp`); a row is worked on
  once (`PollIsOnce`); the row of a tap under way is as the tap read it
  (`TapKeepsUp`), which the row lock gives; the counters of the row and of the
  poll's copy are covered by what was heard (`CountsCovered`); a silenced level is
  silent in every copy that may still be written (`WishesKept`); a group that is
  not `shared` has the chat of its rows' owner (`OwnersHear`).
* `RevalidationProofs`
  * `TypeCorrect`.
  * `ReviewsApart`. `Holds`: a review past its lock that never lost it is the
    one that holds the key, so two of them on one position are one.
  * `AutosCapped`. `RoomForAuto`: there is room for the review that has passed
    the throttle; with `AutosAwaited`, the poll waits for it, so no second one
    passes before the first is stored.
  * `AdviceBacked`, an action property: a review that appears in a step is
    backed by the criteria and the answer of the call that stores it (`ReviewStep`);
    a plan that changes to a review's takes the proposal of that review (`PlanStep`),
    and a stored advice to adjust the stop has a premium stop that tightens its
    `basis` (`StopsBacked`), hence any plan that still has that stop.
* `ScanDecisionProofs`: `TypeCorrect`,
  `OfferedOnce`, `WarrantedByScores`, `SizedWithinLimits` and `PlansFollowable`,
  for any batch, settings, outcomes and answers, and any number of taps, edits
  and crashes. One invariant, `Inv`:
  * what a scan or tap holds has the shape of its phase (`ScanOK`, `TapOK`), and a
    tap starts only after the scan (`InOrder`);
  * every card made, committed or received is backed by the evaluation it was made
    from (`Backing`): its contract is viable there, its action allowed by those
    scores, its quantity within the limits of the settings it was made for, and
    its plan can be followed. The steps that make a card show this through lemmas
    about the pure operators: a ranking holds scored contracts, and the first
    viable one stands before the others; a viable contract is affordable and has a
    plan around its entry; what the decision accepts of an answer is allowed by
    the scores, and so is the heuristic choice;
  * unless two taps overlapped, cards have different tickers (`Apart`): a tap
    chooses among the tickers not shown, and nothing is committed between;
  * unless a card was lost with its session, what was received is committed or
    about to be (`Received`), so that a later tap sees it.

* `DiscoveryProofs`: `TypeOKHolds`, `EarnedRowsHold` and `HonestBatchesHold`, for
  any arms, pages, sources, failures and number of scans, from one invariant,
  `DiscoveryInv` (`DiscoveryInvariant`):
  * the screener (`ScreenerWell`): a fetch has rows only once it is answered, and
    then the first of a page of its own query, read less than the TTL ago; an
    entry of the cache is of a query with its key; the places held are those of
    the fetches that load. `RowsAreEarned` is not inductive without the cache,
    which other scans fill and whose entries answer a later fetch;
  * the arms (`ArmsWell`): what an arm offers is earned by fetches that no later
    step touches (`AnswersStay`), because an answered fetch is final and an arm
    that has not asked has idle fetches only (`Quiet`). Each arm's pipeline of
    filters, sorts and enrichments has a lemma (`CatalystWell`, `PeadWell`,
    `CoiledWell`, `SectorWell`, `ActivistWell`): its rows are rows of its pages
    or, for the catalysts, of a backup; the sector arm's second round asks only
    the queries that were short, so the first answers survive it. For the
    catalysts, `Reconciled` relates the day of a row to what the sources said;
  * the batch (`BatchWell`): it is what `BatchOf` makes of the reports of arms
    that are all done, hence final. `BatchesHonest` then is about `BatchOf` alone:
    the first of each ticker is kept, in the order of the arms, and each warning
    the code words is true of the reports.

Every invariant and every non-temporal action property the runs check is proved.
Only model-checked: the liveness properties, which rest on `ENABLED` and
fairness. What a recursive definition of the
library computes cannot be stated for every operator given to it; hence sums,
square roots and searches inside the scores appear in `AnalysisAssumption`, which
TLC evaluates for the instance.

## 6. Not modelled, and the plan

* Texts, layout and keyboards (`telegram/templates`, `keyboards`), the prose of
  a decision, prompts and their bundles: formatting, with no state.
* The steps of the dialogues: each is a message that sets one field of an FSM
  record. Their sessions, which is where they meet the others, are in
  `PositionLedger`, `PositionAlerts` and `ScheduleSync`.
* The reading of pages, filings and JSON, HTTP clients, the collecting, ranking
  and summing up of news: their results are inputs of the models, failures
  included. The brief a summary ends in is prose; `NewsSummarizer` catches every
  error of the summary, a refused key too, so that the orchestrator's handler
  of `LLMAuthenticationError` for news is never reached and not modelled.
* The archive of a run on disk and the CSV export: written, never read back by
  the program but for the contract artifact, which `PositionDrift` has.
* Misfire grace and coalescing of the scheduler, the monitor's own job, retries
  inside drivers, the script that runs one scan from the command line.

Next: the ranges of the scores as lemmas about `Scoring` instead of clauses of
`AnalysisAssumption`; after them the dialogues as an FSM feeding `PositionLedger`.
