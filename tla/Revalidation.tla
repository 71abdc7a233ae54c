----------------------------- MODULE Revalidation -----------------------------
(***************************************************************************)
(* The reviews of open positions (services/positions/revalidation_service  *)
(* .py): asked for by a tap, or by the monitor's poll when the drift fires *)
(* criteria.  A review holds a Redis lock per position, reads its context  *)
(* in one session, awaits quotes and the model, and stores its result in   *)
(* another.  The poll (monitor.py) keeps ONE session open meanwhile, in    *)
(* which it may have inserted a thesis; position_theses.open_position_id   *)
(* is unique, so a second insert waits for that session to end.            *)
(***************************************************************************)
EXTENDS PositionDrift

CONSTANTS
  Position,   \* open positions
  Rec,        \* Rec[p]: what its recommendation says
  Entry,      \* Entry[p]: its fill, and the run's record of the entry
  Call,       \* reviews, each used once (bounds their number)
  Market,     \* what a quote request may find: contracts and underlying
  Answer,     \* what the model may answer
  Stop,       \* stops the user may set by hand
  Cap,        \* position_validation_auto_daily_cap
  LastDay,    \* bound on the calendar, days 0..LastDay
  MaxPolls,   \* bound on the polls
  MaxEdits,   \* bound on the changes of a plan
  MaxLapses   \* bound on the reviews that run without the lock

Action == {"hold", "adjust_target", "adjust_stop", "close", "insufficient_data"}
Proposal == [target : Int, stop : Int, underlyingStop : Int]
ContractQuote == [source : {"alpaca", "yfinance"}, bid : Int, ask : Int, mid : Int,
                  last : Int, iv : Int]

ASSUME PositionAssumption ==
  /\ Position # {}
  /\ \A p \in Position : {Rec[p].target, Rec[p].stop, Rec[p].underlyingStop} \subseteq Int
ASSUME MarketAssumption ==
  Market \subseteq [contracts : SUBSET ContractQuote, underlying : Int]
ASSUME AnswerAssumption ==
  Answer \subseteq [action : Action, evidence : SUBSET (Code \cup {"snapshot", "invented"}),
                    proposed : Proposal]
ASSUME StopAssumption == Stop \subseteq Int
ASSUME CapAssumption == Cap \in Nat /\ IsFiniteSet(Call)
ASSUME BoundAssumption == {LastDay, MaxPolls, MaxEdits, MaxLapses} \subseteq Nat

VARIABLES
  shadow,   \* position_validation_shadow_mode: criteria are only logged
  status,   \* status[p] of the position
  plan,     \* plan[p]: the levels in force
  thesis,   \* thesis[p]: no row, one in the poll's open session, or a row
  lock,     \* lock[p]: the holders of its Redis key, at most one
  call,     \* call[c]: where review c is and what it has read
  review,   \* review[c]: the position_revalidations row of c
  poll,     \* the monitor's poll
  today, polls, edits,
  lapsed    \* history: reviews that ran, for a while, without the lock

vars == <<shadow, status, plan, thesis, lock, call, review, poll, today, polls,
          edits, lapsed>>

-----------------------------------------------------------------------------
\* The levels in force: the recommendation's, or the latest override's with the
\* review it comes from, if it comes from one.
Plan == [target : Int, stop : Int, underlyingStop : Int, by : SUBSET Call]
FirstPlan(p) == [target |-> Rec[p].target, stop |-> Rec[p].stop,
                 underlyingStop |-> Rec[p].underlyingStop, by |-> {}]
NoPlan == [target |-> None, stop |-> None, underlyingStop |-> None, by |-> {}]
NoSnap == [underlying |-> None, premium |-> None, iv |-> None, status |-> "unavailable"]
NewCall == [pc |-> "new", trigger |-> "none", pos |-> CHOOSE p \in Position : TRUE,
            codes |-> {}, plan |-> NoPlan, snap |-> NoSnap, fired |-> {}]
\* basis is no column: the premium stop of the plan the review was made of.
NoReview == [exists |-> FALSE, recent |-> FALSE, day |-> 0,
             trigger |-> "none", pos |-> CHOOSE p \in Position : TRUE, codes |-> {},
             cited |-> {}, action |-> "none", proposed |-> NoProposal,
             basis |-> None]
IdlePoll == [pc |-> "idle", rest |-> {}, call |-> {}]

Running == {"lock", "load", "insert", "check", "quote", "ask", "release"}
Reviewing == {"check", "quote", "ask"}

TypeOK ==
  /\ shadow \in BOOLEAN
  /\ status \in [Position -> {"active", "closed", "gone"}]
  /\ plan \in [Position -> Plan]
  /\ thesis \in [Position -> {"none", "pending", "card"}]
  /\ lock \in [Position -> SUBSET Call]
  /\ \A c \in Call :
       /\ call[c].pc \in {"new", "over"} \cup Running
       /\ call[c].trigger \in {"none", "manual", "auto"} /\ call[c].pos \in Position
       /\ call[c].codes \subseteq Code /\ call[c].fired \subseteq Code
       /\ review[c].exists => review[c].action \in Action /\ review[c].codes \subseteq Code
  /\ poll.pc \in {"idle", "open", "waiting"} /\ poll.rest \subseteq Position
  /\ today \in 0..LastDay /\ polls \in 0..MaxPolls /\ edits \in 0..MaxEdits
  /\ lapsed \subseteq Call

Init ==
  /\ shadow \in BOOLEAN
  /\ status = [p \in Position |-> "active"]
  /\ plan = [p \in Position |-> FirstPlan(p)]
  /\ thesis \in [Position -> {"none", "card"}]
  /\ lock = [p \in Position |-> {}]
  /\ call = [c \in Call |-> NewCall]
  /\ review = [c \in Call |-> NoReview]
  /\ poll = IdlePoll
  /\ today = 0 /\ polls = 0 /\ edits = 0 /\ lapsed = {}

MarketOpen == IsTradingSession(today)
Begun(trigger, p, codes) ==
  [NewCall EXCEPT !.pc = "lock", !.trigger = trigger, !.pos = p, !.codes = codes]
\* Mutant of Ended: it is recorded as another's.
EndedUnnamed(k, pc) == [NewCall EXCEPT !.pc = pc, !.trigger = "unknown", !.pos = k.pos]

\* Nothing a review has read outlives it.
Ended(k, pc) == [NewCall EXCEPT !.pc = pc, !.trigger = k.trigger, !.pos = k.pos]
Over(c) == [call EXCEPT ![c] = Ended(@, "over")]
Leaving(c) == [call EXCEPT ![c] = Ended(@, "release")]
Unused == CHOOSE c \in Call : call[c].pc = "new"   \* the next unused review
ThesisOf == [p \in Position |-> Card(Rec[p], Entry[p])]
Seen == [p \in Position |->
          [m \in Market |-> Snapshot(m.contracts, m.underlying, Rec[p].side)]]

-----------------------------------------------------------------------------
(***************************************************************************)
(* A review.                                                               *)
(***************************************************************************)
\* ValCB: the Validate button.  The handler has seen the row active.
TapValidate ==
  /\ MarketOpen
  /\ \E c \in Call : call[c].pc = "new"
  /\ \E p \in Position :
       /\ status[p] = "active"
       /\ call' = [call EXCEPT ![Unused] = Begun("manual", p, {})]
  /\ UNCHANGED <<shadow, status, plan, thesis, lock, review, poll, today, polls, edits, lapsed>>

\* Mutant of Acquire: the key is overwritten, held or not (no NX).
AcquireAnyway(c) ==
  /\ call[c].pc = "lock"
  /\ lock' = [lock EXCEPT ![call[c].pos] = {c}]
  /\ call' = [call EXCEPT ![c].pc = "load"]
  /\ UNCHANGED <<shadow, status, plan, thesis, review, poll, today, polls, edits, lapsed>>

Acquire(c) ==
  /\ call[c].pc = "lock" /\ lock[call[c].pos] = {}
  /\ lock' = [lock EXCEPT ![call[c].pos] = {c}]
  /\ call' = [call EXCEPT ![c].pc = "load"]
  /\ UNCHANGED <<shadow, status, plan, thesis, review, poll, today, polls, edits, lapsed>>

AlreadyRunning(c) ==
  /\ call[c].pc = "lock" /\ lock[call[c].pos] # {}
  /\ call' = Over(c)
  /\ UNCHANGED <<shadow, status, plan, thesis, lock, review, poll, today, polls, edits, lapsed>>

\* Redis does not answer: the review runs with a handle that locks nothing.
AcquireNoop(c) ==
  /\ call[c].pc = "lock" /\ Cardinality(lapsed) < MaxLapses
  /\ call' = [call EXCEPT ![c].pc = "load"]
  /\ lapsed' = lapsed \cup {c}
  /\ UNCHANGED <<shadow, status, plan, thesis, lock, review, poll, today, polls, edits>>

AfterLoad(c) == IF call[c].trigger = "auto" THEN "check" ELSE "quote"

\* _load_context: the active row and its thesis, if one is committed.
Load(c) ==
  /\ call[c].pc = "load"
  /\ LET p == call[c].pos IN
     call' = IF status[p] # "active" THEN Leaving(c)
             ELSE [call EXCEPT ![c].plan = plan[p],
                     ![c].pc = IF thesis[p] = "card" THEN AfterLoad(c) ELSE "insert"]
  /\ UNCHANGED <<shadow, status, plan, thesis, lock, review, poll, today, polls, edits, lapsed>>

\* The insert of a missing thesis waits for the poll's, and then collides with it.
InsertThesis(c) ==
  /\ call[c].pc = "insert"
  /\ LET p == call[c].pos IN
     /\ thesis[p] # "pending"
     /\ call' = IF thesis[p] = "none" /\ status[p] # "gone"
                THEN [call EXCEPT ![c].pc = AfterLoad(c)] ELSE Leaving(c)
     /\ thesis' = IF status[p] = "gone" THEN thesis ELSE [thesis EXCEPT ![p] = "card"]
  /\ UNCHANGED <<shadow, status, plan, lock, review, poll, today, polls, edits, lapsed>>

AutoReviews(p, day) ==
  {d \in Call : review[d].exists /\ review[d].trigger = "auto" /\ review[d].pos = p
                /\ review[d].day = day}
RecentCodes(p) ==
  UNION {review[d].codes : d \in {e \in Call : /\ review[e].exists /\ review[e].recent
                                               /\ review[e].trigger = "auto"
                                               /\ review[e].pos = p}}
\* Mutant of Suppressed: the cap is off by one.
SuppressedAboveCap(c) ==
  \/ Cardinality(AutoReviews(call[c].pos, today)) > Cap
  \/ call[c].codes \subseteq RecentCodes(call[c].pos)

Suppressed(c) ==
  \/ Cardinality(AutoReviews(call[c].pos, today)) >= Cap
  \/ call[c].codes \subseteq RecentCodes(call[c].pos)

Throttle(c) ==
  /\ call[c].pc = "check"
  /\ call' = IF Suppressed(c) THEN Leaving(c) ELSE [call EXCEPT ![c].pc = "quote"]
  /\ UNCHANGED <<shadow, status, plan, thesis, lock, review, poll, today, polls, edits, lapsed>>

\* Quotes and drift.  A fetch that raises counts as a quote of nothing.  The
\* codes and the date of a manual review are stored with it, and never read.
Observe(c) ==
  /\ call[c].pc = "quote"
  /\ \E m \in Market :
       LET p == call[c].pos
           snap == Seen[p][m]
           fired == Drift(ThesisOf[p], call[c].plan, snap, today)
       IN call' = [call EXCEPT ![c].pc = "ask", ![c].snap = snap, ![c].fired = fired]
  /\ UNCHANGED <<shadow, status, plan, thesis, lock, review, poll, today, polls, edits, lapsed>>

\* The model answers, or fails, and the normalised answer is stored.
Persist(c) ==
  /\ call[c].pc = "ask" /\ status[call[c].pos] # "gone"
  /\ \E raw \in Answer :
       LET k == call[c]
           final == Normalized(raw, k.fired, Rec[k.pos].side, k.plan, k.snap)
       IN /\ raw.evidence \cap Code \subseteq k.fired
          /\ review' = [review EXCEPT ![c] =
               [exists |-> TRUE, recent |-> k.trigger = "auto", trigger |-> k.trigger,
                day |-> IF k.trigger = "auto" THEN today ELSE 0,
                pos |-> k.pos, codes |-> k.codes, cited |-> Supported(raw) \cap Kill,
                action |-> final.action, proposed |-> final.proposed,
                basis |-> k.plan.stop]]
  /\ call' = [call EXCEPT ![c] = Ended(@, "release")]
  /\ UNCHANGED <<shadow, status, plan, thesis, lock, poll, today, polls, edits, lapsed>>

\* The position was deleted meanwhile: the insert has no row to refer to.
PersistRaises(c) ==
  /\ call[c].pc = "ask" /\ status[call[c].pos] = "gone"
  /\ call' = Leaving(c)
  /\ UNCHANGED <<shadow, status, plan, thesis, lock, review, poll, today, polls, edits, lapsed>>

\* Mutant of Release: a review whose key another one holds waits for it.
ReleaseOwned(c) ==
  /\ call[c].pc = "release" /\ lock[call[c].pos] = {c}
  /\ lock' = [lock EXCEPT ![call[c].pos] = {}]
  /\ call' = Over(c)
  /\ UNCHANGED <<shadow, status, plan, thesis, review, poll, today, polls, edits, lapsed>>

\* The result is sent meanwhile; whether Telegram takes it or raises, the review
\* is stored and the lock given back.  The release deletes the key only
\* if it still holds this review's token.
Release(c) ==
  /\ call[c].pc = "release"
  /\ lock' = [lock EXCEPT ![call[c].pos] = @ \ {c}]
  /\ call' = Over(c)
  /\ UNCHANGED <<shadow, status, plan, thesis, review, poll, today, polls, edits, lapsed>>

CallStep(c) ==
  \/ Acquire(c) \/ AlreadyRunning(c) \/ AcquireNoop(c) \/ Load(c) \/ InsertThesis(c)
  \/ Throttle(c) \/ Observe(c) \/ Persist(c) \/ PersistRaises(c) \/ Release(c)

-----------------------------------------------------------------------------
(***************************************************************************)
(* The monitor's poll, as far as the drift goes.                           *)
(***************************************************************************)
PollOpens ==
  /\ poll.pc = "idle" /\ MarketOpen /\ polls < MaxPolls
  /\ poll' = [IdlePoll EXCEPT !.pc = "open", !.rest = {p \in Position : status[p] = "active"}]
  /\ polls' = polls + 1
  /\ UNCHANGED <<shadow, status, plan, thesis, lock, call, review, today, edits, lapsed>>

\* A missing thesis is inserted, uncommitted; then the quote is compared.
PollDrift ==
  /\ poll.pc = "open"
  /\ \E p \in poll.rest, m \in Market :
       LET codes == AutoTrigger(Drift(ThesisOf[p], plan[p], Seen[p][m], today)) IN
       /\ thesis' = IF thesis[p] = "none" /\ status[p] # "gone"
                    THEN [thesis EXCEPT ![p] = "pending"] ELSE thesis
       /\ IF codes = {} \/ shadow \/ ~MarketOpen
          THEN call' = call /\ poll' = [poll EXCEPT !.rest = @ \ {p}]
          ELSE /\ \E c \in Call : call[c].pc = "new"
               /\ call' = [call EXCEPT ![Unused] = Begun("auto", p, codes)]
               /\ poll' = [poll EXCEPT !.rest = @ \ {p}, !.pc = "waiting", !.call = {Unused}]
  /\ UNCHANGED <<shadow, status, plan, lock, review, today, polls, edits, lapsed>>

PollResumes ==
  /\ poll.pc = "waiting" /\ \A c \in poll.call : call[c].pc = "over"
  /\ poll' = [poll EXCEPT !.pc = "open", !.call = {}]
  /\ UNCHANGED <<shadow, status, plan, thesis, lock, call, review, today, polls, edits, lapsed>>

Settled(outcome) == [p \in Position |-> IF thesis[p] = "pending" THEN outcome ELSE thesis[p]]
PollCommits ==
  /\ poll.pc = "open" /\ poll.rest = {}
  /\ poll' = IdlePoll /\ thesis' = Settled("card")
  /\ UNCHANGED <<shadow, status, plan, lock, call, review, today, polls, edits, lapsed>>

\* The API process dies, or a review raised into the poll: its session is rolled
\* back.  A review that was under way leaves its key to the TTL.
PollDies ==
  /\ poll.pc # "idle"
  /\ poll' = IdlePoll /\ thesis' = Settled("none")
  /\ call' = [c \in Call |-> IF c \in poll.call /\ call[c].pc # "over"
                THEN Ended(call[c], "over") ELSE call[c]]
  /\ UNCHANGED <<shadow, status, plan, lock, review, today, polls, edits, lapsed>>

-----------------------------------------------------------------------------
(***************************************************************************)
(* The user and time.                                                      *)
(***************************************************************************)
LockExpires ==
  /\ \E p \in Position :
       /\ lock[p] # {}
       /\ \E c \in lock[p] : call[c].pc \in Running => Cardinality(lapsed) < MaxLapses
       /\ lock' = [lock EXCEPT ![p] = {}]
       /\ lapsed' = lapsed \cup {c \in lock[p] : call[c].pc \in Running}
  /\ UNCHANGED <<shadow, status, plan, thesis, call, review, poll, today, polls, edits>>

\* ValApplyCB: one button for each premium level the proposal names, or one for
\* both.  The stop's button takes the underlying stop along, of which nothing
\* was checked; a level that is not positive is left as it is.
TakesStop(v) == v.stop # None /\ (v.stop > 0 \/ v.underlyingStop > 0)
Applied(c, before, v) ==
  [target |-> IF v.target > 0 THEN v.target ELSE before.target,
   stop |-> IF v.stop > 0 THEN v.stop ELSE before.stop,
   underlyingStop |-> IF TakesStop(v) /\ v.underlyingStop > 0 THEN v.underlyingStop
                      ELSE before.underlyingStop,
   by |-> {c}]
Apply ==
  /\ edits < MaxEdits
  /\ \E c \in Call :
       LET v == review[c] IN
       /\ v.exists /\ status[v.pos] = "active"
       /\ v.proposed.target > 0 \/ TakesStop(v.proposed)
       /\ plan' = [plan EXCEPT ![v.pos] = Applied(c, @, v.proposed)]
  /\ edits' = edits + 1
  /\ UNCHANGED <<shadow, status, thesis, lock, call, review, poll, today, polls, lapsed>>

Adjust ==
  /\ edits < MaxEdits
  /\ \E p \in Position, s \in Stop :
       /\ status[p] = "active" /\ plan' = [plan EXCEPT ![p].stop = s, ![p].by = {}]
  /\ edits' = edits + 1
  /\ UNCHANGED <<shadow, status, thesis, lock, call, review, poll, today, polls, lapsed>>

\* Sold, expired or deleted.  The rows that refer to a deleted position go too.
End ==
  /\ \E p \in Position, s \in {"closed", "gone"} :
       /\ status[p] = "active"
       /\ s = "gone" => thesis[p] # "pending"  \* its foreign key holds the row
       /\ status' = [status EXCEPT ![p] = s]
       /\ thesis' = IF s = "gone" THEN [thesis EXCEPT ![p] = "none"] ELSE thesis
       /\ review' = [c \in Call |-> IF s = "gone" /\ review[c].pos = p THEN NoReview
                                                                      ELSE review[c]]
  /\ UNCHANGED <<shadow, plan, lock, call, poll, today, polls, edits, lapsed>>

CooldownEnds ==
  /\ \E c \in Call : review[c].recent /\ review' = [review EXCEPT ![c].recent = FALSE]
  /\ UNCHANGED <<shadow, status, plan, thesis, lock, call, poll, today, polls, edits, lapsed>>

DayPasses ==
  /\ today < LastDay /\ poll.pc = "idle" /\ \A c \in Call : call[c].pc \notin Running
  /\ today' = today + 1
  /\ review' = [c \in Call |-> [review[c] EXCEPT !.recent = FALSE]]
  /\ UNCHANGED <<shadow, status, plan, thesis, lock, call, poll, polls, edits, lapsed>>

PollStep == PollDrift \/ PollResumes \/ PollCommits
Next ==
  \/ TapValidate \/ (\E c \in Call : CallStep(c))
  \/ PollOpens \/ PollStep \/ PollDies
  \/ LockExpires \/ Apply \/ Adjust \/ End \/ CooldownEnds \/ DayPasses

\* Some coroutine that can go on does: the steps of the bounded reviews and polls
\* are finite, so none that stays able to go on is left behind.
GoOn == PollStep \/ \E c \in Call : CallStep(c)
Spec == Init /\ [][Next]_vars /\ WF_vars(GoOn)

-----------------------------------------------------------------------------
(***************************************************************************)
(* Properties.                                                             *)
(***************************************************************************)
\* Two reviews of one position run at once only when one of them lost or never
\* had its lock: Redis down, or the TTL over (revalidation_service.py:436).
OneReviewAtATime ==
  \A c, d \in Call :
    /\ c # d /\ call[c].pos = call[d].pos
    /\ call[c].pc \in Reviewing /\ call[d].pc \in Reviewing
    => {c, d} \cap lapsed # {}

\* No position gets more than Cap automatic reviews in a session, crashes,
\* taps and expired locks included (revalidation_service.py:370).
AutoReviewsCapped ==
  \A p \in Position, day \in 0..LastDay : Cardinality(AutoReviews(p, day)) <= Cap

\* To close is advised only when a kill criterion fired, and to hold against one
\* only when the advice cites it.  And a review that advised to adjust the stop,
\* applied whenever its button is pressed, tightens the premium stop it meets, if
\* that is still the one it was made of (revalidation_service.py:499, :604).  The
\* code promises no more: the underlying stop is applied as proposed, so are the
\* stops proposed with any other advice, and nothing is checked anew against a
\* plan changed since.
Tightens(p, stop, before) ==
  stop > 0 /\ (before = None \/ IF Rec[p].side = "short" THEN stop < before ELSE stop > before)
AdviceIsBacked ==
  [][\A c \in Call :
       /\ review'[c].exists /\ ~review[c].exists =>
            LET kill == call[c].fired \cap Kill IN
            /\ review'[c].action = "close" => kill # {}
            /\ review'[c].action = "hold" => kill = {} \/ review'[c].cited # {}
       /\ review[c].action = "adjust_stop" =>
            LET p == review[c].pos IN
            /\ plan'[p] # plan[p] /\ plan'[p].by = {c}
            /\ plan[p].stop = review[c].basis
            => Tightens(p, plan'[p].stop, plan[p].stop)]_vars

\* Whatever is under way ends, reviews and polls, when no poll has a thesis to
\* write or the criteria are only logged (monitor.py:336).
ReviewsEnd ==
  LET clear == shadow \/ \A p \in Position : thesis[p] = "card"
      quiet == poll.pc = "idle" /\ \A c \in Call : call[c].pc \notin Running
  IN  []<>(clear => quiet)

\* A review never keeps the monitor from its threshold alerts: every poll ends.
PollsEnd == (poll.pc # "idle") ~> (poll.pc = "idle")
=============================================================================
