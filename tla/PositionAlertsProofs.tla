------------------------- MODULE PositionAlertsProofs -------------------------
(***************************************************************************)
(* Theorems about PositionAlerts: what a row remembers was delivered, no   *)
(* date is announced again unless a poll was rolled back, and a level the  *)
(* user silenced stays silent, for any rows, prices, taps and polls.       *)
(***************************************************************************)
EXTENDS PositionAlerts, TLAPS

TapRecord == [req : Tap \cup {NoTap}, seen : Row, plan : Plan, overlap : BOOLEAN]

\* TypeOK with the tap typed whole.
Typed ==
  /\ row \in [Position -> Row] /\ plan \in [Position -> Plan]
  /\ today \in 0..LastDay
  /\ poll \in Poll
  /\ tap \in TapRecord
  /\ thesis \subseteq Position /\ shared \subseteq Position
  /\ heard \in [Position -> [Alert -> Nat]] /\ stray \in [Position -> [Alert -> Nat]]
  /\ wish \subseteq Position \X Level /\ raced \subseteq Position \X Level
  /\ polls \in 0..MaxPolls /\ taps \in 0..MaxTaps /\ lost \in Nat

-----------------------------------------------------------------------------
(* What the definitions return.                                             *)

LEMMA SendsCount ==
  Typed => /\ sends \in [Position -> [Alert -> Nat]]
           /\ \A p \in Position, a \in Alert :
                sends[p][a] \in Nat /\ heard[p][a] \in Nat /\ stray[p][a] \in Nat
BY DEF Typed, sends

LEMMA SendsStay ==
  ASSUME UNCHANGED <<heard, stray>>
  PROVE  sends' = sends
BY DEF sends

LEMMA Starting ==
  /\ NewRow \in Row
  /\ [l \in Level |-> NoPrice] \in Plan
  /\ IdlePoll \in Poll /\ IdleTap \in TapRecord
  /\ FirstPlan \in [Position -> Plan]
<1>1. NewRow \in Row
  BY DEF NewRow, Row, Muting, Quote
<1>2. [l \in Level |-> NoPrice] \in Plan
  BY DEF Plan, Quote
<1>3. IdlePoll \in Poll
  BY <1>1, <1>2, DateAssumption DEF IdlePoll, Poll
<1>4. IdleTap \in TapRecord
  BY <1>1, <1>2 DEF IdleTap, TapRecord
<1>5. FirstPlan \in [Position -> Plan]
  BY PriceAssumption DEF Plan, Level, Quote, NoPrice
<1> QED
  BY <1>1, <1>2, <1>3, <1>4, <1>5

LEMMA FirstIsOne ==
  ASSUME NEW alerts \in SUBSET Alert, alerts # {}
  PROVE  First(alerts) \in alerts
<1>1. \A a \in Alert : Rank[a] \in 1..4
  BY DEF Rank, Alert, Level, DateAlert
<1>2. \E a \in alerts : \A b \in alerts : Rank[a] <= Rank[b]
  <2>1. CASE \E a \in alerts : Rank[a] = 1
    BY <1>1, <2>1
  <2>2. CASE (\E a \in alerts : Rank[a] = 2) /\ ~\E a \in alerts : Rank[a] = 1
    BY <1>1, <2>2
  <2>3. CASE (\E a \in alerts : Rank[a] = 3) /\ ~\E a \in alerts : Rank[a] \in 1..2
    BY <1>1, <2>3
  <2>4. CASE ~\E a \in alerts : Rank[a] \in 1..3
    BY <1>1, <2>4
  <2> QED
    BY <1>1, <2>1, <2>2, <2>3, <2>4
<1> QED
  BY <1>2 DEF First

LEMMA NotedRow ==
  ASSUME NEW r \in Row, NEW a \in Alert
  PROVE  /\ Noted(r, a) \in Row
         /\ Noted(r, a).muted = r.muted /\ Noted(r, a).dismissed = r.dismissed
         /\ a \in Level => Noted(r, a).sent = r.sent
                           /\ Noted(r, a).count = [r.count EXCEPT ![a] = @ + 1]
         /\ a \in DateAlert => Noted(r, a).sent = r.sent \cup {a}
                               /\ Noted(r, a).count = r.count
<1>1. CASE a \in Level
  <2>1. a \notin DateAlert
    BY <1>1 DEF Level, DateAlert
  <2>2. Noted(r, a) = [r EXCEPT !.count = [r.count EXCEPT ![a] = @ + 1]]
    BY <1>1 DEF Noted, Row
  <2>3. [r.count EXCEPT ![a] = @ + 1] \in [Level -> Nat]
    BY <1>1 DEF Row
  <2> QED
    BY <1>1, <2>1, <2>2, <2>3 DEF Row
<1>2. CASE a \in DateAlert
  <2>1. a \notin Level
    BY <1>2 DEF Level, DateAlert
  <2> QED
    BY <1>2, <2>1 DEF Noted, Row
<1> QED
  BY <1>1, <1>2 DEF Alert

LEMMA FlushedRow ==
  ASSUME NEW now \in Row, NEW old \in Row, NEW new \in Row
  PROVE  Flushed(now, old, new) \in Row
BY DEF Flushed, Written, Row

\* A poll's UPDATE leaves the choices of the user as they are on the row.
LEMMA FlushKeepsChoices ==
  ASSUME Typed, PollCommit, NEW p \in Position
  PROVE  row'[p].muted = row[p].muted /\ row'[p].dismissed = row[p].dismissed
<1>1. CASE p \in poll.locked
  <2>1. row'[p] = Flushed(row[p], poll.view[p], poll.mine[p])
    BY <1>1 DEF PollCommit
  <2>2. \A now, old, new : /\ Flushed(now, old, new).muted = now.muted
                           /\ Flushed(now, old, new).dismissed = now.dismissed
    BY DEF Flushed
  <2> QED
    BY <2>1, <2>2
<1>2. CASE p \notin poll.locked
  BY <1>2 DEF PollCommit
<1> QED
  BY <1>1, <1>2

LEMMA MergedRow ==
  ASSUME NEW now \in Row, NEW old \in Row, NEW new \in Row
  PROVE  Merged(now, old, new) \in Row
BY DEF Merged, Written, Row

\* What a tap makes of the row it read: another row, with the counters of the
\* levels it re-arms at zero and the others as they were.
Again(r, old) == IF r.op \in {"adjust", "apply"} THEN Rearmed(r, old) ELSE {}

LEMMA AnsweredRow ==
  ASSUME NEW r \in Tap, NEW seen \in Row, NEW old
  PROVE  /\ Answered(r, seen, old) \in Row
         /\ Again(r, old) \subseteq Level
         /\ Answered(r, seen, old).count =
              [l \in Level |-> IF l \in Again(r, old) THEN 0 ELSE seen.count[l]]
<1>1. CASE r.op = "okay"
  <2>1. r.level \in Level
    BY <1>1 DEF Tap
  <2> QED
    BY <1>1, <2>1 DEF Answered, Again, Row
<1>2. CASE r.op = "mute"
  <2>1. r.level \in Level /\ r.until \in Muting
    BY <1>2 DEF Tap, Muting
  <2> QED
    BY <1>2, <2>1 DEF Answered, Again, Row
<1>3. CASE r.op \in {"sell", "delete"}
  BY <1>3 DEF Answered, Again, Row
<1>4. CASE r.op \in {"adjust", "apply"}
  <2>1. r.levels \subseteq Level
    BY <1>4 DEF Tap
  <2>2. Answered(r, seen, old) = Afresh(seen, Rearmed(r, old))
    BY <1>4 DEF Answered
  <2>3. Rearmed(r, old) \subseteq Level /\ Again(r, old) = Rearmed(r, old)
    BY <1>4, <2>1 DEF Rearmed, Again
  <2> DEFINE again == Rearmed(r, old)
             dismissed == [l \in Level |-> seen.dismissed[l] /\ l \notin again]
             muted == [l \in Level |-> IF l \in again THEN "never" ELSE seen.muted[l]]
             count == [l \in Level |-> IF l \in again THEN 0 ELSE seen.count[l]]
  <2>4. Afresh(seen, again) =
          [seen EXCEPT !.dismissed = dismissed, !.muted = muted, !.count = count]
    BY DEF Afresh
  <2>5. /\ dismissed \in [Level -> BOOLEAN] /\ muted \in [Level -> Muting]
        /\ count \in [Level -> Nat]
    BY DEF Row, Muting
  <2> HIDE DEF dismissed, muted, count
  <2>6. Afresh(seen, again) \in Row /\ Afresh(seen, again).count = count
    BY <2>4, <2>5 DEF Row
  <2> QED
    BY <2>2, <2>3, <2>6 DEF count
<1> QED
  BY <1>1, <1>2, <1>3, <1>4 DEF Tap

-----------------------------------------------------------------------------
(* The inductive invariant.                                                 *)

\* The poll's rows are those of the database but for what it changed itself, and
\* a date it noted is on a row it holds, so the commit will write it.
PollKeepsUp ==
  poll.pc # "idle" => \A p \in Position :
    /\ row[p].sent = poll.view[p].sent
    /\ poll.view[p].sent \subseteq poll.mine[p].sent
    /\ poll.mine[p].sent = poll.view[p].sent \/ p \in poll.locked

\* A row is worked on once: what is left has no alert of this poll yet, and the
\* alerts still to go out for the row at hand are not on it.
PollIsOnce ==
  /\ poll.rest \cap poll.group = {}
  /\ \A p \in poll.rest \cup (poll.group \ poll.at) : poll.mine[p].sent = poll.view[p].sent
  /\ poll.pc \notin {"alerting", "reviewing"} => poll.at = {}
  /\ poll.at \subseteq poll.group
  /\ \A p, q \in poll.at : p = q
  /\ \A p \in poll.at : poll.alerts \cap poll.mine[p].sent = {}

\* A date went out once for each poll rolled back, and once more if it is on the
\* row, or on the poll's copy while there is a poll.
Sent(p) == IF poll.pc = "idle" THEN row[p].sent ELSE poll.mine[p].sent
DatesCounted ==
  \A p \in Position, d \in DateAlert :
    /\ sends[p][d] <= lost + 1
    /\ d \notin Sent(p) => sends[p][d] <= lost
    /\ d \in Sent(p) => sends[p][d] > 0

\* A row polled with rows of its owner only is alerted in the owner's chat.
OwnersHear ==
  /\ \A p \in poll.group \ shared : poll.chat = {Owner[p]}
  /\ \A p \in Position \ shared, a \in Alert : stray[p][a] = 0

\* The counters of the row and of the poll's copy are covered by what was sent.
Covered(p, l, n) == n <= sends[p][l] \/ <<p, l>> \in raced
CountsCovered ==
  \A p \in Position, l \in Level :
    /\ Covered(p, l, row[p].count[l])
    /\ poll.pc # "idle" => Covered(p, l, poll.mine[p].count[l])

\* The row of a tap under way is as the tap read it: mutes and dismissals always,
\* and counters as long as no poll ran.
TapKeepsUp ==
  tap.req # NoTap =>
    /\ row[tap.req.pos].muted = tap.seen.muted
    /\ row[tap.req.pos].dismissed = tap.seen.dismissed
    /\ ~tap.overlap => poll.pc = "idle" /\ row[tap.req.pos].count = tap.seen.count

\* A level the user silenced is silent on the row, and was on the row a poll read;
\* the poll has no alert to send about it.
Silent(r, l) == r.dismissed[l] \/ r.muted[l] = "running"
WishesKept ==
  /\ \A w \in wish : Silent(row[w[1]], w[2])
  /\ \A w \in poll.quiet : Silent(poll.view[w[1]], w[2])
  /\ \A p \in poll.at, l \in poll.alerts \cap Level : ~Silent(poll.view[p], l)

-----------------------------------------------------------------------------
(* What each step of a poll does to the poll, field by field.               *)

LEMMA PollStarts ==
  ASSUME Typed, PollStart
  PROVE  /\ poll' \in Poll /\ poll'.pc = "next" /\ poll'.view = row /\ poll'.mine = row
         /\ poll'.at = {} /\ poll'.group = {} /\ poll'.alerts = {} /\ poll'.quiet = wish
         /\ tap' \in TapRecord /\ tap'.req = tap.req /\ tap'.seen = tap.seen /\ tap'.overlap
<1>1. /\ IdlePoll \in Poll /\ IdlePoll.at = {} /\ IdlePoll.group = {} /\ IdlePoll.alerts = {}
  BY Starting DEF IdlePoll
<1>2. poll' = [IdlePoll EXCEPT !.pc = "next", !.view = row, !.mine = row, !.today = today,
                               !.rest = Active, !.quiet = wish]
  BY DEF PollStart
<1>3. Active \subseteq Position
  BY DEF Active
<1>4. /\ poll' \in Poll /\ poll'.pc = "next" /\ poll'.view = row /\ poll'.mine = row
      /\ poll'.at = {} /\ poll'.group = {} /\ poll'.alerts = {} /\ poll'.quiet = wish
  BY <1>1, <1>2, <1>3 DEF Typed, Poll
<1>5. tap' \in TapRecord /\ tap'.req = tap.req /\ tap'.seen = tap.seen /\ tap'.overlap
  BY DEF PollStart, Typed, TapRecord
<1> QED
  BY <1>4, <1>5

LEMMA GroupBegins ==
  ASSUME Typed, BeginGroup
  PROVE  /\ poll' \in Poll /\ poll'.pc = poll.pc /\ poll'.view = poll.view
         /\ poll'.at = poll.at /\ poll'.alerts = poll.alerts /\ poll'.quiet = poll.quiet
         /\ poll'.rest \subseteq poll.rest /\ poll'.group \subseteq poll.rest
         /\ poll'.rest \cap poll'.group = {}
         /\ poll.locked \subseteq poll'.locked
         /\ \A p \in Position : /\ poll'.mine[p].sent = poll.mine[p].sent
                                /\ poll'.mine[p].count = poll.mine[p].count
         /\ shared \subseteq shared' /\ shared' \subseteq Position
         /\ \A p \in poll'.group \ shared' : poll'.chat = {Owner[p]}
<1>1. PICK t \in {Ticker[p] : p \in poll.rest} :
        LET members == {p \in poll.rest : Ticker[p] = t}
            expired == {p \in members : PastExpiry(p, poll.today)}
            live == members \ expired
        IN  /\ \E chat \in IF live = {} THEN {{}} ELSE {{Owner[p]} : p \in Lenders(members, live)} :
                 poll' = [poll EXCEPT
                   !.rest = @ \ members, !.group = live, !.chat = chat,
                   !.plans = [p \in Position |-> IF p \in live THEN plan[p] ELSE @[p]],
                   !.mine = [p \in Position |-> IF p \in expired
                               THEN [@[p] EXCEPT !.status = "closed"] ELSE @[p]],
                   !.locked = @ \cup expired]
            /\ shared' = shared \cup Mixed(live)
  BY DEF BeginGroup
<1> DEFINE members == {p \in poll.rest : Ticker[p] = t}
           expired == {p \in members : PastExpiry(p, poll.today)}
           live == members \ expired
           plans == [p \in Position |-> IF p \in live THEN plan[p] ELSE poll.plans[p]]
           mine == [p \in Position |-> IF p \in expired
                      THEN [poll.mine[p] EXCEPT !.status = "closed"] ELSE poll.mine[p]]
<1>2. PICK chat \in IF live = {} THEN {{}} ELSE {{Owner[p]} : p \in live} :
        poll' = [poll EXCEPT !.rest = @ \ members, !.group = live, !.chat = chat,
                             !.plans = plans, !.mine = mine, !.locked = @ \cup expired]
  BY <1>1 DEF Lenders
<1>0. shared' = shared \cup Mixed(live)
  BY <1>1
<1>3. members \subseteq poll.rest /\ expired \subseteq members /\ live \subseteq members
  OBVIOUS
<1>4. poll.rest \subseteq Position
  BY DEF Typed, Poll
<1>5. chat \subseteq User
  BY <1>3, <1>4, OwnerAssumption
<1>6. plans \in [Position -> Plan]
  BY DEF Typed, Poll
<1>7. /\ mine \in [Position -> Row]
      /\ \A p \in Position : /\ mine[p].sent = poll.mine[p].sent
                             /\ mine[p].count = poll.mine[p].count
  <2> DEFINE closed(p) == [poll.mine[p] EXCEPT !.status = "closed"]
  <2>1. ASSUME NEW p \in Position
        PROVE  /\ closed(p) \in Row /\ closed(p).sent = poll.mine[p].sent
               /\ closed(p).count = poll.mine[p].count /\ poll.mine[p] \in Row
    <3>1. poll.mine[p] \in Row
      BY DEF Typed, Poll
    <3> QED
      BY <3>1 DEF Row
  <2>2. mine = [p \in Position |-> IF p \in expired THEN closed(p) ELSE poll.mine[p]]
    OBVIOUS
  <2> HIDE DEF closed, mine
  <2> QED
    BY <2>1, <2>2
<1>8. \A p \in live \ shared' : chat = {Owner[p]}
  <2> SUFFICES ASSUME NEW p \in live, p \notin shared' PROVE chat = {Owner[p]}
    OBVIOUS
  <2>1. PICK q \in live : chat = {Owner[q]}
    OBVIOUS
  <2>2. Owner[q] = Owner[p]
    BY <1>0 DEF Mixed
  <2> QED
    BY <2>1, <2>2
<1>9. shared \subseteq shared' /\ shared' \subseteq Position
  BY <1>0, <1>3, <1>4 DEF Mixed, Typed
<1> HIDE DEF members, expired, live, plans, mine
<1>10. poll' \in Poll /\ poll'.group = live /\ poll'.chat = chat /\ poll'.rest = poll.rest \ members
  BY <1>2, <1>3, <1>4, <1>5, <1>6, <1>7 DEF Typed, Poll
<1>11. /\ poll'.pc = poll.pc /\ poll'.view = poll.view /\ poll'.at = poll.at
       /\ poll'.alerts = poll.alerts /\ poll'.quiet = poll.quiet
       /\ poll'.locked = poll.locked \cup expired /\ poll'.mine = mine
  BY <1>2 DEF Typed, Poll
<1>12. live \cap (poll.rest \ members) = {}
  BY <1>3
<1> QED
  BY <1>3, <1>7, <1>8, <1>9, <1>10, <1>11, <1>12

LEMMA PositionPolled ==
  ASSUME Typed, PollPosition
  PROVE  \E p \in poll.group, q \in Price :
           /\ poll' \in Poll /\ poll.pc = "next" /\ poll'.pc = "alerting" /\ poll'.at = {p}
           /\ poll'.alerts = AlertsFor(p, q)
           /\ poll'.view = poll.view /\ poll'.rest = poll.rest /\ poll'.group = poll.group
           /\ poll'.locked = poll.locked /\ poll'.quiet = poll.quiet /\ poll'.chat = poll.chat
           /\ \A k \in Position : /\ poll'.mine[k].sent = poll.mine[k].sent
                                  /\ poll'.mine[k].count = poll.mine[k].count
<1>1. PICK p \in poll.group, q \in Price :
        poll' = [poll EXCEPT !.pc = "alerting", !.at = {p}, !.alerts = AlertsFor(p, q),
                             !.mine[p].last = q]
  BY DEF PollPosition
<1> DEFINE r == [poll.mine[p] EXCEPT !.last = q]
           mine == [poll.mine EXCEPT ![p] = r]
<1>2. AlertsFor(p, q) \subseteq Alert
  BY DEF AlertsFor, Alert
<1>3. p \in Position /\ poll.mine \in [Position -> Row]
  BY DEF Typed, Poll
<1>4. r \in Row /\ r.sent = poll.mine[p].sent /\ r.count = poll.mine[p].count
  BY <1>3 DEF Row, Quote
<1>5. poll' = [poll EXCEPT !.pc = "alerting", !.at = {p}, !.alerts = AlertsFor(p, q),
                           !.mine = mine]
  BY <1>1 DEF Typed, Poll
<1> HIDE DEF r
<1>6. /\ mine \in [Position -> Row]
      /\ \A k \in Position : /\ mine[k].sent = poll.mine[k].sent
                             /\ mine[k].count = poll.mine[k].count
  BY <1>3, <1>4
<1> HIDE DEF mine
<1>7. poll.pc = "next"
  BY DEF PollPosition
<1> QED
  BY <1>2, <1>3, <1>5, <1>6, <1>7 DEF Typed, Poll

LEMMA AlertSent ==
  ASSUME Typed, SendAlert
  PROVE  \E p \in poll.at, a \in poll.alerts :
           /\ poll' \in Poll /\ poll.pc = "alerting" /\ poll'.pc = "alerting"
           /\ poll'.at = poll.at /\ poll'.alerts = poll.alerts \ {a}
           /\ poll'.view = poll.view /\ poll'.rest = poll.rest /\ poll'.group = poll.group
           /\ poll'.locked = poll.locked \cup {p} /\ poll'.quiet = poll.quiet
           /\ poll'.chat = poll.chat
           /\ \A k \in Position \ {p} : poll'.mine[k] = poll.mine[k]
           /\ poll'.mine[p] = Noted(poll.mine[p], a) /\ poll.mine[p] \in Row
           /\ heard' \in [Position -> [Alert -> Nat]] /\ stray' \in [Position -> [Alert -> Nat]]
           /\ sends' = [sends EXCEPT ![p][a] = @ + 1]
           /\ Owner[p] \in poll.chat => stray' = stray
           /\ \A k \in Position \ {p} : stray'[k] = stray[k]
           /\ p \in Position /\ a \in Alert
<1> DEFINE a == First(poll.alerts)
<1>1. PICK p \in poll.at :
        /\ IF Owner[p] \in poll.chat
           THEN stray' = stray /\ heard' = [heard EXCEPT ![p][a] = @ + 1]
           ELSE heard' = heard /\ stray' = [stray EXCEPT ![p][a] = @ + 1]
        /\ poll' = [poll EXCEPT !.alerts = @ \ {a}, !.locked = @ \cup {p},
                                !.mine[p] = Noted(@, a)]
  BY DEF SendAlert
<1> DEFINE r == Noted(poll.mine[p], a)
           mine == [poll.mine EXCEPT ![p] = r]
<1>2. a \in poll.alerts /\ a \in Alert
  BY FirstIsOne DEF SendAlert, Typed, Poll
<1>3. p \in Position /\ poll.mine \in [Position -> Row]
  BY DEF Typed, Poll
<1>4. r \in Row
  BY <1>2, <1>3, NotedRow
<1>5. poll' = [poll EXCEPT !.alerts = @ \ {a}, !.locked = @ \cup {p}, !.mine = mine]
  BY <1>1 DEF Typed, Poll
<1> HIDE DEF a, r
<1>11. /\ heard' \in [Position -> [Alert -> Nat]] /\ stray' \in [Position -> [Alert -> Nat]]
       /\ \A k \in Position, b \in Alert :
            sends'[k][b] = IF k = p /\ b = a THEN sends[k][b] + 1 ELSE sends[k][b]
       /\ Owner[p] \in poll.chat => stray' = stray
       /\ \A k \in Position \ {p} : stray'[k] = stray[k]
  <2> DEFINE more(f) == [f EXCEPT ![p][a] = @ + 1]
  <2>1. ASSUME NEW f \in [Position -> [Alert -> Nat]]
        PROVE  /\ more(f) \in [Position -> [Alert -> Nat]]
               /\ \A k \in Position, b \in Alert :
                    more(f)[k][b] = IF k = p /\ b = a THEN f[k][b] + 1 ELSE f[k][b]
               /\ \A k \in Position \ {p} : more(f)[k] = f[k]
    BY <1>2, <1>3
  <2>2. /\ heard \in [Position -> [Alert -> Nat]] /\ stray \in [Position -> [Alert -> Nat]]
        /\ \A k \in Position, b \in Alert : heard[k][b] \in Nat /\ stray[k][b] \in Nat
    BY DEF Typed
  <2>3. CASE Owner[p] \in poll.chat
    <3>1. stray' = stray /\ heard' = more(heard)
      BY <1>1, <2>3
    <3> HIDE DEF more
    <3> QED
      BY <2>1, <2>2, <3>1 DEF sends
  <2>4. CASE Owner[p] \notin poll.chat
    <3>1. heard' = heard /\ stray' = more(stray)
      BY <1>1, <2>4
    <3> HIDE DEF more
    <3> QED
      BY <2>1, <2>2, <2>4, <3>1 DEF sends
  <2> QED
    BY <2>3, <2>4
<1>6. mine \in [Position -> Row]
  BY <1>3, <1>4
<1> HIDE DEF mine
<1>7. poll' \in Poll
  BY <1>3, <1>5, <1>6 DEF Typed, Poll
<1>8. /\ poll'.pc = poll.pc /\ poll'.at = poll.at /\ poll'.alerts = poll.alerts \ {a}
      /\ poll'.view = poll.view /\ poll'.rest = poll.rest /\ poll'.group = poll.group
      /\ poll'.locked = poll.locked \cup {p} /\ poll'.quiet = poll.quiet
      /\ poll'.mine = mine /\ poll'.chat = poll.chat
  BY <1>5 DEF Typed, Poll
<1>9. poll.pc = "alerting"
  BY DEF SendAlert
<1>10. /\ \A k \in Position \ {p} : mine[k] = poll.mine[k]
       /\ mine[p] = r /\ poll.mine[p] \in Row
  BY <1>3 DEF mine
<1> HIDE DEF mine
<1>12. sends' = [sends EXCEPT ![p][a] = @ + 1]
  <2>1. sends \in [Position -> [Alert -> Nat]] /\ sends' \in [Position -> [Alert -> Nat]]
    BY <1>11, SendsCount DEF sends
  <2> QED
    BY <1>2, <1>3, <1>11, <2>1
<1>13. poll'.mine[p] = Noted(poll.mine[p], a) /\ \A k \in Position \ {p} : poll'.mine[k] = poll.mine[k]
  BY <1>8, <1>10 DEF r
<1> QED
  BY <1>2, <1>3, <1>7, <1>8, <1>9, <1>10, <1>11, <1>12, <1>13

\* The steps that only move on: a row skipped, its alerts dropped, or done with.
MoveOn == SkipPosition \/ StopAlerting \/ FinishPosition \/ ReviewReturns

LEMMA PollMovesOn ==
  ASSUME Typed, PollIsOnce, MoveOn
  PROVE  /\ poll' \in Poll /\ poll.pc # "idle" /\ poll'.pc # "idle"
         /\ poll'.view = poll.view /\ poll'.mine = poll.mine /\ poll'.rest = poll.rest
         /\ poll.locked \subseteq poll'.locked /\ poll'.quiet = poll.quiet
         /\ poll'.chat = poll.chat /\ poll'.group \subseteq poll.group
         /\ poll'.group \ poll'.at \subseteq poll.group \ poll.at
         /\ poll'.pc \notin {"alerting", "reviewing"} => poll'.at = {}
         /\ poll'.at \subseteq poll.at /\ poll'.at \subseteq poll'.group
         /\ poll'.alerts \subseteq poll.alerts
<1> DEFINE Same == /\ poll'.view = poll.view /\ poll'.mine = poll.mine
                   /\ poll'.rest = poll.rest /\ poll'.quiet = poll.quiet
                   /\ poll'.chat = poll.chat
<1>1. CASE SkipPosition
  <2>1. PICK p \in poll.group : poll' = [poll EXCEPT !.group = @ \ {p}]
    BY <1>1 DEF SkipPosition
  <2>2. /\ poll' \in Poll /\ Same /\ poll'.pc = poll.pc /\ poll'.group = poll.group \ {p}
        /\ poll'.at = poll.at /\ poll'.alerts = poll.alerts /\ poll'.locked = poll.locked
    BY <2>1 DEF Typed, Poll
  <2>3. poll.pc = "next" /\ poll.at = {}
    BY <1>1 DEF SkipPosition, PollIsOnce
  <2> QED
    BY <2>2, <2>3
<1>2. CASE StopAlerting
  <2>1. PICK p \in poll.at : poll' = [poll EXCEPT !.alerts = {}, !.locked = @ \cup {p}]
    BY <1>2 DEF StopAlerting
  <2>2. p \in Position
    BY DEF Typed, Poll
  <2>3. /\ poll' \in Poll /\ Same /\ poll'.pc = poll.pc /\ poll'.group = poll.group
        /\ poll'.at = poll.at /\ poll'.alerts = {} /\ poll'.locked = poll.locked \cup {p}
    BY <2>1, <2>2 DEF Typed, Poll
  <2>4. poll.pc = "alerting" /\ poll.at \subseteq poll.group
    BY <1>2 DEF StopAlerting, PollIsOnce
  <2> QED
    BY <2>3, <2>4
<1>3. CASE FinishPosition
  <2>1. PICK p \in poll.at, drift \in {"none", "quiet", "review"} :
          poll' = [poll EXCEPT
            !.pc = IF drift = "review" THEN "reviewing" ELSE "next",
            !.at = IF drift = "review" THEN @ ELSE {},
            !.group = IF drift = "review" THEN @ ELSE @ \ {p}, !.locked = @ \cup {p},
            !.drafts = IF drift = "none" \/ p \in thesis THEN @ ELSE @ \cup {p}]
    BY <1>3 DEF FinishPosition
  <2>2. p \in Position
    BY DEF Typed, Poll
  <2>3. poll.pc = "alerting" /\ poll.at = {p} /\ poll.at \subseteq poll.group
    BY <1>3 DEF FinishPosition, PollIsOnce
  <2>4. poll' \in Poll /\ Same /\ poll'.alerts = poll.alerts /\ poll'.locked = poll.locked \cup {p}
    BY <2>1, <2>2 DEF Typed, Poll
  <2>5. \/ poll'.pc = "reviewing" /\ poll'.at = poll.at /\ poll'.group = poll.group
        \/ poll'.pc = "next" /\ poll'.at = {} /\ poll'.group = poll.group \ {p}
    BY <2>1 DEF Typed, Poll
  <2> QED
    BY <2>3, <2>4, <2>5
<1>4. CASE ReviewReturns
  <2>1. poll' = [poll EXCEPT !.pc = "next", !.at = {}, !.group = @ \ poll.at]
    BY <1>4 DEF ReviewReturns
  <2>2. /\ poll' \in Poll /\ Same /\ poll'.pc = "next" /\ poll'.group = poll.group \ poll.at
        /\ poll'.at = {} /\ poll'.alerts = poll.alerts /\ poll'.locked = poll.locked
    BY <2>1 DEF Typed, Poll
  <2>3. poll.pc = "reviewing"
    BY <1>4 DEF ReviewReturns
  <2> QED
    BY <2>2, <2>3
<1> QED
  BY <1>1, <1>2, <1>3, <1>4 DEF MoveOn

LEMMA TapReads ==
  ASSUME Typed, TapRead
  PROVE  \E r \in Tap :
           /\ tap' = [req |-> r, seen |-> row[r.pos], plan |-> plan[r.pos],
                      overlap |-> poll.pc # "idle"]
           /\ r.pos \in Position /\ tap' \in TapRecord
<1>1. PICK r \in Tap :
        tap' = [req |-> r, seen |-> row[r.pos], plan |-> plan[r.pos],
                overlap |-> poll.pc # "idle"]
  BY DEF TapRead
<1>2. r.pos \in Position
  BY DEF Tap
<1>3. tap' \in TapRecord
  BY <1>1, <1>2 DEF Typed, TapRecord
<1> QED
  BY <1>1, <1>2, <1>3

LEMMA TapReached ==
  ASSUME Typed, TapCommit
  PROVE  /\ heard' \in [Position -> [Alert -> Nat]] /\ stray' \in [Position -> [Alert -> Nat]]
         /\ \A k \in Position, b \in Alert : stray'[k][b] \in {0, stray[k][b]}
<1>1. PICK p, again :
        /\ heard' = [heard EXCEPT ![p] = [a \in Alert |-> IF a \in again THEN 0 ELSE @[a]]]
        /\ stray' = [stray EXCEPT ![p] = [a \in Alert |-> IF a \in again THEN 0 ELSE @[a]]]
  BY DEF TapCommit
<1> QED
  BY <1>1 DEF Typed

LEMMA TapCommits ==
  ASSUME Typed, TapCommit
  PROVE  \E p \in Position, new \in Row, again \in SUBSET Level :
           /\ tap.req # NoTap /\ tap.req.pos = p
           /\ new = Answered(tap.req, tap.seen, tap.plan)
           /\ new.count = [l \in Level |-> IF l \in again THEN 0 ELSE tap.seen.count[l]]
           /\ row' = [row EXCEPT ![p] = Merged(row[p], tap.seen, new)]
           /\ sends' = [sends EXCEPT ![p] = [a \in Alert |-> IF a \in again THEN 0 ELSE @[a]]]
           /\ wish' = {w \in wish : w[1] # p} \cup Silenced(p, new)
           /\ raced' = LET these == {<<p, l>> : l \in again} IN
                       IF tap.overlap THEN raced \cup these ELSE raced \ these
<1> DEFINE r == tap.req
           p == r.pos
           new == Answered(r, tap.seen, tap.plan)
           set == IF r.op \in {"adjust", "apply"} THEN r.levels ELSE {}
           again == IF set = {} THEN {} ELSE Rearmed(r, tap.plan)
<1>1. r \in Tap /\ tap.seen \in Row
  BY DEF TapCommit, Typed, TapRecord
<1>2. p \in Position
  BY <1>1 DEF Tap
<1>3. again = Again(r, tap.plan)
  <2>1. CASE r.op \in {"adjust", "apply"}
    <3>1. r \in [op : {"adjust", "apply"}, pos : Position, levels : (SUBSET Level) \ {{}},
                  price : Price]
      BY <1>1, <2>1 DEF Tap
    <3>2. r.levels # {}
      BY <3>1
    <3> QED
      BY <2>1, <3>2 DEF Again
  <2>2. CASE r.op \notin {"adjust", "apply"}
    BY <2>2 DEF Again
  <2> QED
    BY <2>1, <2>2
<1>4. /\ new \in Row /\ again \subseteq Level
      /\ new.count = [l \in Level |-> IF l \in again THEN 0 ELSE tap.seen.count[l]]
  BY <1>1, <1>3, AnsweredRow
<1>5. /\ row' = [row EXCEPT ![p] = Merged(row[p], tap.seen, new)]
      /\ heard' = [heard EXCEPT ![p] = [a \in Alert |-> IF a \in again THEN 0 ELSE @[a]]]
      /\ stray' = [stray EXCEPT ![p] = [a \in Alert |-> IF a \in again THEN 0 ELSE @[a]]]
      /\ wish' = {w \in wish : w[1] # p} \cup Silenced(p, new)
      /\ raced' = LET these == {<<p, l>> : l \in again} IN
                  IF tap.overlap THEN raced \cup these ELSE raced \ these
  BY DEF TapCommit
<1>6. tap.req # NoTap
  BY DEF TapCommit
<1> HIDE DEF new, again
<1>7. sends' = [sends EXCEPT ![p] = [a \in Alert |-> IF a \in again THEN 0 ELSE @[a]]]
  <2> DEFINE cut(f) == [f EXCEPT ![p] = [a \in Alert |-> IF a \in again THEN 0 ELSE @[a]]]
  <2>1. ASSUME NEW f \in [Position -> [Alert -> Nat]]
        PROVE  /\ cut(f) \in [Position -> [Alert -> Nat]]
               /\ \A k \in Position, b \in Alert :
                    cut(f)[k][b] = IF k = p /\ b \in again THEN 0 ELSE f[k][b]
    BY <1>2
  <2>2. /\ heard \in [Position -> [Alert -> Nat]] /\ stray \in [Position -> [Alert -> Nat]]
        /\ sends \in [Position -> [Alert -> Nat]]
    BY SendsCount DEF Typed
  <2>3. heard' = cut(heard) /\ stray' = cut(stray)
    BY <1>5
  <2> HIDE DEF cut
  <2>4. \A k \in Position, b \in Alert :
          /\ heard'[k][b] = IF k = p /\ b \in again THEN 0 ELSE heard[k][b]
          /\ stray'[k][b] = IF k = p /\ b \in again THEN 0 ELSE stray[k][b]
    BY <2>1, <2>2, <2>3
  <2>5. /\ sends' \in [Position -> [Alert -> Nat]]
        /\ \A k \in Position, b \in Alert :
             sends'[k][b] = IF k = p /\ b \in again THEN 0 ELSE sends[k][b]
    <3>1. \A k \in Position, b \in Alert : heard'[k][b] \in Nat /\ stray'[k][b] \in Nat
      BY <2>1, <2>2, <2>3
    <3> QED
      BY <2>4, <3>1 DEF sends
  <2>6. sends' = cut(sends)
    <3>1. cut(sends) \in [Position -> [Alert -> Nat]]
      BY <2>1, <2>2
    <3>2. ASSUME NEW k \in Position PROVE sends'[k] = cut(sends)[k]
      <4>1. \A b \in Alert : sends'[k][b] = cut(sends)[k][b]
        BY <2>1, <2>2, <2>5
      <4>2. sends'[k] \in [Alert -> Nat] /\ cut(sends)[k] \in [Alert -> Nat]
        BY <2>5, <3>1
      <4> QED
        BY <4>1, <4>2
    <3> QED
      BY <2>5, <3>1, <3>2
  <2> QED
    BY <2>6 DEF cut
<1> QED
  BY <1>2, <1>4, <1>5, <1>6, <1>7 DEF new

\* The levels in force after an adjustment are prices of its plan.
LEMMA TapPlans ==
  ASSUME Typed, TapCommit
  PROVE  plan' \in [Position -> Plan]
<1> DEFINE r == tap.req
           p == r.pos
           set == IF r.op \in {"adjust", "apply"} THEN r.levels ELSE {}
           new == [l \in Level |-> IF l \in set THEN r.price ELSE tap.plan[l]]
<1>1. r \in Tap /\ tap.plan \in Plan
  BY DEF TapCommit, Typed, TapRecord
<1>2. plan' = IF set = {} THEN plan ELSE [plan EXCEPT ![p] = new]
  BY DEF TapCommit
<1>3. CASE r.op \in {"adjust", "apply"}
  <2>1. r.price \in Price
    BY <1>1, <1>3 DEF Tap
  <2>2. new \in Plan
    BY <1>1, <2>1 DEF Plan, Quote
  <2> HIDE DEF new
  <2> QED
    BY <1>2, <2>2 DEF Typed
<1>4. CASE r.op \notin {"adjust", "apply"}
  BY <1>2, <1>4 DEF Typed
<1> QED
  BY <1>3, <1>4

-----------------------------------------------------------------------------
(* Types.                                                                   *)

LEMMA InitTyped == Init => Typed
<1> SUFFICES ASSUME Init PROVE Typed
  OBVIOUS
<1>1. row \in [Position -> Row] /\ plan \in [Position -> Plan] /\ poll \in Poll
      /\ tap \in TapRecord
  BY Starting DEF Init
<1>2. /\ heard \in [Position -> [Alert -> Nat]] /\ stray \in [Position -> [Alert -> Nat]]
      /\ thesis \subseteq Position /\ shared = {}
  BY DEF Init
<1>3. /\ today \in 0..LastDay /\ polls \in 0..MaxPolls /\ taps \in 0..MaxTaps /\ lost \in Nat
      /\ wish = {} /\ raced = {}
  BY DateAssumption, BoundAssumption DEF Init
<1> QED
  BY <1>1, <1>2, <1>3 DEF Typed

LEMMA TypeStep == Typed /\ PollIsOnce /\ [Next]_vars => Typed'
<1> SUFFICES ASSUME Typed, PollIsOnce, [Next]_vars PROVE Typed'
  OBVIOUS
<1>1. CASE UNCHANGED vars
  BY <1>1 DEF vars, Typed
<1>2. CASE PollStart
  <2>1. poll' \in Poll /\ tap' \in TapRecord
    BY <1>2, PollStarts
  <2>2. polls' \in 0..MaxPolls
    BY <1>2, BoundAssumption DEF PollStart, Typed
  <2> QED
    BY <1>2, <2>1, <2>2 DEF PollStart, told, Typed
<1>3. CASE BeginGroup
  <2>1. poll' \in Poll /\ shared' \subseteq Position
    BY <1>3, GroupBegins
  <2> QED
    BY <1>3, <2>1 DEF BeginGroup, Typed
<1>12. CASE PollPosition
  <2>1. poll' \in Poll
    BY <1>12, PositionPolled
  <2> QED
    BY <1>12, <2>1 DEF PollPosition, told, Typed
<1>4. CASE SendAlert
  <2>1. /\ poll' \in Poll /\ heard' \in [Position -> [Alert -> Nat]]
        /\ stray' \in [Position -> [Alert -> Nat]]
    BY <1>4, AlertSent
  <2> QED
    BY <1>4, <2>1 DEF SendAlert, Typed
<1>5. CASE MoveOn
  <2>1. poll' \in Poll
    BY <1>5, PollMovesOn
  <2> QED
    BY <1>5, <2>1 DEF MoveOn, SkipPosition, StopAlerting, FinishPosition, ReviewReturns, told, Typed
<1>6. CASE PollCommit
  <2>1. row' \in [Position -> Row]
    <3>1. \A p \in Position : /\ row[p] \in Row
                              /\ Flushed(row[p], poll.view[p], poll.mine[p]) \in Row
      BY FlushedRow DEF Typed, Poll
    <3> QED
      BY <1>6, <3>1 DEF PollCommit
  <2>2. thesis' \subseteq Position
    BY <1>6 DEF PollCommit, Typed, Poll
  <2> QED
    BY <1>6, <2>1, <2>2, Starting DEF PollCommit, told, Typed
<1>7. CASE PollFails \/ PollKilled
  BY <1>7, Starting DEF PollFails, PollKilled, RolledBack, told, Typed
<1>8. CASE TapRead
  <2>1. tap' \in TapRecord
    BY <1>8, TapReads
  <2>2. taps' \in 0..MaxTaps
    BY <1>8, BoundAssumption DEF TapRead, Typed
  <2> QED
    BY <1>8, <2>1, <2>2 DEF TapRead, told, Typed
<1>9. CASE TapCommit
  <2>1. PICK p \in Position, new \in Row, again \in SUBSET Level :
          /\ row' = [row EXCEPT ![p] = Merged(row[p], tap.seen, new)]
          /\ wish' = {w \in wish : w[1] # p} \cup Silenced(p, new)
          /\ raced' = LET these == {<<p, l>> : l \in again} IN
                      IF tap.overlap THEN raced \cup these ELSE raced \ these
    BY <1>9, TapCommits
  <2>2. row' \in [Position -> Row]
    <3>1. Merged(row[p], tap.seen, new) \in Row
      BY MergedRow DEF Typed, TapRecord
    <3> QED
      BY <2>1, <3>1 DEF Typed
  <2>3. heard' \in [Position -> [Alert -> Nat]] /\ stray' \in [Position -> [Alert -> Nat]]
    BY <1>9, TapReached
  <2>4. wish' \subseteq Position \X Level
    BY <2>1 DEF Typed, Silenced
  <2>5. raced' \subseteq Position \X Level
    <3>1. {<<p, l>> : l \in again} \subseteq Position \X Level
      OBVIOUS
    <3> QED
      BY <2>1, <3>1 DEF Typed
  <2>6. plan' \in [Position -> Plan]
    BY <1>9, TapPlans
  <2>7. tap' \in TapRecord
    BY <1>9, Starting DEF TapCommit
  <2> QED
    BY <1>9, <2>2, <2>3, <2>4, <2>5, <2>6, <2>7 DEF TapCommit, Typed
<1>10. CASE MuteEnds
  <2>1. PICK p \in Position, l \in Level :
          /\ row' = [row EXCEPT ![p].muted[l] = "over"]
          /\ wish' \subseteq wish
    BY <1>10 DEF MuteEnds
  <2>2. row' \in [Position -> Row]
    <3> DEFINE r == [row[p] EXCEPT !.muted[l] = "over"]
    <3>1. row' = [row EXCEPT ![p] = r]
      BY <2>1 DEF Typed
    <3>2. r \in Row
      BY DEF Typed, Row, Muting
    <3> HIDE DEF r
    <3> QED
      BY <3>1, <3>2 DEF Typed
  <2> QED
    BY <1>10, <2>1, <2>2 DEF MuteEnds, told, Typed
<1>11. CASE DayPasses
  BY <1>11, DateAssumption DEF DayPasses, told, Typed
<1> QED
  BY <1>1, <1>2, <1>3, <1>4, <1>5, <1>6, <1>7, <1>8, <1>9, <1>10, <1>11, <1>12
  DEF Next, PollStep, MoveOn

-----------------------------------------------------------------------------
(* A row is worked on once, and the poll keeps up with the database.        *)

LEMMA InitKeeps == Init => PollKeepsUp /\ PollIsOnce /\ DatesCounted /\ CountsCovered
                           /\ OwnersHear /\ TapKeepsUp /\ WishesKept
<1> SUFFICES ASSUME Init
             PROVE  PollKeepsUp /\ PollIsOnce /\ DatesCounted /\ CountsCovered
                    /\ OwnersHear /\ TapKeepsUp /\ WishesKept
  OBVIOUS
<1>1. poll.pc = "idle" /\ poll.rest = {} /\ poll.group = {} /\ poll.at = {} /\ poll.quiet = {}
  BY DEF Init, IdlePoll
<1>2. \A p \in Position : row[p].sent = {} /\ \A l \in Level : row[p].count[l] = 0
  BY DEF Init, NewRow
<1>3. tap.req = NoTap /\ wish = {} /\ lost = 0
  BY DEF Init, IdleTap
<1>4. \A p \in Position, a \in Alert : sends[p][a] = 0 /\ stray[p][a] = 0
  BY DEF Init, sends
<1>5. DatesCounted
  BY <1>1, <1>2, <1>3, <1>4 DEF DatesCounted, Sent, Alert
<1>6. CountsCovered
  BY <1>1, <1>2, <1>4 DEF CountsCovered, Covered, Alert
<1> QED
  BY <1>1, <1>3, <1>4, <1>5, <1>6 DEF PollKeepsUp, PollIsOnce, OwnersHear, TapKeepsUp, WishesKept

\* The idle poll has nothing in hand.
LEMMA IdleIsOnce ==
  ASSUME poll' = IdlePoll
  PROVE  PollIsOnce' /\ PollKeepsUp' /\ poll'.pc = "idle" /\ poll'.quiet = {} /\ poll'.at = {}
         /\ poll'.group = {}
BY DEF IdlePoll, PollIsOnce, PollKeepsUp

LEMMA OnceStep == Typed /\ PollIsOnce /\ [Next]_vars => PollIsOnce'
<1> SUFFICES ASSUME Typed, PollIsOnce, [Next]_vars PROVE PollIsOnce'
  OBVIOUS
<1>0. poll.rest \subseteq Position /\ poll.group \subseteq Position /\ poll.at \subseteq Position
      /\ \A p \in Position : poll.mine[p] \in Row /\ poll.view[p] \in Row
  BY DEF Typed, Poll
<1>1. CASE UNCHANGED poll
  BY <1>1 DEF PollIsOnce
<1>2. CASE PollStart
  BY <1>2, PollStarts DEF PollIsOnce
<1>3. CASE BeginGroup
  <2>1. poll.pc = "next" /\ poll.at = {}
    BY <1>3 DEF BeginGroup, PollIsOnce
  <2> QED
    BY <1>0, <1>3, <2>1, GroupBegins DEF PollIsOnce
<1>4. CASE PollPosition
  <2>1. PICK p \in poll.group, q \in Price :
          /\ poll.pc = "next" /\ poll'.pc = "alerting" /\ poll'.at = {p}
          /\ poll'.alerts = AlertsFor(p, q)
          /\ poll'.view = poll.view /\ poll'.rest = poll.rest /\ poll'.group = poll.group
          /\ \A k \in Position : poll'.mine[k].sent = poll.mine[k].sent
    BY <1>4, PositionPolled
  <2>2. poll.mine[p].sent = poll.view[p].sent
    BY <2>1 DEF PollIsOnce
  <2>3. poll.view[p].sent \subseteq DateAlert
    BY <1>0, <2>1 DEF Row
  <2>4. AlertsFor(p, q) \cap poll.view[p].sent = {}
    BY <2>3 DEF AlertsFor, Level, DateAlert
  <2>5. poll'.alerts \cap poll'.mine[p].sent = {}
    BY <1>0, <2>1, <2>2, <2>4
  <2>6. \A k \in poll'.rest \cup (poll'.group \ poll'.at) : poll'.mine[k].sent = poll'.view[k].sent
    BY <1>0, <2>1 DEF PollIsOnce
  <2> QED
    BY <2>1, <2>5, <2>6 DEF PollIsOnce
<1>5. CASE SendAlert
  <2>1. PICK p \in poll.at, a \in poll.alerts :
          /\ poll.pc = "alerting" /\ poll'.pc = "alerting"
          /\ poll'.at = poll.at /\ poll'.alerts = poll.alerts \ {a}
          /\ poll'.view = poll.view /\ poll'.rest = poll.rest /\ poll'.group = poll.group
          /\ \A k \in Position \ {p} : poll'.mine[k] = poll.mine[k]
          /\ poll'.mine[p] = Noted(poll.mine[p], a) /\ poll.mine[p] \in Row
          /\ a \in Alert /\ p \in Position
    BY <1>5, AlertSent
  <2>2. poll.at = {p} /\ p \in poll.group /\ p \notin poll.rest
    BY <2>1 DEF PollIsOnce
  <2>3. /\ \A k \in Position \ {p} : poll'.mine[k] = poll.mine[k]
        /\ poll'.mine[p].sent \subseteq poll.mine[p].sent \cup {a}
    <3>1. poll.mine \in [Position -> Row]
      BY DEF Typed, Poll
    <3>2. Noted(poll.mine[p], a).sent \subseteq poll.mine[p].sent \cup {a}
      BY <1>0, <2>1, NotedRow DEF Alert
    <3> QED
      BY <2>1, <3>1, <3>2
  <2>4. poll'.alerts \cap poll'.mine[p].sent = {}
    BY <2>1, <2>2, <2>3 DEF PollIsOnce
  <2>5. \A k \in poll'.rest \cup (poll'.group \ poll'.at) : poll'.mine[k].sent = poll'.view[k].sent
    BY <1>0, <2>1, <2>2, <2>3 DEF PollIsOnce
  <2> QED
    BY <2>1, <2>2, <2>4, <2>5 DEF PollIsOnce
<1>6. CASE MoveOn
  BY <1>6, PollMovesOn DEF PollIsOnce
<1>7. CASE PollCommit \/ PollFails \/ PollKilled
  BY <1>7, IdleIsOnce DEF PollCommit, PollFails, PollKilled, RolledBack
<1>8. CASE TapRead \/ TapCommit \/ MuteEnds \/ DayPasses \/ UNCHANGED vars
  BY <1>1, <1>8 DEF TapRead, TapCommit, MuteEnds, DayPasses, vars
<1> QED
  BY <1>2, <1>3, <1>4, <1>5, <1>6, <1>7, <1>8 DEF Next, PollStep, MoveOn

\* What a tap leaves of a row: the dates sent, and the rows of the others.
LEMMA TapKeepsDates ==
  ASSUME Typed, TapCommit
  PROVE  /\ poll' = poll /\ lost' = lost
         /\ \A p \in Position : row'[p].sent = row[p].sent
         /\ \A p \in Position, d \in DateAlert : sends'[p][d] = sends[p][d]
<1>1. PICK p \in Position, new \in Row, again \in SUBSET Level :
        /\ row' = [row EXCEPT ![p] = Merged(row[p], tap.seen, new)]
        /\ sends' = [sends EXCEPT ![p] = [a \in Alert |-> IF a \in again THEN 0 ELSE @[a]]]
        /\ wish' = {w \in wish : w[1] # p} \cup Silenced(p, new)
  BY TapCommits
<1>2. Merged(row[p], tap.seen, new).sent = row[p].sent
  BY DEF Merged
<1>3. \A d \in DateAlert : d \notin again /\ d \in Alert
  BY DEF Level, DateAlert, Alert
<1>4. \A k \in Position : row'[k].sent = row[k].sent
  BY <1>1, <1>2 DEF Typed
<1>5. \A k \in Position, d \in DateAlert : sends'[k][d] = sends[k][d]
  BY <1>1, <1>3, SendsCount
<1> QED
  BY <1>4, <1>5 DEF TapCommit

LEMMA KeepsUpStep == Typed /\ PollIsOnce /\ PollKeepsUp /\ [Next]_vars => PollKeepsUp'
<1> SUFFICES ASSUME Typed, PollIsOnce, PollKeepsUp, [Next]_vars PROVE PollKeepsUp'
  OBVIOUS
<1>1. CASE UNCHANGED <<poll, row>>
  BY <1>1 DEF PollKeepsUp
<1>2. CASE PollStart
  <2>1. row' = row
    BY <1>2 DEF PollStart
  <2> QED
    BY <1>2, <2>1, PollStarts DEF PollKeepsUp
<1>3. CASE BeginGroup
  <2>1. row' = row /\ poll.pc = "next"
    BY <1>3 DEF BeginGroup
  <2> QED
    BY <1>3, <2>1, GroupBegins DEF PollKeepsUp
<1>4. CASE PollPosition
  <2>1. row' = row
    BY <1>4 DEF PollPosition
  <2> QED
    BY <1>4, <2>1, PositionPolled DEF PollKeepsUp
<1>5. CASE SendAlert
  <2>1. PICK p \in poll.at, a \in poll.alerts :
          /\ poll.pc = "alerting" /\ poll'.view = poll.view
          /\ poll'.locked = poll.locked \cup {p}
          /\ \A k \in Position \ {p} : poll'.mine[k] = poll.mine[k]
          /\ poll'.mine[p] = Noted(poll.mine[p], a) /\ poll.mine[p] \in Row
          /\ a \in Alert /\ p \in Position
    BY <1>5, AlertSent
  <2>2. poll.mine \in [Position -> Row] /\ row' = row
    BY <1>5 DEF SendAlert, Typed, Poll
  <2>3. poll.mine[p].sent \subseteq Noted(poll.mine[p], a).sent
    BY <2>1, <2>2, NotedRow DEF Alert
  <2> QED
    BY <2>1, <2>2, <2>3 DEF PollKeepsUp
<1>6. CASE MoveOn
  <2>1. row' = row
    BY <1>6 DEF MoveOn, SkipPosition, StopAlerting, FinishPosition, ReviewReturns
  <2> QED
    BY <1>6, <2>1, PollMovesOn DEF PollKeepsUp
<1>7. CASE PollCommit \/ PollFails \/ PollKilled
  BY <1>7, IdleIsOnce DEF PollCommit, PollFails, PollKilled, RolledBack
<1>8. CASE TapCommit
  BY <1>8, TapKeepsDates DEF PollKeepsUp
<1>9. CASE MuteEnds
  BY <1>9 DEF MuteEnds, PollKeepsUp
<1>10. CASE TapRead \/ DayPasses \/ UNCHANGED vars
  BY <1>1, <1>10 DEF TapRead, DayPasses, vars
<1> QED
  BY <1>2, <1>3, <1>4, <1>5, <1>6, <1>7, <1>8, <1>9, <1>10 DEF Next, PollStep, MoveOn

-----------------------------------------------------------------------------
(* The dates.                                                               *)

LEMMA DatesStep ==
  Typed /\ PollIsOnce /\ PollKeepsUp /\ DatesCounted /\ [Next]_vars => DatesCounted'
<1> SUFFICES ASSUME Typed, PollIsOnce, PollKeepsUp, DatesCounted, [Next]_vars
             PROVE  DatesCounted'
  OBVIOUS
<1>0. \A p \in Position, d \in DateAlert : d \in Alert /\ sends[p][d] \in Nat /\ lost \in Nat
  BY SendsCount DEF Typed, Alert
\* Most steps leave the dates a row, or the poll's copy, has sent.
<1>1. ASSUME \A p \in Position : Sent(p)' = Sent(p),
             \A p \in Position, d \in DateAlert : sends'[p][d] = sends[p][d],
             lost' = lost
      PROVE  DatesCounted'
  BY <1>1 DEF DatesCounted
<1>11. ASSUME \A p \in Position : Sent(p)' = Sent(p), UNCHANGED <<heard, stray, lost>>
       PROVE  DatesCounted'
  BY <1>0, <1>1, <1>11, SendsStay
<1>2. CASE PollStart
  <2>1. poll.pc = "idle" /\ UNCHANGED <<row, heard, stray, lost>>
    BY <1>2 DEF PollStart, told
  <2>2. \A p \in Position : Sent(p)' = Sent(p)
    BY <1>2, <2>1, PollStarts DEF Sent
  <2> QED
    BY <1>11, <2>1, <2>2
<1>3. CASE BeginGroup \/ PollPosition
  <2>1. UNCHANGED <<row, heard, stray, lost>> /\ poll.pc = "next"
    BY <1>3 DEF BeginGroup, PollPosition, told
  <2>2. poll'.pc # "idle" /\ \A p \in Position : poll'.mine[p].sent = poll.mine[p].sent
    BY <1>3, <2>1, GroupBegins, PositionPolled
  <2>3. \A p \in Position : Sent(p)' = Sent(p)
    BY <2>1, <2>2 DEF Sent
  <2> QED
    BY <1>11, <2>1, <2>3
<1>4. CASE SendAlert
  <2>1. PICK p \in poll.at, a \in poll.alerts :
          /\ poll.pc = "alerting" /\ poll'.pc = "alerting"
          /\ \A k \in Position \ {p} : poll'.mine[k] = poll.mine[k]
          /\ poll'.mine[p] = Noted(poll.mine[p], a) /\ poll.mine[p] \in Row
          /\ sends' = [sends EXCEPT ![p][a] = @ + 1]
          /\ a \in Alert /\ p \in Position
    BY <1>4, AlertSent
  <2>2. poll.mine \in [Position -> Row] /\ lost' = lost
    BY <1>4 DEF SendAlert, Typed, Poll
  <2>3. \A k \in Position : Sent(k) = poll.mine[k].sent /\ Sent(k)' = poll'.mine[k].sent
    BY <2>1 DEF Sent
  <2>4. CASE a \in Level
    <3>1. \A k \in Position : Sent(k)' = Sent(k)
      <4>1. Noted(poll.mine[p], a).sent = poll.mine[p].sent
        BY <2>1, <2>4, NotedRow
      <4>2. \A k \in Position : poll'.mine[k].sent = poll.mine[k].sent
        BY <2>1, <4>1
      <4> QED
        BY <2>3, <4>2
    <3>2. \A k \in Position, d \in DateAlert : sends'[k][d] = sends[k][d]
      BY <1>0, <2>1, <2>4, SendsCount DEF Level, DateAlert
    <3> QED
      BY <1>1, <2>2, <3>1, <3>2
  <2>5. CASE a \in DateAlert
    <3>1. \A k \in Position : Sent(k)' = IF k = p THEN Sent(p) \cup {a} ELSE Sent(k)
      <4>1. Noted(poll.mine[p], a).sent = poll.mine[p].sent \cup {a}
        BY <2>1, <2>5, NotedRow
      <4>2. \A k \in Position : poll'.mine[k].sent = IF k = p THEN poll.mine[p].sent \cup {a}
                                                            ELSE poll.mine[k].sent
        BY <2>1, <4>1
      <4> QED
        BY <2>1, <2>3, <4>2
    <3>2. a \notin Sent(p)
      BY <2>1, <2>3 DEF PollIsOnce
    <3>3. \A k \in Position, d \in DateAlert :
            sends'[k][d] = IF k = p /\ d = a THEN sends[k][d] + 1 ELSE sends[k][d]
      BY <1>0, <2>1, SendsCount
    <3>4. sends[p][a] <= lost /\ sends[p][a] \in Nat /\ lost \in Nat
      BY <1>0, <2>1, <2>5, <3>2 DEF DatesCounted
    <3>5. ASSUME NEW k \in Position, NEW d \in DateAlert
          PROVE  /\ sends'[k][d] <= lost + 1
                 /\ d \notin Sent(k)' => sends'[k][d] <= lost
                 /\ d \in Sent(k)' => sends'[k][d] > 0
      <4>1. CASE k = p /\ d = a
        BY <3>1, <3>3, <3>4, <4>1
      <4>2. CASE ~(k = p /\ d = a)
        BY <3>1, <3>3, <4>2 DEF DatesCounted
      <4> QED
        BY <4>1, <4>2
    <3> QED
      BY <2>2, <3>5 DEF DatesCounted
  <2> QED
    BY <2>1, <2>4, <2>5 DEF Alert
<1>5. CASE MoveOn
  <2>1. UNCHANGED <<row, heard, stray, lost>>
    BY <1>5 DEF MoveOn, SkipPosition, StopAlerting, FinishPosition, ReviewReturns, told
  <2>2. \A p \in Position : Sent(p)' = Sent(p)
    BY <1>5, PollMovesOn DEF Sent
  <2> QED
    BY <1>11, <2>1, <2>2
<1>6. CASE PollCommit
  <2>1. UNCHANGED <<heard, stray, lost>> /\ poll.pc = "next" /\ poll'.pc = "idle"
    BY <1>6, IdleIsOnce DEF PollCommit, told
  <2>2. ASSUME NEW p \in Position PROVE Sent(p)' = Sent(p)
    <3>1. row'[p] = IF p \in poll.locked
                    THEN Flushed(row[p], poll.view[p], poll.mine[p]) ELSE row[p]
      BY <1>6 DEF PollCommit
    <3>2. /\ row[p].sent = poll.view[p].sent
          /\ poll.mine[p].sent = poll.view[p].sent \/ p \in poll.locked
      BY <2>1 DEF PollKeepsUp
    <3>3. row'[p].sent = poll.mine[p].sent
      BY <3>1, <3>2 DEF Flushed, Written
    <3> QED
      BY <2>1, <3>3 DEF Sent
  <2> QED
    BY <1>11, <2>1, <2>2
<1>7. CASE PollFails \/ PollKilled
  <2>1. UNCHANGED <<row, heard, stray>> /\ poll.pc # "idle" /\ poll'.pc = "idle" /\ lost' = lost + 1
    BY <1>7, IdleIsOnce DEF PollFails, PollKilled, RolledBack, Blocked, told
  <2>2. ASSUME NEW p \in Position PROVE Sent(p)' = row[p].sent /\ row[p].sent \subseteq Sent(p)
    BY <2>1 DEF Sent, PollKeepsUp
  <2>3. ASSUME NEW p \in Position, NEW d \in DateAlert
        PROVE  /\ sends'[p][d] <= lost' + 1 /\ sends'[p][d] <= lost'
               /\ d \in Sent(p)' => sends'[p][d] > 0
    BY <1>0, <2>1, <2>2, SendsStay DEF DatesCounted
  <2> QED
    BY <2>3 DEF DatesCounted
<1>8. CASE TapCommit
  BY <1>1, <1>8, TapKeepsDates DEF Sent
<1>9. CASE MuteEnds
  <2>1. PICK p \in Position, l \in Level : row' = [row EXCEPT ![p].muted[l] = "over"]
    BY <1>9 DEF MuteEnds
  <2>2. \A k \in Position : row'[k].sent = row[k].sent
    BY <2>1 DEF Typed, Row
  <2> QED
    BY <1>11, <1>9, <2>2 DEF MuteEnds, told, Sent
<1>10. CASE TapRead \/ DayPasses \/ UNCHANGED vars
  BY <1>11, <1>10 DEF TapRead, DayPasses, vars, told, Sent
<1> QED
  BY <1>2, <1>3, <1>4, <1>5, <1>6, <1>7, <1>8, <1>9, <1>10 DEF Next, PollStep, MoveOn

-----------------------------------------------------------------------------
(* The counters.                                                            *)

LEMMA CountsStep == Typed /\ TapKeepsUp /\ CountsCovered /\ [Next]_vars => CountsCovered'
<1> SUFFICES ASSUME Typed, TapKeepsUp, CountsCovered, [Next]_vars PROVE CountsCovered'
  OBVIOUS
<1>0. /\ \A p \in Position : /\ row[p] \in Row /\ row[p].count \in [Level -> Nat]
                             /\ poll.mine[p] \in Row /\ poll.mine[p].count \in [Level -> Nat]
      /\ \A p \in Position, a \in Alert : sends[p][a] \in Nat
      /\ Level \subseteq Alert
  BY SendsCount DEF Typed, Poll, Row, Alert
\* Steps that leave the counters of rows and copies, or make copies of rows.
<1>1. ASSUME UNCHANGED <<heard, stray, raced>>,
             \A p \in Position : row'[p].count = row[p].count,
             poll'.pc # "idle" =>
               \A p \in Position : \/ poll'.mine[p].count = row[p].count
                                   \/ poll.pc # "idle" /\ poll'.mine[p].count = poll.mine[p].count
      PROVE  CountsCovered'
  BY <1>0, <1>1, SendsStay DEF CountsCovered, Covered
<1>2. CASE PollStart
  <2>1. UNCHANGED <<row, heard, stray, raced>>
    BY <1>2 DEF PollStart, told
  <2>2. \A p \in Position : poll'.mine[p].count = row[p].count
    BY <1>2, PollStarts
  <2>3. \A p \in Position : row'[p].count = row[p].count
    BY <2>1
  <2> QED
    BY <1>0, <2>1, <2>2, <2>3, SendsStay DEF CountsCovered, Covered
<1>3. CASE BeginGroup \/ PollPosition
  <2>1. UNCHANGED <<row, heard, stray, raced>> /\ poll.pc = "next"
    BY <1>3 DEF BeginGroup, PollPosition, told
  <2>2. \A p \in Position : poll'.mine[p].count = poll.mine[p].count
    BY <1>3, GroupBegins, PositionPolled
  <2> QED
    BY <1>1, <2>1, <2>2
<1>4. CASE SendAlert
  <2>1. PICK p \in poll.at, a \in poll.alerts :
          /\ poll.pc = "alerting" /\ poll'.pc = "alerting"
          /\ \A k \in Position \ {p} : poll'.mine[k] = poll.mine[k]
          /\ poll'.mine[p] = Noted(poll.mine[p], a) /\ poll.mine[p] \in Row
          /\ sends' = [sends EXCEPT ![p][a] = @ + 1]
          /\ a \in Alert /\ p \in Position
    BY <1>4, AlertSent
  <2>2. row' = row /\ raced' = raced
    BY <1>4 DEF SendAlert
  <2>3. \A k \in Position, l \in Level :
          sends'[k][l] = IF k = p /\ l = a THEN sends[k][l] + 1 ELSE sends[k][l]
    BY <1>0, <2>1, SendsCount
  <2>4. \A k \in Position, l \in Level :
          poll'.mine[k].count[l] = IF k = p /\ l = a THEN poll.mine[k].count[l] + 1
                                                     ELSE poll.mine[k].count[l]
    <3>1. CASE a \in Level
      <4>1. poll'.mine[p].count = [poll.mine[p].count EXCEPT ![a] = @ + 1]
        BY <2>1, <3>1, NotedRow
      <4> QED
        BY <1>0, <2>1, <4>1
    <3>2. CASE a \notin Level
      <4>0. a \in DateAlert
        BY <2>1, <3>2 DEF Alert
      <4>1. poll'.mine[p].count = poll.mine[p].count
        BY <2>1, <4>0, NotedRow
      <4> QED
        BY <2>1, <3>2, <4>1
    <3> QED
      BY <3>1, <3>2
  <2>5. ASSUME NEW k \in Position, NEW l \in Level
        PROVE  /\ row'[k].count[l] <= sends'[k][l] \/ <<k, l>> \in raced'
               /\ poll'.mine[k].count[l] <= sends'[k][l] \/ <<k, l>> \in raced'
    <3>1. /\ row[k].count[l] \in Nat /\ poll.mine[k].count[l] \in Nat /\ sends[k][l] \in Nat
      BY <1>0
    <3>2. /\ row[k].count[l] <= sends[k][l] \/ <<k, l>> \in raced
          /\ poll.mine[k].count[l] <= sends[k][l] \/ <<k, l>> \in raced
      BY <2>1 DEF CountsCovered, Covered
    <3> QED
      BY <2>2, <2>3, <2>4, <3>1, <3>2
  <2> QED
    BY <2>5 DEF CountsCovered, Covered
<1>5. CASE SkipPosition
  BY <1>1, <1>5 DEF SkipPosition, told, Typed, Poll
<1>6. CASE StopAlerting \/ FinishPosition \/ ReviewReturns
  <2>1. UNCHANGED <<row, heard, stray, raced>> /\ poll.pc # "idle"
    BY <1>6 DEF StopAlerting, FinishPosition, ReviewReturns, told
  <2>2. poll'.mine = poll.mine
    BY <1>6 DEF StopAlerting, FinishPosition, ReviewReturns, told, Typed, Poll
  <2> QED
    BY <1>1, <2>1, <2>2
<1>7. CASE PollCommit
  <2>1. UNCHANGED <<heard, stray, raced>> /\ poll.pc = "next" /\ poll'.pc = "idle"
    BY <1>7, IdleIsOnce DEF PollCommit, told
  <2>2. ASSUME NEW p \in Position, NEW l \in Level
        PROVE  row'[p].count[l] \in {row[p].count[l], poll.mine[p].count[l]}
    <3>1. row'[p] = IF p \in poll.locked
                    THEN Flushed(row[p], poll.view[p], poll.mine[p]) ELSE row[p]
      BY <1>7 DEF PollCommit
    <3> QED
      BY <3>1 DEF Flushed, Written
  <2> QED
    BY <1>0, <2>1, <2>2, SendsStay DEF CountsCovered, Covered
<1>8. CASE PollFails \/ PollKilled
  BY <1>0, <1>8, IdleIsOnce, SendsStay DEF PollFails, PollKilled, RolledBack, told, CountsCovered, Covered
<1>9. CASE TapCommit
  <2>1. PICK p \in Position, new \in Row, again \in SUBSET Level :
          /\ tap.req # NoTap /\ tap.req.pos = p
          /\ new.count = [l \in Level |-> IF l \in again THEN 0 ELSE tap.seen.count[l]]
          /\ row' = [row EXCEPT ![p] = Merged(row[p], tap.seen, new)]
          /\ sends' = [sends EXCEPT ![p] = [a \in Alert |-> IF a \in again THEN 0 ELSE @[a]]]
          /\ raced' = LET these == {<<p, l>> : l \in again} IN
                      IF tap.overlap THEN raced \cup these ELSE raced \ these
    BY <1>9, TapCommits
  <2>2. poll' = poll
    BY <1>9 DEF TapCommit
  <2>3. /\ \A k \in Position \ {p} : row'[k] = row[k]
        /\ row'[p] = Merged(row[p], tap.seen, new)
        /\ \A k \in Position, l \in Level :
             sends'[k][l] = IF k = p /\ l \in again THEN 0 ELSE sends[k][l]
    BY <1>0, <2>1, SendsCount DEF Typed
  <2>4. \A l \in Level : row'[p].count[l] = Written(row[p].count[l], tap.seen.count[l], new.count[l])
    BY <2>3 DEF Merged
  <2>5. \A k \in Position, l \in Level \ again : <<k, l>> \in raced' <=> <<k, l>> \in raced
    BY <2>1
  <2>6. \A k \in Position \ {p}, l \in Level : <<k, l>> \in raced' <=> <<k, l>> \in raced
    BY <2>1
  <2>7. ASSUME NEW k \in Position \ {p}, NEW l \in Level
        PROVE  Covered(k, l, row[k].count[l])' /\ (poll.pc # "idle" => Covered(k, l, poll.mine[k].count[l])')
    BY <2>2, <2>3, <2>6 DEF CountsCovered, Covered
  <2>8. ASSUME NEW l \in Level \ again
        PROVE  Covered(p, l, row[p].count[l])' /\ (poll.pc # "idle" => Covered(p, l, poll.mine[p].count[l])')
    <3>1. row'[p].count[l] = row[p].count[l] /\ sends'[p][l] = sends[p][l]
      BY <1>0, <2>1, <2>3, <2>4 DEF Written
    <3> QED
      BY <2>2, <2>5, <3>1 DEF CountsCovered, Covered
  <2>9. ASSUME NEW l \in again
        PROVE  Covered(p, l, row[p].count[l])' /\ (poll.pc # "idle" => Covered(p, l, poll.mine[p].count[l])')
    <3>1. CASE tap.overlap
      <4>1. <<p, l>> \in raced'
        BY <2>1, <3>1
      <4> QED
        BY <4>1 DEF Covered
    <3>2. CASE ~tap.overlap
      <4>1. poll.pc = "idle" /\ row[p].count = tap.seen.count
        BY <2>1, <3>2 DEF TapKeepsUp
      <4>2. sends'[p][l] = 0
        BY <2>3
      <4>3. row'[p].count[l] = 0
        BY <1>0, <2>1, <2>4, <4>1 DEF Written
      <4> QED
        BY <2>2, <4>1, <4>2, <4>3 DEF Covered
    <3> QED
      BY <3>1, <3>2
  <2> QED
    BY <2>2, <2>7, <2>8, <2>9 DEF CountsCovered
<1>10. CASE MuteEnds
  <2>1. PICK p \in Position, l \in Level : row' = [row EXCEPT ![p].muted[l] = "over"]
    BY <1>10 DEF MuteEnds
  <2>2. \A k \in Position : row'[k].count = row[k].count
    BY <2>1 DEF Typed, Row
  <2> QED
    BY <1>1, <1>10, <2>2 DEF MuteEnds, told
<1>11. CASE TapRead \/ DayPasses \/ UNCHANGED vars
  BY <1>1, <1>11 DEF TapRead, DayPasses, vars, told
<1> QED
  BY <1>2, <1>3, <1>4, <1>5, <1>6, <1>7, <1>8, <1>9, <1>10, <1>11 DEF Next, PollStep, MoveOn

-----------------------------------------------------------------------------
(* Whose chat the alerts go to.                                             *)

LEMMA OwnersStep == Typed /\ PollIsOnce /\ OwnersHear /\ [Next]_vars => OwnersHear'
<1> SUFFICES ASSUME Typed, PollIsOnce, OwnersHear, [Next]_vars PROVE OwnersHear'
  OBVIOUS
<1>0. poll.group \subseteq Position /\ poll.at \subseteq poll.group /\ Level \subseteq Alert
  BY DEF Typed, Poll, PollIsOnce, Alert
<1>1. ASSUME UNCHANGED <<stray, shared>>, poll'.group \subseteq poll.group,
             poll'.group = {} \/ poll'.chat = poll.chat
      PROVE  OwnersHear'
  BY <1>1 DEF OwnersHear
<1>2. CASE PollStart
  BY <1>1, <1>2, PollStarts DEF PollStart, told
<1>3. CASE BeginGroup
  <2>1. UNCHANGED stray
    BY <1>3 DEF BeginGroup
  <2> QED
    BY <1>3, <2>1, GroupBegins DEF OwnersHear
<1>4. CASE PollPosition
  BY <1>1, <1>4, PositionPolled DEF PollPosition, told
<1>5. CASE SendAlert
  <2>1. PICK p \in poll.at :
          /\ poll'.group = poll.group /\ poll'.chat = poll.chat
          /\ Owner[p] \in poll.chat => stray' = stray
          /\ \A k \in Position \ {p} : stray'[k] = stray[k]
    BY <1>5, AlertSent
  <2>2. shared' = shared
    BY <1>5 DEF SendAlert
  <2>3. p \in shared \/ stray' = stray
    BY <1>0, <2>1 DEF OwnersHear
  <2> QED
    BY <2>1, <2>2, <2>3 DEF OwnersHear
<1>6. CASE MoveOn
  <2>1. UNCHANGED <<stray, shared>>
    BY <1>6 DEF MoveOn, SkipPosition, StopAlerting, FinishPosition, ReviewReturns, told
  <2> QED
    BY <1>1, <1>6, <2>1, PollMovesOn
<1>7. CASE PollCommit \/ PollFails \/ PollKilled
  BY <1>1, <1>7, IdleIsOnce DEF PollCommit, PollFails, PollKilled, RolledBack, told
<1>8. CASE TapCommit
  <2>1. \A p \in Position, a \in Alert : stray'[p][a] \in {0, stray[p][a]}
    BY <1>8, TapReached
  <2>2. UNCHANGED <<poll, shared>>
    BY <1>8 DEF TapCommit
  <2> QED
    BY <2>1, <2>2 DEF OwnersHear
<1>9. CASE TapRead \/ MuteEnds \/ DayPasses \/ UNCHANGED vars
  BY <1>1, <1>9 DEF TapRead, MuteEnds, DayPasses, vars, told
<1> QED
  BY <1>2, <1>3, <1>4, <1>5, <1>6, <1>7, <1>8, <1>9 DEF Next, PollStep, MoveOn

-----------------------------------------------------------------------------
(* The tap, and the silence it asks for.                                    *)

LEMMA TapStep == Typed /\ TapKeepsUp /\ [Next]_vars => TapKeepsUp'
<1> SUFFICES ASSUME Typed, TapKeepsUp, [Next]_vars PROVE TapKeepsUp'
  OBVIOUS
<1>0. tap.req # NoTap => tap.req.pos \in Position
  BY DEF Typed, TapRecord, Tap
\* While a tap is under way a row only changes when a poll commits.
<1>1. ASSUME UNCHANGED <<row, tap>>, poll.pc = "idle" => poll'.pc = "idle" PROVE TapKeepsUp'
  BY <1>1 DEF TapKeepsUp
<1>2. CASE PollStart
  <2>1. row' = row
    BY <1>2 DEF PollStart
  <2> QED
    BY <1>2, <2>1, PollStarts DEF TapKeepsUp
<1>3. CASE BeginGroup \/ PollPosition \/ SendAlert \/ MoveOn
  BY <1>1, <1>3 DEF MoveOn, BeginGroup, SkipPosition, PollPosition, SendAlert, StopAlerting,
                    FinishPosition, ReviewReturns
<1>4. CASE PollCommit
  <2>1. poll.pc # "idle" /\ tap' = tap
    BY <1>4 DEF PollCommit
  <2>2. \A p \in Position : row'[p].muted = row[p].muted /\ row'[p].dismissed = row[p].dismissed
    BY <1>4, FlushKeepsChoices
  <2> QED
    BY <1>0, <2>1, <2>2 DEF TapKeepsUp
<1>5. CASE PollFails \/ PollKilled
  <2>1. UNCHANGED <<row, tap>> /\ poll'.pc = "idle"
    BY <1>5, IdleIsOnce DEF PollFails, PollKilled, RolledBack
  <2> QED
    BY <1>1, <2>1
<1>6. CASE TapRead
  <2>1. PICK r \in Tap : tap' = [req |-> r, seen |-> row[r.pos], plan |-> plan[r.pos],
                                overlap |-> poll.pc # "idle"]
    BY <1>6, TapReads
  <2>2. UNCHANGED <<row, poll>>
    BY <1>6 DEF TapRead
  <2> QED
    BY <2>1, <2>2 DEF TapKeepsUp
<1>7. CASE TapCommit
  BY <1>7 DEF TapCommit, IdleTap, TapKeepsUp
<1>8. CASE MuteEnds
  BY <1>8 DEF MuteEnds, TapKeepsUp
<1>9. CASE DayPasses \/ UNCHANGED vars
  BY <1>1, <1>9 DEF DayPasses, vars
<1> QED
  BY <1>2, <1>3, <1>4, <1>5, <1>6, <1>7, <1>8, <1>9 DEF Next, PollStep, MoveOn

LEMMA WishStep ==
  Typed /\ PollIsOnce /\ TapKeepsUp /\ WishesKept /\ [Next]_vars => WishesKept'
<1> SUFFICES ASSUME Typed, PollIsOnce, TapKeepsUp, WishesKept, [Next]_vars PROVE WishesKept'
  OBVIOUS
<1>0. /\ \A w \in wish : w[1] \in Position /\ w[2] \in Level
      /\ \A w \in poll.quiet : w[1] \in Position /\ w[2] \in Level
      /\ poll.at \subseteq Position
  BY DEF Typed, Poll
<1>1. CASE UNCHANGED <<row, poll, wish>>
  BY <1>1 DEF WishesKept
\* The poll goes on with what it read, and adds no alert.
<1>2. ASSUME UNCHANGED <<row, wish>>, poll'.view = poll.view, poll'.quiet \subseteq poll.quiet,
             poll'.at \subseteq poll.at, poll'.alerts \subseteq poll.alerts
      PROVE  WishesKept'
  BY <1>2 DEF WishesKept
<1>3. CASE PollStart
  <2>1. UNCHANGED <<row, wish>>
    BY <1>3 DEF PollStart
  <2> QED
    BY <1>3, <2>1, PollStarts DEF WishesKept
<1>4. CASE BeginGroup
  <2>1. UNCHANGED <<row, wish>>
    BY <1>4 DEF BeginGroup
  <2> QED
    BY <1>2, <1>4, <2>1, GroupBegins
<1>5. CASE PollPosition
  <2>1. PICK p \in poll.group, q \in Price :
          /\ poll'.at = {p} /\ poll'.alerts = AlertsFor(p, q)
          /\ poll'.view = poll.view /\ poll'.quiet = poll.quiet
    BY <1>5, PositionPolled
  <2>2. UNCHANGED <<row, wish>>
    BY <1>5 DEF PollPosition
  <2>3. \A l \in AlertsFor(p, q) \cap Level : ~Silent(poll.view[p], l)
    BY DEF AlertsFor, LevelDue, Silent, Level, DateAlert
  <2> QED
    BY <2>1, <2>2, <2>3 DEF WishesKept
<1>6. CASE SendAlert
  <2>1. UNCHANGED <<row, wish>>
    BY <1>6 DEF SendAlert
  <2> QED
    BY <1>2, <1>6, <2>1, AlertSent
<1>7. CASE MoveOn
  <2>1. UNCHANGED <<row, wish>>
    BY <1>7 DEF MoveOn, SkipPosition, StopAlerting, FinishPosition, ReviewReturns
  <2> QED
    BY <1>2, <1>7, <2>1, PollMovesOn
<1>8. CASE PollCommit
  <2>1. wish' = wish /\ poll'.quiet = {} /\ poll'.at = {}
    BY <1>8, IdleIsOnce DEF PollCommit
  <2>2. \A p \in Position : row'[p].muted = row[p].muted /\ row'[p].dismissed = row[p].dismissed
    BY <1>8, FlushKeepsChoices
  <2> QED
    BY <1>0, <2>1, <2>2 DEF WishesKept, Silent
<1>9. CASE PollFails \/ PollKilled
  <2>1. UNCHANGED <<row, wish>> /\ poll'.quiet = {} /\ poll'.at = {}
    BY <1>9, IdleIsOnce DEF PollFails, PollKilled, RolledBack
  <2> QED
    BY <2>1 DEF WishesKept
<1>10. CASE TapCommit
  <2>1. PICK p \in Position, new \in Row, again \in SUBSET Level :
          /\ tap.req # NoTap /\ tap.req.pos = p
          /\ row' = [row EXCEPT ![p] = Merged(row[p], tap.seen, new)]
          /\ wish' = {w \in wish : w[1] # p} \cup Silenced(p, new)
    BY <1>10, TapCommits
  <2>2. poll' = poll
    BY <1>10 DEF TapCommit
  <2>3. /\ \A k \in Position \ {p} : row'[k] = row[k]
        /\ row'[p] = Merged(row[p], tap.seen, new)
    BY <2>1 DEF Typed
  <2>4. row[p].muted = tap.seen.muted /\ row[p].dismissed = tap.seen.dismissed
    BY <2>1 DEF TapKeepsUp
  <2>5. ASSUME NEW l \in Level, Silent(new, l) PROVE Silent(row'[p], l)
    BY <2>3, <2>4, <2>5 DEF Silent, Merged, Written
  <2>6. ASSUME NEW w \in wish' PROVE Silent(row'[w[1]], w[2])
    <3>1. CASE w \in wish /\ w[1] # p
      BY <1>0, <2>3, <3>1 DEF WishesKept
    <3>2. CASE w \in Silenced(p, new)
      <4>1. PICK l \in Level : w = <<p, l>> /\ Silent(new, l)
        BY <3>2 DEF Silenced, Silent
      <4> QED
        BY <2>5, <4>1
    <3> QED
      BY <2>1, <3>1, <3>2
  <2> QED
    BY <2>2, <2>6 DEF WishesKept
<1>11. CASE MuteEnds
  <2>1. PICK p \in Position, l \in Level :
          /\ row' = [row EXCEPT ![p].muted[l] = "over"]
          /\ wish' = wish \ (IF row[p].dismissed[l] THEN {} ELSE {<<p, l>>})
    BY <1>11 DEF MuteEnds
  <2>2. poll' = poll
    BY <1>11 DEF MuteEnds
  <2>3. /\ \A k \in Position : row'[k].dismissed = row[k].dismissed
        /\ \A k \in Position, m \in Level : <<k, m>> # <<p, l>> => row'[k].muted[m] = row[k].muted[m]
    BY <2>1 DEF Typed, Row
  <2>4. ASSUME NEW w \in wish' PROVE Silent(row'[w[1]], w[2])
    <3>1. w \in wish /\ w[1] \in Position /\ w[2] \in Level /\ w = <<w[1], w[2]>>
      BY <2>1 DEF Typed
    <3>2. Silent(row[w[1]], w[2])
      BY <3>1 DEF WishesKept
    <3>3. CASE row[w[1]].dismissed[w[2]]
      BY <2>3, <3>1, <3>3 DEF Silent
    <3>4. CASE ~row[w[1]].dismissed[w[2]]
      <4>1. row[w[1]].muted[w[2]] = "running"
        BY <3>2, <3>4 DEF Silent
      <4>2. <<w[1], w[2]>> # <<p, l>>
        BY <2>1, <3>1, <3>4
      <4> QED
        BY <2>3, <3>1, <4>1, <4>2 DEF Silent
    <3> QED
      BY <3>3, <3>4
  <2> QED
    BY <2>2, <2>4 DEF WishesKept
<1>12. CASE TapRead \/ DayPasses \/ UNCHANGED vars
  BY <1>1, <1>12 DEF TapRead, DayPasses, vars
<1> QED
  BY <1>3, <1>4, <1>5, <1>6, <1>7, <1>8, <1>9, <1>10, <1>11, <1>12 DEF Next, PollStep, MoveOn

-----------------------------------------------------------------------------
(* The invariant and the theorems.                                          *)

IInv == /\ Typed /\ PollKeepsUp /\ PollIsOnce /\ DatesCounted /\ CountsCovered
        /\ OwnersHear /\ TapKeepsUp /\ WishesKept

LEMMA Inductive == Spec => []IInv
<1>1. Init => IInv
  BY InitTyped, InitKeeps DEF IInv
<1>2. IInv /\ [Next]_vars => IInv'
  <2> SUFFICES ASSUME IInv, [Next]_vars PROVE IInv'
    OBVIOUS
  <2>1. Typed'
    BY TypeStep DEF IInv
  <2>2. PollKeepsUp' /\ PollIsOnce'
    BY KeepsUpStep, OnceStep DEF IInv
  <2>3. DatesCounted' /\ CountsCovered' /\ OwnersHear'
    BY DatesStep, CountsStep, OwnersStep DEF IInv
  <2>4. TapKeepsUp' /\ WishesKept'
    BY TapStep, WishStep DEF IInv
  <2> QED
    BY <2>1, <2>2, <2>3, <2>4 DEF IInv
<1> QED
  BY <1>1, <1>2, PTL DEF Spec

\* The rows, the poll in progress and the tap in progress keep the shape the
\* code gives them (monitor.py:81-119, position.py:560-660), whatever the rows,
\* the prices and the dates.
THEOREM TypeCorrect == Spec => []TypeOK
<1>1. IInv => TypeOK
  BY DEF IInv, Typed, TypeOK, TapRecord
<1> QED
  BY <1>1, Inductive, PTL

\* However polls, taps and failures interleave, a date is announced at most once
\* more than polls were rolled back: an alert goes out before the commit that
\* remembers it (monitor.py:312, 102).
THEOREM DatesOnce == Spec => []DatesAnnouncedOnce
<1>1. IInv => DatesAnnouncedOnce
  BY DEF IInv, Typed, DatesCounted, DatesAnnouncedOnce
<1> QED
  BY <1>1, Inductive, PTL

\* What the committed row says its owner was told, its owner was told: every
\* counter counts alerts delivered to the owner about the level in force, unless
\* the user set the level while a poll was under way, and every remembered date
\* went out to the owner (monitor.py:312-328, position.py:573); for a row polled
\* together with another user's, to the owner of one of them (monitor.py:131).
THEOREM RecordsHeard == Spec => []RecordedIsHeard
<1>1. IInv => RecordedIsHeard
  <2> SUFFICES ASSUME IInv, NEW p \in Position
               PROVE  LET reached(a) == IF p \in shared THEN sends[p][a] ELSE heard[p][a]
                      IN  /\ \A l \in Level : row[p].count[l] <= reached(l) \/ <<p, l>> \in raced
                          /\ \A d \in row[p].sent : reached(d) > 0
    BY DEF RecordedIsHeard
  <2>1. \A a \in Alert : p \notin shared => sends[p][a] = heard[p][a]
    <3> SUFFICES ASSUME NEW a \in Alert, p \notin shared PROVE sends[p][a] = heard[p][a]
      OBVIOUS
    <3>1. stray[p][a] = 0 /\ heard[p][a] \in Nat
      BY SendsCount DEF IInv, OwnersHear
    <3> QED
      BY <3>1 DEF sends
  <2>2. \A l \in Level : row[p].count[l] <= sends[p][l] \/ <<p, l>> \in raced
    BY DEF IInv, CountsCovered, Covered
  <2>3. row[p].sent \subseteq Sent(p)
    BY DEF IInv, PollKeepsUp, Sent
  <2>4. row[p].sent \subseteq DateAlert
    BY DEF IInv, Typed, Row
  <2>5. \A d \in row[p].sent : sends[p][d] > 0
    BY <2>3, <2>4 DEF IInv, DatesCounted
  <2> QED
    BY <2>1, <2>2, <2>4, <2>5 DEF Alert
<1> QED
  BY <1>1, Inductive, PTL

\* No poll alerts on a level whose silence was committed before it began: the
\* levels it chose for the row at hand were not silent on the row it read, and
\* neither a poll's commit nor a tap's brings an old choice back (monitor.py:454,
\* position.py:632, 640).
THEOREM SilenceKept == Spec => SilenceIsKept
<1>1. IInv /\ [Next]_vars =>
        [\A p \in Position, l \in Level :
           sends'[p][l] > sends[p][l] => <<p, l>> \notin poll.quiet]_vars
  <2> SUFFICES ASSUME IInv, [Next]_vars, NEW p \in Position, NEW l \in Level,
                      sends'[p][l] > sends[p][l]
               PROVE  <<p, l>> \notin poll.quiet
    OBVIOUS
  <2>0. l \in Alert /\ sends[p][l] \in Nat
    BY SendsCount DEF IInv, Alert
  <2>1. ASSUME UNCHANGED <<heard, stray>> PROVE FALSE
    BY <2>0, <2>1, SendsStay
  <2>2. CASE SendAlert
    <3>1. PICK k \in poll.at, a \in poll.alerts :
            sends' = [sends EXCEPT ![k][a] = @ + 1] /\ k \in Position
      BY <2>2, AlertSent DEF IInv
    <3>2. k = p /\ a = l
      BY <2>0, <3>1, SendsCount DEF IInv
    <3>3. ~Silent(poll.view[p], l)
      BY <3>1, <3>2 DEF IInv, WishesKept
    <3> QED
      BY <3>3 DEF IInv, WishesKept
  <2>3. CASE TapCommit
    <3>1. PICK k \in Position, again \in SUBSET Level :
            sends' = [sends EXCEPT ![k] = [a \in Alert |-> IF a \in again THEN 0 ELSE @[a]]]
      BY <2>3, TapCommits DEF IInv
    <3>2. sends'[p][l] \in {0, sends[p][l]}
      BY <2>0, <3>1, SendsCount DEF IInv
    <3> QED
      BY <2>0, <3>2
  <2>4. CASE \/ PollStart \/ BeginGroup \/ PollPosition \/ MoveOn \/ PollCommit \/ PollFails
             \/ PollKilled \/ TapRead \/ MuteEnds \/ DayPasses \/ UNCHANGED vars
    BY <2>1, <2>4 DEF MoveOn, PollStart, BeginGroup, SkipPosition, PollPosition, StopAlerting,
       FinishPosition, ReviewReturns, PollCommit, PollFails, PollKilled, RolledBack, TapRead,
       MuteEnds, DayPasses, vars, told
  <2> QED
    BY <2>2, <2>3, <2>4 DEF Next, PollStep, MoveOn
<1> QED
  BY <1>1, Inductive, PTL DEF Spec, SilenceIsKept

=============================================================================
