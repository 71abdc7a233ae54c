---------------------------- MODULE PositionLedger ----------------------------
(***************************************************************************)
(* The positions of one user and the account size their P/L is added to:   *)
(* services/positions/account.py and every handler that opens, closes,     *)
(* edits or removes an open_positions row, with the monitor's expiry.      *)
(*                                                                         *)
(* An element of Session is one database session: one Telegram update in   *)
(* the bot process, or one poll of the monitor in the API process.  It     *)
(* reads the user and the rows in separate SELECTs (READ COMMITTED), works *)
(* on its own copy, and the ORM writes at the end exactly the columns that *)
(* differ from what was read, as absolute values.  No row carries a        *)
(* version and none is read FOR UPDATE.                                    *)
(*                                                                         *)
(* Amounts.  Prices are Numeric(14,4), account_size is Numeric(14,2) and a *)
(* contract is 100 shares, so one price tick of one contract is one cent.  *)
(* The model counts both in halves: an even number is on the grid, and an  *)
(* odd one is a price typed with more decimals than the column keeps.      *)
(***************************************************************************)
EXTENDS Integers, FiniteSetsExt

CONSTANTS
  Position,    \* ids of open_positions rows (bounds the number of fills)
  Rec,         \* recommendations of the user
  ShortRec,    \* those whose position_side is "short"
  Session,     \* database sessions, each used once (bounds the operations)
  Price,       \* prices the user may type
  Quantity,    \* contract counts the user may type
  Size,        \* account sizes the user may type
  Interleaved  \* whether two sessions may be open at the same time

ASSUME PositionAssumption == IsFiniteSet(Position)
ASSUME RecAssumption == Rec # {} /\ ShortRec \subseteq Rec
ASSUME InputAssumption ==
  Price \subseteq Nat \ {0} /\ Quantity \subseteq Nat \ {0} /\ Size \subseteq Int
ASSUME InterleavedAssumption == Interleaved \in BOOLEAN

VARIABLES
  account,   \* users.account_size
  base,      \* history: the size the user set, without any P/L
  pos,       \* pos[p]: the open_positions row p
  feedback,  \* feedback[r]: the feedback_events rows of recommendation r
  due,       \* recommendations whose expiry lies before today
  pc,        \* pc[s]: where session s is
  req,       \* req[s]: what session s was asked to do
  seen,      \* seen[s]: what session s has read
  mine,      \* mine[s]: the same objects as session s has changed them
  fill       \* history: fill[p]: the session that opened row p, and those that
             \* had by then looked for a row of its recommendation in vain

vars == <<account, base, pos, feedback, due, pc, req, seen, mine, fill>>

-----------------------------------------------------------------------------
NoPrice == -1     \* close_price IS NULL
Closed == {"closed_sold", "closed_expired"}
Status == {"absent", "active", "deleted"} \cup Closed
Row == [status : Status, rec : Rec, entry : Int, close : Int, qty : Int,
        applied : BOOLEAN]
Side(r) == IF r \in ShortRec THEN "short" ELSE "long"
SomeRec == CHOOSE r \in Rec : TRUE
NoRow == [status |-> "absent", rec |-> SomeRec, entry |-> 0, close |-> NoPrice,
          qty |-> 0, applied |-> FALSE]
DeletedRow == [NoRow EXCEPT !.status = "deleted"]

View == [acct : Int, rows : [Position -> Row], past : SUBSET Rec]
NoView == [acct |-> 0, rows |-> [p \in Position |-> NoRow], past |-> {}]

Fill == [by : SUBSET Session, looked : SUBSET Session]

Request ==
       [op : {"none", "expire", "poll"}]
  \cup [op : {"sell"}, pos : Position, price : Price]
  \cup [op : {"delete", "erase"}, pos : Position]
  \cup [op : {"modify"}, pos : Position, field : {"entry", "close"}, value : Price]
  \cup [op : {"modify"}, pos : Position, field : {"qty"}, value : Quantity]
  \cup [op : {"buy"}, rec : Rec, price : Price, qty : Quantity]
  \cup [op : {"resize"}, size : Size]
NoRequest == [op |-> "none"]
Tap == {r \in Request : r.op \notin {"none", "poll"}}

\* base is left out: it is a difference of sums over finite sets of rows.
TypeOK ==
  /\ account \in Int
  /\ pos \in [Position -> Row]
  /\ feedback \in [Rec -> [bought : Nat, closed : Nat]]
  /\ due \in SUBSET Rec
  /\ pc \in [Session -> {"idle", "user", "rows", "work", "done"}]
  /\ req \in [Session -> Request]
  /\ seen \in [Session -> View]
  /\ mine \in [Session -> View]
  /\ fill \in [Position -> Fill]

Init ==
  /\ account \in Size
  /\ base = account
  /\ pos = [p \in Position |-> NoRow]
  /\ feedback = [r \in Rec |-> [bought |-> 0, closed |-> 0]]
  /\ due = {}
  /\ pc = [s \in Session |-> "idle"]
  /\ req = [s \in Session |-> NoRequest]
  /\ seen = [s \in Session |-> NoView]
  /\ mine = [s \in Session |-> NoView]
  /\ fill = [p \in Position |-> [by |-> {}, looked |-> {}]]

-----------------------------------------------------------------------------
(***************************************************************************)
(* account.py: what a closed row is worth and how it meets the account.    *)
(***************************************************************************)
PositionPnl(entry, close, qty, side) ==
  IF side = "short" THEN (entry - close) * qty ELSE (close - entry) * qty

\* A row that expired has no close price: it went out worthless.
Realized(r) ==
  PositionPnl(r.entry, IF r.close = NoPrice THEN 0 ELSE r.close, r.qty, Side(r.rec))

\* What a row has added to the account, and what each of some rows has.
Credit(r) == IF r.applied THEN Realized(r) ELSE 0
Credits(rows) == [p \in Position |-> Credit(rows[p])]

\* View v with row p replaced by r and the account moved by amount.
Booked(v, p, r, amount) ==
  [acct |-> v.acct + amount, rows |-> [v.rows EXCEPT ![p] = r], past |-> v.past]

ApplyPnl(v, p) ==
  IF v.rows[p].applied THEN v
  ELSE Booked(v, p, [v.rows[p] EXCEPT !.applied = TRUE], Realized(v.rows[p]))

\* Mutant of ReversePnl: the flag is cleared, the amount stays.
ReverseFlagOnly(v, p) ==
  IF ~v.rows[p].applied THEN v
  ELSE Booked(v, p, [v.rows[p] EXCEPT !.applied = FALSE], 0)

ReversePnl(v, p) ==
  IF ~v.rows[p].applied THEN v
  ELSE Booked(v, p, [v.rows[p] EXCEPT !.applied = FALSE], -Realized(v.rows[p]))

\* Numeric columns round half away from zero when they are written.
OnGrid(x) == IF x >= 0 THEN 2 * ((x + 1) \div 2) ELSE -(2 * ((1 - x) \div 2))
StoredPrice(x) == IF x = NoPrice THEN NoPrice ELSE OnGrid(x)

(***************************************************************************)
(* The ORM's UPDATE: the columns the session changed, the rest as it is.   *)
(***************************************************************************)
Written(now, old, new) == IF new # old THEN new ELSE now

\* Mutant of MergedRow: the row is written back whole.
MergedRowWhole(now, old, new) ==
  [new EXCEPT !.entry = StoredPrice(@), !.close = StoredPrice(@)]

MergedRow(now, old, new) ==
  [status |-> Written(now.status, old.status, new.status),
   rec |-> now.rec,
   entry |-> IF new.entry # old.entry THEN StoredPrice(new.entry) ELSE now.entry,
   close |-> IF new.close # old.close THEN StoredPrice(new.close) ELSE now.close,
   qty |-> Written(now.qty, old.qty, new.qty),
   applied |-> Written(now.applied, old.applied, new.applied)]

\* Mutant of NoneStale: an upsert in place of the UPDATE.
StaleRowsRevived(s, v) == TRUE

\* An UPDATE that matches no row is a StaleDataError: the session cannot commit.
NoneStale(s, v) ==
  \A p \in Position :
    v.rows[p] # seen[s].rows[p] => pos[p].status # "deleted"

MergedRows(s, v) ==
  [p \in Position |-> MergedRow(pos[p], seen[s].rows[p], v.rows[p])]

\* The monitor flushes after every row, so what it wrote once it writes again
\* even if the sum of its changes is zero.
AccountWritten(s, v) ==
  \/ v.acct # seen[s].acct
  \/ /\ req[s].op = "poll"
     /\ \E p \in Position : v.rows[p] # seen[s].rows[p] /\ Realized(v.rows[p]) # 0

MergedAccount(s, v) ==
  IF AccountWritten(s, v) THEN OnGrid(v.acct) ELSE account

-----------------------------------------------------------------------------
(***************************************************************************)
(* Opening a session and reading.                                          *)
(***************************************************************************)
MayOpen == Interleaved \/ \A s \in Session : pc[s] \in {"idle", "done"}

\* A handler begins with get_by_chat_id, which reads the user.
ReadUser(s, r) ==
  /\ pc[s] = "idle" /\ MayOpen
  /\ req' = [req EXCEPT ![s] = r]
  /\ seen' = [seen EXCEPT ![s] = [NoView EXCEPT !.acct = account, !.past = due]]
  /\ pc' = [pc EXCEPT ![s] = "user"]
  /\ UNCHANGED <<account, base, pos, feedback, due, mine, fill>>

\* Mutant of Found: a sale of a row that is already closed.
FoundSold(r) ==
  CASE r.op = "delete" -> pos[r.pos].status = "active"
    [] r.op = "sell" -> pos[r.pos].status \in {"active", "closed_sold"}
    [] r.op \in {"modify", "erase"} -> pos[r.pos].status \in Closed
    [] r.op = "buy" ->
         \A p \in Position : ~(pos[p].status = "active" /\ pos[p].rec = r.rec)
    [] OTHER -> TRUE

\* What the second SELECT of each handler looks for.
Found(r) ==
  CASE r.op \in {"sell", "delete"} -> pos[r.pos].status = "active"
    [] r.op \in {"modify", "erase"} -> pos[r.pos].status \in Closed
    [] r.op = "buy" ->
         \A p \in Position : ~(pos[p].status = "active" /\ pos[p].rec = r.rec)
    [] OTHER -> TRUE

ReadRows(s) ==
  /\ pc[s] = "user" /\ req[s].op # "resize"
  /\ Found(req[s])
  /\ seen' = [seen EXCEPT ![s].rows = pos]
  /\ mine' = [mine EXCEPT ![s] = seen'[s]]
  /\ pc' = [pc EXCEPT ![s] = "work"]
  /\ UNCHANGED <<account, base, pos, feedback, due, req, fill>>

\* The monitor reads the rows first, then the users they belong to.  The
\* scheduler never runs two polls at once (max_instances=1).
PollReadRows(s) ==
  /\ pc[s] = "idle" /\ MayOpen
  /\ \A t \in Session : req[t].op # "poll"
  /\ req' = [req EXCEPT ![s] = [op |-> "poll"]]
  /\ seen' = [seen EXCEPT ![s] = [NoView EXCEPT !.rows = pos, !.past = due]]
  /\ pc' = [pc EXCEPT ![s] = "rows"]
  /\ UNCHANGED <<account, base, pos, feedback, due, mine, fill>>

PollReadUser(s) ==
  /\ pc[s] = "rows"
  /\ seen' = [seen EXCEPT ![s].acct = account]
  /\ mine' = [mine EXCEPT ![s] = seen'[s]]
  /\ pc' = [pc EXCEPT ![s] = "work"]
  /\ UNCHANGED <<account, base, pos, feedback, due, req, fill>>

\* The session ends; its objects are dropped.
Close(s) ==
  /\ pc' = [pc EXCEPT ![s] = "done"]
  /\ req' = [req EXCEPT ![s] = NoRequest]
  /\ seen' = [seen EXCEPT ![s] = NoView]
  /\ mine' = [mine EXCEPT ![s] = NoView]

\* Nothing found, a statement that raises, a StaleDataError: all rolled back.
Rollback(s) ==
  /\ pc[s] \in {"user", "rows", "work"}
  /\ Close(s)
  /\ UNCHANGED <<account, base, pos, feedback, due, fill>>

\* Flush and commit of a session whose objects ended up as v.
Commit(s, v) ==
  /\ NoneStale(s, v)
  /\ account' = MergedAccount(s, v)
  /\ pos' = MergedRows(s, v)
  /\ Close(s)

-----------------------------------------------------------------------------
(***************************************************************************)
(* The operations, each from its own copy to its commit.                   *)
(***************************************************************************)
Working(s, op) == pc[s] = "work" /\ req[s].op = op

\* capture_entry_quantity.  Its first session only repeats the check made here
\* before the quote is fetched; nothing constrains two active rows of one
\* recommendation.
NewRow(r) ==
  [status |-> "active", rec |-> r.rec, entry |-> OnGrid(r.price),
   close |-> NoPrice, qty |-> r.qty, applied |-> FALSE]

\* The other dialogues that have made the check for the same recommendation.
Looking(s) ==
  {t \in Session \ {s} : Working(t, "buy") /\ req[t].rec = req[s].rec}

Buy(s) ==
  /\ Working(s, "buy")
  /\ \E p \in Position :
       /\ pos[p].status = "absent"
       /\ pos' = [pos EXCEPT ![p] = NewRow(req[s])]
       /\ fill' = [fill EXCEPT ![p] = [by |-> {s}, looked |-> Looking(s)]]
  /\ feedback' = [feedback EXCEPT ![req[s].rec].bought = @ + 1]
  /\ Close(s)
  /\ UNCHANGED <<account, base, due>>

\* capture_close_price.
Sold(v, p, price) ==
  LET r == [v.rows[p] EXCEPT !.status = "closed_sold", !.close = price]
  IN ApplyPnl(Booked(v, p, r, 0), p)

Sell(s) ==
  /\ Working(s, "sell")
  /\ Commit(s, Sold(mine[s], req[s].pos, req[s].price))
  /\ feedback' = [feedback EXCEPT ![pos[req[s].pos].rec].closed = @ + 1]
  /\ UNCHANGED <<base, due, fill>>

\* _commit_change.  Its date edits touch no column the model keeps.
Edited(r, field, value) ==
  CASE field = "entry" -> [r EXCEPT !.entry = value]
    [] field = "close" -> [r EXCEPT !.close = value]
    [] field = "qty" -> [r EXCEPT !.qty = value]

\* Mutant of Modified: the old P/L is not taken back first.
ModifiedInPlace(v, p, field, value) ==
  ApplyPnl(Booked(v, p, Edited(v.rows[p], field, value), 0), p)

Modified(v, p, field, value) ==
  LET w == ReversePnl(v, p)
  IN ApplyPnl(Booked(w, p, Edited(w.rows[p], field, value), 0), p)

Modify(s) ==
  /\ Working(s, "modify")
  /\ Commit(s, Modified(mine[s], req[s].pos, req[s].field, req[s].value))
  /\ UNCHANGED <<base, feedback, due, fill>>

\* _confirm_delete.  A DELETE that matches no row is only a warning: the
\* account is written all the same.
Erase(s) ==
  LET v == ReversePnl(mine[s], req[s].pos) IN
  /\ Working(s, "erase")
  /\ account' = MergedAccount(s, v)
  /\ pos' = [pos EXCEPT ![req[s].pos] = DeletedRow]
  /\ Close(s)
  /\ UNCHANGED <<base, feedback, due, fill>>

\* delete_confirm: the feedback of the recommendation, then the row by its id,
\* whatever has become of it since it was read.
Delete(s) ==
  /\ Working(s, "delete")
  /\ feedback' = [feedback EXCEPT ![seen[s].rows[req[s].pos].rec] =
                    [bought |-> 0, closed |-> 0]]
  /\ pos' = [pos EXCEPT ![req[s].pos] = DeletedRow]
  /\ Close(s)
  /\ UNCHANGED <<account, base, due, fill>>

AppliedTotal == SumFunction(Credits(pos))

\* update_account_size, or the onboarding dialogue run again.
Resize(s) ==
  /\ pc[s] = "user" /\ req[s].op = "resize"
  /\ account' = Written(account, seen[s].acct, req[s].size)
  /\ base' = req[s].size - AppliedTotal
  /\ Close(s)
  /\ UNCHANGED <<pos, feedback, due, fill>>

\* The loop over past-due rows, of the monitor and of the Positions menu; it
\* decides on the rows as they were read.
PastDue(s) ==
  {p \in Position : mine[s].rows[p].status = "active"
                    /\ mine[s].rows[p].rec \in seen[s].past}

\* Mutants of Expired: the P/L is never booked; a status of its own.
ExpiredUnbooked(v, p) ==
  Booked(v, p, [v.rows[p] EXCEPT !.status = "closed_expired"], 0)
ExpiredUnnamed(v, p) ==
  ApplyPnl(Booked(v, p, [v.rows[p] EXCEPT !.status = "expired"], 0), p)

Expired(v, p) ==
  ApplyPnl(Booked(v, p, [v.rows[p] EXCEPT !.status = "closed_expired"], 0), p)

CloseExpired(s, p) ==
  /\ Working(s, "expire") \/ Working(s, "poll")
  /\ p \in PastDue(s)
  /\ mine' = [mine EXCEPT ![s] = Expired(mine[s], p)]
  /\ UNCHANGED <<account, base, pos, feedback, due, pc, req, seen, fill>>

CommitExpired(s) ==
  /\ Working(s, "expire") \/ Working(s, "poll")
  /\ PastDue(s) = {}
  /\ Commit(s, mine[s])
  /\ UNCHANGED <<base, feedback, due, fill>>

\* Midnight passes over an expiry date.
ExpiryPasses(r) ==
  /\ r \notin due
  /\ due' = due \cup {r}
  /\ UNCHANGED <<account, base, pos, feedback, pc, req, seen, mine, fill>>

-----------------------------------------------------------------------------
Next ==
  \/ \E s \in Session, r \in Tap : ReadUser(s, r)
  \/ \E s \in Session :
       \/ ReadRows(s) \/ PollReadRows(s) \/ PollReadUser(s) \/ Rollback(s)
       \/ Buy(s) \/ Sell(s) \/ Modify(s) \/ Erase(s) \/ Delete(s) \/ Resize(s)
       \/ CommitExpired(s)
  \/ \E s \in Session, p \in Position : CloseExpired(s, p)
  \/ \E r \in Rec : ExpiryPasses(r)

Spec == Init /\ [][Next]_vars

-----------------------------------------------------------------------------
(* What the component promises.                                            *)

\* PRD2.md 20.6, 20.7: at any moment the account is the size the user set plus
\* the P/L of the rows marked applied, each counted once and at its present
\* prices.  Holds while sessions do not overlap and prices fit the columns.
LedgerBalanced == account = base + AppliedTotal

\* However sessions overlap, a row's columns agree: its P/L is marked applied
\* exactly when it is closed, only a sale needs a price, an open row has none.
RowAgrees(r) ==
  /\ r.applied <=> r.status \in Closed
  /\ r.status = "closed_sold" => r.close # NoPrice
  /\ r.status \in {"absent", "active"} => r.close = NoPrice

RowsAgree == \A p \in Position : RowAgrees(pos[p])

\* However sessions overlap, a position only moves forward: a closed one is
\* never open again and keeps its recommendation, a removed one stays removed.
Follows(r, next) ==
  /\ r.status \in Closed =>
       next.status = "deleted" \/ (next.status \in Closed /\ next.rec = r.rec)
  /\ r.status = "deleted" => next.status = "deleted"

PositionsOnlyEnd == [][\A p \in Position : Follows(pos[p], pos'[p])]_vars

\* get_active_for_recommendation takes scalar_one_or_none of the active rows, and
\* nothing in the database keeps them to one.  However sessions overlap, two come
\* about in one way only: a dialogue made its check before the other's row was
\* committed, and was committed after it (recommendation.py:236).  No sale, expiry
\* or stale write of a third session ever adds to the active rows.
TrackedTwiceByOverlap ==
  \A p, q \in Position :
    /\ p # q /\ pos[p].rec = pos[q].rec
    /\ pos[p].status = "active" /\ pos[q].status = "active"
    => fill[p].by \cap fill[q].looked # {} \/ fill[q].by \cap fill[p].looked # {}

\* The feedback log pairs fills and sales: every active position has a "bought"
\* row no sale has used up, and no sale was logged without its fill.
FillsAreLogged ==
  \A r \in Rec :
    feedback[r].closed
      + Cardinality({p \in Position : pos[p].status = "active" /\ pos[p].rec = r})
      <= feedback[r].bought

-----------------------------------------------------------------------------
(* The abstraction: what of this state AccountLedger talks about.           *)

StageOf(status) ==
  CASE status = "absent" -> "none"
    [] status = "active" -> "open"
    [] status \in Closed -> "settled"
    [] status = "deleted" -> "removed"

Account == INSTANCE AccountLedger WITH
  stage <- [p \in Position |-> StageOf(pos[p].status)],
  credit <- Credits(pos),
  size <- base,
  balance <- account

\* PRD2.md 20.6 and 20.7 as one contract: every close, edit and removal moves
\* the account by what it changed in the P/L of its own positions, no more.
ImplementsAccountLedger == Account!Spec

=============================================================================
