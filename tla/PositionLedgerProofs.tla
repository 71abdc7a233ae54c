------------------------ MODULE PositionLedgerProofs ------------------------
(***************************************************************************)
(* Theorems about PositionLedger: what stays true of a user's positions    *)
(* however many sessions overlap, and what needs them one at a time.       *)
(***************************************************************************)
EXTENDS PositionLedger, DataTheorems

-----------------------------------------------------------------------------
(* Amounts, rows and views.                                                 *)

\* Writing a number to a column keeps it a number, and a price a price.
LEMMA GridValues ==
  /\ \A x \in Int : OnGrid(x) \in Int /\ StoredPrice(x) \in Int
  /\ \A x \in Nat : OnGrid(x) \in Nat /\ StoredPrice(x) \in Nat
BY DEF OnGrid, StoredPrice, NoPrice

LEMMA RowValues ==
  /\ SomeRec \in Rec
  /\ NoRow \in Row /\ DeletedRow \in Row
  /\ RowAgrees(NoRow) /\ RowAgrees(DeletedRow)
  /\ NoView \in View
<1>1. SomeRec \in Rec
  BY RecAssumption DEF SomeRec
<1>2. NoRow \in Row
  BY <1>1 DEF NoRow, Row, Status, NoPrice
<1>3. DeletedRow \in Row
  BY <1>2 DEF DeletedRow, Row, Status
<1>4. RowAgrees(NoRow)
  BY DEF NoRow, RowAgrees, Closed
<1>5. RowAgrees(DeletedRow)
  BY DEF NoRow, DeletedRow, RowAgrees, Closed
<1>6. NoView \in View
  BY <1>2 DEF NoView, View
<1> QED
  BY <1>1, <1>2, <1>3, <1>4, <1>5, <1>6

LEMMA RealizedValue == \A r \in Row : Realized(r) \in Int
BY DEF Realized, PositionPnl, Row, NoPrice

\* What the account functions make of a view.
LEMMA BookedView ==
  ASSUME NEW v \in View, NEW p \in Position, NEW r \in Row, NEW amount \in Int
  PROVE  /\ Booked(v, p, r, amount) \in View
         /\ Booked(v, p, r, amount).rows = [v.rows EXCEPT ![p] = r]
         /\ Booked(v, p, r, amount).past = v.past
BY DEF Booked, View

LEMMA ApplyView ==
  ASSUME NEW v \in View, NEW p \in Position
  PROVE  /\ ApplyPnl(v, p) \in View
         /\ ApplyPnl(v, p).rows = [v.rows EXCEPT ![p] = [v.rows[p] EXCEPT !.applied = TRUE]]
         /\ ApplyPnl(v, p).past = v.past
<1>1. v.rows[p] \in Row /\ Realized(v.rows[p]) \in Int
  BY RealizedValue DEF View
<1>2. CASE v.rows[p].applied
  <2>1. [v.rows[p] EXCEPT !.applied = TRUE] = v.rows[p]
    BY <1>1, <1>2 DEF Row
  <2>2. v.rows = [v.rows EXCEPT ![p] = v.rows[p]]
    BY DEF View
  <2>3. ApplyPnl(v, p) = v
    BY <1>2 DEF ApplyPnl
  <2> QED
    BY <2>1, <2>2, <2>3
<1>3. CASE ~v.rows[p].applied
  <2> DEFINE r == [v.rows[p] EXCEPT !.applied = TRUE]
  <2>1. r \in Row
    BY <1>1 DEF Row
  <2>2. ApplyPnl(v, p)
          = Booked(v, p, r, Realized(v.rows[p]))
    BY <1>3 DEF ApplyPnl
  <2> HIDE DEF r
  <2>3. /\ ApplyPnl(v, p) \in View
        /\ ApplyPnl(v, p).rows = [v.rows EXCEPT ![p] = r]
        /\ ApplyPnl(v, p).past = v.past
    BY <1>1, <2>1, <2>2, BookedView
  <2> QED
    BY <2>3 DEF r
<1> QED
  BY <1>2, <1>3

LEMMA ReverseView ==
  ASSUME NEW v \in View, NEW p \in Position
  PROVE  /\ ReversePnl(v, p) \in View
         /\ ReversePnl(v, p).rows = [v.rows EXCEPT ![p] = [v.rows[p] EXCEPT !.applied = FALSE]]
<1>1. v.rows[p] \in Row /\ Realized(v.rows[p]) \in Int
  BY RealizedValue DEF View
<1>2. CASE ~v.rows[p].applied
  <2>1. [v.rows[p] EXCEPT !.applied = FALSE] = v.rows[p]
    BY <1>1, <1>2 DEF Row
  <2>2. v.rows = [v.rows EXCEPT ![p] = v.rows[p]]
    BY DEF View
  <2>3. ReversePnl(v, p) = v
    BY <1>2 DEF ReversePnl
  <2> QED
    BY <2>1, <2>2, <2>3
<1>3. CASE v.rows[p].applied
  <2> DEFINE r == [v.rows[p] EXCEPT !.applied = FALSE]
  <2>1. r \in Row
    BY <1>1 DEF Row
  <2>2. -Realized(v.rows[p]) \in Int
    BY <1>1
  <2>3. ReversePnl(v, p)
          = Booked(v, p, r, -Realized(v.rows[p]))
    BY <1>3 DEF ReversePnl
  <2> HIDE DEF r
  <2>4. /\ ReversePnl(v, p) \in View
        /\ ReversePnl(v, p).rows = [v.rows EXCEPT ![p] = r]
    BY <2>1, <2>2, <2>3, BookedView
  <2> QED
    BY <2>4 DEF r
<1> QED
  BY <1>2, <1>3

-----------------------------------------------------------------------------
(* The changes a session makes to a row, and the UPDATE they end in.         *)

\* A session closes a row it read as active ...
Ends(old, new) ==
  /\ old.status = "active"
  /\ new.status \in Closed /\ new.applied
  /\ new.close = old.close \/ new.close \in Nat
  /\ new.status = "closed_sold" => new.close \in Nat

\* ... or corrects the figures of one it read as closed.
Edits(old, new) ==
  /\ old.status \in Closed
  /\ new.status = old.status /\ new.applied = old.applied
  /\ new.close = old.close \/ new.close \in Nat

Legal(old, new) == new = old \/ Ends(old, new) \/ Edits(old, new)

\* Whatever happened to the row in between, the merged row is one the program
\* may have, follows from the row it replaces, and is not newly active.
LEMMA MergeKeeps ==
  ASSUME NEW now \in Row, NEW old \in Row, NEW new \in Row,
         RowAgrees(now), RowAgrees(old), Legal(old, new),
         old.status \in Closed => now.status \in Closed \cup {"deleted"},
         new # old => now.status # "deleted"
  PROVE  LET r == MergedRow(now, old, new) IN
         /\ r \in Row /\ RowAgrees(r) /\ Follows(now, r)
         /\ r.rec = now.rec
         /\ r.status = "active" => now.status = "active"
<1> DEFINE r == MergedRow(now, old, new)
<1>1. r \in Row /\ r.rec = now.rec
  BY GridValues DEF MergedRow, Written, Row
<1>2. CASE new = old
  <2>1. r.status = now.status /\ r.close = now.close /\ r.applied = now.applied
    BY <1>2 DEF MergedRow, Written
  <2> QED
    BY <1>1, <2>1 DEF RowAgrees, Follows
<1>3. CASE Ends(old, new)
  <2>1. new.status # old.status /\ new.applied # old.applied
    BY <1>3 DEF Ends, RowAgrees, Closed, Row
  <2>2. r.status = new.status /\ r.applied = new.applied
    BY <2>1 DEF MergedRow, Written
  <2>3. new.status = "closed_sold" => r.close # NoPrice
    BY <1>3, GridValues DEF Ends, RowAgrees, MergedRow, NoPrice
  <2>4. now.status # "deleted"
    BY <2>1
  <2> QED
    BY <1>1, <1>3, <2>2, <2>3, <2>4 DEF Ends, RowAgrees, Follows, Closed
<1>4. CASE Edits(old, new)
  <2>1. r.status = now.status /\ r.applied = now.applied
    BY <1>4 DEF Edits, MergedRow, Written
  <2>2. r.close = now.close \/ r.close # NoPrice
    BY <1>4, GridValues DEF Edits, MergedRow, NoPrice
  <2>3. now.status \in Closed \cup {"deleted"}
    BY <1>4 DEF Edits
  <2> QED
    BY <1>1, <2>1, <2>2, <2>3 DEF RowAgrees, Follows, Closed
<1> QED
  BY <1>2, <1>3, <1>4 DEF Legal

\* The three operations on a view change one row, and legally.
LEMMA SoldRow ==
  ASSUME NEW v \in View, NEW p \in Position, NEW price \in Price
  PROVE  /\ Sold(v, p, price) \in View
         /\ \E r \in Row :
              /\ Sold(v, p, price).rows = [v.rows EXCEPT ![p] = r]
              /\ r.status = "closed_sold" /\ r.applied /\ r.close = price
<1> DEFINE s == [v.rows[p] EXCEPT !.status = "closed_sold", !.close = price]
           r == [v.rows[p] EXCEPT !.status = "closed_sold", !.close = price,
                                  !.applied = TRUE]
<1>1. /\ s \in Row /\ r \in Row /\ r = [s EXCEPT !.applied = TRUE]
      /\ r.status = "closed_sold" /\ r.applied /\ r.close = price
  <2>1. v.rows[p] \in Row /\ price \in Int
    BY InputAssumption DEF View
  <2>2. s \in Row
    BY <2>1 DEF Row, Status, Closed
  <2>3. r \in Row
    BY <2>1 DEF Row, Status, Closed
  <2>4. r = [s EXCEPT !.applied = TRUE]
    BY <2>1, <2>2, <2>3 DEF Row
  <2>5. r.status = "closed_sold" /\ r.applied /\ r.close = price
    BY <2>1 DEF Row
  <2> QED
    BY <2>2, <2>3, <2>4, <2>5
<1>2. Sold(v, p, price) = ApplyPnl(Booked(v, p, s, 0), p)
  BY DEF Sold
<1> HIDE DEF s, r
<1>3. /\ Booked(v, p, s, 0) \in View
      /\ Booked(v, p, s, 0).rows = [v.rows EXCEPT ![p] = s]
  BY <1>1, BookedView
<1>4. Booked(v, p, s, 0).rows[p] = s
  BY <1>3 DEF View
<1>5. /\ Sold(v, p, price) \in View
      /\ Sold(v, p, price).rows = [[v.rows EXCEPT ![p] = s] EXCEPT ![p] = r]
  BY <1>1, <1>2, <1>3, <1>4, ApplyView
<1>6. [[v.rows EXCEPT ![p] = s] EXCEPT ![p] = r] = [v.rows EXCEPT ![p] = r]
  BY DEF View
<1> QED
  BY <1>1, <1>5, <1>6

LEMMA ExpiredRow ==
  ASSUME NEW v \in View, NEW p \in Position
  PROVE  /\ Expired(v, p) \in View
         /\ Expired(v, p).past = v.past
         /\ \E r \in Row :
              /\ Expired(v, p).rows = [v.rows EXCEPT ![p] = r]
              /\ r.status = "closed_expired" /\ r.applied
              /\ r.close = v.rows[p].close
<1> DEFINE s == [v.rows[p] EXCEPT !.status = "closed_expired"]
           r == [v.rows[p] EXCEPT !.status = "closed_expired", !.applied = TRUE]
<1>1. /\ s \in Row /\ r \in Row /\ r = [s EXCEPT !.applied = TRUE]
      /\ r.status = "closed_expired" /\ r.applied /\ r.close = v.rows[p].close
  BY DEF View, Row, Status, Closed
<1>2. Expired(v, p) = ApplyPnl(Booked(v, p, s, 0), p)
  BY DEF Expired
<1> HIDE DEF s, r
<1>3. /\ Booked(v, p, s, 0) \in View
      /\ Booked(v, p, s, 0).rows = [v.rows EXCEPT ![p] = s]
      /\ Booked(v, p, s, 0).past = v.past
  BY <1>1, BookedView
<1>4. Booked(v, p, s, 0).rows[p] = s
  BY <1>3 DEF View
<1>5. /\ Expired(v, p) \in View
      /\ Expired(v, p).past = v.past
      /\ Expired(v, p).rows = [[v.rows EXCEPT ![p] = s] EXCEPT ![p] = r]
  BY <1>1, <1>2, <1>3, <1>4, ApplyView
<1>6. [[v.rows EXCEPT ![p] = s] EXCEPT ![p] = r] = [v.rows EXCEPT ![p] = r]
  BY DEF View
<1> QED
  BY <1>1, <1>5, <1>6

Field == {"entry", "close", "qty"}

\* An edit takes the P/L out, changes a figure and puts the new P/L in.
LEMMA EditedRow ==
  ASSUME NEW r \in Row, NEW field \in Field,
         NEW value \in Nat
  PROVE  LET e == Edited(r, field, value) IN
         /\ e \in Row
         /\ e.status = r.status /\ e.applied = r.applied
         /\ e.close = r.close \/ e.close \in Nat
<1>2. CASE field = "entry"
  BY <1>2 DEF Edited, Row
<1>3. CASE field = "close"
  BY <1>3 DEF Edited, Row
<1>4. CASE field = "qty"
  BY <1>4 DEF Edited, Row
<1> QED
  BY <1>2, <1>3, <1>4 DEF Field

Corrected(old, new) ==
  /\ new.status = old.status /\ new.applied
  /\ new.close = old.close \/ new.close \in Nat

LEMMA ModifiedRow ==
  ASSUME NEW v \in View, NEW p \in Position, NEW field \in Field,
         NEW value \in Nat
  PROVE  /\ Modified(v, p, field, value) \in View
         /\ \E r \in Row :
              /\ Modified(v, p, field, value).rows = [v.rows EXCEPT ![p] = r]
              /\ Corrected(v.rows[p], r)
<1> DEFINE w == ReversePnl(v, p)
           o == [v.rows[p] EXCEPT !.applied = FALSE]
           e == Edited(w.rows[p], field, value)
           x == Booked(w, p, e, 0)
           r == [e EXCEPT !.applied = TRUE]
<1>1. /\ w \in View /\ w.rows = [v.rows EXCEPT ![p] = o]
      /\ o \in Row /\ o.status = v.rows[p].status /\ o.close = v.rows[p].close
  <2>1. v.rows[p] \in Row
    BY DEF View
  <2> QED
    BY <2>1, ReverseView DEF Row
<1>2. w.rows[p] = o
  BY <1>1 DEF View
<1>3. /\ e \in Row /\ e.status = o.status
      /\ e.close = o.close \/ e.close \in Nat
  <2>1. e = Edited(o, field, value)
    BY <1>2
  <2> HIDE DEF w, o, e
  <2> QED
    BY <1>1, <2>1, EditedRow
<1> HIDE DEF w, o, e
<1>4. x \in View /\ x.rows = [w.rows EXCEPT ![p] = e] /\ x.rows[p] = e
  <2>1. x \in View /\ x.rows = [w.rows EXCEPT ![p] = e]
    BY <1>1, <1>3, BookedView
  <2> QED
    BY <1>1, <2>1 DEF View
<1>5. r \in Row /\ r.status = e.status /\ r.close = e.close /\ r.applied
  BY <1>3 DEF Row
<1>6. Modified(v, p, field, value) = ApplyPnl(x, p)
  BY DEF Modified, w, e
<1> HIDE DEF x
<1>7. /\ Modified(v, p, field, value) \in View
      /\ Modified(v, p, field, value).rows = [x.rows EXCEPT ![p] = r]
  BY <1>4, <1>6, ApplyView
<1> HIDE DEF r
<1>8. [x.rows EXCEPT ![p] = r] = [v.rows EXCEPT ![p] = r]
  BY <1>1, <1>4 DEF View
<1> QED
  BY <1>1, <1>3, <1>5, <1>7, <1>8 DEF Corrected

-----------------------------------------------------------------------------
(***************************************************************************)
(* The inductive invariant.  RowsAgree alone is not inductive: a commit    *)
(* writes what the session decided on rows it read earlier.  What it read  *)
(* were rows that agreed; one that was closed then is closed or gone now   *)
(* (SeenAgrees); and what it made of them are legal changes (Ready).       *)
(***************************************************************************)
Single == {"sell", "modify", "delete", "erase", "buy"}

SeenAgrees ==
  \A s \in Session, p \in Position :
    /\ RowAgrees(seen[s].rows[p])
    /\ seen[s].rows[p].status \in Closed => pos[p].status \in Closed \cup {"deleted"}

Ready ==
  \A s \in Session :
    pc[s] = "work" =>
      /\ req[s].op \in Single => mine[s] = seen[s]
      /\ req[s].op = "sell" => seen[s].rows[req[s].pos].status = "active"
      /\ req[s].op = "modify" => seen[s].rows[req[s].pos].status \in Closed
      /\ \A p \in Position :
           \/ mine[s].rows[p] = seen[s].rows[p]
           \/ Ends(seen[s].rows[p], mine[s].rows[p])

Polling == \A s \in Session : pc[s] = "rows" => req[s].op = "poll"

RowsInv == TypeOK /\ RowsAgree /\ SeenAgrees /\ Ready /\ Polling

\* What an operation is asked for.
LEMMA RequestValues ==
  /\ NoRequest \in Request /\ [op |-> "poll"] \in Request
  /\ \A r \in Request :
       /\ r.op = "sell" => r.pos \in Position /\ r.price \in Price
       /\ r.op \in {"erase", "delete"} => r.pos \in Position
       /\ r.op = "modify" =>
            r.pos \in Position /\ r.field \in Field /\ r.value \in Nat
       /\ r.op = "buy" => r.rec \in Rec /\ r.price \in Price /\ r.qty \in Quantity
       /\ r.op = "resize" => r.size \in Size
BY InputAssumption DEF Request, NoRequest, Field

\* A step that ends session s, whatever it does to the rows within Follows.
LEMMA CloseKeeps ==
  ASSUME RowsInv, NEW s \in Session, Close(s),
         \A p \in Position : Follows(pos[p], pos'[p])
  PROVE  /\ pc' \in [Session -> {"idle", "user", "rows", "work", "done"}]
         /\ req' \in [Session -> Request]
         /\ seen' \in [Session -> View]
         /\ mine' \in [Session -> View]
         /\ SeenAgrees' /\ Ready' /\ Polling'
<1>1. /\ pc' \in [Session -> {"idle", "user", "rows", "work", "done"}]
      /\ req' \in [Session -> Request]
      /\ seen' \in [Session -> View]
      /\ mine' \in [Session -> View]
  BY RequestValues, RowValues DEF RowsInv, TypeOK, Close
<1>2. SeenAgrees'
  <2> SUFFICES ASSUME NEW t \in Session, NEW p \in Position
               PROVE  /\ RowAgrees(seen'[t].rows[p])
                      /\ seen'[t].rows[p].status \in Closed =>
                           pos'[p].status \in Closed \cup {"deleted"}
    BY DEF SeenAgrees, RowAgrees
  <2>1. CASE t = s
    <3>1. seen'[t].rows[p] = NoRow
      BY <2>1 DEF RowsInv, TypeOK, Close, NoView
    <3> QED
      BY <3>1, RowValues DEF NoRow, Closed
  <2>2. CASE t # s
    <3>1. seen'[t] = seen[t]
      BY <2>2 DEF RowsInv, TypeOK, Close
    <3> QED
      BY <3>1 DEF RowsInv, SeenAgrees, Follows
  <2> QED
    BY <2>1, <2>2
<1>3. Ready'
  <2> SUFFICES ASSUME NEW t \in Session, pc'[t] = "work"
               PROVE  t # s /\ pc[t] = "work" /\ req'[t] = req[t]
                      /\ seen'[t] = seen[t] /\ mine'[t] = mine[t]
    BY DEF RowsInv, Ready, Ends
  <2> QED
    BY DEF RowsInv, TypeOK, Close
<1>4. Polling'
  BY DEF RowsInv, TypeOK, Polling, Close
<1> QED
  BY <1>1, <1>2, <1>3, <1>4

\* A step that leaves the rows alone and only moves the sessions.
LEMMA ReadKeeps ==
  ASSUME RowsInv, NEW s \in Session, pos' = pos,
         pc' \in [Session -> {"idle", "user", "rows", "work", "done"}],
         seen' \in [Session -> View],
         \A t \in Session : t # s =>
           pc'[t] = pc[t] /\ req'[t] = req[t] /\ seen'[t] = seen[t] /\ mine'[t] = mine[t],
         seen'[s].rows \in {seen[s].rows, pos, NoView.rows},
         pc'[s] = "rows" => req'[s].op = "poll",
         pc'[s] = "work" =>
           /\ req'[s].op \in Single => mine'[s] = seen'[s]
           /\ req'[s].op = "sell" => seen'[s].rows[req'[s].pos].status = "active"
           /\ req'[s].op = "modify" => seen'[s].rows[req'[s].pos].status \in Closed
           /\ \A p \in Position :
                \/ mine'[s].rows[p] = seen'[s].rows[p]
                \/ Ends(seen'[s].rows[p], mine'[s].rows[p])
  PROVE  RowsAgree' /\ SeenAgrees' /\ Ready' /\ Polling'
<1>1. RowsAgree'
  BY DEF RowsInv, RowsAgree, RowAgrees
<1>2. SeenAgrees'
  <2> SUFFICES ASSUME NEW t \in Session, NEW p \in Position
               PROVE  /\ RowAgrees(seen'[t].rows[p])
                      /\ seen'[t].rows[p].status \in Closed =>
                           pos[p].status \in Closed \cup {"deleted"}
    BY DEF SeenAgrees, RowAgrees
  <2>1. NoView.rows[p] = NoRow /\ NoRow.status \notin Closed
    BY DEF NoView, NoRow, Closed
  <2> QED
    BY <2>1, RowValues DEF RowsInv, SeenAgrees, RowsAgree
<1>3. Ready'
  <2> SUFFICES ASSUME NEW t \in Session, pc'[t] = "work"
               PROVE  /\ req'[t].op \in Single => mine'[t] = seen'[t]
                      /\ req'[t].op = "sell" => seen'[t].rows[req'[t].pos].status = "active"
                      /\ req'[t].op = "modify" =>
                           seen'[t].rows[req'[t].pos].status \in Closed
                      /\ \A p \in Position :
                           \/ mine'[t].rows[p] = seen'[t].rows[p]
                           \/ Ends(seen'[t].rows[p], mine'[t].rows[p])
    BY DEF Ready, Ends
  <2> QED
    BY DEF RowsInv, Ready
<1>4. Polling'
  BY DEF RowsInv, Polling
<1> QED
  BY <1>1, <1>2, <1>3, <1>4

\* A commit of legal changes.
LEMMA CommitKeeps ==
  ASSUME RowsInv, NEW s \in Session, NEW v \in View, Commit(s, v),
         \A p \in Position : Legal(seen[s].rows[p], v.rows[p])
  PROVE  /\ pos' \in [Position -> Row] /\ account' \in Int
         /\ RowsAgree'
         /\ \A p \in Position :
              /\ Follows(pos[p], pos'[p])
              /\ pos'[p].rec = pos[p].rec
              /\ pos'[p].status = "active" => pos[p].status = "active"
<1>1. account' \in Int
  BY GridValues DEF RowsInv, TypeOK, Commit, MergedAccount, View
<1>2. ASSUME NEW p \in Position
      PROVE  /\ MergedRow(pos[p], seen[s].rows[p], v.rows[p]) \in Row
             /\ RowAgrees(MergedRow(pos[p], seen[s].rows[p], v.rows[p]))
             /\ Follows(pos[p], MergedRow(pos[p], seen[s].rows[p], v.rows[p]))
             /\ MergedRow(pos[p], seen[s].rows[p], v.rows[p]).rec = pos[p].rec
             /\ MergedRow(pos[p], seen[s].rows[p], v.rows[p]).status = "active"
                  => pos[p].status = "active"
  <2>1. pos[p] \in Row /\ seen[s].rows[p] \in Row /\ v.rows[p] \in Row
    BY DEF RowsInv, TypeOK, View
  <2>2. RowAgrees(pos[p]) /\ RowAgrees(seen[s].rows[p])
    BY DEF RowsInv, RowsAgree, SeenAgrees
  <2>3. /\ seen[s].rows[p].status \in Closed => pos[p].status \in Closed \cup {"deleted"}
        /\ v.rows[p] # seen[s].rows[p] => pos[p].status # "deleted"
    BY DEF RowsInv, SeenAgrees, Commit, NoneStale
  <2> QED
    BY <2>1, <2>2, <2>3, MergeKeeps
<1>3. \A p \in Position : pos'[p] = MergedRow(pos[p], seen[s].rows[p], v.rows[p])
  BY DEF Commit, MergedRows
<1>4. pos' \in [Position -> Row]
  BY <1>2, <1>3 DEF Commit, MergedRows
<1> QED
  BY <1>1, <1>2, <1>3, <1>4 DEF RowsAgree, RowAgrees

\* Removing a row fits everything read before.
LEMMA RemoveKeeps ==
  ASSUME RowsInv, NEW p \in Position, pos' = [pos EXCEPT ![p] = DeletedRow]
  PROVE  /\ pos' \in [Position -> Row]
         /\ RowsAgree'
         /\ \A q \in Position :
              /\ Follows(pos[q], pos'[q])
              /\ pos'[q].status = "active" => pos'[q] = pos[q]
<1>1. /\ pos' \in [Position -> Row] /\ pos'[p] = DeletedRow
      /\ \A q \in Position \ {p} : pos'[q] = pos[q]
  BY RowValues DEF RowsInv, TypeOK
<1>2. DeletedRow.status = "deleted"
  BY DEF DeletedRow, NoRow
<1>3. RowsAgree'
  <2> SUFFICES ASSUME NEW q \in Position PROVE RowAgrees(pos'[q])
    BY DEF RowsAgree, RowAgrees
  <2> QED
    BY <1>1, RowValues DEF RowsInv, RowsAgree
<1> QED
  BY <1>1, <1>2, <1>3 DEF Follows

Forward == \A p \in Position : Follows(pos[p], pos'[p])

\* What every step but a purchase does to the rows: it opens none.
Moves ==
  \A p \in Position :
    /\ Follows(pos[p], pos'[p])
    /\ pos'[p].status = "active" => pos[p].status = "active" /\ pos'[p].rec = pos[p].rec

LEMMA RowsInvInitially == Init => RowsInv
<1> SUFFICES ASSUME Init PROVE RowsInv
  OBVIOUS
<1>1. TypeOK
  <2>1. [by |-> {}, looked |-> {}] \in Fill
    BY DEF Fill
  <2>2. fill \in [Position -> Fill]
    BY <2>1 DEF Init
  <2> QED
    BY <2>2, RowValues, RequestValues, InputAssumption DEF Init, TypeOK
<1>2. RowsAgree
  BY RowValues DEF Init, RowsAgree
<1>3. SeenAgrees
  <2>1. \A p \in Position : NoView.rows[p] = NoRow
    BY DEF NoView
  <2>2. NoRow.status \notin Closed
    BY DEF NoRow, Closed
  <2> QED
    BY <2>1, <2>2, RowValues DEF Init, SeenAgrees
<1>4. Ready
  BY DEF Init, Ready
<1>5. Polling
  BY DEF Init, Polling
<1> QED
  BY <1>1, <1>2, <1>3, <1>4, <1>5 DEF RowsInv

LEMMA RowsInvStep ==
  ASSUME RowsInv, [Next]_vars
  PROVE  /\ RowsInv' /\ Forward
         /\ Moves \/ \E s \in Session : Buy(s)
<1> USE DEF RowsInv
<1>0. (pos' = pos) => Moves
  BY DEF Moves, Follows, TypeOK
<1>1. ASSUME NEW s \in Session, NEW r \in Tap, ReadUser(s, r)
      PROVE  RowsInv' /\ Moves
  <2>1. /\ seen'[s].rows = NoView.rows
        /\ seen' \in [Session -> View]
    <3>1. [NoView EXCEPT !.acct = account, !.past = due] \in View
      BY RowValues DEF TypeOK, View
    <3>2. [NoView EXCEPT !.acct = account, !.past = due].rows = NoView.rows
      BY DEF NoView
    <3> QED
      BY <1>1, <3>1, <3>2 DEF ReadUser, TypeOK
  <2>2. TypeOK'
    BY <1>1, <2>1 DEF ReadUser, TypeOK, Tap
  <2>3. RowsAgree' /\ SeenAgrees' /\ Ready' /\ Polling'
    <3>1. pc'[s] = "user" /\ pos' = pos
      BY <1>1 DEF ReadUser, TypeOK
    <3>2. \A t \in Session : t # s =>
            pc'[t] = pc[t] /\ req'[t] = req[t] /\ seen'[t] = seen[t] /\ mine'[t] = mine[t]
      BY <1>1 DEF ReadUser, TypeOK
    <3> QED
      BY <2>1, <2>2, <3>1, <3>2, ReadKeeps DEF TypeOK
  <2> QED
    BY <1>0, <1>1, <2>2, <2>3 DEF ReadUser
<1>2. ASSUME NEW s \in Session, ReadRows(s)
      PROVE  RowsInv' /\ Moves
  <2>1. /\ seen' \in [Session -> View] /\ seen'[s].rows = pos
        /\ mine' \in [Session -> View] /\ mine'[s] = seen'[s]
    <3>1. [seen[s] EXCEPT !.rows = pos] \in View
      BY DEF TypeOK, View
    <3>2. [seen[s] EXCEPT !.rows = pos].rows = pos
      BY DEF TypeOK, View
    <3>3. seen' = [seen EXCEPT ![s] = [seen[s] EXCEPT !.rows = pos]]
      BY <1>2 DEF ReadRows
    <3> QED
      BY <1>2, <3>1, <3>2, <3>3 DEF ReadRows, TypeOK
  <2>2. TypeOK'
    BY <1>2, <2>1 DEF ReadRows, TypeOK
  <2>3. /\ req'[s] = req[s]
        /\ req[s].op = "sell" => pos[req[s].pos].status = "active"
        /\ req[s].op = "modify" => pos[req[s].pos].status \in Closed
    BY <1>2 DEF ReadRows, Found
  <2>4. \A t \in Session : t # s =>
          pc'[t] = pc[t] /\ req'[t] = req[t] /\ seen'[t] = seen[t] /\ mine'[t] = mine[t]
    BY <1>2 DEF ReadRows, TypeOK
  <2>5. RowsAgree' /\ SeenAgrees' /\ Ready' /\ Polling'
    BY <1>2, <2>1, <2>2, <2>3, <2>4, ReadKeeps DEF ReadRows, TypeOK
  <2> QED
    BY <1>0, <1>2, <2>2, <2>5 DEF ReadRows
<1>3. ASSUME NEW s \in Session, PollReadRows(s)
      PROVE  RowsInv' /\ Moves
  <2>1. seen' \in [Session -> View] /\ seen'[s].rows = pos
    <3>1. [NoView EXCEPT !.rows = pos, !.past = due] \in View
      BY RowValues DEF TypeOK, View
    <3>2. [NoView EXCEPT !.rows = pos, !.past = due].rows = pos
      BY DEF NoView
    <3> QED
      BY <1>3, <3>1, <3>2 DEF PollReadRows, TypeOK
  <2>2. TypeOK'
    BY <1>3, <2>1, RequestValues DEF PollReadRows, TypeOK
  <2>3. pc'[s] = "rows" /\ req'[s].op = "poll" /\ pos' = pos
    BY <1>3 DEF PollReadRows, TypeOK
  <2>4. \A t \in Session : t # s =>
          pc'[t] = pc[t] /\ req'[t] = req[t] /\ seen'[t] = seen[t] /\ mine'[t] = mine[t]
    BY <1>3 DEF PollReadRows, TypeOK
  <2>5. RowsAgree' /\ SeenAgrees' /\ Ready' /\ Polling'
    BY <2>1, <2>2, <2>3, <2>4, ReadKeeps DEF TypeOK
  <2> QED
    BY <1>0, <1>3, <2>2, <2>5 DEF PollReadRows
<1>4. ASSUME NEW s \in Session, PollReadUser(s)
      PROVE  RowsInv' /\ Moves
  <2>1. /\ seen' \in [Session -> View] /\ seen'[s].rows = seen[s].rows
        /\ mine' \in [Session -> View] /\ mine'[s] = seen'[s]
    <3>1. [seen[s] EXCEPT !.acct = account] \in View
      BY DEF TypeOK, View
    <3>2. [seen[s] EXCEPT !.acct = account].rows = seen[s].rows
      BY DEF TypeOK, View
    <3>3. seen' = [seen EXCEPT ![s] = [seen[s] EXCEPT !.acct = account]]
      BY <1>4 DEF PollReadUser
    <3> QED
      BY <1>4, <3>1, <3>2, <3>3 DEF PollReadUser, TypeOK
  <2>2. TypeOK'
    BY <1>4, <2>1 DEF PollReadUser, TypeOK
  <2>3. req'[s] = req[s] /\ req[s].op = "poll"
    BY <1>4 DEF PollReadUser, Polling
  <2>4. \A t \in Session : t # s =>
          pc'[t] = pc[t] /\ req'[t] = req[t] /\ seen'[t] = seen[t] /\ mine'[t] = mine[t]
    BY <1>4 DEF PollReadUser, TypeOK
  <2>5. RowsAgree' /\ SeenAgrees' /\ Ready' /\ Polling'
    BY <1>4, <2>1, <2>2, <2>3, <2>4, ReadKeeps DEF PollReadUser, TypeOK
  <2> QED
    BY <1>0, <1>4, <2>2, <2>5 DEF PollReadUser
<1>5. ASSUME NEW s \in Session, Rollback(s)
      PROVE  RowsInv' /\ Moves
  <2>1. Moves /\ Close(s)
    BY <1>0, <1>5 DEF Rollback
  <2> QED
    BY <1>5, <2>1, CloseKeeps DEF Rollback, Moves, TypeOK, RowsAgree, RowAgrees
<1>6. ASSUME NEW s \in Session, Buy(s)
      PROVE  RowsInv' /\ Forward
  <2>1. req[s].rec \in Rec /\ req[s].price \in Nat /\ req[s].qty \in Nat
    BY <1>6, RequestValues, InputAssumption DEF Buy, Working, TypeOK
  <2>2. NewRow(req[s]) \in Row /\ RowAgrees(NewRow(req[s]))
    <3>1. OnGrid(req[s].price) \in Int
      BY <2>1, GridValues
    <3>2. NewRow(req[s]) \in Row
      BY <2>1, <3>1 DEF NewRow, Row, Status, NoPrice
    <3>3. RowAgrees(NewRow(req[s]))
      BY DEF NewRow, RowAgrees, Closed
    <3> QED
      BY <3>2, <3>3
  <2>3. PICK p \in Position :
          /\ pos[p].status = "absent"
          /\ pos' = [pos EXCEPT ![p] = NewRow(req[s])]
          /\ fill' = [fill EXCEPT ![p] = [by |-> {s}, looked |-> Looking(s)]]
    BY <1>6 DEF Buy
  <2>4. /\ pos' \in [Position -> Row] /\ pos'[p] = NewRow(req[s])
        /\ \A q \in Position \ {p} : pos'[q] = pos[q]
    BY <2>2, <2>3 DEF TypeOK
  <2>5. Forward
    BY <2>3, <2>4 DEF Forward, Follows, Closed
  <2>6. RowsAgree'
    <3> SUFFICES ASSUME NEW q \in Position PROVE RowAgrees(pos'[q])
      BY DEF RowsAgree, RowAgrees
    <3> QED
      BY <2>2, <2>4 DEF RowsAgree
  <2>7. feedback' \in [Rec -> [bought : Nat, closed : Nat]]
    BY <1>6, <2>1 DEF Buy, TypeOK
  <2>8. fill' \in [Position -> Fill]
    <3>1. [by |-> {s}, looked |-> Looking(s)] \in Fill
      BY DEF Fill, Looking
    <3> QED
      BY <2>3, <3>1 DEF TypeOK
  <2>9. Close(s)
    BY <1>6 DEF Buy
  <2> QED
    BY <1>6, <2>4, <2>5, <2>6, <2>7, <2>8, <2>9, CloseKeeps
       DEF Buy, TypeOK, Forward
<1>7. ASSUME NEW s \in Session, Sell(s)
      PROVE  RowsInv' /\ Moves
  <2> DEFINE p == req[s].pos
             c == req[s].price
             m == mine[s]
             v == Sold(m, p, c)
  <2>1. p \in Position /\ c \in Price
    BY <1>7, RequestValues DEF Sell, Working, TypeOK
  <2>view. m \in View
    BY DEF TypeOK
  <2>2. m = seen[s] /\ seen[s].rows[p].status = "active"
    BY <1>7 DEF Sell, Working, Ready, Single, TypeOK
  <2>3. /\ Commit(s, v) /\ Close(s)
        /\ feedback' = [feedback EXCEPT ![pos[p].rec].closed = @ + 1]
        /\ UNCHANGED <<base, due, fill>>
    BY <1>7 DEF Sell, Commit
  <2> HIDE DEF p, c, m
  <2>result. /\ v \in View
        /\ \E r \in Row :
             /\ v.rows = [m.rows EXCEPT ![p] = r]
             /\ r.status = "closed_sold" /\ r.applied /\ r.close = c
    BY <2>1, <2>view, SoldRow, Zenon
  <2>4. PICK r \in Row :
          /\ v.rows = [m.rows EXCEPT ![p] = r]
          /\ r.status = "closed_sold" /\ r.applied /\ r.close = c
    BY <2>result
  <2>5. Ends(seen[s].rows[p], r)
    BY <2>1, <2>2, <2>4, InputAssumption DEF Ends, Closed
  <2> HIDE DEF v
  <2>6. \A q \in Position : Legal(seen[s].rows[q], v.rows[q])
    BY <2>view, <2>2, <2>4, <2>5 DEF Legal, View
  <2>7. pos' \in [Position -> Row] /\ account' \in Int /\ RowsAgree' /\ Moves
    BY <2>3, <2>result, <2>6, CommitKeeps DEF Moves
  <2>8. feedback' \in [Rec -> [bought : Nat, closed : Nat]]
    <3>1. pos[p].rec \in Rec
      BY <2>1 DEF TypeOK, Row
    <3> QED
      BY <2>3, <3>1 DEF TypeOK
  <2> QED
    BY <2>3, <2>7, <2>8, CloseKeeps DEF TypeOK, Moves
<1>8. ASSUME NEW s \in Session, Modify(s)
      PROVE  RowsInv' /\ Moves
  <2> DEFINE p == req[s].pos
             f == req[s].field
             c == req[s].value
             m == mine[s]
             v == Modified(m, p, f, c)
  <2>1. p \in Position /\ f \in Field /\ c \in Nat
    BY <1>8, RequestValues DEF Modify, Working, TypeOK
  <2>view. m \in View
    BY DEF TypeOK
  <2>2. m = seen[s] /\ seen[s].rows[p].status \in Closed
    BY <1>8 DEF Modify, Working, Ready, Single, TypeOK
  <2>3. Commit(s, v) /\ Close(s) /\ UNCHANGED <<base, feedback, due, fill>>
    BY <1>8 DEF Modify, Commit
  <2> HIDE DEF p, f, c, m
  <2>4. m.rows[p].applied
    BY <2>1, <2>2 DEF SeenAgrees, RowAgrees
  <2>result. /\ v \in View
        /\ \E r \in Row :
             /\ v.rows = [m.rows EXCEPT ![p] = r]
             /\ Corrected(m.rows[p], r)
    <3>1. \A ff \in Field, cc \in Nat :
            /\ Modified(m, p, ff, cc) \in View
            /\ \E r \in Row :
                 /\ Modified(m, p, ff, cc).rows = [m.rows EXCEPT ![p] = r]
                 /\ Corrected(m.rows[p], r)
      BY <2>1, <2>view, ModifiedRow, Zenon
    <3> QED
      BY <2>1, <3>1, Zenon
  <2>5. PICK r \in Row :
          /\ v.rows = [m.rows EXCEPT ![p] = r]
          /\ Corrected(m.rows[p], r)
    BY <2>result
  <2>6. Edits(seen[s].rows[p], r)
    <3>1. m.rows[p].applied = r.applied
      BY <2>1, <2>view, <2>2, <2>4, <2>5 DEF View, Row, Corrected
    <3> QED
      BY <2>2, <2>5, <3>1 DEF Edits, Corrected
  <2> HIDE DEF v
  <2>7. \A q \in Position : Legal(seen[s].rows[q], v.rows[q])
    BY <2>1, <2>view, <2>2, <2>5, <2>6 DEF Legal, View
  <2>8. pos' \in [Position -> Row] /\ account' \in Int /\ RowsAgree' /\ Moves
    BY <2>3, <2>result, <2>7, CommitKeeps DEF Moves
  <2> QED
    BY <2>3, <2>8, CloseKeeps DEF TypeOK, Moves
<1>9. ASSUME NEW s \in Session, Erase(s)
      PROVE  RowsInv' /\ Moves
  <2> DEFINE v == ReversePnl(mine[s], req[s].pos)
  <2>1. req[s].pos \in Position
    BY <1>9, RequestValues DEF Erase, Working, TypeOK
  <2>2. v \in View
    BY <2>1, ReverseView DEF TypeOK
  <2> HIDE DEF v
  <2>3. account' \in Int
    <3>1. account' = MergedAccount(s, v)
      BY <1>9 DEF Erase, v
    <3> QED
      BY <2>2, <3>1, GridValues DEF MergedAccount, View, TypeOK
  <2>4. pos' \in [Position -> Row] /\ RowsAgree' /\ Moves
    BY <1>9, <2>1, RemoveKeeps DEF Erase, Moves
  <2>5. Close(s) /\ UNCHANGED <<base, feedback, due, fill>>
    BY <1>9 DEF Erase
  <2> QED
    BY <2>3, <2>4, <2>5, CloseKeeps DEF TypeOK, Moves
<1>10. ASSUME NEW s \in Session, Delete(s)
       PROVE  RowsInv' /\ Moves
  <2>1. req[s].pos \in Position
    BY <1>10, RequestValues DEF Delete, Working, TypeOK
  <2>2. pos' \in [Position -> Row] /\ RowsAgree' /\ Moves
    BY <1>10, <2>1, RemoveKeeps DEF Delete, Moves
  <2>3. feedback' \in [Rec -> [bought : Nat, closed : Nat]]
    BY <1>10 DEF Delete, TypeOK
  <2>4. Close(s) /\ UNCHANGED <<account, base, due, fill>>
    BY <1>10 DEF Delete
  <2> QED
    BY <2>2, <2>3, <2>4, CloseKeeps DEF TypeOK, Moves
<1>11. ASSUME NEW s \in Session, Resize(s)
       PROVE  RowsInv' /\ Moves
  <2>1. account' \in Int
    BY <1>11, RequestValues, InputAssumption DEF Resize, Written, TypeOK
  <2>2. Close(s) /\ UNCHANGED <<pos, feedback, due, fill>>
    BY <1>11 DEF Resize
  <2>3. Moves
    BY <1>0, <2>2
  <2> QED
    BY <2>1, <2>2, <2>3, CloseKeeps DEF TypeOK, Moves, RowsAgree, RowAgrees
<1>12. ASSUME NEW s \in Session, NEW p \in Position, CloseExpired(s, p)
       PROVE  RowsInv' /\ Moves
  <2> DEFINE m == mine[s]
             v == Expired(m, p)
  <2>1. m \in View
    BY DEF TypeOK
  <2>2. mine' = [mine EXCEPT ![s] = v] /\ pc[s] = "work" /\ m.rows[p].status = "active"
    BY <1>12 DEF CloseExpired, Working, PastDue
  <2>3. UNCHANGED <<account, base, pos, feedback, due, pc, req, seen, fill>>
    BY <1>12 DEF CloseExpired
  <2>4. req[s].op \notin Single
    BY <1>12 DEF CloseExpired, Working, Single
  <2> HIDE DEF m
  <2>5. /\ v \in View
        /\ \E r \in Row :
             /\ v.rows = [m.rows EXCEPT ![p] = r]
             /\ r.status = "closed_expired" /\ r.applied
             /\ r.close = m.rows[p].close
    BY <2>1, ExpiredRow, Zenon
  <2>6. PICK r \in Row :
          /\ v.rows = [m.rows EXCEPT ![p] = r]
          /\ r.status = "closed_expired" /\ r.applied
          /\ r.close = m.rows[p].close
    BY <2>5
  <2> HIDE DEF v
  <2>7. mine' \in [Session -> View] /\ mine'[s] = v
    BY <2>2, <2>5 DEF TypeOK
  <2>8. TypeOK'
    BY <2>3, <2>7 DEF TypeOK
  <2>9. \A q \in Position : v.rows[q] = seen[s].rows[q] \/ Ends(seen[s].rows[q], v.rows[q])
    <3> SUFFICES ASSUME NEW q \in Position
                 PROVE  v.rows[q] = seen[s].rows[q] \/ Ends(seen[s].rows[q], v.rows[q])
      OBVIOUS
    <3>1. m.rows[q] = seen[s].rows[q] \/ Ends(seen[s].rows[q], m.rows[q])
      BY <2>2 DEF Ready, m
    <3>2. CASE q = p
      <4>1. v.rows[q] = r
        BY <2>1, <2>6, <3>2 DEF View
      <4>2. m.rows[q] = seen[s].rows[q]
        BY <2>2, <3>1, <3>2 DEF Ends, Closed
      <4> QED
        BY <2>2, <2>6, <3>2, <4>1, <4>2 DEF Ends, Closed
    <3>3. CASE q # p
      BY <2>1, <2>6, <3>1, <3>3 DEF View
    <3> QED
      BY <3>2, <3>3
  <2>10. \A t \in Session : t # s =>
           pc'[t] = pc[t] /\ req'[t] = req[t] /\ seen'[t] = seen[t] /\ mine'[t] = mine[t]
    BY <2>2, <2>3 DEF TypeOK
  <2>11. RowsAgree' /\ SeenAgrees' /\ Ready' /\ Polling'
    BY <2>2, <2>3, <2>4, <2>7, <2>8, <2>9, <2>10, ReadKeeps DEF TypeOK, Single
  <2> QED
    BY <1>0, <2>3, <2>8, <2>11
<1>13. ASSUME NEW s \in Session, CommitExpired(s)
       PROVE  RowsInv' /\ Moves
  <2>1. Commit(s, mine[s]) /\ Close(s) /\ UNCHANGED <<base, feedback, due, fill>>
    BY <1>13 DEF CommitExpired, Commit
  <2>2. \A p \in Position : Legal(seen[s].rows[p], mine[s].rows[p])
    BY <1>13 DEF CommitExpired, Working, Ready, Legal
  <2>3. pos' \in [Position -> Row] /\ account' \in Int /\ RowsAgree' /\ Moves
    BY <2>1, <2>2, CommitKeeps DEF Moves, TypeOK
  <2> QED
    BY <2>1, <2>3, CloseKeeps DEF TypeOK, Moves
<1>14. ASSUME NEW r \in Rec, ExpiryPasses(r)
       PROVE  RowsInv' /\ Moves
  <2>1. TypeOK'
    BY <1>14 DEF ExpiryPasses, TypeOK
  <2> QED
    BY <1>0, <1>14, <2>1
       DEF ExpiryPasses, RowsAgree, RowAgrees, SeenAgrees, Ready, Ends, Polling
<1>15. ASSUME UNCHANGED vars
       PROVE  RowsInv' /\ Moves
  <2>1. TypeOK'
    BY <1>15 DEF vars, TypeOK
  <2> QED
    BY <1>0, <1>15, <2>1
       DEF vars, RowsAgree, RowAgrees, SeenAgrees, Ready, Ends, Polling
<1>16. Moves => Forward
  BY DEF Moves, Forward
<1> QED
  BY <1>1, <1>2, <1>3, <1>4, <1>5, <1>6, <1>7, <1>8, <1>9, <1>10, <1>11, <1>12,
     <1>13, <1>14, <1>15, <1>16 DEF Next

\* The inductive invariant holds: rows agree, and so do those every session has
\* read and those it is about to write, whatever other sessions did meanwhile.
THEOREM RowsInvariant == Spec => []RowsInv
<1>1. RowsInv /\ [Next]_vars => RowsInv'
  BY RowsInvStep
<1> QED
  BY <1>1, RowsInvInitially, PTL DEF Spec

\* Type correctness, with any number of overlapping sessions.
THEOREM TypeCorrect == Spec => []TypeOK
BY RowsInvariant, PTL DEF RowsInv

\* A row's status, close price and P/L mark agree, with any number of
\* overlapping sessions and whatever each of them read.
THEOREM RowsAlwaysAgree == Spec => []RowsAgree
BY RowsInvariant, PTL DEF RowsInv

\* No interleaving reopens a closed position or brings back a removed one.
THEOREM PositionsMoveForward == Spec => PositionsOnlyEnd
<1>1. RowsInv /\ [Next]_vars => [\A p \in Position : Follows(pos[p], pos'[p])]_vars
  BY RowsInvStep DEF Forward
<1> QED
  BY <1>1, RowsInvariant, PTL DEF Spec, PositionsOnlyEnd

-----------------------------------------------------------------------------
(***************************************************************************)
(* How a recommendation comes to be tracked twice.  The session that       *)
(* opened an active row has ended (Opened), and a fill dialogue still at   *)
(* work on the same recommendation made its check before that row was      *)
(* there (CheckedBefore).                                                  *)
(***************************************************************************)
Opened ==
  \A p \in Position :
    pos[p].status = "active" => \E s \in Session : fill[p].by = {s} /\ pc[s] = "done"

CheckedBefore ==
  \A s \in Session, p \in Position :
    /\ Working(s, "buy")
    /\ pos[p].status = "active" /\ pos[p].rec = req[s].rec
    => s \in fill[p].looked

FillInv == Opened /\ CheckedBefore /\ TrackedTwiceByOverlap

LEMMA FillInvInitially == Init => FillInv
BY DEF Init, FillInv, Opened, CheckedBefore, TrackedTwiceByOverlap, NoRow

\* A session that has ended stays so; one that comes to fill a recommendation
\* has just found no active row of it.
Proceeds ==
  \A s \in Session :
    /\ pc[s] = "done" => pc'[s] = "done"
    /\ pc'[s] = "work" /\ req'[s].op = "buy" =>
         /\ req'[s] = req[s]
         /\ \/ pc[s] = "work"
            \/ \A p \in Position : ~(pos[p].status = "active" /\ pos[p].rec = req[s].rec)

LEMMA SessionsProceed ==
  ASSUME RowsInv, [Next]_vars
  PROVE  /\ Proceeds
         /\ fill' = fill \/ \E s \in Session : Buy(s)
<1> USE DEF RowsInv, TypeOK, Proceeds
<1>1. ASSUME NEW s \in Session, NEW r \in Tap, ReadUser(s, r)
      PROVE  Proceeds /\ fill' = fill
  BY <1>1 DEF ReadUser
<1>2. ASSUME NEW s \in Session, ReadRows(s)
      PROVE  Proceeds /\ fill' = fill
  BY <1>2 DEF ReadRows, Found
<1>3. ASSUME NEW s \in Session, PollReadRows(s)
      PROVE  Proceeds /\ fill' = fill
  BY <1>3 DEF PollReadRows
<1>4. ASSUME NEW s \in Session, PollReadUser(s)
      PROVE  Proceeds /\ fill' = fill
  BY <1>4 DEF PollReadUser, Polling
<1>5. ASSUME NEW s \in Session, Close(s)
      PROVE  Proceeds
  BY <1>5 DEF Close
<1>6. ASSUME NEW s \in Session,
             Rollback(s) \/ Sell(s) \/ Modify(s) \/ Erase(s) \/ Delete(s)
               \/ Resize(s) \/ CommitExpired(s)
      PROVE  Proceeds /\ fill' = fill
  <2>1. Close(s) /\ fill' = fill
    BY <1>6 DEF Rollback, Sell, Modify, Erase, Delete, Resize, CommitExpired, Commit
  <2> QED
    BY <1>5, <2>1
<1>7. ASSUME NEW s \in Session, Buy(s)
      PROVE  Proceeds
  BY <1>5, <1>7 DEF Buy
<1>8. ASSUME NEW s \in Session, NEW p \in Position, CloseExpired(s, p)
      PROVE  Proceeds /\ fill' = fill
  BY <1>8 DEF CloseExpired
<1>9. ASSUME NEW r \in Rec, ExpiryPasses(r)
      PROVE  Proceeds /\ fill' = fill
  BY <1>9 DEF ExpiryPasses
<1>10. CASE UNCHANGED vars
  BY <1>10 DEF vars
<1> QED
  BY <1>1, <1>2, <1>3, <1>4, <1>6, <1>7, <1>8, <1>9, <1>10 DEF Next

\* A step that opens no row.
LEMMA NoFillKeeps ==
  ASSUME RowsInv, FillInv, Moves, Proceeds, fill' = fill
  PROVE  FillInv'
<1>1. Opened'
  <2> SUFFICES ASSUME NEW p \in Position, pos'[p].status = "active"
               PROVE  \E s \in Session : fill[p].by = {s} /\ pc'[s] = "done"
    BY DEF Opened
  <2>1. pos[p].status = "active"
    BY DEF Moves
  <2>2. PICK s \in Session : fill[p].by = {s} /\ pc[s] = "done"
    BY <2>1 DEF FillInv, Opened
  <2> QED
    BY <2>2 DEF Proceeds
<1>2. CheckedBefore'
  <2> SUFFICES ASSUME NEW s \in Session, NEW p \in Position,
                      pc'[s] = "work", req'[s].op = "buy",
                      pos'[p].status = "active", pos'[p].rec = req'[s].rec
               PROVE  s \in fill[p].looked
    BY DEF CheckedBefore, Working
  <2>1. pos[p].status = "active" /\ pos[p].rec = req[s].rec
    BY DEF Moves, Proceeds
  <2>2. pc[s] = "work" /\ req[s].op = "buy"
    BY <2>1 DEF Proceeds
  <2> QED
    BY <2>1, <2>2 DEF FillInv, CheckedBefore, Working
<1>3. TrackedTwiceByOverlap'
  BY DEF FillInv, TrackedTwiceByOverlap, Moves
<1> QED
  BY <1>1, <1>2, <1>3 DEF FillInv

\* A fill: whoever else is tracked for the same recommendation was committed
\* after this session had looked.
LEMMA FillKeeps ==
  ASSUME RowsInv, FillInv, Proceeds, NEW s \in Session, Buy(s)
  PROVE  FillInv'
<1>1. PICK p \in Position :
        /\ pos[p].status = "absent"
        /\ pos' = [pos EXCEPT ![p] = NewRow(req[s])]
        /\ fill' = [fill EXCEPT ![p] = [by |-> {s}, looked |-> Looking(s)]]
  BY DEF Buy
<1>2. /\ pos'[p] = NewRow(req[s])
      /\ fill'[p].by = {s} /\ fill'[p].looked = Looking(s)
      /\ \A q \in Position \ {p} : pos'[q] = pos[q] /\ fill'[q] = fill[q]
  BY <1>1 DEF RowsInv, TypeOK
<1>3. NewRow(req[s]).rec = req[s].rec
  BY DEF NewRow
<1>4. /\ pc'[s] = "done" /\ Working(s, "buy")
      /\ \A t \in Session \ {s} : pc'[t] = pc[t] /\ req'[t] = req[t]
  BY DEF Buy, Close, RowsInv, TypeOK
<1>5. Opened'
  <2> SUFFICES ASSUME NEW q \in Position, pos'[q].status = "active"
               PROVE  \E t \in Session : fill'[q].by = {t} /\ pc'[t] = "done"
    BY DEF Opened
  <2>1. CASE q = p
    BY <1>2, <1>4, <2>1
  <2>2. CASE q # p
    <3>1. PICK t \in Session : fill[q].by = {t} /\ pc[t] = "done"
      BY <1>2, <2>2 DEF FillInv, Opened
    <3> QED
      BY <1>2, <2>2, <3>1 DEF Proceeds
  <2> QED
    BY <2>1, <2>2
<1>6. CheckedBefore'
  <2> SUFFICES ASSUME NEW t \in Session, NEW q \in Position,
                      pc'[t] = "work", req'[t].op = "buy",
                      pos'[q].status = "active", pos'[q].rec = req'[t].rec
               PROVE  t \in fill'[q].looked
    BY DEF CheckedBefore, Working
  <2>1. t # s /\ Working(t, "buy") /\ req'[t] = req[t]
    BY <1>4 DEF Working
  <2>2. CASE q = p
    BY <1>2, <1>3, <2>1, <2>2 DEF Looking
  <2>3. CASE q # p
    BY <1>2, <2>1, <2>3 DEF FillInv, CheckedBefore
  <2> QED
    BY <2>2, <2>3
<1>7. ASSUME NEW q \in Position \ {p}, pos[q].status = "active", pos[q].rec = req[s].rec
      PROVE  fill'[p].by \cap fill'[q].looked # {}
  BY <1>2, <1>4, <1>7 DEF FillInv, CheckedBefore
<1>8. TrackedTwiceByOverlap'
  <2> SUFFICES ASSUME NEW a \in Position, NEW b \in Position, a # b,
                      pos'[a].rec = pos'[b].rec,
                      pos'[a].status = "active", pos'[b].status = "active"
               PROVE  \/ fill'[a].by \cap fill'[b].looked # {}
                      \/ fill'[b].by \cap fill'[a].looked # {}
    BY DEF TrackedTwiceByOverlap
  <2>1. CASE a = p
    BY <1>2, <1>3, <1>7, <2>1
  <2>2. CASE b = p
    BY <1>2, <1>3, <1>7, <2>2
  <2>3. CASE a # p /\ b # p
    BY <1>2, <2>3 DEF FillInv, TrackedTwiceByOverlap
  <2> QED
    BY <2>1, <2>2, <2>3
<1> QED
  BY <1>5, <1>6, <1>8 DEF FillInv

\* With any number of overlapping sessions, of fills, sales, expiries, edits and
\* removals, two active rows of one recommendation were opened by two dialogues
\* of which one had made its check before the other's row was committed.
THEOREM TrackedTwice == Spec => []TrackedTwiceByOverlap
<1>1. RowsInv /\ FillInv /\ [Next]_vars => FillInv'
  BY RowsInvStep, SessionsProceed, NoFillKeeps, FillKeeps
<1>2. FillInv => TrackedTwiceByOverlap
  BY DEF FillInv
<1> QED
  BY <1>1, <1>2, RowsInvariant, FillInvInitially, PTL DEF Spec

-----------------------------------------------------------------------------
(***************************************************************************)
(* One session at a time.  The check of a purchase then still holds at its *)
(* commit, because no other session was there to open a row in between.    *)
(***************************************************************************)
InUse(s) == pc[s] \notin {"idle", "done"}

OneAtATime == \A s, t \in Session : InUse(s) /\ InUse(t) => s = t

CheckHolds ==
  \A s \in Session :
    pc[s] = "work" /\ req[s].op = "buy" =>
      \A p \in Position : ~(pos[p].status = "active" /\ pos[p].rec = req[s].rec)

\* What get_active_for_recommendation counts on: one active row at most.
TrackedSingly ==
  \A p, q \in Position :
    /\ pos[p].status = "active" /\ pos[q].status = "active"
    /\ pos[p].rec = pos[q].rec
    => p = q

SerialInv == OneAtATime /\ CheckHolds /\ TrackedSingly

LEMMA SerialInvInitially == Init => SerialInv
BY DEF Init, SerialInv, OneAtATime, InUse, CheckHolds, TrackedSingly, NoRow

\* Opening a session leaves it the only one in use.
LEMMA OpenKeepsOne ==
  ASSUME RowsInv, OneAtATime, ~Interleaved, NEW s \in Session, MayOpen,
         NEW stage, pc' = [pc EXCEPT ![s] = stage]
  PROVE  OneAtATime'
BY DEF RowsInv, TypeOK, OneAtATime, InUse, MayOpen

\* So does any move of a session in use.
LEMMA MoveKeepsOne ==
  ASSUME RowsInv, OneAtATime, NEW s \in Session, InUse(s),
         NEW stage, pc' = [pc EXCEPT ![s] = stage]
  PROVE  OneAtATime'
BY DEF RowsInv, TypeOK, OneAtATime, InUse

LEMMA NoneOpenedKeepsSingle ==
  ASSUME TrackedSingly, Moves
  PROVE  TrackedSingly'
BY DEF TrackedSingly, Moves

LEMMA SerialInvStep ==
  ASSUME RowsInv, SerialInv, ~Interleaved, [Next]_vars
  PROVE  SerialInv'
<1> USE DEF SerialInv
<1>1. ASSUME NEW s \in Session, NEW r \in Tap, ReadUser(s, r)
      PROVE  SerialInv'
  <2>1. OneAtATime'
    BY <1>1, OpenKeepsOne DEF ReadUser
  <2>2. CheckHolds'
    BY <1>1 DEF ReadUser, CheckHolds, RowsInv, TypeOK
  <2> QED
    BY <1>1, <2>1, <2>2 DEF ReadUser, TrackedSingly
<1>2. ASSUME NEW s \in Session, ReadRows(s)
      PROVE  SerialInv'
  <2>1. OneAtATime'
    BY <1>2, MoveKeepsOne DEF ReadRows, InUse
  <2>2. CheckHolds'
    BY <1>2 DEF ReadRows, Found, CheckHolds, RowsInv, TypeOK
  <2> QED
    BY <1>2, <2>1, <2>2 DEF ReadRows, TrackedSingly
<1>3. ASSUME NEW s \in Session, PollReadRows(s)
      PROVE  SerialInv'
  <2>1. OneAtATime'
    BY <1>3, OpenKeepsOne DEF PollReadRows
  <2>2. CheckHolds'
    BY <1>3 DEF PollReadRows, CheckHolds, RowsInv, TypeOK
  <2> QED
    BY <1>3, <2>1, <2>2 DEF PollReadRows, TrackedSingly
<1>4. ASSUME NEW s \in Session, PollReadUser(s)
      PROVE  SerialInv'
  <2>1. OneAtATime'
    BY <1>4, MoveKeepsOne DEF PollReadUser, InUse
  <2>2. CheckHolds'
    BY <1>4 DEF PollReadUser, CheckHolds, RowsInv, TypeOK, Polling
  <2> QED
    BY <1>4, <2>1, <2>2 DEF PollReadUser, TrackedSingly
<1>5. ASSUME NEW s \in Session, InUse(s), Close(s)
      PROVE  OneAtATime' /\ CheckHolds'
  <2>1. OneAtATime'
    BY <1>5, MoveKeepsOne DEF Close
  <2>2. \A t \in Session : pc'[t] # "work"
    BY <1>5 DEF Close, OneAtATime, InUse, RowsInv, TypeOK
  <2> QED
    BY <2>1, <2>2 DEF CheckHolds
<1>6. ASSUME NEW s \in Session,
             Sell(s) \/ Modify(s) \/ Erase(s) \/ Delete(s) \/ Resize(s)
               \/ CommitExpired(s)
      PROVE  SerialInv'
  <2>1. InUse(s) /\ Close(s)
    BY <1>6 DEF InUse, Sell, Modify, Erase, Delete, Resize, CommitExpired,
                Working, Commit
  <2>2. ~\E t \in Session : Buy(t)
    <3> SUFFICES ASSUME NEW t \in Session, Buy(t) PROVE FALSE
      OBVIOUS
    <3>1. t = s
      BY <2>1 DEF Buy, Working, InUse, OneAtATime
    <3> QED
      BY <1>6, <3>1 DEF Buy, Sell, Modify, Erase, Delete, Resize, CommitExpired,
                        Working
  <2>3. Moves
    BY <2>2, RowsInvStep
  <2> QED
    BY <1>5, <2>1, <2>3, NoneOpenedKeepsSingle
<1>7. ASSUME NEW s \in Session, Buy(s)
      PROVE  SerialInv'
  <2>1. InUse(s) /\ Close(s)
    BY <1>7 DEF InUse, Buy, Working
  <2>2. PICK p \in Position : pos' = [pos EXCEPT ![p] = NewRow(req[s])]
    BY <1>7 DEF Buy
  <2>3. \A q \in Position : ~(pos[q].status = "active" /\ pos[q].rec = req[s].rec)
    BY <1>7 DEF Buy, Working, CheckHolds
  <2>4. NewRow(req[s]).rec = req[s].rec
    BY DEF NewRow
  <2>5. /\ pos'[p] = NewRow(req[s])
        /\ \A q \in Position \ {p} : pos'[q] = pos[q]
    BY <2>2 DEF RowsInv, TypeOK
  <2>6. TrackedSingly'
    BY <2>3, <2>4, <2>5 DEF TrackedSingly
  <2> QED
    BY <1>5, <2>1, <2>6
<1>8. ASSUME NEW s \in Session, NEW p \in Position, CloseExpired(s, p)
      PROVE  SerialInv'
  BY <1>8 DEF CloseExpired, OneAtATime, InUse, CheckHolds, TrackedSingly
<1>9. ASSUME NEW r \in Rec, ExpiryPasses(r)
      PROVE  SerialInv'
  BY <1>9 DEF ExpiryPasses, OneAtATime, InUse, CheckHolds, TrackedSingly
<1>10. ASSUME UNCHANGED vars
       PROVE  SerialInv'
  BY <1>10 DEF vars, OneAtATime, InUse, CheckHolds, TrackedSingly
<1>11. ASSUME NEW s \in Session, Rollback(s)
       PROVE  SerialInv'
  <2>1. InUse(s) /\ Close(s) /\ pos' = pos
    BY <1>11 DEF Rollback, InUse
  <2> QED
    BY <1>5, <2>1 DEF TrackedSingly
<1> QED
  BY <1>1, <1>2, <1>3, <1>4, <1>6, <1>7, <1>8, <1>9, <1>10, <1>11 DEF Next

-----------------------------------------------------------------------------
(***************************************************************************)
(* Amounts that fit the columns.  A price or a size on the grid is an even *)
(* number of halves; everything computed from such amounts is even too, so *)
(* that writing it rounds nothing.                                         *)
(***************************************************************************)
Even(x) == \E k \in Int : x = 2 * k
OnTheGrid == \A x \in Price \cup Size : x % 2 = 0

EvenRow(r) == Even(r.entry) /\ (r.close = NoPrice \/ Even(r.close))
EvenView(v) == Even(v.acct) /\ \A p \in Position : EvenRow(v.rows[p])

LEMMA EvenValues ==
  /\ \A x : Even(x) => x \in Int /\ OnGrid(x) = x
  /\ Even(0) /\ ~Even(NoPrice)
  /\ \A x, y : Even(x) /\ Even(y) => Even(x + y) /\ Even(x - y) /\ Even(-x)
  /\ \A x \in Int : x % 2 = 0 => Even(x)
<1>1. ASSUME NEW x, Even(x) PROVE x \in Int /\ OnGrid(x) = x
  <2>1. PICK k \in Int : x = 2 * k
    BY <1>1 DEF Even
  <2> QED
    BY <2>1 DEF OnGrid
<1>2. Even(0) /\ ~Even(NoPrice)
  BY DEF Even, NoPrice
<1>3. ASSUME NEW x, NEW y, Even(x), Even(y)
      PROVE  Even(x + y) /\ Even(x - y) /\ Even(-x)
  <2>1. PICK k \in Int : x = 2 * k
    BY <1>3 DEF Even
  <2>2. PICK l \in Int : y = 2 * l
    BY <1>3 DEF Even
  <2>3. /\ x + y = 2 * (k + l) /\ k + l \in Int
        /\ x - y = 2 * (k - l) /\ k - l \in Int
        /\ -x = 2 * (-k) /\ -k \in Int
    BY <2>1, <2>2
  <2> QED
    BY <2>3 DEF Even
<1>4. ASSUME NEW x \in Int, x % 2 = 0 PROVE Even(x)
  <2>1. x = 2 * (x \div 2) /\ x \div 2 \in Int
    BY <1>4
  <2> QED
    BY <2>1 DEF Even
<1> QED
  BY <1>1, <1>2, <1>3, <1>4

LEMMA EvenTimes == \A x : \A n \in Int : Even(x) => Even(x * n)
<1> SUFFICES ASSUME NEW x, NEW n \in Int, Even(x) PROVE Even(x * n)
  OBVIOUS
<1>1. PICK k \in Int : x = 2 * k
  BY DEF Even
<1>2. k * n \in Int
  OBVIOUS
<1>3. x * n = 2 * (k * n)
  BY <1>1
<1> QED
  BY <1>2, <1>3 DEF Even

LEMMA EvenRealized == \A r \in Row : EvenRow(r) => Even(Realized(r))
<1> SUFFICES ASSUME NEW r \in Row, EvenRow(r) PROVE Even(Realized(r))
  OBVIOUS
<1>1. PICK c : c = IF r.close = NoPrice THEN 0 ELSE r.close
  OBVIOUS
<1>2. Even(c) /\ Even(r.entry) /\ r.qty \in Int
  BY <1>1, EvenValues DEF EvenRow, Row
<1>3. Even((r.entry - c) * r.qty) /\ Even((c - r.entry) * r.qty)
  BY <1>2, EvenValues, EvenTimes
<1> QED
  BY <1>1, <1>3 DEF Realized, PositionPnl

-----------------------------------------------------------------------------
(***************************************************************************)
(* The worth of a view: its account without the P/L of its rows.  None of  *)
(* the account functions changes it.                                       *)
(***************************************************************************)
Total(rows) == SumFunction(Credits(rows))
Worth(v) == v.acct - Total(v.rows)

LEMMA CreditValue == \A r \in Row : Credit(r) \in Int
BY RealizedValue DEF Credit

LEMMA TotalValue ==
  ASSUME NEW rows \in [Position -> Row]
  PROVE  /\ Total(rows) = SumFunctionOnSet(Credits(rows), Position)
         /\ Total(rows) \in Int
         /\ \A p \in Position : Credits(rows)[p] = Credit(rows[p]) /\ Credit(rows[p]) \in Int
<1>1. \A p \in Position : Credits(rows)[p] = Credit(rows[p]) /\ Credit(rows[p]) \in Int
  BY CreditValue DEF Credits
<1>2. Total(rows) = SumFunctionOnSet(Credits(rows), Position)
  BY DEF Total, SumFunction, Credits
<1>3. SumFunctionOnSet(Credits(rows), Position) \in Int
  BY <1>1, PositionAssumption, SumInt
<1> QED
  BY <1>1, <1>2, <1>3

\* Rows that differ in S alone: their totals differ by what S earned.
LEMMA TotalMoves ==
  ASSUME NEW old \in [Position -> Row], NEW new \in [Position -> Row],
         NEW S \in SUBSET Position, \A p \in Position \ S : new[p] = old[p]
  PROVE  Total(new) - Total(old)
           = SumFunction([p \in S |-> Credits(new)[p] - Credits(old)[p]])
<1> DEFINE d == [p \in S |-> Credits(new)[p] - Credits(old)[p]]
<1>1. SumFunction(d) = SumFunctionOnSet(d, S)
  BY DEF SumFunction
<1>2. \A p \in Position : Credits(old)[p] \in Int /\ Credits(new)[p] \in Int
  BY TotalValue
<1>3. \A p \in Position \ S : Credits(new)[p] = Credits(old)[p]
  BY DEF Credits
<1>4. \A p \in S : d[p] = Credits(new)[p] - Credits(old)[p]
  OBVIOUS
<1> HIDE DEF d
<1>5. SumFunctionOnSet(Credits(new), Position) - SumFunctionOnSet(Credits(old), Position)
        = SumFunctionOnSet(d, S)
  BY <1>2, <1>3, <1>4, PositionAssumption, SumMoves
<1> QED
  BY <1>1, <1>5, TotalValue DEF d

LEMMA TotalMovesOne ==
  ASSUME NEW old \in [Position -> Row], NEW p \in Position, NEW r \in Row
  PROVE  Total([old EXCEPT ![p] = r]) = Total(old) + Credit(r) - Credit(old[p])
<1> DEFINE new == [old EXCEPT ![p] = r]
           d == [q \in {p} |-> Credits(new)[q] - Credits(old)[q]]
<1>1. new \in [Position -> Row] /\ new[p] = r
      /\ \A q \in Position \ {p} : new[q] = old[q]
  OBVIOUS
<1> HIDE DEF new
<1>2. /\ Total(new) \in Int /\ Total(old) \in Int
      /\ Credits(new)[p] = Credit(r) /\ Credits(old)[p] = Credit(old[p])
      /\ Credit(r) \in Int /\ Credit(old[p]) \in Int
  BY <1>1, TotalValue
<1>3. Total(new) - Total(old) = SumFunction(d)
  BY <1>1, TotalMoves
<1>4. SumFunction(d) = SumFunctionOnSet(d, {p}) /\ d[p] = Credit(r) - Credit(old[p])
      /\ d[p] \in Int
  BY <1>2 DEF SumFunction
<1> HIDE DEF d
<1>5. SumFunctionOnSet(d, {p}) = d[p]
  BY <1>4, SumOne
<1> QED
  BY <1>2, <1>3, <1>4, <1>5 DEF new

LEMMA BookedWorth ==
  ASSUME NEW v \in View, NEW p \in Position, NEW r \in Row, NEW amount \in Int
  PROVE  Worth(Booked(v, p, r, amount)) = Worth(v) + amount - Credit(r) + Credit(v.rows[p])
<1>1. v.rows \in [Position -> Row] /\ v.acct \in Int
  BY DEF View
<1>2. /\ Booked(v, p, r, amount).acct = v.acct + amount
      /\ Booked(v, p, r, amount).rows = [v.rows EXCEPT ![p] = r]
  BY DEF Booked
<1>3. Total(v.rows) \in Int /\ Credit(r) \in Int /\ Credit(v.rows[p]) \in Int
  BY <1>1, TotalValue, CreditValue
<1> QED
  BY <1>1, <1>2, <1>3, TotalMovesOne DEF Worth

LEMMA WorthValue == \A v \in View : Worth(v) \in Int
BY TotalValue DEF Worth, View

\* What every operation on a view does: worth, grid and recommendations stay.
Fair(v, w) ==
  /\ Worth(w) = Worth(v)
  /\ EvenView(v) => EvenView(w)
  /\ \A p \in Position : w.rows[p].rec = v.rows[p].rec

LEMMA FairTransitive ==
  ASSUME NEW u, NEW v, NEW w, Fair(u, v), Fair(v, w)
  PROVE  Fair(u, w)
BY DEF Fair

\* A booking is fair if it moves the account by what the row's credit changes.
LEMMA BookedFair ==
  ASSUME NEW v \in View, NEW p \in Position, NEW r \in Row, NEW amount \in Int,
         amount = Credit(r) - Credit(v.rows[p]),
         r.rec = v.rows[p].rec,
         EvenView(v) => Even(amount) /\ EvenRow(r)
  PROVE  Fair(v, Booked(v, p, r, amount))
<1> DEFINE w == Booked(v, p, r, amount)
<1>1. w.acct = v.acct + amount /\ w.rows = [v.rows EXCEPT ![p] = r]
  BY DEF Booked
<1>2. v.rows \in [Position -> Row] /\ v.acct \in Int
  BY DEF View
<1>3. Credit(r) \in Int /\ Credit(v.rows[p]) \in Int /\ Worth(v) \in Int
  BY <1>2, CreditValue, WorthValue
<1>4. Worth(w) = Worth(v) + amount - Credit(r) + Credit(v.rows[p])
  BY BookedWorth
<1>5. w.rows[p] = r /\ \A q \in Position \ {p} : w.rows[q] = v.rows[q]
  BY <1>1, <1>2
<1> HIDE DEF w
<1>6. ASSUME EvenView(v) PROVE EvenView(w)
  <2>1. Even(v.acct + amount)
    BY <1>6, EvenValues DEF EvenView
  <2>2. \A q \in Position : EvenRow(w.rows[q])
    BY <1>5, <1>6 DEF EvenView
  <2> QED
    BY <1>1, <2>1, <2>2 DEF EvenView
<1>7. Worth(w) = Worth(v)
  BY <1>3, <1>4
<1>8. \A q \in Position : w.rows[q].rec = v.rows[q].rec
  BY <1>5
<1> QED
  BY <1>6, <1>7, <1>8 DEF Fair, w

LEMMA MarkedRow ==
  ASSUME NEW r \in Row, NEW flag \in BOOLEAN
  PROVE  LET m == [r EXCEPT !.applied = flag] IN
         /\ m \in Row /\ m.rec = r.rec /\ m.applied = flag
         /\ Realized(m) = Realized(r)
         /\ EvenRow(m) <=> EvenRow(r)
BY DEF Row, Realized, PositionPnl, Side, EvenRow

LEMMA ApplyFair ==
  ASSUME NEW v \in View, NEW p \in Position
  PROVE  Fair(v, ApplyPnl(v, p))
<1>1. v.rows[p] \in Row /\ Realized(v.rows[p]) \in Int
  BY RealizedValue DEF View
<1>2. CASE v.rows[p].applied
  BY <1>2 DEF ApplyPnl, Fair
<1>3. CASE ~v.rows[p].applied
  <2> DEFINE r == [v.rows[p] EXCEPT !.applied = TRUE]
  <2>0. PICK a \in Int : a = Realized(v.rows[p])
    BY <1>1
  <2>1. /\ r \in Row /\ r.rec = v.rows[p].rec /\ r.applied
        /\ Realized(r) = Realized(v.rows[p])
        /\ EvenRow(r) <=> EvenRow(v.rows[p])
    BY <1>1, MarkedRow
  <2>2. ApplyPnl(v, p) = Booked(v, p, r, a)
    BY <1>3, <2>0 DEF ApplyPnl
  <2>3. EvenRow(v.rows[p]) => Even(a)
    BY <1>1, <2>0, EvenRealized
  <2> HIDE DEF r
  <2>4. Credit(v.rows[p]) = 0 /\ Credit(r) = a
    BY <1>3, <2>0, <2>1 DEF Credit
  <2>5. EvenView(v) => Even(a) /\ EvenRow(r)
    BY <2>1, <2>3 DEF EvenView
  <2>6. a = Credit(r) - Credit(v.rows[p])
    BY <2>4
  <2> QED
    BY <2>1, <2>2, <2>3, <2>5, <2>6, BookedFair
<1> QED
  BY <1>2, <1>3

LEMMA ReverseFair ==
  ASSUME NEW v \in View, NEW p \in Position
  PROVE  Fair(v, ReversePnl(v, p))
<1>1. v.rows[p] \in Row /\ Realized(v.rows[p]) \in Int
  BY RealizedValue DEF View
<1>2. CASE ~v.rows[p].applied
  BY <1>2 DEF ReversePnl, Fair
<1>3. CASE v.rows[p].applied
  <2> DEFINE r == [v.rows[p] EXCEPT !.applied = FALSE]
  <2>0. PICK a \in Int : a = -Realized(v.rows[p])
    BY <1>1
  <2>1. /\ r \in Row /\ r.rec = v.rows[p].rec /\ ~r.applied
        /\ EvenRow(r) <=> EvenRow(v.rows[p])
    BY <1>1, MarkedRow
  <2>2. ReversePnl(v, p) = Booked(v, p, r, a)
    BY <1>3, <2>0 DEF ReversePnl
  <2>3. EvenRow(v.rows[p]) => Even(a)
    BY <1>1, <2>0, EvenRealized, EvenValues
  <2> HIDE DEF r
  <2>4. Credit(v.rows[p]) = Realized(v.rows[p]) /\ Credit(r) = 0
    BY <1>3, <2>1 DEF Credit
  <2>5. EvenView(v) => Even(a) /\ EvenRow(r)
    BY <2>1, <2>3 DEF EvenView
  <2>6. a = Credit(r) - Credit(v.rows[p])
    BY <1>1, <2>0, <2>4
  <2> QED
    BY <2>1, <2>2, <2>3, <2>5, <2>6, BookedFair
<1> QED
  BY <1>2, <1>3

\* Changing an unapplied row books nothing.
LEMMA UnappliedFair ==
  ASSUME NEW v \in View, NEW p \in Position, NEW r \in Row,
         ~v.rows[p].applied, ~r.applied, r.rec = v.rows[p].rec,
         EvenView(v) => EvenRow(r)
  PROVE  Fair(v, Booked(v, p, r, 0)) /\ Booked(v, p, r, 0) \in View
<1>1. 0 = Credit(r) - Credit(v.rows[p])
  BY DEF Credit
<1>2. 0 \in Int /\ Even(0)
  BY EvenValues
<1>3. Fair(v, Booked(v, p, r, 0))
  BY <1>1, <1>2, BookedFair
<1>4. Booked(v, p, r, 0) \in View
  BY <1>2, BookedView
<1> QED
  BY <1>3, <1>4

LEMMA SoldFair ==
  ASSUME NEW v \in View, NEW p \in Position, NEW price \in Price, OnTheGrid,
         ~v.rows[p].applied
  PROVE  Fair(v, Sold(v, p, price))
<1> DEFINE r == [v.rows[p] EXCEPT !.status = "closed_sold", !.close = price]
<1>1. v.rows[p] \in Row /\ price \in Int /\ Even(price)
  BY InputAssumption, EvenValues DEF View, OnTheGrid
<1>2. /\ r \in Row /\ r.rec = v.rows[p].rec /\ ~r.applied
      /\ r.close = price /\ r.entry = v.rows[p].entry
  BY <1>1 DEF Row, Status, Closed
<1>3. Sold(v, p, price) = ApplyPnl(Booked(v, p, r, 0), p)
  BY DEF Sold
<1> HIDE DEF r
<1>4. EvenView(v) => EvenRow(r)
  BY <1>1, <1>2 DEF EvenView, EvenRow
<1>5. Fair(v, Booked(v, p, r, 0)) /\ Booked(v, p, r, 0) \in View
  BY <1>2, <1>4, UnappliedFair
<1> QED
  BY <1>3, <1>5, ApplyFair, FairTransitive

LEMMA SoldStatus ==
  ASSUME NEW v \in View, NEW p \in Position, NEW price \in Price
  PROVE  Sold(v, p, price) \in View /\ Sold(v, p, price).rows[p].status = "closed_sold"
<1>1. PICK r \in Row : /\ Sold(v, p, price) \in View
                      /\ Sold(v, p, price).rows = [v.rows EXCEPT ![p] = r]
                      /\ r.status = "closed_sold"
  BY SoldRow
<1> QED
  BY <1>1 DEF View

LEMMA ExpiredFair ==
  ASSUME NEW v \in View, NEW p \in Position, ~v.rows[p].applied
  PROVE  Fair(v, Expired(v, p))
<1> DEFINE r == [v.rows[p] EXCEPT !.status = "closed_expired"]
<1>1. v.rows[p] \in Row
  BY DEF View
<1>2. /\ r \in Row /\ r.rec = v.rows[p].rec /\ ~r.applied
      /\ r.close = v.rows[p].close /\ r.entry = v.rows[p].entry
  BY <1>1 DEF Row, Status, Closed
<1>3. Expired(v, p) = ApplyPnl(Booked(v, p, r, 0), p)
  BY DEF Expired
<1> HIDE DEF r
<1>4. EvenView(v) => EvenRow(r)
  BY <1>1, <1>2 DEF EvenView, EvenRow
<1>5. Fair(v, Booked(v, p, r, 0)) /\ Booked(v, p, r, 0) \in View
  BY <1>2, <1>4, UnappliedFair
<1> QED
  BY <1>3, <1>5, ApplyFair, FairTransitive

LEMMA ModifiedFair ==
  ASSUME NEW v \in View, NEW p \in Position, NEW field \in Field, NEW value \in Nat,
         field # "qty" => Even(value)
  PROVE  Fair(v, Modified(v, p, field, value))
<1> DEFINE w == ReversePnl(v, p)
           e == Edited(w.rows[p], field, value)
           x == Booked(w, p, e, 0)
<1>1. w \in View /\ w.rows[p] \in Row /\ ~w.rows[p].applied /\ Fair(v, w)
  <2>1. w \in View /\ w.rows = [v.rows EXCEPT ![p] = [v.rows[p] EXCEPT !.applied = FALSE]]
    BY ReverseView
  <2>2. w.rows[p] = [v.rows[p] EXCEPT !.applied = FALSE] /\ v.rows[p] \in Row
    BY <2>1 DEF View
  <2>3. ~w.rows[p].applied
    BY <2>2, MarkedRow
  <2> QED
    BY <2>1, <2>3, ReverseFair DEF View
<1> HIDE DEF w
<1>2. e \in Row /\ e.applied = w.rows[p].applied
  BY <1>1, EditedRow
<1>3. e.rec = w.rows[p].rec /\ (EvenRow(w.rows[p]) => EvenRow(e))
  <2>1. CASE field = "entry"
    BY <1>1, <2>1 DEF Edited, Row, EvenRow
  <2>2. CASE field = "close"
    BY <1>1, <2>2 DEF Edited, Row, EvenRow
  <2>3. CASE field = "qty"
    BY <1>1, <2>3 DEF Edited, Row, EvenRow
  <2> QED
    BY <2>1, <2>2, <2>3 DEF Field
<1> HIDE DEF e
<1>4. Fair(w, x) /\ x \in View
  BY <1>1, <1>2, <1>3, UnappliedFair DEF EvenView
<1>5. Modified(v, p, field, value) = ApplyPnl(x, p)
  BY DEF Modified, w, e
<1> HIDE DEF x
<1> QED
  BY <1>1, <1>4, <1>5, ApplyFair, FairTransitive

-----------------------------------------------------------------------------
(***************************************************************************)
(* One session at a time: what it has read is what the tables still hold.  *)
(***************************************************************************)
Fresh ==
  \A s \in Session :
    /\ pc[s] \in {"user", "work"} => seen[s].acct = account
    /\ pc[s] \in {"rows", "work"} => seen[s].rows = pos
    /\ pc[s] = "work" /\ req[s].op = "delete" => pos[req[s].pos].status = "active"
    /\ pc[s] = "work" /\ req[s].op = "erase" => pos[req[s].pos].status \in Closed

FreshInv == RowsInv /\ SerialInv /\ Fresh

Ending(s) ==
  \/ Rollback(s) \/ Buy(s) \/ Sell(s) \/ Modify(s) \/ Erase(s) \/ Delete(s)
  \/ Resize(s) \/ CommitExpired(s)

\* A step that ends a session ends the only one.
LEMMA EndingEnds ==
  ASSUME NEW s \in Session, Ending(s), RowsInv, OneAtATime
  PROVE  InUse(s) /\ Close(s) /\ \A t \in Session : pc'[t] \notin {"user", "rows", "work"}
<1>1. InUse(s) /\ Close(s)
  BY DEF Ending, InUse, Rollback, Buy, Sell, Modify, Erase, Delete, Resize,
         CommitExpired, Working, Commit
<1>2. \A t \in Session : pc'[t] \notin {"user", "rows", "work"}
  BY <1>1 DEF Close, OneAtATime, InUse, RowsInv, TypeOK
<1> QED
  BY <1>1, <1>2

LEMMA FreshInitially == Init => Fresh
BY DEF Init, Fresh

LEMMA FreshStep ==
  ASSUME FreshInv, ~Interleaved, [Next]_vars
  PROVE  Fresh'
<1> USE DEF FreshInv, RowsInv, TypeOK
<1>1. ASSUME NEW s \in Session, NEW r \in Tap, ReadUser(s, r)
      PROVE  Fresh'
  <2>1. [NoView EXCEPT !.acct = account, !.past = due].acct = account
    BY DEF NoView
  <2>2. seen'[s].acct = account /\ pc'[s] = "user"
    BY <1>1, <2>1 DEF ReadUser
  <2>3. \A t \in Session \ {s} : pc'[t] = pc[t] /\ seen'[t] = seen[t] /\ req'[t] = req[t]
    BY <1>1 DEF ReadUser
  <2>4. account' = account /\ pos' = pos
    BY <1>1 DEF ReadUser
  <2> QED
    BY <2>2, <2>3, <2>4 DEF Fresh
<1>2. ASSUME NEW s \in Session, ReadRows(s)
      PROVE  Fresh'
  <2>1. seen' = [seen EXCEPT ![s] = [seen[s] EXCEPT !.rows = pos]]
    BY <1>2 DEF ReadRows
  <2>2. [seen[s] EXCEPT !.rows = pos].rows = pos
        /\ [seen[s] EXCEPT !.rows = pos].acct = seen[s].acct
    BY DEF View
  <2>3. seen'[s].rows = pos /\ seen'[s].acct = account
    BY <1>2, <2>1, <2>2 DEF ReadRows, Fresh
  <2>4. \A t \in Session \ {s} : pc'[t] = pc[t] /\ seen'[t] = seen[t] /\ req'[t] = req[t]
    BY <1>2 DEF ReadRows
  <2>5. account' = account /\ pos' = pos /\ req' = req
    BY <1>2 DEF ReadRows
  <2>6. /\ req[s].op = "delete" => pos[req[s].pos].status = "active"
        /\ req[s].op = "erase" => pos[req[s].pos].status \in Closed
    BY <1>2 DEF ReadRows, Found
  <2> QED
    BY <2>3, <2>4, <2>5, <2>6 DEF Fresh
<1>3. ASSUME NEW s \in Session, PollReadRows(s)
      PROVE  Fresh'
  <2>1. [NoView EXCEPT !.rows = pos, !.past = due].rows = pos
    BY DEF NoView
  <2>2. seen'[s].rows = pos /\ pc'[s] = "rows"
    BY <1>3, <2>1 DEF PollReadRows
  <2>3. \A t \in Session \ {s} : pc'[t] = pc[t] /\ seen'[t] = seen[t] /\ req'[t] = req[t]
    BY <1>3 DEF PollReadRows
  <2>4. account' = account /\ pos' = pos
    BY <1>3 DEF PollReadRows
  <2> QED
    BY <2>2, <2>3, <2>4 DEF Fresh
<1>4. ASSUME NEW s \in Session, PollReadUser(s)
      PROVE  Fresh'
  <2>1. seen' = [seen EXCEPT ![s] = [seen[s] EXCEPT !.acct = account]]
    BY <1>4 DEF PollReadUser
  <2>2. [seen[s] EXCEPT !.acct = account].rows = seen[s].rows
        /\ [seen[s] EXCEPT !.acct = account].acct = account
    BY DEF View
  <2>3. seen'[s].rows = pos /\ seen'[s].acct = account
    BY <1>4, <2>1, <2>2 DEF PollReadUser, Fresh
  <2>4. \A t \in Session \ {s} : pc'[t] = pc[t] /\ seen'[t] = seen[t] /\ req'[t] = req[t]
    BY <1>4 DEF PollReadUser
  <2>5. account' = account /\ pos' = pos /\ req' = req
    BY <1>4 DEF PollReadUser
  <2>6. req[s].op = "poll"
    BY <1>4 DEF PollReadUser, Polling
  <2> QED
    BY <2>3, <2>4, <2>5, <2>6 DEF Fresh
<1>5. ASSUME NEW s \in Session, Ending(s)
      PROVE  Fresh'
  BY <1>5, EndingEnds DEF Fresh, SerialInv
<1>6. ASSUME NEW s \in Session, NEW p \in Position, CloseExpired(s, p)
      PROVE  Fresh'
  BY <1>6 DEF CloseExpired, Fresh
<1>7. ASSUME NEW r \in Rec, ExpiryPasses(r)
      PROVE  Fresh'
  BY <1>7 DEF ExpiryPasses, Fresh
<1>8. CASE UNCHANGED vars
  BY <1>8 DEF vars, Fresh
<1> QED
  BY <1>1, <1>2, <1>3, <1>4, <1>5, <1>6, <1>7, <1>8 DEF Next, Ending

LEMMA FreshInvStep ==
  ASSUME FreshInv, ~Interleaved, [Next]_vars
  PROVE  FreshInv'
BY RowsInvStep, SerialInvStep, FreshStep DEF FreshInv

THEOREM FreshInvariant == ASSUME ~Interleaved PROVE Spec => []FreshInv
<1>1. FreshInv /\ [Next]_vars => FreshInv'
  BY FreshInvStep
<1>2. Init => FreshInv
  BY RowsInvInitially, SerialInvInitially, FreshInitially DEF FreshInv
<1> QED
  BY <1>1, <1>2, PTL DEF Spec

-----------------------------------------------------------------------------
(* The feedback log.                                                        *)

ActiveOf(rows, r) == {p \in Position : rows[p].status = "active" /\ rows[p].rec = r}
Tracked(rows, r) == Cardinality(ActiveOf(rows, r))

LEMMA FillsCount ==
  FillsAreLogged <=>
    \A r \in Rec : feedback[r].closed + Tracked(pos, r) <= feedback[r].bought
BY DEF FillsAreLogged, Tracked, ActiveOf

LEMMA TrackedFewer ==
  ASSUME NEW S \in SUBSET Position, NEW T \in SUBSET S
  PROVE  /\ Cardinality(S) \in Nat /\ Cardinality(T) \in Nat
         /\ Cardinality(T) <= Cardinality(S)
         /\ \A p \in S \ T : Cardinality(T) + 1 <= Cardinality(S)
         /\ S = {} => Cardinality(S) = 0
<1>1. IsFiniteSet(S) /\ IsFiniteSet(T)
  BY PositionAssumption, FS_Subset
<1>2. /\ Cardinality(S) \in Nat /\ Cardinality(T) \in Nat
      /\ Cardinality(T) <= Cardinality(S)
  BY <1>1, FS_CardinalityType, FS_Subset
<1>3. ASSUME NEW p \in S \ T PROVE Cardinality(T) + 1 <= Cardinality(S)
  <2>1. T \in SUBSET (S \ {p}) /\ IsFiniteSet(S \ {p})
    BY <1>1, FS_RemoveElement
  <2>2. Cardinality(T) <= Cardinality(S \ {p})
    BY <2>1, FS_Subset
  <2>3. Cardinality(S \ {p}) = Cardinality(S) - 1
    BY <1>1, FS_RemoveElement
  <2> QED
    BY <1>2, <2>2, <2>3
<1> QED
  BY <1>2, <1>3, FS_EmptySet

\* No new active row and no entry in the log.
LEMMA UnloggedKeeps ==
  ASSUME RowsInv, Moves, feedback' = feedback, FillsAreLogged
  PROVE  FillsAreLogged'
<1> SUFFICES ASSUME NEW r \in Rec
             PROVE  feedback[r].closed + Tracked(pos', r) <= feedback[r].bought
  BY DEF FillsAreLogged, Tracked, ActiveOf
<1>1. feedback[r].closed \in Nat /\ feedback[r].bought \in Nat
  BY DEF RowsInv, TypeOK
<1>2. ActiveOf(pos', r) \subseteq ActiveOf(pos, r) /\ ActiveOf(pos, r) \subseteq Position
  BY DEF Moves, ActiveOf
<1>3. /\ Tracked(pos', r) <= Tracked(pos, r)
      /\ Tracked(pos', r) \in Nat /\ Tracked(pos, r) \in Nat
  BY <1>2, TrackedFewer DEF Tracked
<1> QED
  BY <1>1, <1>3, FillsCount

LEMMA FillsStep ==
  ASSUME FreshInv, ~Interleaved, [Next]_vars, FillsAreLogged
  PROVE  FillsAreLogged'
<1> USE DEF FreshInv
<1>0. /\ feedback \in [Rec -> [bought : Nat, closed : Nat]]
      /\ pos \in [Position -> Row] /\ \A p \in Position : pos[p].rec \in Rec
  BY DEF RowsInv, TypeOK, Row
<1>1. ASSUME NEW s \in Session, Buy(s)
      PROVE  FillsAreLogged'
  <2>1. req[s].rec \in Rec
    BY <1>1, RequestValues DEF Buy, Working, RowsInv, TypeOK
  <2>2. PICK p \in Position : /\ pos[p].status = "absent"
                              /\ pos' = [pos EXCEPT ![p] = NewRow(req[s])]
    BY <1>1 DEF Buy
  <2>3. NewRow(req[s]).rec = req[s].rec
    BY DEF NewRow
  <2> SUFFICES ASSUME NEW r \in Rec
               PROVE  feedback'[r].closed + Tracked(pos', r) <= feedback'[r].bought
    BY DEF FillsAreLogged, Tracked, ActiveOf
  <2>4. pos'[p] = NewRow(req[s]) /\ \A q \in Position \ {p} : pos'[q] = pos[q]
    BY <1>0, <2>2
  <2>5. feedback[r].closed \in Nat /\ feedback[r].bought \in Nat
        /\ feedback[r].closed + Tracked(pos, r) <= feedback[r].bought
    BY <1>0, FillsCount
  <2>6. CASE r = req[s].rec
    <3>1. ActiveOf(pos', r) \ {p} \subseteq ActiveOf(pos, r) /\ ActiveOf(pos', r) \subseteq Position
      BY <2>4 DEF ActiveOf
    <3>2. IsFiniteSet(ActiveOf(pos', r)) /\ IsFiniteSet(ActiveOf(pos, r))
      BY <3>1, PositionAssumption, FS_Subset DEF ActiveOf
    <3>3. /\ Tracked(pos', r) \in Nat /\ Tracked(pos, r) \in Nat
          /\ Tracked(pos', r) <= Tracked(pos, r) + 1
      <4>1. /\ Cardinality(ActiveOf(pos', r) \ {p}) <= Tracked(pos, r)
            /\ Tracked(pos, r) \in Nat /\ Tracked(pos', r) \in Nat
        BY <3>1, <3>2, FS_Subset, FS_CardinalityType DEF Tracked
      <4>2. \/ Cardinality(ActiveOf(pos', r) \ {p}) = Tracked(pos', r) - 1
            \/ Cardinality(ActiveOf(pos', r) \ {p}) = Tracked(pos', r)
        BY <3>2, FS_RemoveElement DEF Tracked
      <4> QED
        BY <4>1, <4>2
    <3>4. feedback'[r].closed = feedback[r].closed /\ feedback'[r].bought = feedback[r].bought + 1
      BY <1>0, <1>1, <2>6 DEF Buy
    <3> QED
      BY <2>5, <3>3, <3>4
  <2>7. CASE r # req[s].rec
    <3>1. ActiveOf(pos', r) \subseteq ActiveOf(pos, r) /\ ActiveOf(pos, r) \subseteq Position
      BY <2>3, <2>4, <2>7 DEF ActiveOf
    <3>2. /\ Tracked(pos', r) <= Tracked(pos, r)
          /\ Tracked(pos', r) \in Nat /\ Tracked(pos, r) \in Nat
      BY <3>1, TrackedFewer DEF Tracked
    <3>3. feedback'[r] = feedback[r]
      BY <1>0, <1>1, <2>1, <2>7 DEF Buy
    <3> QED
      BY <2>5, <3>2, <3>3
  <2> QED
    BY <2>6, <2>7
<1>2. ASSUME NEW s \in Session, Sell(s), Moves
      PROVE  FillsAreLogged'
  <2> DEFINE p == req[s].pos
             v == Sold(mine[s], req[s].pos, req[s].price)
  <2>1. p \in Position /\ req[s].price \in Price /\ mine[s] \in View /\ seen[s] \in View
    BY <1>2, RequestValues DEF Sell, Working, RowsInv, TypeOK
  <2>2. pos[p].status = "active" /\ seen[s].rows = pos
    BY <1>2 DEF Sell, Working, RowsInv, Ready, Fresh
  <2>3. v.rows[p].status = "closed_sold"
    BY <2>1, SoldStatus
  <2>4. pos' = MergedRows(s, v) /\ feedback' = [feedback EXCEPT ![pos[p].rec].closed = @ + 1]
    BY <1>2 DEF Sell, Commit
  <2> HIDE DEF p, v
  <2>5. pos'[p].status = "closed_sold"
    BY <2>1, <2>2, <2>3, <2>4 DEF MergedRows, MergedRow, Written
  <2> SUFFICES ASSUME NEW r \in Rec
               PROVE  feedback'[r].closed + Tracked(pos', r) <= feedback'[r].bought
    BY DEF FillsAreLogged, Tracked, ActiveOf
  <2>6. feedback[r].closed \in Nat /\ feedback[r].bought \in Nat
        /\ feedback[r].closed + Tracked(pos, r) <= feedback[r].bought
    BY <1>0, FillsCount
  <2>7. ActiveOf(pos', r) \subseteq ActiveOf(pos, r) /\ ActiveOf(pos, r) \subseteq Position
    BY <1>2 DEF Moves, ActiveOf
  <2>8. p \notin ActiveOf(pos', r) /\ (pos[p].rec = r => p \in ActiveOf(pos, r))
    BY <2>1, <2>2, <2>5 DEF ActiveOf
  <2>9. /\ Tracked(pos', r) \in Nat /\ Tracked(pos, r) \in Nat
        /\ Tracked(pos', r) <= Tracked(pos, r)
        /\ pos[p].rec = r => Tracked(pos', r) + 1 <= Tracked(pos, r)
    BY <2>7, <2>8, TrackedFewer DEF Tracked
  <2>10. /\ feedback'[r].bought = feedback[r].bought
         /\ feedback'[r].closed = IF pos[p].rec = r THEN feedback[r].closed + 1
                                                    ELSE feedback[r].closed
    BY <1>0, <2>4
  <2> QED
    BY <2>6, <2>9, <2>10
<1>3. ASSUME NEW s \in Session, Delete(s), Moves
      PROVE  FillsAreLogged'
  <2> DEFINE p == req[s].pos
  <2>1. p \in Position
    BY <1>3, RequestValues DEF Delete, Working, RowsInv, TypeOK
  <2>2. pos[p].status = "active" /\ seen[s].rows = pos
    BY <1>3 DEF Delete, Working, Fresh
  <2>3. /\ pos' = [pos EXCEPT ![p] = DeletedRow]
        /\ feedback' = [feedback EXCEPT ![pos[p].rec] = [bought |-> 0, closed |-> 0]]
    BY <1>3, <2>2 DEF Delete
  <2> HIDE DEF p
  <2>4. pos'[p].status = "deleted"
    BY <1>0, <2>1, <2>3 DEF DeletedRow, NoRow
  <2> SUFFICES ASSUME NEW r \in Rec
               PROVE  feedback'[r].closed + Tracked(pos', r) <= feedback'[r].bought
    BY DEF FillsAreLogged, Tracked, ActiveOf
  <2>5. feedback[r].closed \in Nat /\ feedback[r].bought \in Nat
        /\ feedback[r].closed + Tracked(pos, r) <= feedback[r].bought
    BY <1>0, FillsCount
  <2>6. ActiveOf(pos', r) \subseteq ActiveOf(pos, r) /\ ActiveOf(pos, r) \subseteq Position
    BY <1>3 DEF Moves, ActiveOf
  <2>7. /\ Tracked(pos', r) \in Nat /\ Tracked(pos, r) \in Nat
        /\ Tracked(pos', r) <= Tracked(pos, r)
    BY <2>6, TrackedFewer DEF Tracked
  <2>8. CASE r = pos[p].rec
    <3>1. \A q \in ActiveOf(pos, r) : q = p
      BY <2>1, <2>2, <2>8 DEF ActiveOf, SerialInv, TrackedSingly
    <3>2. ActiveOf(pos', r) = {}
      BY <2>4, <2>6, <3>1 DEF ActiveOf
    <3>3. Tracked(pos', r) = 0
      BY <3>2, FS_EmptySet DEF Tracked
    <3>4. feedback'[r].bought = 0 /\ feedback'[r].closed = 0
      BY <1>0, <2>3, <2>8
    <3> QED
      BY <3>3, <3>4
  <2>9. CASE r # pos[p].rec
    <3>1. feedback'[r] = feedback[r]
      BY <1>0, <2>1, <2>3, <2>9
    <3> QED
      BY <2>5, <2>7, <3>1
  <2> QED
    BY <2>8, <2>9
<1>4. Moves \/ \E s \in Session : Buy(s)
  BY RowsInvStep
<1>5. \/ feedback' = feedback
      \/ \E s \in Session : Buy(s) \/ Sell(s) \/ Delete(s)
  BY DEF Next, vars, ReadUser, ReadRows, PollReadRows, PollReadUser, Rollback, Modify,
         Erase, Resize, CommitExpired, CloseExpired, ExpiryPasses
<1> QED
  BY <1>1, <1>2, <1>3, <1>4, <1>5, UnloggedKeeps

\* While sessions do not overlap, the feedback log has a fill for every active
\* position and for every sale, whatever is bought, sold, edited or removed.
THEOREM FillsLogged == ASSUME ~Interleaved PROVE Spec => []FillsAreLogged
<1>1. FreshInv /\ FillsAreLogged /\ [Next]_vars => FillsAreLogged'
  BY FillsStep
<1>2. Init => FillsAreLogged
  <2> SUFFICES ASSUME Init PROVE FillsAreLogged
    OBVIOUS
  <2>1. \A r \in Rec : ActiveOf(pos, r) = {}
    BY DEF Init, NoRow, ActiveOf
  <2>2. \A r \in Rec : Tracked(pos, r) = 0
    BY <2>1, FS_EmptySet DEF Tracked
  <2>3. \A r \in Rec : feedback[r].closed = 0 /\ feedback[r].bought = 0
    BY DEF Init
  <2> QED
    BY <2>2, <2>3, FillsCount
<1> QED
  BY <1>1, <1>2, FreshInvariant, PTL DEF Spec

-----------------------------------------------------------------------------
(***************************************************************************)
(* The balance.  While a session is at work, its copy is worth what it     *)
(* read (Fairly); on the grid a commit then moves exactly what it computed.*)
(***************************************************************************)
Fairly == \A s \in Session : pc[s] = "work" => Fair(seen[s], mine[s])
Gridded == Even(account) /\ (\A p \in Position : EvenRow(pos[p])) /\ base \in Int
BalanceInv == FreshInv /\ Fairly /\ Gridded /\ LedgerBalanced

\* What a step that leaves Gridded and the balance as they were has to show.
Keeps ==
  /\ Even(account') /\ \A p \in Position : EvenRow(pos'[p])
  /\ account' - Total(pos') = account - Total(pos)
  /\ base' = base

LEMMA BalancedIs ==
  /\ LedgerBalanced <=> account = base + Total(pos)
  /\ LedgerBalanced' <=> account' = base' + Total(pos')
BY DEF LedgerBalanced, AppliedTotal, Total, Credits

LEMMA KeptKeeps ==
  ASSUME BalanceInv, Keeps, pos' \in [Position -> Row]
  PROVE  Gridded' /\ LedgerBalanced'
<1>1. account \in Int /\ account' \in Int /\ base \in Int
  BY EvenValues DEF BalanceInv, Gridded, Keeps
<1>2. Total(pos) \in Int /\ Total(pos') \in Int
  BY TotalValue DEF BalanceInv, FreshInv, RowsInv, TypeOK
<1>3. account' = base' + Total(pos')
  BY <1>1, <1>2, BalancedIs DEF BalanceInv, Keeps
<1>4. Gridded'
  <2>1. \A x : Even(x) <=> \E k \in Int : x = 2 * k
    BY DEF Even
  <2> QED
    BY <1>1 DEF Gridded, Keeps, Even, EvenRow
<1> QED
  BY <1>3, <1>4, BalancedIs

\* One row replaced by another of the same credit, the account left alone.
LEMMA ReplacedKept ==
  ASSUME BalanceInv, NEW p \in Position, NEW r \in Row, EvenRow(r),
         pos' = [pos EXCEPT ![p] = r], Credit(r) = Credit(pos[p]),
         account' = account, base' = base
  PROVE  Keeps /\ pos' \in [Position -> Row]
<1>1. pos \in [Position -> Row]
  BY DEF BalanceInv, FreshInv, RowsInv, TypeOK
<1>2. Total(pos') = Total(pos) + Credit(r) - Credit(pos[p])
  BY <1>1, TotalMovesOne
<1>3. Credit(r) \in Int /\ Total(pos) \in Int /\ account \in Int
  BY <1>1, CreditValue, TotalValue, EvenValues DEF BalanceInv, Gridded
<1>4. account' - Total(pos') = account - Total(pos)
  BY <1>2, <1>3
<1>5. \A q \in Position : EvenRow(pos'[q])
  BY <1>1 DEF BalanceInv, Gridded
<1> QED
  BY <1>1, <1>4, <1>5 DEF Keeps, BalanceInv, Gridded

\* Columns written as they are: a merge into the row that was read.
LEMMA MergedSame ==
  ASSUME NEW old \in Row, NEW new \in Row, new.rec = old.rec, EvenRow(new)
  PROVE  MergedRow(old, old, new) = new
<1>1. StoredPrice(new.entry) = new.entry
  BY EvenValues DEF EvenRow, StoredPrice
<1>2. StoredPrice(new.close) = new.close
  BY EvenValues DEF EvenRow, StoredPrice
<1> QED
  BY <1>1, <1>2 DEF MergedRow, Written, Row

LEMMA SerialRead ==
  ASSUME BalanceInv, NEW s \in Session, pc[s] = "work"
  PROVE  /\ seen[s].rows = pos /\ seen[s].acct = account
         /\ seen[s] \in View /\ mine[s] \in View
         /\ EvenView(seen[s])
BY DEF BalanceInv, FreshInv, Fresh, Gridded, EvenView, RowsInv, TypeOK

LEMMA SerialAccount ==
  ASSUME BalanceInv, NEW s \in Session, pc[s] = "work", NEW v \in View, Fair(seen[s], v)
  PROVE  /\ MergedAccount(s, v) = v.acct
         /\ EvenView(v)
         /\ v.acct - Total(v.rows) = account - Total(pos)
<1>1. EvenView(v)
  BY SerialRead DEF Fair
<1>2. v.acct - Total(v.rows) = account - Total(pos)
  BY SerialRead DEF Fair, Worth
<1>3. OnGrid(v.acct) = v.acct
  BY <1>1, EvenValues DEF EvenView
<1>4. v.acct = seen[s].acct => account = v.acct
  BY SerialRead
<1> QED
  BY <1>1, <1>2, <1>3, <1>4 DEF MergedAccount, AccountWritten

LEMMA SerialCommit ==
  ASSUME BalanceInv, NEW s \in Session, pc[s] = "work", NEW v \in View, Fair(seen[s], v),
         Commit(s, v), base' = base
  PROVE  Keeps /\ pos' = v.rows /\ pos' \in [Position -> Row]
<1>1. v.rows \in [Position -> Row] /\ EvenView(v) /\ account' = v.acct
  BY SerialAccount DEF View, Commit
<1>2. ASSUME NEW p \in Position
      PROVE  MergedRow(pos[p], seen[s].rows[p], v.rows[p]) = v.rows[p]
  <2>1. pos[p] = seen[s].rows[p] /\ pos[p] \in Row /\ v.rows[p] \in Row
    BY <1>1, SerialRead DEF View
  <2>2. v.rows[p].rec = pos[p].rec /\ EvenRow(v.rows[p])
    BY <1>1, <2>1 DEF Fair, EvenView
  <2> QED
    BY <2>1, <2>2, MergedSame
<1>3. pos' = v.rows
  BY <1>1, <1>2 DEF Commit, MergedRows
<1>4. account' - Total(pos') = account - Total(pos)
  BY <1>1, <1>3, SerialAccount
<1>5. Even(account') /\ \A p \in Position : EvenRow(pos'[p])
  BY <1>1, <1>3 DEF EvenView
<1> QED
  BY <1>1, <1>3, <1>4, <1>5 DEF Keeps

\* The operations, each with the row it leaves.
LEMMA SellKept ==
  ASSUME BalanceInv, OnTheGrid, NEW s \in Session, Sell(s)
  PROVE  /\ Keeps /\ pos' \in [Position -> Row]
         /\ \E p \in Position : /\ \A q \in Position \ {p} : pos'[q] = pos[q]
                                /\ pos[p].status = "active"
                                /\ pos'[p].status = "closed_sold"
<1> DEFINE p == req[s].pos
           c == req[s].price
           m == mine[s]
           v == Sold(m, p, c)
<1>1. /\ p \in Position /\ c \in Price /\ pc[s] = "work" /\ m = seen[s]
      /\ seen[s].rows[p].status = "active"
  BY RequestValues
     DEF Sell, Working, BalanceInv, FreshInv, RowsInv, TypeOK, Ready, Single
<1>2. Commit(s, v) /\ base' = base
  BY DEF Sell
<1>3. m \in View /\ m.rows = pos
  BY <1>1, SerialRead
<1> HIDE DEF p, c, m
<1>4. ~m.rows[p].applied
  BY <1>1, <1>3 DEF BalanceInv, FreshInv, RowsInv, RowsAgree, RowAgrees, Closed
<1>5. Fair(m, v)
  BY <1>1, <1>3, <1>4, SoldFair
<1>6. v \in View /\ v.rows[p].status = "closed_sold"
  BY <1>1, <1>3, SoldStatus
<1>7. \A q \in Position \ {p} : v.rows[q] = m.rows[q]
  <2>1. m \in View /\ p \in Position /\ c \in Price
    BY <1>1, <1>3
  <2>2. \E r \in Row : /\ Sold(m, p, c).rows = [m.rows EXCEPT ![p] = r]
                      /\ r.status = "closed_sold" /\ r.applied /\ r.close = c
    <3> HIDE DEF v
    <3> QED
      BY <2>1, SoldRow
  <2>3. PICK r \in Row : v.rows = [m.rows EXCEPT ![p] = r]
    BY <2>2
  <2> QED
    BY <2>1, <2>3 DEF View
<1> HIDE DEF v
<1>8. Keeps /\ pos' = v.rows /\ pos' \in [Position -> Row]
  BY <1>1, <1>2, <1>5, <1>6, SerialCommit
<1> QED
  BY <1>1, <1>3, <1>6, <1>7, <1>8

LEMMA ModifyKept ==
  ASSUME BalanceInv, OnTheGrid, NEW s \in Session, Modify(s)
  PROVE  /\ Keeps /\ pos' \in [Position -> Row]
         /\ \E p \in Position : /\ \A q \in Position \ {p} : pos'[q] = pos[q]
                                /\ pos[p].status \in Closed
                                /\ pos'[p].status = pos[p].status
<1> DEFINE p == req[s].pos
           f == req[s].field
           c == req[s].value
           m == mine[s]
           v == Modified(m, p, f, c)
<1>1. /\ p \in Position /\ f \in Field /\ c \in Nat /\ pc[s] = "work" /\ m = seen[s]
      /\ seen[s].rows[p].status \in Closed
  BY RequestValues
     DEF Modify, Working, BalanceInv, FreshInv, RowsInv, TypeOK, Ready, Single
<1>2. Commit(s, v) /\ base' = base
  BY DEF Modify
<1>3. m \in View /\ m.rows = pos
  BY <1>1, SerialRead
<1>4. f # "qty" => Even(c)
  <2>1. req[s] \in Request /\ req[s].op = "modify"
    BY DEF Modify, Working, BalanceInv, FreshInv, RowsInv, TypeOK
  <2>2. f # "qty" => c \in Price
    BY <2>1 DEF Request
  <2> QED
    BY <1>1, <2>2, EvenValues DEF OnTheGrid
<1> HIDE DEF p, f, c, m
<1>5. Fair(m, v)
  BY <1>1, <1>3, <1>4, ModifiedFair
<1>6. /\ v \in View /\ v.rows[p].status = m.rows[p].status
      /\ \A q \in Position \ {p} : v.rows[q] = m.rows[q]
  <2>1. m \in View /\ p \in Position /\ f \in Field /\ c \in Nat /\ m.rows[p].status \in Closed
    BY <1>1, <1>3
  <2>2. /\ Modified(m, p, f, c) \in View
        /\ \E r \in Row : /\ Modified(m, p, f, c).rows = [m.rows EXCEPT ![p] = r]
                         /\ Corrected(m.rows[p], r)
    <3> HIDE DEF v
    <3> QED
      BY <2>1, ModifiedRow
  <2>3. PICK r \in Row : /\ v \in View /\ v.rows = [m.rows EXCEPT ![p] = r]
                         /\ Corrected(m.rows[p], r)
    BY <2>2
  <2> HIDE DEF v
  <2> QED
    BY <2>1, <2>3 DEF View, Corrected
<1> HIDE DEF v
<1>7. Keeps /\ pos' = v.rows /\ pos' \in [Position -> Row]
  BY <1>1, <1>2, <1>5, <1>6, SerialCommit
<1> QED
  BY <1>1, <1>3, <1>6, <1>7

LEMMA RemovedRow ==
  /\ DeletedRow \in Row /\ EvenRow(DeletedRow) /\ Credit(DeletedRow) = 0
  /\ DeletedRow.status = "deleted"
BY RowValues, EvenValues DEF DeletedRow, NoRow, EvenRow, Credit

LEMMA EraseKept ==
  ASSUME BalanceInv, NEW s \in Session, Erase(s)
  PROVE  /\ Keeps /\ pos' \in [Position -> Row]
         /\ \E p \in Position : /\ pos' = [pos EXCEPT ![p] = DeletedRow]
                                /\ pos[p].status \in Closed
<1> DEFINE p == req[s].pos
           m == mine[s]
           v == ReversePnl(m, p)
<1>1. /\ p \in Position /\ pc[s] = "work" /\ m = seen[s] /\ pos[p].status \in Closed
  BY RequestValues
     DEF Erase, Working, BalanceInv, FreshInv, Fresh, RowsInv, TypeOK, Ready, Single
<1>2. account' = MergedAccount(s, v) /\ base' = base /\ pos' = [pos EXCEPT ![p] = DeletedRow]
  BY DEF Erase
<1>3. m \in View /\ m.rows = pos /\ pos \in [Position -> Row]
  BY <1>1, SerialRead DEF View
<1> HIDE DEF p, m
<1>4. v \in View /\ v.rows = [pos EXCEPT ![p] = [pos[p] EXCEPT !.applied = FALSE]] /\ Fair(m, v)
  BY <1>1, <1>3, ReverseView, ReverseFair
<1> HIDE DEF v
<1>5. /\ account' = v.acct /\ EvenView(v)
      /\ v.acct - Total(v.rows) = account - Total(pos)
  BY <1>1, <1>2, <1>4, SerialAccount
<1>6. Total(v.rows) = Total(pos) - Credit(pos[p])
  <2> DEFINE r == [pos[p] EXCEPT !.applied = FALSE]
  <2>1. r \in Row /\ ~r.applied /\ v.rows = [pos EXCEPT ![p] = r]
    BY <1>1, <1>3, <1>4, MarkedRow
  <2> HIDE DEF r
  <2>2. Credit(r) = 0
    BY <2>1 DEF Credit
  <2>3. Total([pos EXCEPT ![p] = r]) = Total(pos) + Credit(r) - Credit(pos[p])
    BY <1>1, <1>3, <2>1, TotalMovesOne
  <2>4. Total(pos) \in Int /\ Credit(pos[p]) \in Int
    BY <1>1, <1>3, TotalValue
  <2> QED
    BY <2>1, <2>2, <2>3, <2>4
<1>7. Total(pos') = Total(pos) - Credit(pos[p])
  <2>1. Total(pos') = Total(pos) + 0 - Credit(pos[p])
    BY <1>1, <1>2, <1>3, RemovedRow, TotalMovesOne
  <2>2. Total(pos) \in Int /\ Credit(pos[p]) \in Int
    BY <1>1, <1>3, TotalValue
  <2> QED
    BY <2>1, <2>2
<1>8. account' - Total(pos') = account - Total(pos)
  BY <1>5, <1>6, <1>7
<1>9. /\ Even(account') /\ \A q \in Position : EvenRow(pos'[q])
      /\ pos' \in [Position -> Row]
  BY <1>1, <1>2, <1>3, <1>5, RemovedRow DEF EvenView, BalanceInv, Gridded
<1> QED
  BY <1>1, <1>2, <1>8, <1>9 DEF Keeps

LEMMA DeleteKept ==
  ASSUME BalanceInv, NEW s \in Session, Delete(s)
  PROVE  /\ Keeps /\ pos' \in [Position -> Row]
         /\ \E p \in Position : /\ pos' = [pos EXCEPT ![p] = DeletedRow]
                                /\ pos[p].status = "active"
<1> DEFINE p == req[s].pos
<1>1. p \in Position /\ pos[p].status = "active"
  BY RequestValues DEF Delete, Working, BalanceInv, FreshInv, Fresh, RowsInv, TypeOK
<1>2. account' = account /\ base' = base /\ pos' = [pos EXCEPT ![p] = DeletedRow]
  BY DEF Delete
<1> HIDE DEF p
<1>3. Credit(pos[p]) = 0
  BY <1>1 DEF Credit, BalanceInv, FreshInv, RowsInv, RowsAgree, RowAgrees, Closed
<1> QED
  BY <1>1, <1>2, <1>3, RemovedRow, ReplacedKept

LEMMA BuyKept ==
  ASSUME BalanceInv, OnTheGrid, NEW s \in Session, Buy(s)
  PROVE  /\ Keeps /\ pos' \in [Position -> Row]
         /\ \E p \in Position : /\ \A q \in Position \ {p} : pos'[q] = pos[q]
                                /\ pos[p].status = "absent"
                                /\ pos'[p].status = "active" /\ Credit(pos'[p]) = 0
<1> DEFINE r == NewRow(req[s])
<1>1. /\ req[s].rec \in Rec /\ req[s].qty \in Nat
      /\ req[s].price \in Price /\ req[s].price \in Int
  BY RequestValues, InputAssumption DEF Buy, Working, BalanceInv, FreshInv, RowsInv, TypeOK
<1>2. Even(req[s].price) /\ OnGrid(req[s].price) = req[s].price
  <2>1. req[s].price % 2 = 0
    BY <1>1 DEF OnTheGrid
  <2> QED
    BY <1>1, <2>1, EvenValues
<1>3. r \in Row /\ r.status = "active" /\ EvenRow(r) /\ Credit(r) = 0
  <2>1. r = [status |-> "active", rec |-> req[s].rec, entry |-> req[s].price,
             close |-> NoPrice, qty |-> req[s].qty, applied |-> FALSE]
    BY <1>2 DEF NewRow
  <2>2. r \in Row
    BY <1>1, <2>1 DEF Row, Status, NoPrice
  <2>3. EvenRow(r) /\ Credit(r) = 0
    BY <1>2, <2>1 DEF EvenRow, Credit
  <2> QED
    BY <2>1, <2>2, <2>3
<1>4. PICK p \in Position : /\ pos[p].status = "absent" /\ pos' = [pos EXCEPT ![p] = r]
  BY DEF Buy
<1> HIDE DEF r
<1>5. account' = account /\ base' = base
  BY DEF Buy
<1>6. Credit(pos[p]) = 0
  BY <1>4 DEF Credit, BalanceInv, FreshInv, RowsInv, RowsAgree, RowAgrees, Closed
<1>7. Keeps /\ pos' \in [Position -> Row]
  BY <1>3, <1>4, <1>5, <1>6, ReplacedKept
<1>8. pos'[p] = r /\ \A q \in Position \ {p} : pos'[q] = pos[q]
  BY <1>4 DEF BalanceInv, FreshInv, RowsInv, TypeOK
<1> QED
  BY <1>3, <1>4, <1>7, <1>8

LEMMA CommitExpiredKept ==
  ASSUME BalanceInv, NEW s \in Session, CommitExpired(s)
  PROVE  /\ Keeps /\ pos' \in [Position -> Row]
         /\ \A p \in Position : pos'[p] = pos[p] \/ Ends(pos[p], pos'[p])
<1>1. pc[s] = "work" /\ Commit(s, mine[s]) /\ base' = base
  BY DEF CommitExpired, Working
<1>2. mine[s] \in View /\ Fair(seen[s], mine[s]) /\ seen[s].rows = pos
  BY <1>1, SerialRead DEF BalanceInv, Fairly
<1>3. Keeps /\ pos' = mine[s].rows /\ pos' \in [Position -> Row]
  BY <1>1, <1>2, SerialCommit
<1>4. \A p \in Position :
        \/ mine[s].rows[p] = seen[s].rows[p]
        \/ Ends(seen[s].rows[p], mine[s].rows[p])
  BY <1>1 DEF BalanceInv, FreshInv, RowsInv, Ready
<1> QED
  BY <1>2, <1>3, <1>4

LEMMA FairlyStep ==
  ASSUME BalanceInv, ~Interleaved, [Next]_vars
  PROVE  Fairly'
<1> USE DEF BalanceInv, FreshInv, RowsInv, TypeOK
<1>0. \A v : Fair(v, v)
  BY DEF Fair
<1>1. ASSUME NEW s \in Session, NEW r \in Tap, ReadUser(s, r)
      PROVE  \A t \in Session : pc'[t] = "work" =>
               /\ pc[t] = "work" /\ seen'[t] = seen[t] /\ mine'[t] = mine[t]
  BY <1>1 DEF ReadUser
<1>2. ASSUME NEW s \in Session, ReadRows(s) \/ PollReadUser(s)
      PROVE  \A t \in Session : pc'[t] = "work" =>
               \/ mine'[t] = seen'[t]
               \/ pc[t] = "work" /\ seen'[t] = seen[t] /\ mine'[t] = mine[t]
  BY <1>2 DEF ReadRows, PollReadUser
<1>3. ASSUME NEW s \in Session, PollReadRows(s)
      PROVE  \A t \in Session : pc'[t] = "work" =>
               /\ pc[t] = "work" /\ seen'[t] = seen[t] /\ mine'[t] = mine[t]
  BY <1>3 DEF PollReadRows
<1>4. ASSUME NEW s \in Session, Ending(s)
      PROVE  \A t \in Session : pc'[t] # "work"
  BY <1>4, EndingEnds DEF SerialInv
<1>5. ASSUME NEW s \in Session, NEW p \in Position, CloseExpired(s, p)
      PROVE  \A t \in Session : pc'[t] = "work" =>
               /\ pc[t] = "work" /\ seen'[t] = seen[t]
               /\ mine'[t] = mine[t] \/ Fair(mine[t], mine'[t])
  <2>1. /\ mine[s] \in View /\ pc[s] = "work" /\ mine[s].rows[p].status = "active"
        /\ mine' = [mine EXCEPT ![s] = Expired(mine[s], p)]
        /\ pc' = pc /\ seen' = seen
    BY <1>5 DEF CloseExpired, Working, PastDue
  <2>2. ~mine[s].rows[p].applied
    BY <2>1 DEF Ready, Ends, SeenAgrees, RowAgrees, Closed
  <2>3. Fair(mine[s], Expired(mine[s], p))
    BY <2>1, <2>2, ExpiredFair
  <2> QED
    BY <2>1, <2>3
<1>6. ASSUME NEW r \in Rec, ExpiryPasses(r)
      PROVE  pc' = pc /\ seen' = seen /\ mine' = mine
  BY <1>6 DEF ExpiryPasses
<1>7. ASSUME UNCHANGED vars
      PROVE  pc' = pc /\ seen' = seen /\ mine' = mine
  BY <1>7 DEF vars
<1>8. \A t \in Session : pc'[t] = "work" =>
        \/ mine'[t] = seen'[t]
        \/ /\ pc[t] = "work" /\ seen'[t] = seen[t]
           /\ mine'[t] = mine[t] \/ Fair(mine[t], mine'[t])
  BY <1>1, <1>2, <1>3, <1>4, <1>5, <1>6, <1>7 DEF Next, Ending
<1>9. \A t \in Session : pc'[t] = "work" => Fair(seen'[t], mine'[t])
  BY <1>0, <1>8, FairTransitive DEF Fairly
<1> QED
  BY <1>9 DEF Fairly, Fair, Worth, Total, Credits, EvenView

\* The steps that touch neither the tables nor the user's own size.
Quiet == account' = account /\ pos' = pos /\ base' = base

LEMMA StepKinds ==
  ASSUME [Next]_vars
  PROVE  \/ Quiet
         \/ \E s \in Session : \/ Buy(s) \/ Sell(s) \/ Modify(s) \/ Erase(s) \/ Delete(s)
                               \/ Resize(s) \/ CommitExpired(s)
BY DEF Next, vars, Quiet, ReadUser, ReadRows, PollReadRows, PollReadUser, Rollback,
       CloseExpired, ExpiryPasses

LEMMA QuietKept ==
  ASSUME BalanceInv, Quiet
  PROVE  Keeps /\ pos' \in [Position -> Row]
BY DEF Quiet, Keeps, BalanceInv, Gridded, FreshInv, RowsInv, TypeOK

LEMMA ResizeKeeps ==
  ASSUME BalanceInv, OnTheGrid, NEW s \in Session, Resize(s)
  PROVE  /\ Gridded' /\ LedgerBalanced' /\ pos' = pos
         /\ base' - base = account' - account
<1>1. req[s].size \in Size /\ req[s].size \in Int /\ seen[s].acct = account
  BY RequestValues, InputAssumption
     DEF Resize, BalanceInv, FreshInv, Fresh, RowsInv, TypeOK
<1>2. account' = req[s].size
  BY <1>1 DEF Resize, Written
<1>3. pos' = pos /\ base' = req[s].size - Total(pos)
  BY DEF Resize, AppliedTotal, Total
<1>4. /\ Total(pos) \in Int /\ account \in Int /\ base \in Int
      /\ account = base + Total(pos)
  BY TotalValue, EvenValues, BalancedIs DEF BalanceInv, Gridded, FreshInv, RowsInv, TypeOK
<1>5. Even(account')
  <2>1. req[s].size % 2 = 0
    BY <1>1 DEF OnTheGrid
  <2> QED
    BY <1>1, <1>2, <2>1, EvenValues
<1>6. LedgerBalanced'
  BY <1>1, <1>2, <1>3, <1>4, BalancedIs
<1>7. Gridded'
  BY <1>1, <1>3, <1>4, <1>5 DEF Gridded, BalanceInv, Even, EvenRow
<1> QED
  BY <1>1, <1>2, <1>3, <1>4, <1>6, <1>7

LEMMA BalanceStep ==
  ASSUME BalanceInv, OnTheGrid, ~Interleaved, [Next]_vars
  PROVE  BalanceInv'
<1>1. FreshInv' /\ Fairly'
  BY FreshInvStep, FairlyStep DEF BalanceInv
<1>2. \/ Keeps /\ pos' \in [Position -> Row]
      \/ \E s \in Session : Resize(s)
  BY StepKinds, QuietKept, BuyKept, SellKept, ModifyKept, EraseKept, DeleteKept,
     CommitExpiredKept
<1>3. Gridded' /\ LedgerBalanced'
  BY <1>2, KeptKeeps, ResizeKeeps
<1> QED
  BY <1>1, <1>3 DEF BalanceInv

LEMMA BalanceInitially == OnTheGrid /\ Init => BalanceInv
<1> SUFFICES ASSUME OnTheGrid, Init PROVE BalanceInv
  OBVIOUS
<1>1. FreshInv
  BY RowsInvInitially, SerialInvInitially, FreshInitially DEF FreshInv
<1>2. Fairly
  BY DEF Init, Fairly
<1>3. account \in Int /\ base = account /\ Even(account)
  <2>1. account \in Size /\ account \in Int /\ account % 2 = 0
    BY InputAssumption DEF Init, OnTheGrid
  <2> QED
    BY <2>1, EvenValues DEF Init
<1>4. \A p \in Position : pos[p] = NoRow
  BY DEF Init
<1>5. EvenRow(NoRow) /\ Credit(NoRow) = 0
  BY EvenValues DEF NoRow, EvenRow, Credit
<1>6. Total(pos) = 0
  <2>1. pos \in [Position -> Row]
    BY <1>1 DEF FreshInv, RowsInv, TypeOK
  <2>2. \A p \in Position : Credits(pos)[p] = 0
    BY <1>4, <1>5 DEF Credits
  <2>3. Total(pos) = SumFunctionOnSet(Credits(pos), Position)
    BY <2>1, TotalValue
  <2>4. SumFunctionOnSet(Credits(pos), Position) = SumFunctionOnSet(Credits(pos), {})
    <3>1. {} \in SUBSET Position
      OBVIOUS
    <3> QED
      BY <2>2, <3>1, PositionAssumption, SumPart
  <2> QED
    BY <2>3, <2>4, SumEmpty
<1>7. LedgerBalanced
  BY <1>3, <1>6, BalancedIs
<1> QED
  BY <1>1, <1>2, <1>3, <1>4, <1>5, <1>7 DEF BalanceInv, Gridded

\* While sessions do not overlap and what the user types fits the columns, the
\* account is at any moment the user's own size and the P/L of the rows marked
\* applied, each counted once and at its present prices.
THEOREM Balanced == ASSUME ~Interleaved, OnTheGrid PROVE Spec => []LedgerBalanced
<1>1. BalanceInv /\ [Next]_vars => BalanceInv'
  BY BalanceStep
<1>2. Init => BalanceInv
  BY BalanceInitially
<1> QED
  BY <1>1, <1>2, PTL DEF Spec, BalanceInv

-----------------------------------------------------------------------------
(***************************************************************************)
(* The contract of AccountLedger.  A step that keeps the balance moves the *)
(* account by what the credits of the rows it changed moved.               *)
(***************************************************************************)
Stages(rows) == [p \in Position |-> StageOf(rows[p].status)]

LEMMA StageValues ==
  /\ StageOf("absent") = "none" /\ StageOf("active") = "open"
  /\ \A c \in Closed : StageOf(c) = "settled"
  /\ StageOf("deleted") = "removed"
BY DEF StageOf, Closed

\* The instance has its own copy of the sum.
LEMMA SameSum == \A f : Account!SumFunction(f) = SumFunction(f)
BY DEF Account!SumFunction, Account!SumFunctionOnSet, Account!FoldFunctionOnSet,
       Account!MapThenFoldSet, SumFunction, SumFunctionOnSet, FoldFunctionOnSet,
       MapThenFoldSet

LEMMA MovesOnly ==
  ASSUME BalanceInv, Keeps, pos' \in [Position -> Row], NEW S \in SUBSET Position,
         \A p \in Position \ S : pos'[p] = pos[p]
  PROVE  Account!OnlyMoves(S)
<1>1. pos \in [Position -> Row] /\ account \in Int /\ account' \in Int
  BY EvenValues DEF BalanceInv, Gridded, Keeps, FreshInv, RowsInv, TypeOK
<1>2. Total(pos') - Total(pos)
        = SumFunction([p \in S |-> Credits(pos')[p] - Credits(pos)[p]])
  BY <1>1, TotalMoves
<1>3. account' - account = Total(pos') - Total(pos)
  BY <1>1, TotalValue DEF Keeps
<1>4. account' - account = SumFunction([p \in S |-> Credits(pos')[p] - Credits(pos)[p]])
  BY <1>2, <1>3
<1>5. \A p \in Position \ S : /\ Stages(pos')[p] = Stages(pos)[p]
                              /\ Credits(pos')[p] = Credits(pos)[p]
  BY DEF Stages, Credits
<1>6. base' = base
  BY DEF Keeps
<1>7. Credits(pos)' = Credits(pos') /\ Stages(pos)' = Stages(pos')
  BY DEF Credits, Stages
<1>8. account' - account = SumFunction([p \in S |-> Credits(pos)'[p] - Credits(pos)[p]])
  BY <1>4, <1>7
<1>9. \A p \in Position \ S : /\ Stages(pos)'[p] = Stages(pos)[p]
                              /\ Credits(pos)'[p] = Credits(pos)[p]
  BY <1>5, <1>7
<1> QED
  BY <1>6, <1>8, <1>9, SameSum DEF Account!OnlyMoves, Stages

LEMMA ContractStep ==
  ASSUME BalanceInv, OnTheGrid, [Next]_vars
  PROVE  [Account!Next]_(Account!accountVars)
<1>1. CASE Quiet
  BY <1>1 DEF Quiet, Account!accountVars, Credits
<1>2. ASSUME NEW s \in Session, Buy(s)
      PROVE  Account!Next
  <2>1. PICK p \in Position :
          /\ \A q \in Position \ {p} : pos'[q] = pos[q]
          /\ pos[p].status = "absent"
          /\ pos'[p].status = "active" /\ Credit(pos'[p]) = 0
    BY <1>2, BuyKept
  <2>2. Account!OnlyMoves({p})
    BY <1>2, <2>1, BuyKept, MovesOnly
  <2>3. Account!Open(p)
    BY <2>1, <2>2, StageValues DEF Account!Open, Credits
  <2> QED
    BY <2>3 DEF Account!Next
<1>3. ASSUME NEW s \in Session, Sell(s)
      PROVE  Account!Next
  <2>1. PICK p \in Position :
          /\ \A q \in Position \ {p} : pos'[q] = pos[q]
          /\ pos[p].status = "active" /\ pos'[p].status = "closed_sold"
    BY <1>3, SellKept
  <2>2. Account!OnlyMoves({p})
    BY <1>3, <2>1, SellKept, MovesOnly
  <2>3. Account!Settle({p})
    BY <2>1, <2>2, StageValues DEF Account!Settle, Closed
  <2> QED
    BY <2>3 DEF Account!Next
<1>4. ASSUME NEW s \in Session, Modify(s)
      PROVE  Account!Next
  <2>1. PICK p \in Position :
          /\ \A q \in Position \ {p} : pos'[q] = pos[q]
          /\ pos[p].status \in Closed /\ pos'[p].status = pos[p].status
    BY <1>4, ModifyKept
  <2>2. Account!OnlyMoves({p})
    BY <1>4, <2>1, ModifyKept, MovesOnly
  <2>3. Account!Correct(p)
    BY <2>1, <2>2, StageValues DEF Account!Correct
  <2> QED
    BY <2>3 DEF Account!Next
<1>5. ASSUME NEW s \in Session, Erase(s) \/ Delete(s)
      PROVE  Account!Next
  <2>1. PICK p \in Position :
          /\ pos' = [pos EXCEPT ![p] = DeletedRow]
          /\ pos[p].status \in Closed \cup {"active"}
    BY <1>5, EraseKept, DeleteKept
  <2>2. pos'[p] = DeletedRow /\ \A q \in Position \ {p} : pos'[q] = pos[q]
    BY <2>1 DEF BalanceInv, FreshInv, RowsInv, TypeOK
  <2>3. Account!OnlyMoves({p})
    BY <1>5, <2>2, EraseKept, DeleteKept, MovesOnly
  <2>4. Account!Remove(p)
    BY <2>1, <2>2, <2>3, RemovedRow, StageValues DEF Account!Remove, Credits
  <2> QED
    BY <2>4 DEF Account!Next
<1>6. ASSUME NEW s \in Session, CommitExpired(s)
      PROVE  Account!Next
  <2> DEFINE S == {p \in Position : pos'[p] # pos[p]}
  <2>1. \A p \in S : pos[p].status = "active" /\ pos'[p].status \in Closed
    BY <1>6, CommitExpiredKept DEF Ends
  <2>2. S \in SUBSET Position /\ \A p \in Position \ S : pos'[p] = pos[p]
    OBVIOUS
  <2> HIDE DEF S
  <2>3. Account!OnlyMoves(S)
    BY <1>6, <2>2, CommitExpiredKept, MovesOnly
  <2>4. Account!Settle(S)
    BY <2>1, <2>2, <2>3, StageValues DEF Account!Settle
  <2> QED
    BY <2>2, <2>4 DEF Account!Next
<1>7. ASSUME NEW s \in Session, Resize(s)
      PROVE  Account!Next
  <2>1. pos' = pos /\ base' - base = account' - account
    BY <1>7, ResizeKeeps
  <2>2. Account!Resize
    BY <2>1 DEF Account!Resize, Credits
  <2> QED
    BY <2>2 DEF Account!Next
<1> QED
  BY <1>1, <1>2, <1>3, <1>4, <1>5, <1>6, <1>7, StepKinds

LEMMA ContractInitially == Init => Account!Init
<1> SUFFICES ASSUME Init PROVE Account!Init
  OBVIOUS
<1>1. \A p \in Position : pos[p].status = "absent" /\ ~pos[p].applied
  BY DEF Init, NoRow
<1>2. base = account
  BY DEF Init
<1> QED
  BY <1>1, <1>2, StageValues DEF Account!Init, Credits, Credit

\* While sessions do not overlap and what the user types fits the columns, the
\* ledger is an AccountLedger: every sale, expiry, edit and removal moves the
\* account by what it changed in the P/L of its own positions and by no more.
THEOREM ContractHonoured ==
  ASSUME ~Interleaved, OnTheGrid PROVE Spec => ImplementsAccountLedger
<1>1. BalanceInv /\ [Next]_vars => BalanceInv'
  BY BalanceStep
<1>2. Init => BalanceInv
  BY BalanceInitially
<1>3. BalanceInv /\ [Next]_vars => [Account!Next]_(Account!accountVars)
  BY ContractStep
<1> QED
  BY <1>1, <1>2, <1>3, ContractInitially, PTL
     DEF Spec, ImplementsAccountLedger, Account!Spec

=============================================================================
