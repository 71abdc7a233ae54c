-------------------------------- MODULE Screener --------------------------------
(***************************************************************************)
(* The queries of the screener: each is answered by Redis, where the rows  *)
(* of a query are kept for a while, or by a browser that loads the page,   *)
(* a few of them at a time, and loads it again when its table does not     *)
(* appear (finviz/runner.py, finviz/cache.py, finviz/browser.py).          *)
(*                                                                         *)
(* A fetch is one query of one scan.  The rows of a page are data; one     *)
(* capture and the store of its rows are one step, and all scans are on    *)
(* one day.  captured and of are history: when a page was read, and for    *)
(* which query.                                                            *)
(***************************************************************************)
EXTENDS Candidates

CONSTANTS
  Scan,          \* the scans of the process
  Query,         \* the queries of the screener
  ArmOf,         \* the arm that asks each query
  Page,          \* what the screener may show for each query
  MaxCaptures,   \* browsers at a time: 2 in the code
  MaxLoads,      \* loads of a page: 3 in the code
  Ttl,           \* ticks an answer is kept: ten minutes in the code
  MaxTime        \* bound on the clock

ASSUME ScreenerAssumption ==
  /\ MaxCaptures \in Nat \ {0} /\ MaxLoads \in Nat \ {0} /\ Ttl \in Nat \ {0} /\ MaxTime \in Nat
  /\ DOMAIN Page = Query /\ DOMAIN ArmOf = Query

\* The screener shows no day of earnings.
ASSUME PageAssumption ==
  \A q \in Query : \A page \in Page[q] :
    /\ page \in Seq(CandidateRow)
    /\ \A r \in Range(page) : r.from = {"finviz"} /\ r.day = NoDay

VARIABLES
  now,
  cache,    \* Redis: by key, in {} or the entry kept
  held,     \* the fetches that hold a place of the semaphore
  fetch     \* each fetch: stage, limit, loads left, rows, age and of

screenerVars == <<now, cache, held, fetch>>

Idle == [stage |-> "idle", limit |-> 0, loads |-> 0, rows |-> << >>, age |-> 0, of |-> "none"]
\* Mutant of Answered: a variant that failed is waited for.
AnsweredWithRows(f) == fetch[f].stage = "ready"
Answered(f) == fetch[f].stage \in {"ready", "failed"}

\* Mutant of KeyFor: the variants of an arm share their key.
KeyOfArm(q) == <<ArmOf[q]>>

\* What the rows of a query are kept under, with the day.
KeyFor(q) == <<ArmOf[q], q>>
Key == {KeyFor(q) : q \in Query}
Fresh(q) == {e \in cache[KeyFor(q)] : now < e.stored + Ttl}

ScreenerInit ==
  /\ now = 0
  /\ cache = [k \in Key |-> {}]
  /\ held = {}
  /\ fetch = [f \in Scan \X Query |-> Idle]

\* fetches, once scan s has asked each query of the sequence queries for limit rows.
Requested(fetches, s, queries, limit) ==
  [f \in DOMAIN fetches |-> IF f[1] = s /\ f[2] \in Range(queries)
                            THEN [Idle EXCEPT !.stage = "loading", !.limit = limit]
                            ELSE fetches[f]]

LoadCached(f) ==
  /\ fetch[f].stage = "loading"
  /\ \E e \in Fresh(f[2]) :
       fetch' = [fetch EXCEPT ![f] = [@ EXCEPT !.stage = "ready", !.rows = e.rows,
                                               !.age = now - e.captured, !.of = e.of]]
  /\ UNCHANGED <<now, cache, held>>

LoadMissed(f) ==
  /\ fetch[f].stage = "loading" /\ Fresh(f[2]) = {}
  /\ fetch' = [fetch EXCEPT ![f].stage = "waiting"]
  /\ UNCHANGED <<now, cache, held>>

\* Redis cannot be reached: nothing catches it before the variants are gathered.
LoadFails(f) ==
  /\ fetch[f].stage = "loading"
  /\ fetch' = [fetch EXCEPT ![f].stage = "failed"]
  /\ UNCHANGED <<now, cache, held>>

\* Mutant of Acquire: the places are not counted.
AcquireAnyway(f) ==
  /\ fetch[f].stage = "waiting"
  /\ held' = held \cup {f}
  /\ fetch' = [fetch EXCEPT ![f] = [@ EXCEPT !.stage = "capturing", !.loads = MaxLoads]]
  /\ UNCHANGED <<now, cache>>

Acquire(f) ==
  /\ fetch[f].stage = "waiting" /\ Cardinality(held) < MaxCaptures
  /\ held' = held \cup {f}
  /\ fetch' = [fetch EXCEPT ![f] = [@ EXCEPT !.stage = "capturing", !.loads = MaxLoads]]
  /\ UNCHANGED <<now, cache>>

\* The table did not appear.
Reload(f) ==
  /\ fetch[f].stage = "capturing" /\ fetch[f].loads > 1
  /\ fetch' = [fetch EXCEPT ![f].loads = @ - 1]
  /\ UNCHANGED <<now, cache, held>>

\* It never did, another error came, which is not tried again, or the rows were
\* read but Redis did not take them.
CaptureFails(f) ==
  /\ fetch[f].stage = "capturing"
  /\ held' = held \ {f}
  /\ fetch' = [fetch EXCEPT ![f] = [@ EXCEPT !.stage = "failed", !.loads = 0]]
  /\ UNCHANGED <<now, cache>>

Captured(f) ==
  /\ fetch[f].stage = "capturing"
  /\ held' = held \ {f}
  /\ \E page \in Page[f[2]] :
       LET rows == First(page, fetch[f].limit) IN
       /\ cache' = [cache EXCEPT ![KeyFor(f[2])] =
                      {[rows |-> rows, stored |-> now, captured |-> now, of |-> f[2]]}]
       /\ fetch' = [fetch EXCEPT ![f] = [@ EXCEPT !.stage = "ready", !.loads = 0, !.rows = rows,
                                                  !.age = 0, !.of = f[2]]]
  /\ UNCHANGED now

Tick ==
  /\ now < MaxTime
  /\ now' = now + 1
  /\ UNCHANGED <<cache, held, fetch>>

\* One of the steps of f can be taken.
CanGoOn(f) ==
  \/ fetch[f].stage \in {"loading", "capturing"}
  \/ fetch[f].stage = "waiting" /\ Cardinality(held) < MaxCaptures

ScreenerWork ==
  \E f \in Scan \X Query :
    LoadCached(f) \/ LoadMissed(f) \/ LoadFails(f) \/ Acquire(f) \/ Reload(f)
    \/ CaptureFails(f) \/ Captured(f)

-----------------------------------------------------------------------------
(* The variants of a query are answered together *)

\* The best rank of each ticker, ranked again.
MergeAndRank(rows, limit) ==
  LET best == First(WithoutRepeatedTickers(Descending(rows, LAMBDA r : -r.rank)), limit)
  IN [i \in DOMAIN best |-> [best[i] EXCEPT !.rank = i]]

\* They fail only if every variant fails.
RunWithSwap(s, queries, limit) ==
  LET done == Where(queries, LAMBDA q : fetch[<<s, q>>].stage = "ready")
  IN [failed |-> done = << >>,
      rows |-> MergeAndRank(FlattenSeq([i \in DOMAIN done |-> fetch[<<s, done[i]>>].rows]), limit)]
=============================================================================
