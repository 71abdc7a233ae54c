--------------------------- MODULE WorkflowRunner ---------------------------
(***************************************************************************)
(* One scan of one user: app/scheduler/jobs.py (WorkflowRunner), the Redis *)
(* run lock of app/services/run_lock.py, and the part of the pipeline of   *)
(* app/pipeline/orchestrator.py that writes the run's row, its             *)
(* recommendation and the user's chat.                                     *)
(*                                                                         *)
(* An element of Inv is one call of run_workflow, with its own uuid4 lock  *)
(* token and, once its row is inserted, its own run id; the model uses the *)
(* call itself for both.  Cron calls run in the API process, manual calls  *)
(* in the bot process; the two share Redis, PostgreSQL and Telegram.       *)
(*                                                                         *)
(* Everything between two awaits that another process can observe is one   *)
(* action.  A database session is a buffer (tx) that the commit publishes. *)
(***************************************************************************)
EXTENDS FiniteSets

CONSTANTS
  User,     \* users with a telegram chat
  Inv,      \* calls of run_workflow (bounds the number of scans)
  NoInv,    \* the value of an absent Redis key, and "nobody"
  Faults    \* what may go wrong in this configuration

(***************************************************************************)
(* redis    a Redis command raises                                         *)
(* db       a statement or a commit raises, the transaction is rolled back *)
(* ack      a commit succeeds but its acknowledgement is lost and raises   *)
(* pipeline a step of the pipeline or a Telegram send raises               *)
(* crash    a process is killed or stopped, and is started again           *)
(* slow     a scan outlives the lock's TTL of 900 s                        *)
(***************************************************************************)
FaultKinds == {"redis", "db", "ack", "pipeline", "crash", "slow"}

ASSUME NoInvAssumption == NoInv \notin Inv
ASSUME FaultsAssumption == Faults \subseteq FaultKinds

VARIABLES
  call,       \* call[w]: the arguments of w, fixed from the start
  lock,       \* lock[u]: the token stored under run-lock:<u>
  pc,         \* pc[w]: where the coroutine of w is
  row,        \* row[w]: the committed workflow_runs row of w
  tx,         \* tx[w]: that row as the open session of w has it
  recs,       \* runs with a committed recommendations row
  cards,      \* runs whose recommendation card, with buttons, is in the chat
  heard,      \* heard[w]: what the chat was told about w
  result,     \* result[w]: what run_workflow returned
  blockedBy   \* blockedBy[w]: whose token refused w (history)

vars == <<call, lock, pc, row, tx, recs, cards, heard, result, blockedBy>>

-----------------------------------------------------------------------------
Trigger == {"cron", "manual"}
Call == [user : User, trigger : Trigger]
Status == {"absent", "running", "success", "no_trade", "failed"}
Row == [status : Status, rec : BOOLEAN, finished : BOOLEAN, evidence : BOOLEAN]
Outcome == {"none", "success", "already_running", "failed", "raised"}
Message == {"result", "busy", "failure"}
Holding == {"locked", "opened", "persisted", "notified", "captured",
            "failing", "releasing"}
Stage == Holding \cup {"idle", "returned", "done", "unheard", "dead"}

NoRow == [status |-> "absent", rec |-> FALSE, finished |-> FALSE, evidence |-> FALSE]
NewRow == [NoRow EXCEPT !.status = "running"]

UserOf(w) == call[w].user
Process(w) == IF call[w].trigger = "cron" THEN "api" ELSE "bot"
Terminal(s) == s \in {"success", "no_trade", "failed"}

TypeOK ==
  /\ call \in [Inv -> Call]
  /\ lock \in [User -> Inv \cup {NoInv}]
  /\ pc \in [Inv -> Stage]
  /\ row \in [Inv -> Row]
  /\ tx \in [Inv -> Row]
  /\ recs \in SUBSET Inv
  /\ cards \in SUBSET Inv
  /\ heard \in [Inv -> SUBSET Message]
  /\ result \in [Inv -> Outcome]
  /\ blockedBy \in [Inv -> Inv \cup {NoInv}]

Init ==
  /\ call \in [Inv -> Call]
  /\ lock = [u \in User |-> NoInv]
  /\ pc = [w \in Inv |-> "idle"]
  /\ row = [w \in Inv |-> NoRow]
  /\ tx = [w \in Inv |-> NoRow]
  /\ recs = {}
  /\ cards = {}
  /\ heard = [w \in Inv |-> {}]
  /\ result = [w \in Inv |-> "none"]
  /\ blockedBy = [w \in Inv |-> NoInv]

-----------------------------------------------------------------------------
\* Mutant of Acquire: SET without NX.
AcquireWithoutNX(w) ==
  /\ pc[w] = "idle"
  /\ lock' = [lock EXCEPT ![UserOf(w)] = w]
  /\ pc' = [pc EXCEPT ![w] = "locked"]
  /\ UNCHANGED <<call, row, tx, recs, cards, heard, result, blockedBy>>

(***************************************************************************)
(* run_lock.acquire: SET key token NX EX ttl.  A caller that finds the key *)
(* returns already_running without touching the database.                  *)
(***************************************************************************)
Acquire(w) ==
  /\ pc[w] = "idle"
  /\ lock[UserOf(w)] = NoInv
  /\ lock' = [lock EXCEPT ![UserOf(w)] = w]
  /\ pc' = [pc EXCEPT ![w] = "locked"]
  /\ UNCHANGED <<call, row, tx, recs, cards, heard, result, blockedBy>>

AcquireRefused(w) ==
  /\ pc[w] = "idle"
  /\ lock[UserOf(w)] # NoInv
  /\ blockedBy' = [blockedBy EXCEPT ![w] = lock[UserOf(w)]]
  /\ result' = [result EXCEPT ![w] = "already_running"]
  /\ pc' = [pc EXCEPT ![w] = "returned"]
  /\ UNCHANGED <<call, lock, row, tx, recs, cards, heard>>

\* acquire is outside the try block: its exception leaves run_workflow.
AcquireRaises(w) ==
  /\ "redis" \in Faults
  /\ pc[w] = "idle"
  /\ result' = [result EXCEPT ![w] = "raised"]
  /\ pc' = [pc EXCEPT ![w] = "done"]
  /\ UNCHANGED <<call, lock, row, tx, recs, cards, heard, blockedBy>>

(***************************************************************************)
(* First session: insert the row with status "running" and commit.         *)
(***************************************************************************)
OpenRun(w) ==
  /\ pc[w] = "locked"
  /\ row' = [row EXCEPT ![w] = NewRow]
  /\ pc' = [pc EXCEPT ![w] = "opened"]
  /\ UNCHANGED <<call, lock, tx, recs, cards, heard, result, blockedBy>>

\* The insert raises before run_id is assigned: nothing to mark failed.
InsertRaises(w) ==
  /\ "db" \in Faults
  /\ pc[w] = "locked"
  /\ result' = [result EXCEPT ![w] = "failed"]
  /\ pc' = [pc EXCEPT ![w] = "releasing"]
  /\ UNCHANGED <<call, lock, row, tx, recs, cards, heard, blockedBy>>

\* The commit raises after run_id was assigned: the row is lost, or (ack) kept.
OpenCommitRaises(w) ==
  /\ pc[w] = "locked"
  /\ \/ /\ "db" \in Faults
        /\ row' = row
     \/ /\ "ack" \in Faults
        /\ row' = [row EXCEPT ![w] = NewRow]
  /\ pc' = [pc EXCEPT ![w] = "failing"]
  /\ UNCHANGED <<call, lock, tx, recs, cards, heard, result, blockedBy>>

-----------------------------------------------------------------------------
\* Mutant of PersistRecommendation: no trade is left to the runner's defaults.
PersistOnlyTrades(r, trade) ==
  IF trade THEN [r EXCEPT !.status = "success", !.finished = TRUE, !.rec = TRUE] ELSE r

(***************************************************************************)
(* Second session: the pipeline.  persist_recommendation decides between a *)
(* recommendation and no trade, in the session only.                       *)
(***************************************************************************)
PersistRecommendation(r, trade) ==
  IF trade
  THEN [r EXCEPT !.status = "success", !.finished = TRUE, !.rec = TRUE]
  ELSE [r EXCEPT !.status = "no_trade", !.finished = TRUE, !.rec = FALSE]

\* Mutant of Persist: the recommendation has a transaction of its own.
PersistCommitsFirst(w) ==
  /\ pc[w] = "opened"
  /\ \E trade \in BOOLEAN :
       /\ tx' = [tx EXCEPT ![w] = PersistRecommendation(row[w], trade)]
       /\ recs' = IF trade THEN recs \cup {w} ELSE recs
  /\ pc' = [pc EXCEPT ![w] = "persisted"]
  /\ UNCHANGED <<call, lock, row, cards, heard, result, blockedBy>>

Persist(w) ==
  /\ pc[w] = "opened"
  /\ \E trade \in BOOLEAN :
       tx' = [tx EXCEPT ![w] = PersistRecommendation(row[w], trade)]
  /\ pc' = [pc EXCEPT ![w] = "persisted"]
  /\ UNCHANGED <<call, lock, row, recs, cards, heard, result, blockedBy>>

\* Mutant of NotifyUser: only manual scans are announced.
NotifyManualOnly(w) ==
  /\ pc[w] = "persisted"
  /\ heard' = IF call[w].trigger = "manual"
              THEN [heard EXCEPT ![w] = @ \cup {"result"}] ELSE heard
  /\ cards' = IF tx[w].rec THEN cards \cup {w} ELSE cards
  /\ pc' = [pc EXCEPT ![w] = "notified"]
  /\ UNCHANGED <<call, lock, row, tx, recs, result, blockedBy>>

\* _notify_user: the card and its buttons go out before the commit.
NotifyUser(w) ==
  /\ pc[w] = "persisted"
  /\ heard' = [heard EXCEPT ![w] = @ \cup {"result"}]
  /\ cards' = IF tx[w].rec THEN cards \cup {w} ELSE cards
  /\ pc' = [pc EXCEPT ![w] = "notified"]
  /\ UNCHANGED <<call, lock, row, tx, recs, result, blockedBy>>

\* capture_run: the artifacts go into the row.  The copies on disk are best
\* effort (an OSError is only logged) and nothing reads them back: left out.
CaptureRun(w) ==
  /\ pc[w] = "notified"
  /\ tx' = [tx EXCEPT ![w].evidence = TRUE]
  /\ pc' = [pc EXCEPT ![w] = "captured"]
  /\ UNCHANGED <<call, lock, row, recs, cards, heard, result, blockedBy>>

\* Lines 66-69 of jobs.py: defaults for what the pipeline left open.
Completed(r) ==
  [r EXCEPT !.status = IF @ = "running" THEN "success" ELSE @,
            !.finished = TRUE]

Published(w) ==
  /\ row' = [row EXCEPT ![w] = Completed(tx[w])]
  /\ recs' = IF tx[w].rec THEN recs \cup {w} ELSE recs

CommitRun(w) ==
  /\ pc[w] = "captured"
  /\ Published(w)
  /\ tx' = [tx EXCEPT ![w] = NoRow]
  /\ result' = [result EXCEPT ![w] = "success"]
  /\ pc' = [pc EXCEPT ![w] = "releasing"]
  /\ UNCHANGED <<call, lock, cards, heard, blockedBy>>

CommitRaises(w) ==
  /\ pc[w] = "captured"
  /\ \/ /\ "db" \in Faults
        /\ UNCHANGED <<row, recs>>
     \/ /\ "ack" \in Faults
        /\ Published(w)
  /\ tx' = [tx EXCEPT ![w] = NoRow]
  /\ pc' = [pc EXCEPT ![w] = "failing"]
  /\ UNCHANGED <<call, lock, cards, heard, result, blockedBy>>

\* Any step of the pipeline raises: the session closes without a commit.
PipelineRaises(w) ==
  /\ "pipeline" \in Faults
  /\ pc[w] \in {"opened", "persisted", "notified"}
  /\ tx' = [tx EXCEPT ![w] = NoRow]
  /\ pc' = [pc EXCEPT ![w] = "failing"]
  /\ UNCHANGED <<call, lock, row, recs, cards, heard, result, blockedBy>>

-----------------------------------------------------------------------------
\* Mutants of Failed: a status of its own; only the error is recorded.
FailedAsError(r) == [r EXCEPT !.status = "error", !.finished = TRUE]
FailedUnmarked(r) == r

(***************************************************************************)
(* The except branch: a third session marks the run failed.                *)
(***************************************************************************)
Failed(r) == [r EXCEPT !.status = "failed", !.finished = TRUE]

\* Mutant of MarkFailed: the third session is never committed.
MarkFailedUncommitted(w) ==
  /\ pc[w] = "failing"
  /\ row[w].status # "absent"
  /\ result' = [result EXCEPT ![w] = "failed"]
  /\ pc' = [pc EXCEPT ![w] = "releasing"]
  /\ UNCHANGED <<call, lock, row, tx, recs, cards, heard, blockedBy>>

MarkFailed(w) ==
  /\ pc[w] = "failing"
  /\ row[w].status # "absent"
  /\ row' = [row EXCEPT ![w] = Failed(@)]
  /\ result' = [result EXCEPT ![w] = "failed"]
  /\ pc' = [pc EXCEPT ![w] = "releasing"]
  /\ UNCHANGED <<call, lock, tx, recs, cards, heard, blockedBy>>

\* _get_run finds no row (LookupError), or the third session itself raises:
\* the exception leaves run_workflow through the finally block.
MarkFailedRaises(w) ==
  /\ pc[w] = "failing"
  /\ \/ /\ row[w].status = "absent" \/ "db" \in Faults
        /\ row' = row
     \/ /\ row[w].status # "absent"
        /\ "ack" \in Faults
        /\ row' = [row EXCEPT ![w] = Failed(@)]
  /\ result' = [result EXCEPT ![w] = "raised"]
  /\ pc' = [pc EXCEPT ![w] = "releasing"]
  /\ UNCHANGED <<call, lock, tx, recs, cards, heard, blockedBy>>

\* Mutant of Deleted: DEL without comparing the token.
DeletedUnchecked(w) == [lock EXCEPT ![UserOf(w)] = NoInv]

(***************************************************************************)
(* The finally block: delete the key if it still holds this call's token.  *)
(***************************************************************************)
Deleted(w) ==
  IF lock[UserOf(w)] = w THEN [lock EXCEPT ![UserOf(w)] = NoInv] ELSE lock

Release(w) ==
  /\ pc[w] = "releasing"
  /\ lock' = Deleted(w)
  /\ pc' = [pc EXCEPT ![w] = "returned"]
  /\ UNCHANGED <<call, row, tx, recs, cards, heard, result, blockedBy>>

\* Mutant of ReleaseRaises: the release is inside the try block.
ReleaseRaisesInTry(w) ==
  /\ "redis" \in Faults
  /\ pc[w] = "releasing"
  /\ pc' = [pc EXCEPT ![w] = "failing"]
  /\ UNCHANGED <<call, lock, row, tx, recs, cards, heard, result, blockedBy>>

ReleaseRaises(w) ==
  /\ "redis" \in Faults
  /\ pc[w] = "releasing"
  /\ result' = [result EXCEPT ![w] = "raised"]
  /\ pc' = [pc EXCEPT ![w] = "returned"]
  /\ UNCHANGED <<call, lock, row, tx, recs, cards, heard, blockedBy>>

(***************************************************************************)
(* run_scan_now answers the user who tapped; a cron call answers nobody.   *)
(***************************************************************************)
Reply(w) ==
  IF call[w].trigger # "manual" THEN {}
  ELSE CASE result[w] = "already_running" -> {"busy"}
         [] result[w] = "failed" -> {"failure"}
         [] OTHER -> {}

Answer(w) ==
  /\ pc[w] = "returned"
  /\ heard' = [heard EXCEPT ![w] = @ \cup Reply(w)]
  /\ pc' = [pc EXCEPT ![w] = "done"]
  /\ UNCHANGED <<call, lock, row, tx, recs, cards, result, blockedBy>>

\* The answer is a Telegram send of its own, which may raise out of the handler.
AnswerRaises(w) ==
  /\ "pipeline" \in Faults
  /\ pc[w] = "returned" /\ Reply(w) # {}
  /\ pc' = [pc EXCEPT ![w] = "unheard"]
  /\ UNCHANGED <<call, lock, row, tx, recs, cards, heard, result, blockedBy>>

-----------------------------------------------------------------------------
\* Mutant of LockExpires: the key is set without EX.
LockNeverExpires(u) == FALSE /\ lock[u] # NoInv /\ UNCHANGED vars

(***************************************************************************)
(* Redis drops a key whose TTL has passed.  Unless a scan may be slower    *)
(* than the TTL, that only happens to a token whose call is no longer live.*)
(***************************************************************************)
LockExpires(u) ==
  /\ lock[u] # NoInv
  /\ "slow" \in Faults \/ pc[lock[u]] \notin Holding
  /\ lock' = [lock EXCEPT ![u] = NoInv]
  /\ UNCHANGED <<call, pc, row, tx, recs, cards, heard, result, blockedBy>>

\* A process ends with every call it was running; nothing recovers them.
Running(p) == {w \in Inv : pc[w] \in Holding \cup {"returned"} /\ Process(w) = p}

Ended(p) ==
  /\ "crash" \in Faults
  /\ Running(p) # {}
  /\ pc' = [w \in Inv |-> IF w \in Running(p) THEN "dead" ELSE pc[w]]
  /\ tx' = [w \in Inv |-> IF w \in Running(p) THEN NoRow ELSE tx[w]]
  /\ UNCHANGED <<call, row, recs, cards, heard, result, blockedBy>>

\* Killed: no finally block runs, the tokens stay until their TTL has passed.
Crash(p) == Ended(p) /\ lock' = lock

\* Stopped: the coroutines are cancelled.  CancelledError is no Exception, so the
\* row is not marked failed, but the finally block still deletes the call's key.
Cancelled(p) == {w \in Running(p) : pc[w] \in Holding}

Shutdown(p) ==
  /\ Ended(p)
  /\ lock' = [u \in User |-> IF lock[u] \in Cancelled(p) THEN NoInv ELSE lock[u]]

-----------------------------------------------------------------------------
Step(w) ==
  \/ Acquire(w) \/ AcquireRefused(w) \/ AcquireRaises(w)
  \/ OpenRun(w) \/ InsertRaises(w) \/ OpenCommitRaises(w)
  \/ Persist(w) \/ NotifyUser(w) \/ CaptureRun(w)
  \/ CommitRun(w) \/ CommitRaises(w) \/ PipelineRaises(w)
  \/ MarkFailed(w) \/ MarkFailedRaises(w)
  \/ Release(w) \/ ReleaseRaises(w) \/ Answer(w) \/ AnswerRaises(w)

Next ==
  \/ \E w \in Inv : Step(w)
  \/ \E u \in User : LockExpires(u)
  \/ \E p \in {"api", "bot"} : Crash(p) \/ Shutdown(p)

Spec == Init /\ [][Next]_vars

(***************************************************************************)
(* A coroutine that has started is driven to its end by the event loop and *)
(* Redis does expire keys.  Nobody has to start a scan, and faults, which  *)
(* share their steps' program counters, never have to happen.              *)
(***************************************************************************)
Proceed(w) == pc[w] # "idle" /\ Step(w)

FairSpec ==
  /\ Spec
  /\ \A w \in Inv : WF_vars(Proceed(w))
  /\ \A u \in User : WF_vars(LockExpires(u))

-----------------------------------------------------------------------------
(* What the component promises.                                            *)

\* PRD2.md 3.2, "same lock guards prevent concurrent runs for the same user":
\* no two calls for one user are between acquire and release together.
OneScanPerUser ==
  \A v, w \in Inv :
    pc[v] \in Holding /\ pc[w] \in Holding /\ UserOf(v) = UserOf(w) => v = w

\* A step that takes a token out of Redis is the release of the very call that
\* put it there, at its end or when it is cancelled, or the key's expiry (which
\* moves no coroutine): a late call whose token expired never frees the lock of
\* the scan that came after it.
ForeignLockKept ==
  [][\A u \in User, w \in Inv :
       lock[u] = w /\ lock'[u] # w =>
         \/ pc[w] = "releasing" /\ pc'[w] = "returned"
         \/ pc[w] \in Holding /\ pc'[w] = "dead"
         \/ pc' = pc]_vars

\* The row, the recommendations table and the stored evidence agree whatever
\* step failed: a success has its recommendation, a no_trade has none, both
\* have their artifacts (PRD2.md 26.4), a row names a recommendation exactly
\* when it was stored, and finished_at is set exactly on ended runs.
RecordsAgree ==
  \A w \in Inv :
    /\ row[w].rec <=> w \in recs
    /\ row[w].status = "success" => row[w].rec
    /\ row[w].status = "no_trade" => ~row[w].rec
    /\ row[w].status \in {"success", "no_trade"} => row[w].evidence
    /\ row[w].finished <=> Terminal(row[w].status)

\* What run_workflow returns is what the database says: success is only
\* returned of a run that ended well and was announced, with a card in the chat
\* exactly when its recommendation is stored (the card goes out first), failed
\* only of a run that left no row or a failed one, already_running of no run.
ReturnedIsRecorded ==
  \A w \in Inv :
    /\ result[w] = "success" =>
         row[w].status \in {"success", "no_trade"} /\ "result" \in heard[w]
    /\ result[w] = "success" => (w \in cards <=> w \in recs)
    /\ result[w] = "failed" => row[w].status \in {"absent", "failed"}
    /\ result[w] = "already_running" => row[w].status = "absent"

\* An ended run is never written again: not by its own except branch, not by a
\* later scan.  (A lost commit acknowledgement breaks this; see README.)
EndedRunIsFinal ==
  [][\A w \in Inv : Terminal(row[w].status) => row'[w] = row[w]]_vars

\* Every scan ends: a row does not stay "running" unless its process died or the
\* session that should have marked it failed did itself fail (jobs.py:80).
RunsConclude ==
  \A w \in Inv :
    row[w].status = "running" ~>
      Terminal(row[w].status) \/ pc[w] = "dead" \/ result[w] = "raised"

\* No failure locks a user out for good: a held lock is free again later.
LockIsFreed ==
  \A u \in User : lock[u] # NoInv ~> lock[u] = NoInv

\* RUN_ALREADY_ACTIVE_TEXT, "I'll show the result here when it finishes".  What
\* of that promise the code keeps: the chat hears of the scan that refused a call
\* unless its process died, an exception left run_workflow, the answer to a
\* failed manual scan itself failed (menu.py:72), or a cron scan failed: nobody
\* tells its user (jobs.py:51), contrary to the promise.
RefusedCallIsAnswered ==
  \A v, w \in Inv :
    blockedBy[w] = v ~>
      \/ heard[v] # {}
      \/ pc[v] \in {"dead", "unheard"} \/ result[v] = "raised"
      \/ result[v] = "failed" /\ call[v].trigger = "cron"

-----------------------------------------------------------------------------
(* The abstraction: what of the runner's state RunLedger talks about.       *)

StageOf(s) ==
  IF s = "idle" THEN "waiting" ELSE IF s \in Holding THEN "scanning" ELSE "over"

Ledger == INSTANCE RunLedger WITH
  owner <- [w \in Inv |-> UserOf(w)],
  stage <- [w \in Inv |-> StageOf(pc[w])],
  record <- [w \in Inv |-> row[w].status],
  recommended <- recs

\* The runner implements the ledger: while the TTL outlasts every scan and no
\* commit acknowledgement is lost, whatever else fails.
ImplementsRunLedger == Ledger!Spec

=============================================================================
