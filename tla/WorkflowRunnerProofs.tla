------------------------ MODULE WorkflowRunnerProofs ------------------------
(***************************************************************************)
(* What holds of the scan runner for every set of users, of calls and of   *)
(* faults.  TLC checks the same invariants on small instances.             *)
(***************************************************************************)
EXTENDS WorkflowRunner, TLAPS

LEMMA RowValues ==
  /\ NoRow \in Row
  /\ NewRow \in Row
  /\ \A r \in Row :
       /\ \A trade \in BOOLEAN : PersistRecommendation(r, trade) \in Row
       /\ Completed(r) \in Row
       /\ Failed(r) \in Row
       /\ [r EXCEPT !.evidence = TRUE] \in Row
BY DEF NoRow, NewRow, Row, Status, PersistRecommendation, Completed, Failed

\* The variables of WorkflowRunner always have the types its comments give:
\* no step of run_workflow, fault or not, leaves them.
THEOREM TypeCorrect == Spec => []TypeOK
<1>1. Init => TypeOK
  BY DEF Init, TypeOK, Call, Trigger, Row, Status, NoRow, Stage, Holding, Outcome
<1>2. TypeOK /\ [Next]_vars => TypeOK'
  <2> SUFFICES ASSUME TypeOK, [Next]_vars PROVE TypeOK'
    OBVIOUS
  <2> USE RowValues DEF TypeOK, Stage, Holding, Outcome
  <2>1. ASSUME NEW w \in Inv, Step(w) PROVE TypeOK'
    <3> USE DEF UserOf, Call
    <3>1. CASE Acquire(w)          BY <3>1 DEF Acquire
    <3>2. CASE AcquireRefused(w)   BY <3>2 DEF AcquireRefused
    <3>3. CASE AcquireRaises(w)    BY <3>3 DEF AcquireRaises
    <3>4. CASE OpenRun(w)          BY <3>4 DEF OpenRun
    <3>5. CASE InsertRaises(w)     BY <3>5 DEF InsertRaises
    <3>6. CASE OpenCommitRaises(w) BY <3>6 DEF OpenCommitRaises
    <3>7. CASE Persist(w)
      <4>1. PICK trade \in BOOLEAN :
              tx' = [tx EXCEPT ![w] = PersistRecommendation(row[w], trade)]
        BY <3>7 DEF Persist
      <4>2. PersistRecommendation(row[w], trade) \in Row
        OBVIOUS
      <4> QED
        BY <3>7, <4>1, <4>2 DEF Persist
    <3>8. CASE NotifyUser(w)       BY <3>8 DEF NotifyUser, Message
    <3>9. CASE CaptureRun(w)       BY <3>9 DEF CaptureRun
    <3>10. CASE CommitRun(w)
      BY <3>10 DEF CommitRun, Published
    <3>11. CASE CommitRaises(w)
      <4>1. Completed(tx[w]) \in Row
        OBVIOUS
      <4>2. row' \in [Inv -> Row] /\ recs' \in SUBSET Inv
        BY <3>11, <4>1 DEF CommitRaises, Published
      <4> QED
        BY <3>11, <4>2 DEF CommitRaises
    <3>12. CASE PipelineRaises(w)  BY <3>12 DEF PipelineRaises
    <3>13. CASE MarkFailed(w)      BY <3>13 DEF MarkFailed
    <3>14. CASE MarkFailedRaises(w)
      <4>1. Failed(row[w]) \in Row
        OBVIOUS
      <4>2. row' \in [Inv -> Row]
        BY <3>14, <4>1 DEF MarkFailedRaises
      <4> QED
        BY <3>14, <4>2 DEF MarkFailedRaises
    <3>15. CASE Release(w)         BY <3>15 DEF Release, Deleted
    <3>16. CASE ReleaseRaises(w)   BY <3>16 DEF ReleaseRaises
    <3>17. CASE Answer(w)          BY <3>17 DEF Answer, Reply, Message
    <3>18. CASE AnswerRaises(w)    BY <3>18 DEF AnswerRaises
    <3> QED
      BY <2>1, <3>1, <3>2, <3>3, <3>4, <3>5, <3>6, <3>7, <3>8, <3>9, <3>10,
         <3>11, <3>12, <3>13, <3>14, <3>15, <3>16, <3>17, <3>18 DEF Step
  <2>2. ASSUME NEW u \in User, LockExpires(u) PROVE TypeOK'
    BY <2>2 DEF LockExpires
  <2>3. ASSUME NEW p \in {"api", "bot"}, Crash(p) \/ Shutdown(p) PROVE TypeOK'
    BY <2>3 DEF Crash, Shutdown, Ended
  <2>4. CASE UNCHANGED vars
    BY <2>4 DEF vars
  <2> QED
    BY <2>1, <2>2, <2>3, <2>4 DEF Next
<1> QED
  BY <1>1, <1>2, PTL DEF Spec

-----------------------------------------------------------------------------
(***************************************************************************)
(* RecordsAgree is not inductive alone: that a commit publishes a whole    *)
(* row depends on what each stage of the call has left in the database and *)
(* in its session.                                                         *)
(***************************************************************************)
Sound(r) ==
  /\ r.status = "success" => r.rec
  /\ r.status = "no_trade" => ~r.rec
  /\ r.status \in {"success", "no_trade"} => r.evidence
  /\ r.finished <=> Terminal(r.status)

Decided(r) ==
  /\ r.finished
  /\ \/ r.status = "success" /\ r.rec
     \/ r.status = "no_trade" /\ ~r.rec

Stored(w) == (row[w].rec <=> w \in recs) /\ Sound(row[w])

Staged(w) ==
  /\ pc[w] \in {"idle", "locked"} => row[w] = NoRow
  /\ pc[w] \in {"opened", "persisted", "notified", "captured"} => row[w] = NewRow
  /\ pc[w] \in {"persisted", "notified", "captured"} => Decided(tx[w])
  /\ pc[w] = "captured" => tx[w].evidence

RecordsInv == \A w \in Inv : Stored(w) /\ Staged(w)

LEMMA RowFacts ==
  /\ Sound(NoRow) /\ ~NoRow.rec
  /\ Sound(NewRow) /\ ~NewRow.rec
  /\ \A trade \in BOOLEAN : Decided(PersistRecommendation(NewRow, trade))
  /\ \A r \in Row : Decided(r) => Decided([r EXCEPT !.evidence = TRUE])
  /\ \A r \in Row : [r EXCEPT !.evidence = TRUE].evidence
  /\ \A r \in Row : Decided(r) => Completed(r).rec = r.rec
  /\ \A r \in Row : Decided(r) /\ r.evidence => Sound(Completed(r))
  /\ \A r \in Row : Sound(r) => Sound(Failed(r))
  /\ \A r \in Row : Failed(r).rec = r.rec
BY DEF Sound, Decided, NoRow, NewRow, Row, Status, Terminal,
       PersistRecommendation, Completed, Failed

LEMMA RecordsInvInductive ==
  TypeOK /\ RecordsInv /\ [Next]_vars => RecordsInv'
<1> SUFFICES ASSUME TypeOK, RecordsInv, [Next]_vars, NEW v \in Inv
             PROVE  Stored(v)' /\ Staged(v)'
  BY DEF RecordsInv
<1>1. Stored(v) /\ Staged(v) /\ row[v] \in Row /\ tx[v] \in Row
  BY DEF RecordsInv, TypeOK
\* What a step leaves alone keeps its part of the invariant.
<1>2. ASSUME row'[v] = row[v], recs' = recs PROVE Stored(v)'
  BY <1>1, <1>2 DEF Stored
<1>3. ASSUME row'[v] = row[v], tx'[v] = tx[v], pc'[v] = pc[v] PROVE Staged(v)'
  BY <1>1, <1>3 DEF Staged
<1>4. ASSUME pc'[v] \in {"failing", "releasing", "returned", "done", "unheard", "dead"}
      PROVE  Staged(v)'
  BY <1>4 DEF Staged
<1>5. ASSUME NEW w \in Inv, Step(w), w # v PROVE Stored(v)' /\ Staged(v)'
  <2>1. row'[v] = row[v] /\ tx'[v] = tx[v] /\ pc'[v] = pc[v]
    BY <1>5 DEF Step, TypeOK, Acquire, AcquireRefused, AcquireRaises, OpenRun,
       InsertRaises, OpenCommitRaises, Persist, NotifyUser, CaptureRun, CommitRun,
       CommitRaises, Published, PipelineRaises, MarkFailed, MarkFailedRaises,
       Release, ReleaseRaises, Answer, AnswerRaises
  <2>2. v \in recs' <=> v \in recs
    BY <1>5 DEF Step, Acquire, AcquireRefused, AcquireRaises, OpenRun,
       InsertRaises, OpenCommitRaises, Persist, NotifyUser, CaptureRun, CommitRun,
       CommitRaises, Published, PipelineRaises, MarkFailed, MarkFailedRaises,
       Release, ReleaseRaises, Answer, AnswerRaises
  <2> QED
    BY <1>1, <1>3, <2>1, <2>2 DEF Stored
<1>6. ASSUME Step(v) PROVE Stored(v)' /\ Staged(v)'
  <2> USE <1>1, RowFacts DEF TypeOK
  <2>1. CASE Acquire(v) \/ AcquireRefused(v) \/ AcquireRaises(v)
    BY <2>1, <1>2, <1>4 DEF Acquire, AcquireRefused, AcquireRaises, Staged
  <2>2. CASE OpenRun(v)
    BY <2>2 DEF OpenRun, Stored, Staged
  <2>3. CASE InsertRaises(v)
    BY <2>3, <1>2, <1>4 DEF InsertRaises
  <2>4. CASE OpenCommitRaises(v)
    <3>1. Staged(v)'
      BY <2>4, <1>4 DEF OpenCommitRaises
    <3>2. Stored(v)'
      BY <2>4 DEF OpenCommitRaises, Stored, Staged
    <3> QED
      BY <3>1, <3>2
  <2>5. CASE Persist(v)
    <3>1. Stored(v)'
      BY <2>5, <1>2 DEF Persist
    <3>2. row[v] = NewRow
      BY <2>5 DEF Persist, Staged
    <3>3. PICK trade \in BOOLEAN :
            tx' = [tx EXCEPT ![v] = PersistRecommendation(row[v], trade)]
      BY <2>5 DEF Persist
    <3>4. Decided(tx'[v])
      BY <3>2, <3>3
    <3> QED
      BY <2>5, <3>1, <3>2, <3>4 DEF Persist, Staged
  <2>6. CASE NotifyUser(v)
    BY <2>6, <1>2 DEF NotifyUser, Staged
  <2>7. CASE CaptureRun(v)
    <3>1. Stored(v)'
      BY <2>7, <1>2 DEF CaptureRun
    <3>2. tx'[v] = [tx[v] EXCEPT !.evidence = TRUE]
      BY <2>7 DEF CaptureRun
    <3>3. row'[v] = NewRow /\ Decided(tx[v]) /\ pc'[v] = "captured"
      BY <2>7 DEF CaptureRun, Staged
    <3> QED
      BY <3>1, <3>2, <3>3 DEF Staged
  <2>8. ASSUME pc[v] = "captured", Published(v) PROVE Stored(v)'
    <3>1. Decided(tx[v]) /\ tx[v].evidence /\ row[v] = NewRow
      BY <2>8 DEF Staged
    <3>2. v \notin recs
      BY <3>1 DEF Stored
    <3>3. row'[v] = Completed(tx[v])
      BY <2>8 DEF Published
    <3>4. v \in recs' <=> tx[v].rec
      BY <2>8, <3>2 DEF Published
    <3> QED
      BY <3>1, <3>3, <3>4 DEF Stored
  <2>9. CASE CommitRun(v)
    BY <2>8, <2>9, <1>4 DEF CommitRun
  <2>10. CASE CommitRaises(v)
    BY <2>8, <2>10, <1>2, <1>4 DEF CommitRaises
  <2>11. CASE PipelineRaises(v)
    BY <2>11, <1>2, <1>4 DEF PipelineRaises
  <2>12. ASSUME row' = [row EXCEPT ![v] = Failed(@)], recs' = recs PROVE Stored(v)'
    BY <2>12 DEF Stored
  <2>13. CASE MarkFailed(v)
    BY <2>12, <2>13, <1>4 DEF MarkFailed
  <2>14. CASE MarkFailedRaises(v)
    BY <2>12, <2>14, <1>2, <1>4 DEF MarkFailedRaises
  <2>15. CASE Release(v) \/ ReleaseRaises(v) \/ Answer(v)
    BY <2>15, <1>2, <1>4 DEF Release, ReleaseRaises, Answer
  <2>16. CASE AnswerRaises(v)
    BY <2>16, <1>2, <1>4 DEF AnswerRaises
  <2> QED
    BY <1>6, <2>1, <2>2, <2>3, <2>4, <2>5, <2>6, <2>7, <2>9, <2>10, <2>11,
       <2>13, <2>14, <2>15, <2>16 DEF Step
<1>7. ASSUME NEW u \in User, LockExpires(u) PROVE Stored(v)' /\ Staged(v)'
  BY <1>7, <1>2, <1>3 DEF LockExpires
<1>8. ASSUME NEW p \in {"api", "bot"}, Crash(p) \/ Shutdown(p) PROVE Stored(v)' /\ Staged(v)'
  <2>1. Stored(v)'
    BY <1>8, <1>2 DEF Crash, Shutdown, Ended
  <2>2. CASE v \in Running(p)
    BY <1>8, <2>1, <2>2, <1>4 DEF Crash, Shutdown, Ended
  <2>3. CASE v \notin Running(p)
    BY <1>8, <2>1, <2>3, <1>3 DEF Crash, Shutdown, Ended
  <2> QED
    BY <2>2, <2>3
<1>9. CASE UNCHANGED vars
  BY <1>9, <1>2, <1>3 DEF vars
<1> QED
  BY <1>5, <1>6, <1>7, <1>8, <1>9 DEF Next

\* The workflow_runs row, the recommendations table and the stored evidence
\* agree at every moment, whichever database call, commit acknowledgement,
\* pipeline step or process failed: no orphan recommendation, no half success.
THEOREM RecordsAlwaysAgree == Spec => []RecordsAgree
<1>1. Init => RecordsInv
  BY RowFacts DEF Init, RecordsInv, Stored, Staged
<1>2. RecordsInv => RecordsAgree
  BY DEF RecordsInv, RecordsAgree, Stored, Sound
<1> QED
  BY <1>1, <1>2, TypeCorrect, RecordsInvInductive, PTL DEF Spec

-----------------------------------------------------------------------------
(***************************************************************************)
(* The lock.  While the TTL outlasts every scan, a call between acquire    *)
(* and release is the one whose token Redis holds.                         *)
(***************************************************************************)
LockInv == \A w \in Inv : pc[w] \in Holding => lock[UserOf(w)] = w

LEMMA LockInvInductive ==
  ASSUME "slow" \notin Faults
  PROVE  TypeOK /\ LockInv /\ [Next]_vars => LockInv'
<1> SUFFICES ASSUME TypeOK, LockInv, [Next]_vars, NEW v \in Inv, pc'[v] \in Holding
             PROVE  lock'[UserOf(v)'] = v
  BY DEF LockInv
<1> USE NoInvAssumption DEF TypeOK, UserOf, Call, Holding, Stage
<1>1. ASSUME NEW w \in Inv, Step(w) PROVE lock'[UserOf(v)'] = v
  <2>1. CASE Acquire(w)
    BY <2>1 DEF Acquire, LockInv
  <2>2. CASE Release(w)
    BY <2>2 DEF Release, Deleted, LockInv
  <2>3. ASSUME lock' = lock, call' = call, pc'[v] \in Holding => pc[v] \in Holding
        PROVE  lock'[UserOf(v)'] = v
    BY <2>3 DEF LockInv
  <2>4. CASE OpenRun(w) \/ InsertRaises(w) \/ OpenCommitRaises(w) \/ Persist(w)
    BY <2>3, <2>4 DEF OpenRun, InsertRaises, OpenCommitRaises, Persist
  <2>5. CASE NotifyUser(w) \/ CaptureRun(w) \/ CommitRun(w) \/ CommitRaises(w)
    BY <2>3, <2>5 DEF NotifyUser, CaptureRun, CommitRun, CommitRaises
  <2>6. CASE PipelineRaises(w) \/ MarkFailed(w) \/ MarkFailedRaises(w)
    BY <2>3, <2>6 DEF PipelineRaises, MarkFailed, MarkFailedRaises
  <2>7. CASE AcquireRefused(w) \/ AcquireRaises(w) \/ ReleaseRaises(w) \/ Answer(w)
           \/ AnswerRaises(w)
    BY <2>3, <2>7 DEF AcquireRefused, AcquireRaises, ReleaseRaises, Answer, AnswerRaises
  <2> QED
    BY <1>1, <2>1, <2>2, <2>4, <2>5, <2>6, <2>7 DEF Step
<1>2. ASSUME NEW u \in User, LockExpires(u) PROVE lock'[UserOf(v)'] = v
  BY <1>2, "slow" \notin Faults DEF LockExpires, LockInv
<1>3. ASSUME NEW p \in {"api", "bot"}, Crash(p) \/ Shutdown(p) PROVE lock'[UserOf(v)'] = v
  <2>1. v \notin Running(p) /\ pc[v] \in Holding /\ call' = call
    BY <1>3 DEF Crash, Shutdown, Ended
  <2>2. lock[UserOf(v)] = v /\ UserOf(v) \in User
    BY <2>1 DEF LockInv
  <2> QED
    BY <1>3, <2>1, <2>2 DEF Crash, Shutdown, Ended, Cancelled
<1>4. CASE UNCHANGED vars
  BY <1>4 DEF vars, LockInv
<1> QED
  BY <1>1, <1>2, <1>3, <1>4 DEF Next

\* Two calls for one user, cron or manual, from either process, are never both
\* between acquire and release, as long as no scan outlives the lock's TTL.
THEOREM ScansTakeTurns ==
  ASSUME "slow" \notin Faults
  PROVE  Spec => []OneScanPerUser
<1>1. Init => LockInv
  BY DEF Init, LockInv, Holding
<1>2. LockInv => OneScanPerUser
  BY DEF LockInv, OneScanPerUser
<1>3. TypeOK /\ LockInv /\ [Next]_vars => LockInv'
  BY "slow" \notin Faults, LockInvInductive
<1> QED
  BY <1>1, <1>2, <1>3, TypeCorrect, PTL DEF Spec

\* Whatever fails, and however slow a scan is, the only step of a coroutine
\* that takes a token out of Redis is the release of the token's own call, at
\* its end or on its cancellation.
THEOREM ReleaseIsOwn == Spec => ForeignLockKept
<1> DEFINE Kept == \A u \in User, w \in Inv :
                     lock[u] = w /\ lock'[u] # w =>
                       \/ pc[w] = "releasing" /\ pc'[w] = "returned"
                       \/ pc[w] \in Holding /\ pc'[w] = "dead"
                       \/ pc' = pc
<1>1. TypeOK /\ [Next]_vars => [Kept]_vars
  <2> SUFFICES ASSUME TypeOK, Next, NEW u \in User, NEW w \in Inv,
                      lock[u] = w, lock'[u] # w
               PROVE  \/ pc[w] = "releasing" /\ pc'[w] = "returned"
                      \/ pc[w] \in Holding /\ pc'[w] = "dead"
                      \/ pc' = pc
    OBVIOUS
  <2> USE NoInvAssumption DEF TypeOK, UserOf, Call
  <2>1. ASSUME NEW x \in Inv, Step(x)
        PROVE  pc[w] = "releasing" /\ pc'[w] = "returned"
    <3>1. CASE Acquire(x)
      BY <3>1 DEF Acquire
    <3>2. CASE Release(x)
      BY <3>2 DEF Release, Deleted
    <3>3. CASE lock' = lock
      BY <3>3
    <3> QED
      BY <2>1, <3>1, <3>2, <3>3 DEF Step, AcquireRefused, AcquireRaises, OpenRun,
         InsertRaises, OpenCommitRaises, Persist, NotifyUser, CaptureRun, CommitRun,
         CommitRaises, PipelineRaises, MarkFailed, MarkFailedRaises, ReleaseRaises,
         Answer, AnswerRaises
  <2>2. ASSUME NEW x \in User, LockExpires(x) PROVE pc' = pc
    BY <2>2 DEF LockExpires
  <2>3. ASSUME NEW p \in {"api", "bot"}, Crash(p) \/ Shutdown(p)
        PROVE  pc[w] \in Holding /\ pc'[w] = "dead"
    <3>1. w \in Cancelled(p)
      BY <2>3 DEF Crash, Shutdown
    <3> QED
      BY <2>3, <3>1 DEF Crash, Shutdown, Ended, Cancelled
  <2> QED
    BY <2>1, <2>2, <2>3 DEF Next
<1> QED
  BY <1>1, TypeCorrect, PTL DEF Spec, ForeignLockKept

-----------------------------------------------------------------------------
(***************************************************************************)
(* The runner implements the ledger.  Besides the two invariants above, a  *)
(* call in its except branch has not concluded its run yet, which needs    *)
(* commits whose failure is a rollback.                                    *)
(***************************************************************************)
FailingInv ==
  \A w \in Inv : pc[w] = "failing" => row[w].status \in {"absent", "running"}

LEMMA FailingInvInductive ==
  ASSUME "ack" \notin Faults
  PROVE  TypeOK /\ RecordsInv /\ FailingInv /\ [Next]_vars => FailingInv'
<1> SUFFICES ASSUME TypeOK, RecordsInv, FailingInv, [Next]_vars,
                    NEW v \in Inv, pc'[v] = "failing"
             PROVE  row'[v].status \in {"absent", "running"}
  BY DEF FailingInv
<1>1. /\ NoRow.status = "absent" /\ NewRow.status = "running"
      /\ Staged(v)
  BY DEF NoRow, NewRow, RecordsInv
<1>2. ASSUME row'[v] = row[v], pc'[v] = pc[v]
      PROVE  row'[v].status \in {"absent", "running"}
  BY <1>2 DEF FailingInv
<1>3. ASSUME NEW w \in Inv, Step(w) PROVE row'[v].status \in {"absent", "running"}
  <2>1. CASE w # v
    <3>1. row'[v] = row[v] /\ pc'[v] = pc[v]
      BY <1>3, <2>1 DEF Step, TypeOK, Acquire, AcquireRefused, AcquireRaises,
         OpenRun, InsertRaises, OpenCommitRaises, Persist, NotifyUser, CaptureRun,
         CommitRun, CommitRaises, Published, PipelineRaises, MarkFailed,
         MarkFailedRaises, Release, ReleaseRaises, Answer, AnswerRaises
    <3> QED
      BY <3>1, <1>2
  <2>2. CASE w = v
    <3>1. OpenCommitRaises(v) \/ CommitRaises(v) \/ PipelineRaises(v)
      BY <1>3, <2>2 DEF Step, TypeOK, Acquire, AcquireRefused, AcquireRaises,
         OpenRun, InsertRaises, Persist, NotifyUser, CaptureRun, CommitRun,
         MarkFailed, MarkFailedRaises, Release, ReleaseRaises, Answer, AnswerRaises
    <3>2. row' = row /\ row[v] \in {NoRow, NewRow}
      BY <3>1, <1>1, "ack" \notin Faults
      DEF OpenCommitRaises, CommitRaises, PipelineRaises, Staged
    <3> QED
      BY <3>2, <1>1
  <2> QED
    BY <2>1, <2>2
<1>4. ASSUME NEW u \in User, LockExpires(u)
      PROVE  row'[v].status \in {"absent", "running"}
  BY <1>4, <1>2 DEF LockExpires
<1>5. ASSUME NEW p \in {"api", "bot"}, Crash(p) \/ Shutdown(p)
      PROVE  row'[v].status \in {"absent", "running"}
  BY <1>5, <1>2 DEF Crash, Shutdown, Ended, TypeOK
<1>6. CASE UNCHANGED vars
  BY <1>6, <1>2 DEF vars
<1> QED
  BY <1>3, <1>4, <1>5, <1>6 DEF Next

LEMMA StepImplementsLedger ==
  ASSUME "slow" \notin Faults, TypeOK, LockInv, RecordsInv, FailingInv,
         NEW w \in Inv, Step(w), "ack" \notin Faults
  PROVE  [Ledger!Next]_Ledger!ledgerVars
<1> DEFINE own == [x \in Inv |-> UserOf(x)]
           stg == [x \in Inv |-> StageOf(pc[x])]
           rcd == [x \in Inv |-> row[x].status]
<1> USE DEF TypeOK, UserOf, StageOf, Holding
<1>1. ASSUME call' = call, stg' = stg, rcd' = rcd, recs' = recs
      PROVE  UNCHANGED Ledger!ledgerVars
  BY <1>1 DEF Ledger!ledgerVars
<1>2. Staged(w) /\ Stored(w) /\ row[w] \in Row /\ tx[w] \in Row
  BY DEF RecordsInv
<1>3. NoRow.status = "absent" /\ NewRow.status = "running" /\ ~NewRow.rec
  BY DEF NoRow, NewRow
<1>4. CASE Acquire(w)
  <2>1. \A v \in Inv : own[v] = own[w] => stg[v] # "scanning"
    BY <1>4, NoInvAssumption DEF Acquire, LockInv
  <2>2. stg[w] = "waiting" /\ stg' = [stg EXCEPT ![w] = "scanning"]
    BY <1>4 DEF Acquire
  <2>3. own' = own /\ rcd' = rcd /\ recs' = recs
    BY <1>4 DEF Acquire
  <2>4. Ledger!Begin(w)
    BY <2>1, <2>2, <2>3 DEF Ledger!Begin
  <2> QED
    BY <2>4 DEF Ledger!Next
<1>5. CASE AcquireRefused(w) \/ AcquireRaises(w)
  <2>1. stg[w] = "waiting" /\ stg' = [stg EXCEPT ![w] = "over"]
    BY <1>5 DEF AcquireRefused, AcquireRaises
  <2>2. own' = own /\ rcd' = rcd /\ recs' = recs
    BY <1>5 DEF AcquireRefused, AcquireRaises
  <2>3. Ledger!Refuse(w)
    BY <2>1, <2>2 DEF Ledger!Refuse
  <2> QED
    BY <2>3 DEF Ledger!Next
<1>6. CASE OpenRun(w)
  <2>1. stg[w] = "scanning" /\ stg' = stg /\ own' = own /\ recs' = recs
    BY <1>6 DEF OpenRun
  <2>2. rcd[w] = "absent" /\ rcd' = [rcd EXCEPT ![w] = "running"]
    BY <1>6, <1>2, <1>3 DEF OpenRun, Staged
  <2>3. Ledger!Open(w)
    BY <2>1, <2>2 DEF Ledger!Open
  <2> QED
    BY <2>3 DEF Ledger!Next
<1>7. CASE CommitRun(w)
  <2> DEFINE c == tx[w].status
  <2>1. stg[w] = "scanning" /\ stg' = stg /\ own' = own
    BY <1>7 DEF CommitRun
  <2>2. Decided(tx[w]) /\ row[w] = NewRow
    BY <1>7, <1>2 DEF CommitRun, Staged
  <2>3. Completed(tx[w]).status = c
    BY <2>2, <1>2 DEF Completed, Decided, Row
  <2>4. rcd[w] = "running" /\ rcd' = [rcd EXCEPT ![w] = c]
    BY <1>7, <1>3, <2>2, <2>3 DEF CommitRun, Published
  <2>5. c \in {"success", "no_trade"} /\ (tx[w].rec <=> c = "success")
    BY <2>2 DEF Decided
  <2>6. recs' = IF c = "success" THEN recs \cup {w} ELSE recs
    BY <1>7, <2>5 DEF CommitRun, Published
  <2> HIDE DEF c
  <2>7. \/ Ledger!Conclude(w, "success") /\ "success" \in Ledger!Conclusion
        \/ Ledger!Conclude(w, "no_trade") /\ "no_trade" \in Ledger!Conclusion
    BY <2>1, <2>4, <2>5, <2>6 DEF Ledger!Conclude, Ledger!Conclusion
  <2> QED
    BY <2>7 DEF Ledger!Next
<1>8. CASE MarkFailed(w)
  <2>1. stg[w] = "scanning" /\ stg' = stg /\ own' = own /\ recs' = recs
    BY <1>8 DEF MarkFailed
  <2>2. rcd[w] = "running"
    BY <1>8 DEF MarkFailed, FailingInv
  <2>3. Failed(row[w]).status = "failed"
    BY <1>2 DEF Failed, Row
  <2>4. rcd' = [rcd EXCEPT ![w] = "failed"]
    BY <1>8, <2>3 DEF MarkFailed
  <2>5. Ledger!Conclude(w, "failed") /\ "failed" \in Ledger!Conclusion
    BY <2>1, <2>2, <2>4 DEF Ledger!Conclude, Ledger!Conclusion
  <2> QED
    BY <2>5 DEF Ledger!Next
<1>9. CASE Release(w) \/ ReleaseRaises(w)
  <2>1. stg[w] = "scanning" /\ own' = own /\ rcd' = rcd /\ recs' = recs
    BY <1>9 DEF Release, ReleaseRaises
  <2>2. stg' = [x \in Inv |-> IF x \in {w} THEN "over" ELSE stg[x]]
    BY <1>9 DEF Release, ReleaseRaises
  <2>3. Ledger!Leave({w})
    BY <2>1, <2>2 DEF Ledger!Leave
  <2> QED
    BY <2>3 DEF Ledger!Next
<1>10. CASE InsertRaises(w) \/ OpenCommitRaises(w) \/ CommitRaises(w)
            \/ MarkFailedRaises(w)
  <2>1. stg' = stg /\ call' = call /\ rcd' = rcd /\ recs' = recs
    BY <1>10, "ack" \notin Faults
    DEF InsertRaises, OpenCommitRaises, CommitRaises, MarkFailedRaises
  <2> QED
    BY <2>1, <1>1
<1>11. CASE Persist(w) \/ NotifyUser(w) \/ CaptureRun(w) \/ PipelineRaises(w)
            \/ Answer(w) \/ AnswerRaises(w)
  <2>1. stg' = stg /\ call' = call /\ rcd' = rcd /\ recs' = recs
    BY <1>11 DEF Persist, NotifyUser, CaptureRun, PipelineRaises, Answer, AnswerRaises
  <2> QED
    BY <2>1, <1>1
<1> QED
  BY <1>4, <1>5, <1>6, <1>7, <1>8, <1>9, <1>10, <1>11 DEF Step

\* While the TTL outlasts every scan and a failed commit is a rollback, the
\* runner, with its lock, sessions, messages, crashes and other faults, does
\* nothing that RunLedger does not allow.
THEOREM RunnerImplementsLedger ==
  ASSUME "slow" \notin Faults, "ack" \notin Faults
  PROVE  Spec => ImplementsRunLedger
<1>1. Init => LockInv /\ RecordsInv /\ FailingInv
  BY RowFacts DEF Init, LockInv, Holding, RecordsInv, Stored, Staged, FailingInv
<1>2. Init => Ledger!Init
  BY DEF Init, Ledger!Init, StageOf, UserOf, Call, NoRow
<1>3. TypeOK /\ LockInv /\ RecordsInv /\ FailingInv /\ [Next]_vars
        => [Ledger!Next]_Ledger!ledgerVars
  <2> SUFFICES ASSUME TypeOK, LockInv, RecordsInv, FailingInv, [Next]_vars
               PROVE  [Ledger!Next]_Ledger!ledgerVars
    OBVIOUS
  <2>1. ASSUME NEW w \in Inv, Step(w) PROVE [Ledger!Next]_Ledger!ledgerVars
    BY <2>1, StepImplementsLedger, "slow" \notin Faults, "ack" \notin Faults
  <2>2. ASSUME NEW u \in User, LockExpires(u) PROVE UNCHANGED Ledger!ledgerVars
    BY <2>2 DEF LockExpires, Ledger!ledgerVars, UserOf
  <2>3. ASSUME NEW p \in {"api", "bot"}, Crash(p) \/ Shutdown(p)
        PROVE  [Ledger!Next]_Ledger!ledgerVars
    <3> DEFINE S == {w \in Running(p) : pc[w] \in Holding}
               stg == [w \in Inv |-> StageOf(pc[w])]
    <3>1. S \in SUBSET Inv /\ \A w \in S : stg[w] = "scanning"
      BY DEF Running, StageOf, Holding
    <3>2. stg' = [w \in Inv |-> IF w \in S THEN "over" ELSE stg[w]]
      BY <2>3 DEF Crash, Shutdown, Ended, Running, StageOf, Holding
    <3>3. UNCHANGED <<call, row, recs>>
      BY <2>3 DEF Crash, Shutdown, Ended
    <3>4. CASE S = {}
      <4>1. stg' = stg
        BY <3>2, <3>4
      <4> QED
        BY <4>1, <3>3 DEF Ledger!ledgerVars, UserOf
    <3>5. CASE S # {}
      <4>1. Ledger!Leave(S)
        BY <3>1, <3>2, <3>3, <3>5 DEF Ledger!Leave, UserOf
      <4> QED
        BY <4>1, <3>1 DEF Ledger!Next
    <3> QED
      BY <3>4, <3>5
  <2>4. CASE UNCHANGED vars
    BY <2>4 DEF vars, Ledger!ledgerVars, UserOf
  <2> QED
    BY <2>1, <2>2, <2>3, <2>4 DEF Next
<1>4. TypeOK /\ LockInv /\ [Next]_vars => LockInv'
  BY "slow" \notin Faults, LockInvInductive
<1>5. TypeOK /\ RecordsInv /\ FailingInv /\ [Next]_vars => FailingInv'
  BY "ack" \notin Faults, FailingInvInductive
<1> QED
  BY <1>1, <1>2, <1>3, <1>4, <1>5, TypeCorrect, RecordsInvInductive, PTL
  DEF Spec, ImplementsRunLedger, Ledger!Spec

-----------------------------------------------------------------------------
(***************************************************************************)
(* What run_workflow returns.  It returns nothing before its last commit;  *)
(* until then a card is in the chat exactly when the open session holds a  *)
(* recommendation, and that is what the commit publishes.                  *)
(***************************************************************************)
Unreturned == {"idle", "locked", "opened", "persisted", "notified", "captured", "failing"}

Reported(w) ==
  /\ result[w] = "success" =>
       row[w].status \in {"success", "no_trade"} /\ "result" \in heard[w]
  /\ result[w] = "success" => (w \in cards <=> w \in recs)
  /\ result[w] = "failed" => row[w].status \in {"absent", "failed"}
  /\ result[w] = "already_running" => row[w].status = "absent"

Announced(w) ==
  /\ pc[w] \in {"idle", "locked", "opened", "persisted"} => w \notin cards
  /\ pc[w] \in {"notified", "captured"} =>
       "result" \in heard[w] /\ (w \in cards <=> tx[w].rec)
  /\ pc[w] \in Unreturned => result[w] = "none"

ReturnInv == \A w \in Inv : Reported(w) /\ Announced(w)

LEMMA ReturnInvInductive ==
  TypeOK /\ RecordsInv /\ ReturnInv /\ [Next]_vars => ReturnInv'
<1> SUFFICES ASSUME TypeOK, RecordsInv, ReturnInv, [Next]_vars, NEW v \in Inv
             PROVE  Reported(v)' /\ Announced(v)'
  BY DEF ReturnInv
<1>1. /\ Reported(v) /\ Announced(v) /\ Stored(v) /\ Staged(v)
      /\ row[v] \in Row /\ tx[v] \in Row
  BY DEF ReturnInv, RecordsInv, TypeOK
<1>2. ASSUME row'[v] = row[v], tx'[v] = tx[v], pc'[v] = pc[v], heard'[v] = heard[v],
             result'[v] = result[v], v \in cards' <=> v \in cards, v \in recs' <=> v \in recs
      PROVE  Reported(v)' /\ Announced(v)'
  BY <1>1, <1>2 DEF Reported, Announced
<1>3. ASSUME NEW w \in Inv, Step(w), w # v PROVE Reported(v)' /\ Announced(v)'
  <2>1. /\ row'[v] = row[v] /\ tx'[v] = tx[v] /\ pc'[v] = pc[v]
        /\ heard'[v] = heard[v] /\ result'[v] = result[v]
    BY <1>3 DEF Step, TypeOK, Acquire, AcquireRefused, AcquireRaises, OpenRun,
       InsertRaises, OpenCommitRaises, Persist, NotifyUser, CaptureRun, CommitRun,
       CommitRaises, Published, PipelineRaises, MarkFailed, MarkFailedRaises,
       Release, ReleaseRaises, Answer, AnswerRaises
  <2>2. (v \in recs' <=> v \in recs) /\ (v \in cards' <=> v \in cards)
    BY <1>3 DEF Step, Acquire, AcquireRefused, AcquireRaises, OpenRun,
       InsertRaises, OpenCommitRaises, Persist, NotifyUser, CaptureRun, CommitRun,
       CommitRaises, Published, PipelineRaises, MarkFailed, MarkFailedRaises,
       Release, ReleaseRaises, Answer, AnswerRaises
  <2> QED
    BY <1>2, <2>1, <2>2
<1>4. ASSUME Step(v) PROVE Reported(v)' /\ Announced(v)'
  <2> USE <1>1, RowFacts DEF TypeOK, Unreturned
  <2>1. CASE Acquire(v)
    BY <2>1 DEF Acquire, Reported, Announced
  <2>2. CASE AcquireRefused(v)
    BY <2>2 DEF AcquireRefused, Reported, Announced, Staged, NoRow
  <2>3. CASE AcquireRaises(v)
    BY <2>3 DEF AcquireRaises, Reported, Announced
  <2>4. CASE OpenRun(v) \/ OpenCommitRaises(v)
    BY <2>4 DEF OpenRun, OpenCommitRaises, Reported, Announced
  <2>5. CASE InsertRaises(v)
    BY <2>5 DEF InsertRaises, Reported, Announced, Staged, NoRow
  <2>6. CASE Persist(v) \/ PipelineRaises(v)
    BY <2>6 DEF Persist, PipelineRaises, Reported, Announced
  <2>7. CASE NotifyUser(v)
    BY <2>7 DEF NotifyUser, Reported, Announced
  <2>8. CASE CaptureRun(v)
    <3>1. tx'[v] = [tx[v] EXCEPT !.evidence = TRUE] /\ tx'[v].rec = tx[v].rec
      BY <2>8 DEF CaptureRun, Row
    <3> QED
      BY <2>8, <3>1 DEF CaptureRun, Reported, Announced
  <2>9. CASE CommitRun(v)
    <3>1. Decided(tx[v]) /\ row[v] = NewRow /\ v \notin recs
      BY <2>9 DEF CommitRun, Staged, Stored
    <3>2. row'[v] = Completed(tx[v]) /\ (v \in recs' <=> tx[v].rec)
      BY <2>9, <3>1 DEF CommitRun, Published
    <3>3. row'[v].status \in {"success", "no_trade"}
      BY <3>1, <3>2 DEF Completed, Decided, Row
    <3>4. /\ "result" \in heard'[v] /\ (v \in cards' <=> v \in recs')
          /\ result'[v] = "success" /\ pc'[v] = "releasing"
      BY <2>9, <3>2 DEF CommitRun, Announced
    <3> QED
      BY <3>3, <3>4 DEF Reported, Announced
  <2>10. CASE CommitRaises(v)
    BY <2>10 DEF CommitRaises, Reported, Announced
  <2>11. CASE MarkFailed(v)
    <3>1. row'[v].status = "failed"
      BY <2>11 DEF MarkFailed, Failed, Row
    <3> QED
      BY <2>11, <3>1 DEF MarkFailed, Reported, Announced
  <2>12. CASE MarkFailedRaises(v)
    BY <2>12 DEF MarkFailedRaises, Reported, Announced
  <2>13. CASE Release(v) \/ ReleaseRaises(v)
    BY <2>13 DEF Release, ReleaseRaises, Reported, Announced
  <2>14. CASE Answer(v)
    <3>1. /\ row' = row /\ cards' = cards /\ recs' = recs /\ result' = result
          /\ pc'[v] = "done" /\ ("result" \in heard[v] => "result" \in heard'[v])
      BY <2>14 DEF Answer
    <3> QED
      BY <3>1 DEF Reported, Announced
  <2>15. CASE AnswerRaises(v)
    BY <2>15 DEF AnswerRaises, Reported, Announced
  <2> QED
    BY <1>4, <2>1, <2>2, <2>3, <2>4, <2>5, <2>6, <2>7, <2>8, <2>9, <2>10, <2>11,
       <2>12, <2>13, <2>14, <2>15 DEF Step
<1>5. ASSUME NEW u \in User, LockExpires(u) PROVE Reported(v)' /\ Announced(v)'
  BY <1>5, <1>2 DEF LockExpires
<1>6. ASSUME NEW p \in {"api", "bot"}, Crash(p) \/ Shutdown(p)
      PROVE  Reported(v)' /\ Announced(v)'
  <2>1. UNCHANGED <<row, recs, cards, heard, result>>
    BY <1>6 DEF Crash, Shutdown, Ended
  <2>2. pc'[v] = "dead" \/ (pc'[v] = pc[v] /\ tx'[v] = tx[v])
    BY <1>6 DEF Crash, Shutdown, Ended
  <2> QED
    BY <1>1, <2>1, <2>2 DEF Reported, Announced, Unreturned
<1>7. CASE UNCHANGED vars
  BY <1>7, <1>2 DEF vars
<1> QED
  BY <1>3, <1>4, <1>5, <1>6, <1>7 DEF Next

\* What run_workflow returns is what the database and the chat say, whichever
\* call, commit, acknowledgement, step or process failed on the way.
THEOREM ReturnsAreRecorded == Spec => []ReturnedIsRecorded
<1>1. Init => RecordsInv
  BY RowFacts DEF Init, RecordsInv, Stored, Staged
<1>2. Init => ReturnInv
  BY DEF Init, ReturnInv, Reported, Announced, Unreturned
<1>3. ReturnInv => ReturnedIsRecorded
  BY DEF ReturnInv, ReturnedIsRecorded, Reported
<1> QED
  BY <1>1, <1>2, <1>3, TypeCorrect, RecordsInvInductive, ReturnInvInductive, PTL
     DEF Spec

\* While a failed commit is a rollback, a run that has ended is never written
\* again: the except branch only finds runs that have not concluded.
THEOREM EndedRunsStay == ASSUME "ack" \notin Faults PROVE Spec => EndedRunIsFinal
<1> DEFINE Final == \A w \in Inv : Terminal(row[w].status) => row'[w] = row[w]
<1>1. Init => RecordsInv /\ FailingInv
  BY RowFacts DEF Init, RecordsInv, Stored, Staged, FailingInv
<1>2. TypeOK /\ RecordsInv /\ FailingInv /\ [Next]_vars => FailingInv'
  BY "ack" \notin Faults, FailingInvInductive
<1>3. TypeOK /\ RecordsInv /\ FailingInv /\ [Next]_vars => [Final]_vars
  <2> SUFFICES ASSUME TypeOK, RecordsInv, FailingInv, Next,
                      NEW v \in Inv, Terminal(row[v].status)
               PROVE  row'[v] = row[v]
    OBVIOUS
  <2>1. /\ Staged(v) /\ NoRow.status = "absent" /\ NewRow.status = "running"
        /\ row[v].status \notin {"absent", "running"}
    BY DEF RecordsInv, NoRow, NewRow, Terminal
  <2>2. pc[v] \notin {"locked", "captured", "failing"}
    BY <2>1 DEF Staged, FailingInv
  <2>3. ASSUME NEW w \in Inv, Step(w) PROVE row'[v] = row[v]
    <3>1. \/ row' = row
          \/ /\ pc[w] \in {"locked", "captured", "failing"}
             /\ \A x \in Inv \ {w} : row'[x] = row[x]
      BY <2>3 DEF Step, TypeOK, Acquire, AcquireRefused, AcquireRaises, OpenRun,
         InsertRaises, OpenCommitRaises, Persist, NotifyUser, CaptureRun, CommitRun,
         CommitRaises, Published, PipelineRaises, MarkFailed, MarkFailedRaises,
         Release, ReleaseRaises, Answer, AnswerRaises
    <3> QED
      BY <2>2, <3>1
  <2>4. ASSUME NEW u \in User, LockExpires(u) PROVE row' = row
    BY <2>4 DEF LockExpires
  <2>5. ASSUME NEW p \in {"api", "bot"}, Crash(p) \/ Shutdown(p) PROVE row' = row
    BY <2>5 DEF Crash, Shutdown, Ended
  <2> QED
    BY <2>3, <2>4, <2>5 DEF Next
<1> QED
  BY <1>1, <1>2, <1>3, TypeCorrect, RecordsInvInductive, PTL DEF Spec, EndedRunIsFinal

=============================================================================
