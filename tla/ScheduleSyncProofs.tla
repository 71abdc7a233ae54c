-------------------------- MODULE ScheduleSyncProofs --------------------------
(***************************************************************************)
(* ScheduleSync for every set of schedules, slots, zones and handlers and  *)
(* any number of restarts: its types, and what a completed sync leaves in  *)
(* the job store.                                                          *)
(***************************************************************************)
EXTENDS ScheduleSync, TLAPS

USE SlotAssumption, MaxStopsAssumption, ZoneAssumption

\* While sync_jobs adds, every job in the store belongs to an active schedule,
\* and the schedules it is through with have exactly the job of their row.
AddingInv ==
  api = "adding" =>
    /\ todo \subseteq Active(snap)
    /\ \A j \in store : /\ j.cron \in Active(snap)
                        /\ j.cron \notin todo => j = JobOf(snap, j.cron)
    /\ \A c \in Active(snap) : c \notin todo => JobOf(snap, c) \in store

SyncInv == AddingInv /\ SyncedJobs

-----------------------------------------------------------------------------
(* Types.                                                                   *)

LEMMA NoRowType == NoRow \in Row
<1>1. (CHOOSE z \in Zone : TRUE) \in Zone
  OBVIOUS
<1> QED
  BY <1>1 DEF NoRow, Row

LEMMA JobType == ASSUME NEW rs \in [Cron -> Row], NEW c \in Cron
                 PROVE JobOf(rs, c) \in Job
BY DEF JobOf, Job, Row

LEMMA InitTypes == Init => TypeOK
BY NoRowType DEF Init, TypeOK, NoRows

LEMMA BeginTypes ==
  ASSUME TypeOK, NEW h \in Handler, NEW next \in {"committed", "done"},
         Begin(h, next), rows' \in [Cron -> Row], zone' \in Zone
  PROVE TypeOK'
BY DEF TypeOK, Begin, apiVars

LEMMA EditTypes ==
  ASSUME TypeOK, NEW h \in Handler,
         \/ \E c \in Cron, slot \in Slot : AddCron(h, c, slot) \/ UpdateCron(h, c, slot)
         \/ \E c \in Cron : DeleteCron(h, c)
         \/ \E z \in Zone : UpdateTimezone(h, z) \/ Onboard(h, z)
         \/ PauseAll(h) \/ ResumeAll(h)
  PROVE TypeOK' /\ UNCHANGED apiVars
<1> USE DEF TypeOK
<1>1. ASSUME NEW c \in Cron, NEW slot \in Slot, AddCron(h, c, slot)
      PROVE TypeOK' /\ UNCHANGED apiVars
  <2>1. rows' \in [Cron -> Row] /\ zone' \in Zone
    BY <1>1 DEF AddCron, Added, Row
  <2> QED
    BY <1>1, <2>1, BeginTypes DEF AddCron, Begin
<1>2. ASSUME NEW c \in Cron, NEW slot \in Slot, UpdateCron(h, c, slot)
      PROVE TypeOK' /\ UNCHANGED apiVars
  <2>1. rows' \in [Cron -> Row] /\ zone' \in Zone
    BY <1>2 DEF UpdateCron, Row
  <2> QED
    BY <1>2, <2>1, BeginTypes DEF UpdateCron, Begin
<1>3. ASSUME NEW c \in Cron, DeleteCron(h, c)
      PROVE TypeOK' /\ UNCHANGED apiVars
  <2>1. rows' \in [Cron -> Row] /\ zone' \in Zone
    BY <1>3 DEF DeleteCron, Row
  <2> QED
    BY <1>3, <2>1, BeginTypes DEF DeleteCron, Begin
<1>4. ASSUME NEW z \in Zone, UpdateTimezone(h, z)
      PROVE TypeOK' /\ UNCHANGED apiVars
  <2>1. rows' \in [Cron -> Row] /\ zone' \in Zone
    BY <1>4 DEF UpdateTimezone, Row
  <2> QED
    BY <1>4, <2>1, BeginTypes DEF UpdateTimezone, Begin
<1>5. ASSUME NEW z \in Zone, Onboard(h, z)
      PROVE TypeOK' /\ UNCHANGED apiVars
  <2>1. ASSUME NEW c \in Cron
        PROVE [rows EXCEPT ![c] = [status |-> "active", slot |-> DefaultSlot, zone |-> z]]
                \in [Cron -> Row]
    BY DEF Row
  <2>2. rows' \in [Cron -> Row] /\ zone' \in Zone
    <3>1. CASE Stored # {}
      BY <1>5, <3>1 DEF Onboard
    <3>2. CASE Stored = {}
      BY <1>5, <3>2, <2>1 DEF Onboard
    <3> QED
      BY <3>1, <3>2
  <2> QED
    BY <1>5, <2>2, BeginTypes DEF Onboard, Begin
<1>6. ASSUME PauseAll(h) \/ ResumeAll(h)
      PROVE TypeOK' /\ UNCHANGED apiVars
  <2>1. ASSUME NEW status \in {"active", "paused"}
        PROVE WithStatus(status) \in [Cron -> Row]
    <3>1. \A r \in Row : [r EXCEPT !.status = status] \in Row
      BY DEF Row
    <3> QED
      BY <3>1 DEF WithStatus
  <2>2. rows' \in [Cron -> Row] /\ zone' \in Zone
    BY <1>6, <2>1 DEF PauseAll, ResumeAll
  <2> QED
    BY <1>6, <2>2, BeginTypes DEF PauseAll, ResumeAll, Begin
<1> QED
  BY <1>1, <1>2, <1>3, <1>4, <1>5, <1>6

LEMMA BotTypes ==
  ASSUME TypeOK, BotRestart \/ \E h \in Handler : BotRead(h) \/ BotSync(h)
  PROVE TypeOK' /\ UNCHANGED apiVars
<1> USE DEF TypeOK
<1>1. CASE BotRestart
  BY <1>1, NoRowType DEF BotRestart, NoRows, apiVars
<1>2. ASSUME NEW h \in Handler, BotRead(h)
      PROVE TypeOK' /\ UNCHANGED apiVars
  BY <1>2 DEF BotRead, apiVars
<1>3. ASSUME NEW h \in Handler, BotSync(h)
      PROVE TypeOK' /\ UNCHANGED apiVars
  <2>1. JobsOf(read[h]) \subseteq Job
    BY JobType DEF JobsOf, Active
  <2> QED
    BY <1>3, <2>1, NoRowType DEF BotSync, NoRows, apiVars
<1> QED
  BY <1>1, <1>2, <1>3

LEMMA ApiTypes ==
  ASSUME TypeOK,
         \/ Start \/ ListCrons \/ BeginSync \/ BeginAdding \/ EndSync \/ Stop
         \/ \E j \in store : Purge(j)
         \/ \E c \in Cron : RemoveJob(c) \/ AddJob(c)
  PROVE TypeOK'
<1> USE DEF TypeOK, botVars
<1>1. CASE Start \/ ListCrons \/ BeginSync \/ EndSync
  BY <1>1 DEF Start, ListCrons, BeginSync, EndSync
<1>2. CASE BeginAdding
  BY <1>2 DEF BeginAdding, Active
<1>3. CASE Stop
  BY <1>3 DEF Stop
<1>4. ASSUME NEW j \in store, Purge(j) PROVE TypeOK'
  BY <1>4 DEF Purge
<1>5. ASSUME NEW c \in Cron, RemoveJob(c) PROVE TypeOK'
  BY <1>5 DEF RemoveJob
<1>6. ASSUME NEW c \in Cron, AddJob(c) PROVE TypeOK'
  <2>1. JobOf(snap, c) \in Job
    BY JobType
  <2> QED
    BY <1>6, <2>1 DEF AddJob
<1> QED
  BY <1>1, <1>2, <1>3, <1>4, <1>5, <1>6

LEMMA StepTypes == TypeOK /\ [Next]_vars => TypeOK'
<1> SUFFICES ASSUME TypeOK, [Next]_vars PROVE TypeOK'
  OBVIOUS
<1>1. CASE UNCHANGED vars
  BY <1>1 DEF TypeOK, vars
<1>2. CASE Next
  BY <1>2, EditTypes, BotTypes, ApiTypes DEF Next
<1> QED
  BY <1>1, <1>2

\* Every reachable state is well-typed, for all values of the constants.
THEOREM TypeCorrect == Spec => []TypeOK
BY InitTypes, StepTypes, PTL DEF Spec

-----------------------------------------------------------------------------
(* The sync.                                                                *)

LEMMA InitSync == Init => SyncInv
BY DEF Init, SyncInv, AddingInv, SyncedJobs

LEMMA BotKeepsSync ==
  ASSUME SyncInv, UNCHANGED apiVars PROVE SyncInv'
BY DEF SyncInv, AddingInv, SyncedJobs, apiVars, JobsOf, JobOf, Active

LEMMA ApiKeepsSync ==
  ASSUME TypeOK, SyncInv,
         \/ Start \/ ListCrons \/ BeginSync \/ BeginAdding \/ EndSync \/ Stop
         \/ \E j \in store : Purge(j)
         \/ \E c \in Cron : RemoveJob(c) \/ AddJob(c)
  PROVE SyncInv'
<1> USE DEF SyncInv, AddingInv, SyncedJobs
<1>1. CASE Start \/ ListCrons \/ BeginSync \/ Stop
  BY <1>1 DEF Start, ListCrons, BeginSync, Stop
<1>2. ASSUME NEW j \in store, Purge(j) PROVE SyncInv'
  BY <1>2 DEF Purge
<1>3. CASE BeginAdding
  <2>1. \A j \in store : j.cron \in Active(snap)
    BY <1>3 DEF BeginAdding, Stale
  <2>2. Active(snap)' = Active(snap)
    BY <1>3 DEF BeginAdding, Active
  <2> QED
    BY <1>3, <2>1, <2>2 DEF BeginAdding
<1>4. ASSUME NEW c \in Cron, RemoveJob(c) PROVE SyncInv'
  <2>1. Active(snap)' = Active(snap) /\ \A d : JobOf(snap, d)' = JobOf(snap, d)
    BY <1>4 DEF RemoveJob, Active, JobOf
  <2>2. \A d : JobOf(snap, d).cron = d
    BY DEF JobOf
  <2> QED
    BY <1>4, <2>1, <2>2 DEF RemoveJob, JobsFor
<1>5. ASSUME NEW c \in Cron, AddJob(c) PROVE SyncInv'
  <2>1. Active(snap)' = Active(snap) /\ \A d : JobOf(snap, d)' = JobOf(snap, d)
    BY <1>5 DEF AddJob, Active, JobOf
  <2>2. \A d : JobOf(snap, d).cron = d
    BY DEF JobOf
  <2> QED
    BY <1>5, <2>1, <2>2 DEF AddJob, JobsFor
<1>6. CASE EndSync
  <2>1. \A j \in store : j \in JobsOf(snap)
    BY <1>6 DEF EndSync, JobsOf
  <2>2. \A j \in JobsOf(snap) : j \in store
    BY <1>6 DEF EndSync, JobsOf
  <2>3. JobsOf(snap)' = JobsOf(snap)
    BY <1>6 DEF EndSync, JobsOf, JobOf, Active
  <2> QED
    BY <1>6, <2>1, <2>2, <2>3 DEF EndSync
<1> QED
  BY <1>1, <1>2, <1>3, <1>4, <1>5, <1>6

LEMMA StepSync == TypeOK /\ SyncInv /\ [Next]_vars => SyncInv'
<1> SUFFICES ASSUME TypeOK, SyncInv, [Next]_vars PROVE SyncInv'
  OBVIOUS
<1>1. CASE UNCHANGED vars
  BY <1>1, BotKeepsSync DEF vars, apiVars
<1>2. CASE Next
  BY <1>2, EditTypes, BotTypes, BotKeepsSync, ApiKeepsSync DEF Next
<1> QED
  BY <1>1, <1>2

\* After any history of edits, restarts and syncs cut short, a completed sync
\* leaves exactly the jobs of the active rows it read: no stale job, none lost.
THEOREM SyncIsExact == Spec => []SyncedJobs
<1>1. SyncInv => SyncedJobs
  BY DEF SyncInv
<1> QED
  BY <1>1, InitTypes, StepTypes, InitSync, StepSync, PTL DEF Spec

=============================================================================
