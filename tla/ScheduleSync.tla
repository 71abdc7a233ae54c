---------------------------- MODULE ScheduleSync ----------------------------
(***************************************************************************)
(* A user's schedules: the cron_jobs rows the bot edits                    *)
(* (telegram/handlers/schedule.py, services/user_service.py) and the       *)
(* APScheduler jobs that start the scans (scheduler/scheduler.py).         *)
(*                                                                         *)
(* SchedulerService is a singleton of each process.  The API process       *)
(* starts its scheduler, over a job store in PostgreSQL, and reads the     *)
(* rows once, when it boots.  The bot process never starts its own: what a *)
(* handler's sync_from_database rewrites there is the list of jobs waiting *)
(* for a start that does not come.  Both parts of a sync are modelled: the *)
(* awaited read of the rows, and sync_jobs, which has no await but leaves  *)
(* one transaction of the job store per call.                              *)
(***************************************************************************)
EXTENDS Naturals

CONSTANTS
  Cron,      \* ids of cron_jobs rows (bounds the number of schedules)
  Slot,      \* weekday and local time
  Zone,      \* time zones
  DefaultSlot, \* Monday 10:30, the schedule of a new user
  Handler,   \* updates the bot handles, each once
  MaxStops   \* how often the API process may stop (a bound of the model)

ASSUME SlotAssumption == DefaultSlot \in Slot
ASSUME ZoneAssumption == Zone # {}
ASSUME MaxStopsAssumption == MaxStops \in Nat

VARIABLES
  rows,      \* rows[c]: the cron_jobs row c
  zone,      \* users.timezone_iana
  store,     \* apscheduler_jobs: the jobs of the API's scheduler
  api,       \* what the API process is doing
  snap,      \* the rows as its sync read them
  todo,      \* schedules whose job sync_jobs has still to replace
  pending,   \* the jobs of the bot's scheduler, which never starts
  bot,       \* bot[h]: where handler h is
  read,      \* read[h]: the rows as the sync of h read them
  stops      \* how often the API process has stopped

vars == <<rows, zone, store, api, snap, todo, pending, bot, read, stops>>
apiVars == <<store, api, snap, todo, stops>>
botVars == <<pending, bot, read>>

-----------------------------------------------------------------------------
Row == [status : {"absent", "active", "paused", "deleted"}, slot : Slot, zone : Zone]
Job == [cron : Cron, slot : Slot, zone : Zone]
NoRow == [status |-> "absent", slot |-> DefaultSlot, zone |-> CHOOSE z \in Zone : TRUE]
NoRows == [c \in Cron |-> NoRow]
Stored == {c \in Cron : rows[c].status \in {"active", "paused"}}

Active(rs) == {c \in Cron : rs[c].status = "active"}
JobOf(rs, c) == [cron |-> c, slot |-> rs[c].slot, zone |-> rs[c].zone]
JobsOf(rs) == {JobOf(rs, c) : c \in Active(rs)}

TypeOK ==
  /\ rows \in [Cron -> Row]
  /\ zone \in Zone
  /\ store \subseteq Job
  /\ api \in {"down", "started", "read", "purging", "adding", "up"}
  /\ snap \in [Cron -> Row]
  /\ todo \subseteq Cron
  /\ pending \subseteq Job
  /\ bot \in [Handler -> {"idle", "committed", "read", "done"}]
  /\ read \in [Handler -> [Cron -> Row]]
  /\ stops \in 0 .. MaxStops

Init ==
  /\ rows = NoRows
  /\ zone \in Zone
  /\ store = {}
  /\ api = "down"
  /\ snap = NoRows
  /\ todo = {}
  /\ pending = {}
  /\ bot = [h \in Handler |-> "idle"]
  /\ read = [h \in Handler |-> NoRows]
  /\ stops = 0

-----------------------------------------------------------------------------
(***************************************************************************)
(* The bot: a handler commits its change of the rows.  Those of the        *)
(* schedule menu then sync; those of settings and onboarding do not.       *)
(***************************************************************************)
Begin(h, next) ==
  /\ bot[h] = "idle"
  /\ bot' = [bot EXCEPT ![h] = next]
  /\ UNCHANGED <<pending, read>>
  /\ UNCHANGED apiVars

Added(c, slot) ==
  [rows EXCEPT ![c] = [status |-> "active", slot |-> slot, zone |-> zone]]

AddCron(h, c, slot) ==
  /\ Begin(h, "committed")
  /\ rows[c].status = "absent"
  /\ rows' = Added(c, slot)
  /\ UNCHANGED zone

UpdateCron(h, c, slot) ==
  /\ Begin(h, "committed")
  /\ c \in Stored
  /\ rows' = [rows EXCEPT ![c].slot = slot]
  /\ UNCHANGED zone

\* Mutant of DeleteCron: the row is only marked.
DeleteMarks(h, c) ==
  /\ Begin(h, "committed")
  /\ c \in Stored
  /\ rows' = [rows EXCEPT ![c].status = "removed"]
  /\ UNCHANGED zone

DeleteCron(h, c) ==
  /\ Begin(h, "committed")
  /\ c \in Stored
  /\ rows' = [rows EXCEPT ![c].status = "deleted"]
  /\ UNCHANGED zone

WithStatus(status) ==
  [c \in Cron |-> IF c \in Stored THEN [rows[c] EXCEPT !.status = status] ELSE rows[c]]

PauseAll(h) ==
  /\ Begin(h, "committed")
  /\ rows' = WithStatus("paused")
  /\ UNCHANGED zone

ResumeAll(h) ==
  /\ Begin(h, "committed")
  /\ rows' = WithStatus("active")
  /\ UNCHANGED zone

\* Settings: every schedule moves to the new zone.
UpdateTimezone(h, z) ==
  /\ Begin(h, "done")
  /\ zone' = z
  /\ rows' = [c \in Cron |-> IF c \in Stored THEN [rows[c] EXCEPT !.zone = z] ELSE rows[c]]

\* Onboarding, also when run again: the zone is the user's, and a user without
\* any schedule gets the default one.  Other schedules keep their zone.
Onboard(h, z) ==
  /\ Begin(h, "done")
  /\ zone' = z
  /\ IF Stored # {}
     THEN rows' = rows
     ELSE \E c \in Cron :
            /\ rows[c].status = "absent"
            /\ rows' = [rows EXCEPT ![c] =
                          [status |-> "active", slot |-> DefaultSlot, zone |-> z]]

\* sync_from_database in the bot: the read, and sync_jobs on the waiting jobs.
BotRead(h) ==
  /\ bot[h] = "committed"
  /\ read' = [read EXCEPT ![h] = rows]
  /\ bot' = [bot EXCEPT ![h] = "read"]
  /\ UNCHANGED <<rows, zone, pending>>
  /\ UNCHANGED apiVars

BotSync(h) ==
  /\ bot[h] = "read"
  /\ pending' = JobsOf(read[h])
  /\ read' = [read EXCEPT ![h] = NoRows]
  /\ bot' = [bot EXCEPT ![h] = "done"]
  /\ UNCHANGED <<rows, zone>>
  /\ UNCHANGED apiVars

\* The bot process dies with its handlers and its waiting jobs.
BotRestart ==
  /\ \E h \in Handler : bot[h] \in {"committed", "read"}
  /\ pending' = {}
  /\ bot' = [h \in Handler |-> IF bot[h] = "idle" THEN "idle" ELSE "done"]
  /\ read' = [h \in Handler |-> NoRows]
  /\ UNCHANGED <<rows, zone>>
  /\ UNCHANGED apiVars

-----------------------------------------------------------------------------
(***************************************************************************)
(* The API: start() starts the scheduler on the jobs the store still has,  *)
(* then awaits the rows, then rewrites the jobs, call by call.             *)
(***************************************************************************)
\* Mutant of Start: jobs found in the store are trusted.
StartTrustingStore ==
  /\ api = "down"
  /\ api' = IF store = {} THEN "started" ELSE "up"
  /\ UNCHANGED <<rows, zone, store, snap, todo, stops>>
  /\ UNCHANGED botVars

Start ==
  /\ api = "down"
  /\ api' = "started"
  /\ UNCHANGED <<rows, zone, store, snap, todo, stops>>
  /\ UNCHANGED botVars

ListCrons ==
  /\ api = "started"
  /\ snap' = rows
  /\ api' = "read"
  /\ UNCHANGED <<rows, zone, store, todo, stops>>
  /\ UNCHANGED botVars

\* Past this point the event loop runs nothing else until sync_jobs returns.
BeginSync ==
  /\ api = "read"
  /\ api' = "purging"
  /\ UNCHANGED <<rows, zone, store, snap, todo, stops>>
  /\ UNCHANGED botVars

\* Mutant of Stale: only schedules without a row lose their job.
StaleWithoutRow == {j \in store : snap[j.cron].status \in {"absent", "deleted"}}

Stale == {j \in store : j.cron \notin Active(snap)}

Purge(j) ==
  /\ api = "purging"
  /\ j \in Stale
  /\ store' = store \ {j}
  /\ UNCHANGED <<rows, zone, api, snap, todo, stops>>
  /\ UNCHANGED botVars

BeginAdding ==
  /\ api = "purging"
  /\ Stale = {}
  /\ todo' = Active(snap)
  /\ api' = "adding"
  /\ UNCHANGED <<rows, zone, store, snap, stops>>
  /\ UNCHANGED botVars

JobsFor(c) == {j \in store : j.cron = c}

RemoveJob(c) ==
  /\ api = "adding" /\ c \in todo
  /\ JobsFor(c) # {}
  /\ store' = store \ JobsFor(c)
  /\ UNCHANGED <<rows, zone, api, snap, todo, stops>>
  /\ UNCHANGED botVars

\* add_job with replace_existing, once the old job is gone.
AddJob(c) ==
  /\ api = "adding" /\ c \in todo
  /\ JobsFor(c) = {}
  /\ store' = store \cup {JobOf(snap, c)}
  /\ todo' = todo \ {c}
  /\ UNCHANGED <<rows, zone, api, snap, stops>>
  /\ UNCHANGED botVars

EndSync ==
  /\ api = "adding" /\ todo = {}
  /\ api' = "up"
  /\ UNCHANGED <<rows, zone, store, snap, todo, stops>>
  /\ UNCHANGED botVars

\* A shutdown or a crash, wherever the process is; the store keeps its jobs.
Stop ==
  /\ api # "down" /\ stops < MaxStops
  /\ stops' = stops + 1
  /\ api' = "down"
  /\ todo' = {}
  /\ UNCHANGED <<rows, zone, store, snap>>
  /\ UNCHANGED botVars

-----------------------------------------------------------------------------
Next ==
  \/ \E h \in Handler :
       \/ \E c \in Cron, slot \in Slot : AddCron(h, c, slot) \/ UpdateCron(h, c, slot)
       \/ \E c \in Cron : DeleteCron(h, c)
       \/ \E z \in Zone : UpdateTimezone(h, z) \/ Onboard(h, z)
       \/ PauseAll(h) \/ ResumeAll(h) \/ BotRead(h) \/ BotSync(h)
  \/ BotRestart
  \/ Start \/ ListCrons \/ BeginSync \/ BeginAdding \/ EndSync \/ Stop
  \/ \E j \in store : Purge(j)
  \/ \E c \in Cron : RemoveJob(c) \/ AddJob(c)

Spec == Init /\ [][Next]_vars

\* The API process is restarted when it stops, and start() runs to its end.
Boot ==
  \/ Start \/ ListCrons \/ BeginSync \/ BeginAdding \/ EndSync
  \/ \E j \in store : Purge(j)
  \/ \E c \in Cron : RemoveJob(c) \/ AddJob(c)

FairSpec == Spec /\ WF_vars(Boot)

-----------------------------------------------------------------------------
(* What the component promises.                                            *)

\* sync_jobs makes the jobs those of the active rows it was given, whatever an
\* earlier life of the process, or one cut short in the middle of its own
\* sync, left in the store.
SyncedJobs == api = "up" => store = JobsOf(snap)

\* PRD2.md 12.4, "Updates to cron rows rewrite the in-memory APScheduler job":
\* with no handler and no sync under way, the jobs are those of the rows.
Quiet == api = "up" /\ \A h \in Handler : bot[h] \in {"idle", "done"}
UpdatesReachScheduler == Quiet => store = JobsOf(rows)

\* A restart repairs every difference, also the job that a crash between
\* remove_job and add_job lost: once the user has stopped editing, a start of
\* the API makes the jobs those of the rows.
Settled == \A h \in Handler : bot[h] = "done"
RestartRepairs == api = "down" /\ Settled ~> store = JobsOf(rows)

=============================================================================
