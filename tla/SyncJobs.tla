------------------------------ MODULE SyncJobs ------------------------------
(***************************************************************************)
(* Job control of the index: who may start a sync or a rebuild, how the    *)
(* one SYNC_STATE["running"] flag is taken and given back, how a finished  *)
(* job publishes its summary (app_settings row first, LAST_SYNC_SUMMARY    *)
(* after it), and what GET /api/sync-status can see in between.            *)
(*                                                                         *)
(* The actors are threads of one API process: the thread pool threads that *)
(* serve POST /api/sync and POST /api/rebuild-index and then run the       *)
(* background task of the request, the one AutoSyncScheduler thread, and   *)
(* the threads that serve status polls.  A block under SYNC_LOCK, and one  *)
(* SQLite transaction, is one step; everything between two of them can be  *)
(* interleaved.  The work on the documents is one phase here ("working");  *)
(* module SourceIndex opens it.                                            *)
(*                                                                         *)
(* A job is named by the order of its started_at, 1, 2, ...; a summary is  *)
(* the name of the job it reports, 0 stands for "no entry".                *)
(***************************************************************************)
EXTENDS Naturals, FiniteSets

CONSTANTS
    Workers,          \* thread pool threads that accept and run a job
    Sched,            \* the scheduler thread
    Users,            \* user names a request or a poll comes with
    Nobody,           \* the key "" : the scheduler, and API keys of no user
    Pollers,          \* threads serving GET /api/sync-status
    AutoSyncAllowed,  \* may an admin turn auto_sync_enabled on?
    MaxJobs,          \* bound: jobs started in a behaviour
    MaxFaults,        \* bound: database operations that raise
    MaxRestarts       \* bound: process crashes

ASSUME SyncJobsAssumption ==
    /\ Sched \notin Workers
    /\ Nobody \notin Users
    /\ AutoSyncAllowed \in BOOLEAN
    /\ MaxJobs \in Nat /\ MaxFaults \in Nat /\ MaxRestarts \in Nat

Threads == Workers \cup {Sched}
Keys == Users \cup {Nobody}

VARIABLES
    running,      \* SYNC_STATE["running"]
    shown,        \* the job whose counters SYNC_STATE shows
    pc,           \* where each thread is
    task,         \* the job each thread runs
    started,      \* jobs started so far: the next started_at
    lastSummary,  \* LAST_SYNC_SUMMARY: the in-memory entry per user
    stored,       \* app_settings rows last_sync_summary[_<user>]
    poll,         \* the status poll each polling thread serves
    sched,        \* auto_sync_enabled, "interval elapsed", _last_info["status"]
    faults,       \* database operations that raised
    restarts      \* crashes so far

vars == <<running, shown, pc, task, started, lastSummary, stored, poll, sched,
          faults, restarts>>

Job == [key : Keys, kind : {"sync", "rebuild"}, id : Nat, ok : BOOLEAN]

\* From the moment a request set the flag, or run_*_job did, until the step
\* that clears it: the phases of a thread that is responsible for the flag.
Responsible == {"accepted", "queued", "working", "finalize", "persist",
                "remember", "audit", "release"}
Phases == Responsible \cup {"idle", "check", "claim", "begin", "report", "closing"}

TypeOK ==
    /\ running \in BOOLEAN
    /\ shown \in Nat
    /\ pc \in [Threads -> Phases]
    /\ task \in [Threads -> Job]
    /\ started \in Nat
    /\ lastSummary \in [Keys -> Nat]
    /\ stored \in [Keys -> Nat]
    /\ poll \in [Pollers -> [pc : {"idle", "load", "store", "snapshot"},
                             key : Keys, loaded : Nat]]
    /\ sched \in [enabled : BOOLEAN, due : BOOLEAN,
                  info : {"idle", "running", "success", "failed"}]
    /\ faults \in Nat
    /\ restarts \in Nat

NoJob == [key |-> Nobody, kind |-> "sync", id |-> 0, ok |-> TRUE]
NoPoll == [pc |-> "idle", key |-> Nobody, loaded |-> 0]

\* Import of sync_engine and lifespan() on an empty database.
Init ==
    /\ running = FALSE
    /\ shown = 0
    /\ pc = [t \in Threads |-> "idle"]
    /\ task = [t \in Threads |-> NoJob]
    /\ started = 0
    /\ lastSummary = [k \in Keys |-> 0]
    /\ stored = [k \in Keys |-> 0]
    /\ poll = [p \in Pollers |-> NoPoll]
    /\ sched = [enabled |-> FALSE, due |-> FALSE, info |-> "idle"]
    /\ faults = 0
    /\ restarts = 0

-----------------------------------------------------------------------------
(* Starting a job *)

Goto(t, phase) == pc' = [pc EXCEPT ![t] = phase]

\* Threads that will start a job; with `started` they keep within MaxJobs.
Starting == {t \in Threads : pc[t] \in {"accepted", "queued", "begin"}}
RoomForAJob == started + Cardinality(Starting) < MaxJobs

\* Mutant of Request: the flag is set without being tested.
RequestUntested(w, k, kind) ==
    /\ pc[w] = "idle"
    /\ RoomForAJob
    /\ running' = TRUE
    /\ Goto(w, "accepted")
    /\ task' = [task EXCEPT ![w] = [key |-> k, kind |-> kind, id |-> 0, ok |-> TRUE]]
    /\ UNCHANGED <<shown, started, lastSummary, stored, poll, sched, faults, restarts>>

\* POST /api/sync and POST /api/rebuild-index: test and set under SYNC_LOCK.
\* A request that finds the flag set answers "already running" and changes
\* nothing but the audit log.
Request(w, k, kind) ==
    /\ pc[w] = "idle"
    /\ ~running
    /\ RoomForAJob
    /\ running' = TRUE
    /\ Goto(w, "accepted")
    /\ task' = [task EXCEPT ![w] = [key |-> k, kind |-> kind, id |-> 0, ok |-> TRUE]]
    /\ UNCHANGED <<shown, started, lastSummary, stored, poll, sched, faults, restarts>>

\* add_audit_event("sync_requested") after add_task: the response goes out and
\* the background task is handed to the thread pool.
Respond(w) ==
    /\ pc[w] = "accepted"
    /\ Goto(w, "queued")
    /\ UNCHANGED <<running, shown, task, started, lastSummary, stored, poll,
                   sched, faults, restarts>>

\* The scheduler wakes up and reads its settings; it goes on when enabled.
SchedWake ==
    /\ pc[Sched] = "idle"
    /\ sched.enabled
    /\ Goto(Sched, "check")
    /\ UNCHANGED <<running, shown, task, started, lastSummary, stored, poll,
                   sched, faults, restarts>>

\* is_sync_running(): reads the flag and gives SYNC_LOCK back.
SchedCheck ==
    /\ pc[Sched] = "check"
    /\ Goto(Sched, IF running THEN "idle" ELSE "claim")
    /\ UNCHANGED <<running, shown, task, started, lastSummary, stored, poll,
                   sched, faults, restarts>>

\* Under the scheduler's own lock: run when the interval has elapsed since
\* _last_run.  (_last_run <= 0 does not occur after start().)
SchedClaim ==
    /\ pc[Sched] = "claim"
    /\ \/ /\ ~sched.due
          /\ Goto(Sched, "idle")
          /\ UNCHANGED <<task, sched>>
       \/ /\ sched.due
          /\ RoomForAJob
          /\ Goto(Sched, "begin")
          /\ sched' = [sched EXCEPT !.due = FALSE, !.info = "running"]
          /\ task' = [task EXCEPT ![Sched] = NoJob]
    /\ UNCHANGED <<running, shown, started, lastSummary, stored, poll, faults, restarts>>

\* Entry of run_sync_job / run_rebuild_job: running = True whatever it was,
\* counters reset.
Begin(t) ==
    /\ pc[t] \in {"queued", "begin"}
    /\ started' = started + 1
    /\ running' = TRUE
    /\ task' = [task EXCEPT ![t].id = started + 1]
    /\ shown' = started + 1
    /\ Goto(t, "working")
    /\ UNCHANGED <<lastSummary, stored, poll, sched, faults, restarts>>

-----------------------------------------------------------------------------
(* Running and finishing it *)

\* _update_sync_counts / _update_rebuild_counts and "current_source".
Progress(t) ==
    /\ pc[t] = "working"
    /\ shown' = task[t].id
    /\ UNCHANGED <<running, pc, task, started, lastSummary, stored, poll, sched,
                   faults, restarts>>

\* Mutant of WorkDone: running = False before the summary is written.
WorkDoneReleasing(t, ok) ==
    /\ pc[t] = "working"
    /\ running' = FALSE
    /\ task' = [task EXCEPT ![t].ok = ok]
    /\ Goto(t, "finalize")
    /\ UNCHANGED <<shown, started, lastSummary, stored, poll, sched, faults, restarts>>

\* The try block ends, normally or in its except branch; both go on to
\* finalize_sync_run.
WorkDone(t, ok) ==
    /\ pc[t] = "working"
    /\ task' = [task EXCEPT ![t].ok = ok]
    /\ Goto(t, "finalize")
    /\ UNCHANGED <<running, shown, started, lastSummary, stored, poll, sched, faults, restarts>>

\* Mutant of FinalizeClear: memory gets the summary before the row is written.
FinalizeInMemory(t) ==
    /\ pc[t] = "finalize"
    /\ lastSummary' = [k \in Keys |-> IF k = task[t].key THEN task[t].id ELSE 0]
    /\ Goto(t, "persist")
    /\ UNCHANGED <<running, shown, task, started, stored, poll, sched, faults, restarts>>

\* LAST_SYNC_SUMMARY.clear() drops the entry of EVERY user; the fields then
\* put in are those of one summary and no user's entry.
FinalizeClear(t) ==
    /\ pc[t] = "finalize"
    /\ lastSummary' = [k \in Keys |-> 0]
    /\ Goto(t, "persist")
    /\ UNCHANGED <<running, shown, task, started, stored, poll, sched, faults, restarts>>

\* Mutant of Persist: only a job that succeeded writes its row.
PersistIfOk(t) ==
    /\ pc[t] = "persist"
    /\ stored' = IF task[t].ok THEN [stored EXCEPT ![task[t].key] = task[t].id] ELSE stored
    /\ Goto(t, "remember")
    /\ UNCHANGED <<running, shown, task, started, lastSummary, poll, sched, faults, restarts>>

\* persist_last_sync_summary: the row is committed ...
Persist(t) ==
    /\ pc[t] = "persist"
    /\ stored' = [stored EXCEPT ![task[t].key] = task[t].id]
    /\ Goto(t, "remember")
    /\ UNCHANGED <<running, shown, task, started, lastSummary, poll, sched, faults, restarts>>

\* ... and then the in-memory entry is set, under SYNC_LOCK.
Remember(t) ==
    /\ pc[t] = "remember"
    /\ lastSummary' = [lastSummary EXCEPT ![task[t].key] = task[t].id]
    /\ Goto(t, "audit")
    /\ UNCHANGED <<running, shown, task, started, stored, poll, sched, faults, restarts>>

\* add_audit_event_meta("sync_completed") of finalize_sync_run.
AuditCompleted(t) ==
    /\ pc[t] = "audit"
    /\ Goto(t, "release")
    /\ UNCHANGED <<running, shown, task, started, lastSummary, stored, poll,
                   sched, faults, restarts>>

\* Mutant of Release: a job that failed leaves without clearing the flag.
ReleaseIfOk(t) ==
    /\ pc[t] = "release"
    /\ running' = ~task[t].ok
    /\ Goto(t, IF t = Sched THEN "report" ELSE "idle")
    /\ UNCHANGED <<shown, task, started, lastSummary, stored, poll, sched, faults, restarts>>

\* The last SYNC_LOCK block: running = False with the final counters.  The
\* scheduler still reports the outcome, a rebuild still audits and logs.
Release(t) ==
    /\ pc[t] = "release"
    /\ running' = FALSE
    /\ shown' = task[t].id
    /\ Goto(t, IF t = Sched THEN "report"
               ELSE IF task[t].kind = "rebuild" THEN "closing" ELSE "idle")
    /\ UNCHANGED <<task, started, lastSummary, stored, poll, sched, faults, restarts>>

\* add_audit_event_meta("rebuild_completed") and touch_wiki_nav; whether they
\* raise makes no difference to the state kept here.
RebuildClosing(w) ==
    /\ pc[w] = "closing"
    /\ Goto(w, "idle")
    /\ UNCHANGED <<running, shown, task, started, lastSummary, stored, poll,
                   sched, faults, restarts>>

\* The scheduler's _last_info after run_sync_job returned.
SchedReport ==
    /\ pc[Sched] = "report"
    /\ sched' = [sched EXCEPT !.info = IF task[Sched].ok THEN "success" ELSE "failed"]
    /\ Goto(Sched, "idle")
    /\ UNCHANGED <<running, shown, task, started, lastSummary, stored, poll,
                   faults, restarts>>

\* Mutant of DatabaseRaises: a status the settings page does not know.
DatabaseRaisesError(t) ==
    /\ faults < MaxFaults
    /\ \/ pc[t] \in {"accepted", "queued", "begin", "persist", "audit"}
       \/ t = Sched /\ pc[t] = "idle"
    /\ faults' = faults + 1
    /\ Goto(t, "idle")
    /\ sched' = [sched EXCEPT !.info = IF t = Sched THEN "error" ELSE @]
    /\ UNCHANGED <<running, shown, task, started, lastSummary, stored, poll, restarts>>

\* Mutant of DatabaseRaises: the except branch of the loop only logs.
DatabaseRaisesUnreported(t) ==
    /\ faults < MaxFaults
    /\ \/ pc[t] \in {"accepted", "queued", "begin", "persist", "audit"}
       \/ t = Sched /\ pc[t] = "idle"
    /\ faults' = faults + 1
    /\ Goto(t, "idle")
    /\ UNCHANGED <<running, shown, task, started, lastSummary, stored, poll,
                   sched, restarts>>

\* A database operation outside every try block raises (another connection
\* holds the write lock for longer than busy_timeout, the disk is full): the
\* audit of the request, resolve_sync_source_ids, the summary row, the audit
\* of the completion, the scheduler's settings.  The thread unwinds and nobody
\* clears the flag.
DatabaseRaises(t) ==
    /\ faults < MaxFaults
    /\ \/ pc[t] \in {"accepted", "queued", "begin", "persist", "audit"}
       \/ t = Sched /\ pc[t] = "idle"
    /\ faults' = faults + 1
    /\ Goto(t, "idle")
    /\ sched' = [sched EXCEPT !.info = IF t = Sched THEN "failed" ELSE @]
    /\ UNCHANGED <<running, shown, task, started, lastSummary, stored, poll, restarts>>

-----------------------------------------------------------------------------
(* GET /api/sync-status *)

MovePoll(p, phase) == poll' = [poll EXCEPT ![p].pc = phase]

\* "u not in LAST_SYNC_SUMMARY", read without SYNC_LOCK.
PollCheck(p, k) ==
    /\ poll[p].pc = "idle"
    /\ poll' = [poll EXCEPT ![p] =
                  [pc |-> IF lastSummary[k] = 0 THEN "load" ELSE "snapshot",
                   key |-> k, loaded |-> 0]]
    /\ UNCHANGED <<running, shown, pc, task, started, lastSummary, stored,
                   sched, faults, restarts>>

\* load_last_sync_summary: the row, or nothing when there is none.
PollLoad(p) ==
    /\ poll[p].pc = "load"
    /\ LET row == stored[poll[p].key]
       IN  poll' = [poll EXCEPT ![p] = [pc |-> IF row = 0 THEN "snapshot" ELSE "store",
                                        key |-> @.key, loaded |-> row]]
    /\ UNCHANGED <<running, shown, pc, task, started, lastSummary, stored,
                   sched, faults, restarts>>

\* ... and the same "nothing" when the read raises.
PollLoadRaises(p) ==
    /\ poll[p].pc = "load"
    /\ faults < MaxFaults
    /\ faults' = faults + 1
    /\ MovePoll(p, "snapshot")
    /\ UNCHANGED <<running, shown, pc, task, started, lastSummary, stored,
                   sched, restarts>>

\* restore_last_sync_summary puts what it loaded into the cache, under the
\* lock but without looking at what is there by now.
PollStore(p) ==
    /\ poll[p].pc = "store"
    /\ lastSummary' = [lastSummary EXCEPT ![poll[p].key] = poll[p].loaded]
    /\ MovePoll(p, "snapshot")
    /\ UNCHANGED <<running, shown, pc, task, started, stored, sched, faults, restarts>>

\* The answer: SYNC_STATE and the user's entry, copied under one SYNC_LOCK.
PollSnapshot(p) ==
    /\ poll[p].pc = "snapshot"
    /\ MovePoll(p, "idle")
    /\ UNCHANGED <<running, shown, pc, task, started, lastSummary, stored,
                   sched, faults, restarts>>

-----------------------------------------------------------------------------
(* Settings, time, restart *)

\* POST /api/settings: the global auto_sync_enabled, and reset_last_run_now()
\* whatever was saved.
UpdateSettings(on) ==
    /\ on => AutoSyncAllowed
    /\ sched' = [sched EXCEPT !.enabled = on, !.due = FALSE]
    /\ UNCHANGED <<running, shown, pc, task, started, lastSummary, stored, poll,
                   faults, restarts>>

\* auto_sync_interval_minutes pass since _last_run.
IntervalElapses ==
    /\ ~sched.due
    /\ sched' = [sched EXCEPT !.due = TRUE]
    /\ UNCHANGED <<running, shown, pc, task, started, lastSummary, stored, poll,
                   faults, restarts>>

\* The process dies and comes back: memory is as after import, lifespan()
\* restores the entry of "" and starts the scheduler with _last_run = now.
Restart ==
    /\ restarts < MaxRestarts
    /\ restarts' = restarts + 1
    /\ running' = FALSE
    /\ shown' = 0
    /\ pc' = [t \in Threads |-> "idle"]
    /\ task' = [t \in Threads |-> NoJob]
    /\ lastSummary' = [k \in Keys |-> IF k = Nobody THEN stored[k] ELSE 0]
    /\ poll' = [p \in Pollers |-> NoPoll]
    /\ sched' = [sched EXCEPT !.due = FALSE, !.info = "idle"]
    /\ UNCHANGED <<started, stored, faults>>

-----------------------------------------------------------------------------
(* Specification *)

\* The steps of a thread that has a job in hand.
JobStep(t) ==
    \/ Respond(t) \/ Begin(t)
    \/ \E ok \in BOOLEAN : WorkDone(t, ok)
    \/ FinalizeClear(t) \/ Persist(t) \/ Remember(t) \/ AuditCompleted(t)
    \/ Release(t) \/ RebuildClosing(t)

SchedStep == SchedWake \/ SchedCheck \/ SchedClaim \/ SchedReport

PollStep(p) ==
    \/ \E k \in Keys : PollCheck(p, k)
    \/ PollLoad(p) \/ PollLoadRaises(p) \/ PollStore(p) \/ PollSnapshot(p)

Next ==
    \/ \E w \in Workers, k \in Keys, kind \in {"sync", "rebuild"} : Request(w, k, kind)
    \/ \E t \in Threads : JobStep(t) \/ Progress(t) \/ DatabaseRaises(t)
    \/ SchedStep
    \/ \E p \in Pollers : PollStep(p)
    \/ \E on \in BOOLEAN : UpdateSettings(on)
    \/ IntervalElapses
    \/ Restart

Spec == Init /\ [][Next]_vars

\* The interpreter runs every thread that can run: a job and the scheduler's
\* loop go on.  Nothing is assumed of users, polls, time, faults or crashes.
Fairness == /\ \A t \in Threads : WF_vars(JobStep(t))
            /\ WF_vars(SchedStep)

FairSpec == Spec /\ Fairness

-----------------------------------------------------------------------------
(* Properties *)

Executing(t) == pc[t] \in Responsible \ {"accepted", "queued"}

\* ARCHITECTURE.md, "only one sync/rebuild task at a time": no two threads are
\* inside run_sync_job / run_rebuild_job between their two flag writes.
MutualExclusion ==
    \A t1, t2 \in Threads : Executing(t1) /\ Executing(t2) => t1 = t2

\* A job that a request was told "started" keeps the flag set until its own
\* last step: a second request cannot be accepted, and a poll does not call it
\* finished, while its summary is still being written.
ResponsibleHoldsFlag ==
    \A t \in Threads : pc[t] \in Responsible => running

\* No database error so far: a set flag always has a thread that will clear it.
FlagHasOwner ==
    running /\ faults = 0 => \E t \in Threads : pc[t] \in Responsible

\* What a poll can take from LAST_SYNC_SUMMARY is never newer than the durable
\* row: a crash cannot take back a summary somebody was shown.
CachedSummaryIsDurable ==
    \A k \in Keys : lastSummary[k] <= stored[k]

\* The summary row of a user never goes back to an earlier job.
SummariesAdvance ==
    [][\A k \in Keys : stored[k] <= stored'[k]]_vars

\* While nothing runs, the counters in SYNC_STATE are those of a job whose
\* summary is durable, never of one that is unfinished or failed to record.
IdleCountersAreRecorded ==
    ~running /\ shown # 0 => \E k \in Keys : stored[k] = shown

\* The flag is set and no thread will ever clear it.
Leaked == running /\ \A t \in Threads : pc[t] \notin Responsible

\* After a database error leaked the flag, every later request is refused and
\* every scheduler round skipped until the process restarts.
LeakLastsUntilRestart ==
    [][Leaked => Leaked' \/ restarts' # restarts]_vars

\* The flag comes back, whatever jobs overlap: only a database error can take
\* its last owner and block the index for good.
FlagIsReturned == running ~> ~running \/ (Leaked /\ faults > 0)

\* A job that starts does get its own summary stored, whatever else runs beside
\* it, unless a database error or a crash comes.
StartedJobIsRecorded ==
    \A t \in Threads, n \in 1..MaxJobs :
        pc[t] = "working" /\ task[t].id = n ~>
            (\E k \in Keys : stored[k] = n) \/ faults + restarts > 0

\* "running" in the settings page's last_auto_sync does not stay: also when an
\* exception leaves run_sync_job, before it set the flag or after, and when the
\* process dies in the middle of it.
SchedulerReportsBack == sched.info = "running" ~> sched.info # "running"

\* The slot of JobService that the flag and the threads stand for.
Slot == IF ~running THEN "free"
        ELSE IF \E t \in Threads : pc[t] \in {"remember", "audit", "release"} THEN "recorded"
        ELSE IF Leaked THEN "lost" ELSE "taken"

Service == INSTANCE JobService WITH slot <- Slot, summaries <- stored

\* Requests alone implement the one-slot service: one job, one summary newer
\* than all before it, then the slot comes back.
ImplementsService == Service!Spec

=============================================================================
