----------------------------- MODULE SyncLocks ------------------------------
(***************************************************************************)
(* The two locks a job and a request meet on: SYNC_LOCK, and the one write *)
(* transaction SQLite allows.  A request that finds a job running audits   *)
(* its refusal INSIDE "with SYNC_LOCK", so it waits for the write lock     *)
(* with SYNC_LOCK in hand; a job counts its progress under SYNC_LOCK       *)
(* INSIDE its write transaction.  The two orders are opposite; what ends   *)
(* the wait is SQLite's busy_timeout, which makes a writer raise.          *)
(*                                                                         *)
(* Every request passes the rate limit first: rows of api_usage are counted*)
(* and added in one write transaction.  The requests of the model share an *)
(* address, so they share a limit.                                         *)
(*                                                                         *)
(* One job at a time (SyncJobs shows when that holds).  A SYNC_LOCK block  *)
(* in which nothing can block, and a write transaction of one statement,   *)
(* are single steps.                                                       *)
(***************************************************************************)
EXTENDS Naturals

CONSTANTS
    Requesters,   \* threads serving POST /api/sync and /api/rebuild-index
    Writers,      \* other connections that write, /api/ingest for one
    Job,          \* the thread of the background task
    Free,         \* "nobody holds the lock"
    Limit,        \* api_rate_limit_sync_max
    MaxRequests,  \* bound: requests per requester
    MaxWrites     \* bound: transactions per writer

ASSUME SyncLocksAssumption ==
    /\ Job \notin Requesters \cup Writers
    /\ Free \notin Requesters \cup Writers \cup {Job}
    /\ Requesters \cap Writers = {}
    /\ Limit \in Nat \ {0}
    /\ MaxRequests \in Nat /\ MaxWrites \in Nat

VARIABLES
    syncLock,   \* who holds SYNC_LOCK
    dbLock,     \* whose write transaction is open
    running,    \* SYNC_STATE["running"]
    pc,         \* where each thread is
    counted,    \* rows of api_usage inside the window
    late,       \* rows that left it since each request took its time
    made        \* requests and transactions made

vars == <<syncLock, dbLock, running, pc, counted, late, made>>

Threads == Requesters \cup Writers \cup {Job}

TypeOK ==
    /\ syncLock \in Requesters \cup {Free}
    /\ dbLock \in Requesters \cup Writers \cup {Job, Free}
    /\ running \in BOOLEAN
    /\ pc \in [Threads -> {"idle", "limit", "tally", "record", "enter", "refuse", "respond",
                           "begin", "scan", "index", "count", "commit", "failed", "finalize",
                           "persist", "remember", "audit", "release", "writing"}]
    /\ counted \in Nat /\ late \in [Requesters -> Nat]
    /\ made \in [Requesters \cup Writers -> Nat]

Init ==
    /\ syncLock = Free
    /\ dbLock = Free
    /\ running = FALSE
    /\ pc = [t \in Threads |-> "idle"]
    /\ counted = 0 /\ late = [r \in Requesters |-> 0]
    /\ made = [t \in Requesters \cup Writers |-> 0]

Goto(t, phase) == pc' = [pc EXCEPT ![t] = phase]

-----------------------------------------------------------------------------
(* A request *)

Ask(r) ==
    /\ pc[r] = "idle"
    /\ made[r] < MaxRequests
    /\ made' = [made EXCEPT ![r] = @ + 1]
    /\ Goto(r, "limit")
    /\ UNCHANGED <<syncLock, dbLock, running, counted, late>>

\* Mutant of OpensUsage: the cleaning is a transaction of its own.
OpensUsageBriefly(r) ==
    /\ pc[r] = "limit"
    /\ dbLock = Free
    /\ Goto(r, "tally")
    /\ UNCHANGED <<syncLock, dbLock, running, counted, late, made>>

\* check_api_rate_limit: the DELETEs of cleanup_auth_meta open the transaction
\* in which the rows of the window are counted and the request's is added.
OpensUsage(r) ==
    /\ pc[r] = "limit"
    /\ dbLock = Free
    /\ dbLock' = r
    /\ Goto(r, "tally")
    /\ UNCHANGED <<syncLock, running, counted, late, made>>

\* The window ends at the time the request took before it waited for the lock:
\* rows that have left the current window since then still count against it.
Tally(r) ==
    /\ pc[r] = "tally"
    /\ IF counted + late[r] >= Limit
         THEN Goto(r, "idle") /\ dbLock' = Free
         ELSE Goto(r, "record") /\ UNCHANGED dbLock
    /\ late' = [late EXCEPT ![r] = 0]
    /\ UNCHANGED <<syncLock, running, counted, made>>

Records(r) ==
    /\ pc[r] = "record"
    /\ counted' = counted + 1
    /\ dbLock' = Free
    /\ Goto(r, "enter")
    /\ UNCHANGED <<syncLock, running, late, made>>

\* A row gets older than the window.
LeavesWindow ==
    /\ counted > 0
    /\ counted' = counted - 1
    /\ late' = [r \in Requesters |->
                  IF pc[r] \in {"limit", "tally"} THEN late[r] + 1 ELSE late[r]]
    /\ UNCHANGED <<syncLock, dbLock, running, pc, made>>

\* Mutant of Enter: the flag is set without being tested.
EnterUntested(r) ==
    /\ pc[r] = "enter"
    /\ syncLock = Free
    /\ running' = TRUE
    /\ Goto(r, "respond")
    /\ UNCHANGED <<syncLock, dbLock, counted, late, made>>

\* with SYNC_LOCK: the flag is tested.  A set flag keeps the request inside
\* the block; a clear one is set and the block ends.
Enter(r) ==
    /\ pc[r] = "enter"
    /\ syncLock = Free
    /\ IF running
         THEN syncLock' = r /\ Goto(r, "refuse") /\ UNCHANGED running
         ELSE running' = TRUE /\ Goto(r, "respond") /\ UNCHANGED syncLock
    /\ UNCHANGED <<dbLock, counted, late, made>>

\* add_audit_event(..., "already running"), then the block ends.
Refuse(r) ==
    /\ pc[r] = "refuse"
    /\ dbLock = Free
    /\ syncLock' = Free
    /\ Goto(r, "idle")
    /\ UNCHANGED <<dbLock, running, counted, late, made>>

\* add_audit_event(..., "sync started") outside the block; the response hands
\* the background task over.
Respond(r) ==
    /\ pc[r] = "respond"
    /\ dbLock = Free
    /\ pc' = [pc EXCEPT ![r] = "idle", ![Job] = "begin"]
    /\ UNCHANGED <<syncLock, dbLock, running, counted, late, made>>

\* Mutant of RequestTimesOut: no busy_timeout, a request waits for ever.
RequestWaits(r) == FALSE

\* busy_timeout passes while another connection writes: "database is locked"
\* is raised, the with block is left, the client gets a 500.
RequestTimesOut(r) ==
    /\ pc[r] \in {"limit", "refuse", "respond"}
    /\ dbLock # Free
    /\ syncLock' = IF syncLock = r THEN Free ELSE syncLock
    /\ late' = [late EXCEPT ![r] = 0]
    /\ Goto(r, "idle")
    /\ UNCHANGED <<dbLock, running, counted, made>>

-----------------------------------------------------------------------------
(* The job *)

\* Mutant of LockedStep: the lock is taken and not given back.
LockedStepKeeps(from, to) ==
    /\ pc[Job] = from
    /\ syncLock = Free
    /\ syncLock' = Job
    /\ Goto(Job, to)
    /\ UNCHANGED <<dbLock, running, counted, late, made>>

\* A SYNC_LOCK block of the job in which nothing blocks.
LockedStep(from, to) ==
    /\ pc[Job] = from
    /\ syncLock = Free
    /\ Goto(Job, to)
    /\ UNCHANGED <<syncLock, dbLock, running, counted, late, made>>

JobBegins == LockedStep("begin", "scan")
NamesSource == LockedStep("scan", "index")
RecordsError == LockedStep("failed", "finalize")
NoMoreSources == LockedStep("scan", "finalize")
ClearsSummaries == LockedStep("finalize", "persist")
RemembersSummary == LockedStep("remember", "audit")

\* The first INSERT, UPDATE or DELETE of a source opens the transaction.
OpensTransaction ==
    /\ pc[Job] = "index"
    /\ dbLock = Free
    /\ dbLock' = Job
    /\ Goto(Job, "count")
    /\ UNCHANGED <<syncLock, running, counted, late, made>>

\* Every file of the source was skipped: counted, and nothing to commit.
NothingChanged == LockedStep("index", "scan")

\* _update_sync_counts with the transaction still open; it is called between
\* files too, which changes nothing here.
CountsFiles ==
    /\ dbLock = Job
    /\ LockedStep("count", "commit")

Commits ==
    /\ pc[Job] = "commit"
    /\ dbLock' = Free
    /\ Goto(Job, "scan")
    /\ UNCHANGED <<syncLock, running, counted, late, made>>

\* persist_last_sync_summary and add_audit_event_meta write and commit.
WritesOnce(from, to) ==
    /\ pc[Job] = from
    /\ dbLock = Free
    /\ Goto(Job, to)
    /\ UNCHANGED <<syncLock, dbLock, running, counted, late, made>>

PersistsSummary == WritesOnce("persist", "remember")
AuditsCompletion == WritesOnce("audit", "release")

Releases ==
    /\ pc[Job] = "release"
    /\ syncLock = Free
    /\ running' = FALSE
    /\ Goto(Job, "idle")
    /\ UNCHANGED <<syncLock, dbLock, counted, late, made>>

\* busy_timeout of the job: inside the try block it becomes the job's error,
\* in finalize_sync_run it ends the thread with the flag set.
JobTimesOut ==
    /\ pc[Job] \in {"index", "persist", "audit"}
    /\ dbLock # Free
    /\ Goto(Job, IF pc[Job] = "index" THEN "failed" ELSE "idle")
    /\ UNCHANGED <<syncLock, dbLock, running, counted, late, made>>

-----------------------------------------------------------------------------
(* Other writers *)

WriterBegins(w) ==
    /\ pc[w] = "idle"
    /\ made[w] < MaxWrites
    /\ dbLock = Free
    /\ made' = [made EXCEPT ![w] = @ + 1]
    /\ dbLock' = w
    /\ Goto(w, "writing")
    /\ UNCHANGED <<syncLock, running, counted, late>>

WriterCommits(w) ==
    /\ pc[w] = "writing"
    /\ dbLock' = Free
    /\ Goto(w, "idle")
    /\ UNCHANGED <<syncLock, running, counted, late, made>>

-----------------------------------------------------------------------------
(* Specification *)

RequestStep(r) ==
    \/ OpensUsage(r) \/ Tally(r) \/ Records(r)
    \/ Enter(r) \/ Refuse(r) \/ Respond(r) \/ RequestTimesOut(r)

JobStep ==
    \/ JobBegins \/ NamesSource \/ RecordsError \/ NoMoreSources \/ ClearsSummaries
    \/ RemembersSummary \/ OpensTransaction \/ NothingChanged \/ CountsFiles \/ Commits
    \/ PersistsSummary \/ AuditsCompletion \/ Releases \/ JobTimesOut

Next ==
    \/ \E r \in Requesters : Ask(r) \/ RequestStep(r)
    \/ JobStep
    \/ \E w \in Writers : WriterBegins(w) \/ WriterCommits(w)
    \/ LeavesWindow

Spec == Init /\ [][Next]_vars

\* The interpreter runs every thread that can go on, and an ingest ends.  The
\* sources of a job are finitely many: the loop over them is left at some time
\* (SF).  Requests and writers are finitely many (MaxRequests, MaxWrites), so
\* they cannot starve a thread of a lock.
Fairness ==
    /\ \A r \in Requesters : WF_vars(RequestStep(r))
    /\ WF_vars(JobStep)
    /\ SF_vars(NoMoreSources)
    /\ \A w \in Writers : WF_vars(WriterCommits(w))

FairSpec == Spec /\ Fairness

-----------------------------------------------------------------------------
(* Properties *)

\* A request is told "started" only while no job runs and no other request has
\* been told so and still waits for its task to be handed over.
StartedMeansAlone ==
    \A r \in Requesters : pc[r] = "respond" =>
        pc[Job] = "idle" /\ \A q \in Requesters : pc[q] = "respond" => q = r

\* No more requests than the limit allows get past it within a window, however
\* many are counted at the same time.
AtMostLimit == counted <= Limit

\* Every request gets an answer and every job comes to its end, although a request
\* may wait for the write lock with SYNC_LOCK in hand while the job waits for
\* SYNC_LOCK inside its transaction.
NobodyWaitsForEver ==
    /\ \A r \in Requesters : pc[r] # "idle" ~> pc[r] = "idle"
    /\ pc[Job] = "begin" ~> pc[Job] = "idle"

=============================================================================
