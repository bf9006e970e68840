--------------------------- MODULE SyncJobsProofs ---------------------------
(***************************************************************************)
(* Theorems of SyncJobs, for every set of workers, users and pollers and   *)
(* every bound.                                                            *)
(***************************************************************************)
EXTENDS SyncJobs, TLAPS

\* Every variable keeps its type.
THEOREM TypeCorrect == Spec => []TypeOK
<1> USE SyncJobsAssumption DEF TypeOK, Keys, Threads, Phases, Responsible, Job
<1>a. NoJob \in Job
  BY DEF NoJob
<1>b. NoPoll \in [pc : {"idle", "load", "store", "snapshot"}, key : Keys, loaded : Nat]
  BY DEF NoPoll
<1>1. Init => TypeOK
  <2> HIDE DEF Job
  <2> SUFFICES ASSUME Init PROVE TypeOK
    OBVIOUS
  <2> QED
    BY <1>a, <1>b DEF Init
<1>2. TypeOK /\ [Next]_vars => TypeOK'
  <2> SUFFICES ASSUME TypeOK, [Next]_vars PROVE TypeOK'
    OBVIOUS
  <2>1. ASSUME NEW w \in Workers, NEW k \in Keys, NEW kind \in {"sync", "rebuild"},
               Request(w, k, kind)
        PROVE  TypeOK'
    BY <2>1 DEF Request, Goto
  <2>2. ASSUME NEW t \in Threads, JobStep(t)
        PROVE  TypeOK'
    <3>1. CASE Respond(t)
      BY <3>1 DEF Respond, Goto
    <3>2. CASE Begin(t)
      BY <3>2 DEF Begin, Goto
    <3>3. ASSUME NEW ok \in BOOLEAN, WorkDone(t, ok)
          PROVE  TypeOK'
      BY <3>3 DEF WorkDone, Goto
    <3>4. CASE FinalizeClear(t)
      BY <3>4 DEF FinalizeClear, Goto
    <3>5. CASE Persist(t)
      BY <3>5 DEF Persist, Goto
    <3>6. CASE Remember(t)
      BY <3>6 DEF Remember, Goto
    <3>7. CASE AuditCompleted(t)
      BY <3>7 DEF AuditCompleted, Goto
    <3>8. CASE Release(t)
      BY <3>8 DEF Release, Goto
    <3>9. CASE RebuildClosing(t)
      BY <3>9 DEF RebuildClosing, Goto
    <3> QED
      BY <2>2, <3>1, <3>2, <3>3, <3>4, <3>5, <3>6, <3>7, <3>8, <3>9 DEF JobStep
  <2>3. ASSUME NEW t \in Threads, Progress(t)
        PROVE  TypeOK'
    BY <2>3 DEF Progress
  <2>4. ASSUME NEW t \in Threads, DatabaseRaises(t)
        PROVE  TypeOK'
    <3>1. pc' \in [Threads -> Phases] /\ faults' \in Nat
      BY <2>4 DEF DatabaseRaises, Goto
    <3>2. sched' \in [enabled : BOOLEAN, due : BOOLEAN,
                      info : {"idle", "running", "success", "failed"}]
      BY <2>4 DEF DatabaseRaises
    <3> QED
      BY <2>4, <3>1, <3>2 DEF DatabaseRaises
  <2>5. CASE SchedStep
    <3>1. CASE SchedWake
      BY <3>1 DEF SchedWake, Goto
    <3>2. CASE SchedCheck
      BY <3>2 DEF SchedCheck, Goto
    <3>3. CASE SchedClaim
      <4>1. pc' \in [Threads -> Phases] /\ task' \in [Threads -> Job]
        <5> HIDE DEF Job
        <5> QED
          BY <3>3, <1>a DEF SchedClaim, Goto
      <4>2. sched' \in [enabled : BOOLEAN, due : BOOLEAN,
                          info : {"idle", "running", "success", "failed"}]
        BY <3>3 DEF SchedClaim
      <4> QED
        BY <3>3, <4>1, <4>2 DEF SchedClaim
    <3>4. CASE SchedReport
      BY <3>4 DEF SchedReport, Goto
    <3> QED
      BY <2>5, <3>1, <3>2, <3>3, <3>4 DEF SchedStep
  <2>6. ASSUME NEW p \in Pollers, PollStep(p)
        PROVE  TypeOK'
    <3>1. ASSUME NEW k \in Keys, PollCheck(p, k)
          PROVE  TypeOK'
      BY <3>1 DEF PollCheck
    <3>2. CASE PollLoad(p)
      <4>1. stored[poll[p].key] \in Nat
        OBVIOUS
      <4>2. poll' \in [Pollers -> [pc : {"idle", "load", "store", "snapshot"},
                                   key : Keys, loaded : Nat]]
        BY <3>2, <4>1 DEF PollLoad
      <4> QED
        BY <3>2, <4>2 DEF PollLoad
    <3>3. CASE PollLoadRaises(p)
      BY <3>3 DEF PollLoadRaises, MovePoll
    <3>4. CASE PollStore(p)
      BY <3>4 DEF PollStore, MovePoll
    <3>5. CASE PollSnapshot(p)
      BY <3>5 DEF PollSnapshot, MovePoll
    <3> QED
      BY <2>6, <3>1, <3>2, <3>3, <3>4, <3>5 DEF PollStep
  <2>7. ASSUME NEW on \in BOOLEAN, UpdateSettings(on)
        PROVE  TypeOK'
    BY <2>7 DEF UpdateSettings
  <2>8. CASE IntervalElapses
    BY <2>8 DEF IntervalElapses
  <2>9. CASE Restart
    <3>1. sched' \in [enabled : BOOLEAN, due : BOOLEAN,
                        info : {"idle", "running", "success", "failed"}]
      BY <2>9 DEF Restart
    <3>2. lastSummary' \in [Keys -> Nat] /\ pc' \in [Threads -> Phases]
      BY <2>9 DEF Restart
    <3> HIDE DEF Job
    <3>3. task' \in [Threads -> Job]
      BY <2>9, <1>a DEF Restart
    <3>4. poll' \in [Pollers -> [pc : {"idle", "load", "store", "snapshot"},
                                 key : Keys, loaded : Nat]]
      BY <2>9, <1>b DEF Restart
    <3>5. running' \in BOOLEAN
      BY <2>9 DEF Restart
    <3>6. shown' \in Nat
      BY <2>9 DEF Restart
    <3>7. started' \in Nat /\ stored' \in [Keys -> Nat] /\ faults' \in Nat
      BY <2>9 DEF Restart
    <3>8. restarts' \in Nat
      BY <2>9 DEF Restart
    <3> HIDE DEF Keys, Threads, Phases
    <3> QED
      BY <3>1, <3>2, <3>3, <3>4, <3>5, <3>6, <3>7, <3>8
  <2>10. CASE UNCHANGED vars
    BY <2>10 DEF vars
  <2> HIDE DEF TypeOK
  <2> QED
    BY <2>1, <2>2, <2>3, <2>4, <2>5, <2>6, <2>7, <2>8, <2>9, <2>10 DEF Next
<1> QED
  BY <1>1, <1>2, PTL DEF Spec

-----------------------------------------------------------------------------
(* The flag always has an owner *)

\* As long as no database operation raised, a set flag has a thread that will
\* clear it, with any mix of requests, scheduler rounds, polls and crashes.
THEOREM FlagOwned == Spec => []FlagHasOwner
<1>1. Init => FlagHasOwner
  BY DEF Init, FlagHasOwner
<1>2. TypeOK /\ FlagHasOwner /\ [Next]_vars => FlagHasOwner'
  <2> SUFFICES ASSUME TypeOK, FlagHasOwner, [Next]_vars PROVE FlagHasOwner'
    OBVIOUS
  <2>a. pc \in [Threads -> Phases] /\ faults \in Nat /\ Sched \in Threads
        /\ Workers \subseteq Threads
    BY DEF TypeOK, Threads
  <2> USE <2>a DEF FlagHasOwner, Goto, Responsible
  <2>1. ASSUME NEW w \in Workers, NEW k \in Keys, NEW kind \in {"sync", "rebuild"},
               Request(w, k, kind)
        PROVE  FlagHasOwner'
    BY <2>1 DEF Request
  <2>2. ASSUME NEW t \in Threads, JobStep(t)
        PROVE  FlagHasOwner'
    <3>1. CASE Release(t)
      BY <3>1 DEF Release
    <3>2. CASE RebuildClosing(t)
      BY <3>2 DEF RebuildClosing
    <3>3. CASE Begin(t)
      BY <3>3 DEF Begin
    <3>4. ASSUME NEW ok \in BOOLEAN, WorkDone(t, ok)
          PROVE  FlagHasOwner'
      BY <3>4 DEF WorkDone
    <3>5. CASE Respond(t) \/ FinalizeClear(t) \/ Persist(t) \/ Remember(t)
               \/ AuditCompleted(t)
      BY <3>5 DEF Respond, FinalizeClear, Persist, Remember, AuditCompleted
    <3> QED
      BY <2>2, <3>1, <3>2, <3>3, <3>4, <3>5 DEF JobStep
  <2>3. ASSUME NEW t \in Threads, Progress(t)
        PROVE  FlagHasOwner'
    BY <2>3 DEF Progress
  <2>4. ASSUME NEW t \in Threads, DatabaseRaises(t)
        PROVE  FlagHasOwner'
    BY <2>4 DEF DatabaseRaises
  <2>5. CASE SchedStep
    BY <2>5 DEF SchedStep, SchedWake, SchedCheck, SchedClaim, SchedReport
  <2>6. ASSUME NEW p \in Pollers, PollStep(p)
        PROVE  FlagHasOwner'
    <3>1. CASE PollLoadRaises(p)
      BY <3>1 DEF PollLoadRaises
    <3>2. CASE ~PollLoadRaises(p)
      <4>1. UNCHANGED <<running, pc, faults>>
        BY <2>6, <3>2 DEF PollStep, PollCheck, PollLoad, PollStore, PollSnapshot
      <4> QED
        BY <4>1
    <3> QED
      BY <3>1, <3>2
  <2>7. CASE (\E on \in BOOLEAN : UpdateSettings(on)) \/ IntervalElapses
    BY <2>7 DEF UpdateSettings, IntervalElapses
  <2>8. CASE Restart
    BY <2>8 DEF Restart
  <2>9. CASE UNCHANGED vars
    BY <2>9 DEF vars
  <2> HIDE DEF FlagHasOwner
  <2> QED
    BY <2>1, <2>2, <2>3, <2>4, <2>5, <2>6, <2>7, <2>8, <2>9 DEF Next
<1> QED
  BY <1>1, <1>2, TypeCorrect, PTL DEF Spec

-----------------------------------------------------------------------------
(* Requests alone: with auto_sync_enabled never on, the flag is a lock *)

Recording == {"working", "finalize", "persist"}
Recorded == {"remember", "audit", "release"}

\* The inductive invariant.  The flag is taken by test-and-set, so one thread
\* at most is responsible for it; that thread's job is the latest started, so
\* no stored summary is newer, and once stored its summary stays until the
\* flag is given back.
ManualInv ==
    /\ ~sched.enabled /\ pc[Sched] = "idle"
    /\ \A t \in Threads : pc[t] # "begin"
    /\ \A t1, t2 \in Threads :
          pc[t1] \in Responsible /\ pc[t2] \in Responsible => t1 = t2
    /\ ResponsibleHoldsFlag
    /\ \A t \in Threads : pc[t] \in Recording =>
          task[t].id = started /\ \A k \in Keys : stored[k] < started
    /\ \A t \in Threads : pc[t] \in Recorded => stored[task[t].key] = task[t].id
    /\ \A k \in Keys : stored[k] <= started
    /\ CachedSummaryIsDurable
    /\ \A p \in Pollers : poll[p].pc = "store" => poll[p].loaded <= stored[poll[p].key]
    /\ IdleCountersAreRecorded

LEMMA ManualInvHolds ==
    ASSUME ~AutoSyncAllowed PROVE Spec => []ManualInv
<1> USE SyncJobsAssumption
<1>1. Init => ManualInv
  BY DEF Init, ManualInv, ResponsibleHoldsFlag, CachedSummaryIsDurable,
         IdleCountersAreRecorded, Responsible, Recording, Recorded, NoPoll, Threads
<1>2. TypeOK /\ ManualInv /\ [Next]_vars => ManualInv'
  <2> SUFFICES ASSUME TypeOK, ManualInv, [Next]_vars PROVE ManualInv'
    OBVIOUS
  <2>a. /\ pc \in [Threads -> Phases] /\ task \in [Threads -> Job]
        /\ stored \in [Keys -> Nat] /\ lastSummary \in [Keys -> Nat]
        /\ started \in Nat
        /\ Sched \in Threads /\ Workers \subseteq Threads
        /\ \A t \in Threads : task[t].key \in Keys /\ task[t].id \in Nat
    BY DEF TypeOK, Threads, Job
  <2>b. \A p \in Pollers : poll[p].key \in Keys /\ poll[p].loaded \in Nat
    BY DEF TypeOK
  <2> USE <2>a DEF ManualInv, ResponsibleHoldsFlag, CachedSummaryIsDurable,
                   IdleCountersAreRecorded, Responsible, Recording, Recorded, Goto
  <2>1. ASSUME NEW w \in Workers, NEW k \in Keys, NEW kind \in {"sync", "rebuild"},
               Request(w, k, kind)
        PROVE  ManualInv'
    BY <2>1 DEF Request
  <2>2. ASSUME NEW t \in Threads, JobStep(t)
        PROVE  ManualInv'
    <3>1. CASE Respond(t)
      BY <3>1 DEF Respond
    <3>2. CASE Begin(t)
      <4>1. pc[t] = "queued" /\ running /\ running'
        BY <3>2 DEF Begin
      <4>2. \A u \in Threads : u # t => pc[u] \notin Responsible /\ pc'[u] = pc[u]
        BY <3>2, <4>1 DEF Begin
      <4>3. \A u \in Threads : pc'[u] \in Recording => task'[u].id = started'
        BY <3>2, <4>2 DEF Begin
      <4>4. \A u \in Threads : pc'[u] \notin Recorded
        BY <3>2, <4>2 DEF Begin
      <4>5. \A k \in Keys : stored'[k] <= started'
        BY <3>2 DEF Begin
      <4> QED
        BY <3>2, <4>1, <4>2, <4>3, <4>4, <4>5 DEF Begin
    <3>3. ASSUME NEW ok \in BOOLEAN, WorkDone(t, ok)
          PROVE  ManualInv'
      BY <3>3 DEF WorkDone
    <3>4. CASE FinalizeClear(t)
      BY <3>4 DEF FinalizeClear
    <3>5. CASE Persist(t)
      <4>1. running /\ running' /\ task[t].id = started
        BY <3>5 DEF Persist
      <4>2. \A u \in Threads : u # t => pc[u] \notin Responsible /\ pc'[u] = pc[u]
        BY <3>5 DEF Persist
      <4>3. \A k \in Keys : stored[k] <= stored'[k] /\ stored'[k] <= started
                           /\ stored'[k] \in Nat
        BY <3>5, <4>1 DEF Persist
      <4>4. \A k \in Keys : lastSummary'[k] <= stored'[k]
        BY <3>5, <4>3 DEF Persist
      <4>5. \A p \in Pollers : poll'[p].pc = "store" =>
                                poll'[p].loaded <= stored'[poll'[p].key]
        BY <3>5, <4>3, <2>b DEF Persist
      <4>6. \A u \in Threads : pc'[u] \in Recorded => stored'[task'[u].key] = task'[u].id
        BY <3>5, <4>2 DEF Persist
      <4> QED
        BY <3>5, <4>1, <4>2, <4>3, <4>4, <4>5, <4>6 DEF Persist
    <3>6. CASE Remember(t)
      BY <3>6 DEF Remember
    <3>7. CASE AuditCompleted(t)
      BY <3>7 DEF AuditCompleted
    <3>8. CASE Release(t)
      BY <3>8 DEF Release
    <3>9. CASE RebuildClosing(t)
      BY <3>9 DEF RebuildClosing
    <3> QED
      BY <2>2, <3>1, <3>2, <3>3, <3>4, <3>5, <3>6, <3>7, <3>8, <3>9 DEF JobStep
  <2>3. ASSUME NEW t \in Threads, Progress(t)
        PROVE  ManualInv'
    BY <2>3 DEF Progress
  <2>4. ASSUME NEW t \in Threads, DatabaseRaises(t)
        PROVE  ManualInv'
    BY <2>4 DEF DatabaseRaises
  <2>5. CASE SchedStep
    BY <2>5 DEF SchedStep, SchedWake, SchedCheck, SchedClaim, SchedReport
  <2>6. ASSUME NEW p \in Pollers, PollStep(p)
        PROVE  ManualInv'
    <3>a. poll \in [Pollers -> [pc : {"idle", "load", "store", "snapshot"},
                                key : Keys, loaded : Nat]]
      BY DEF TypeOK
    <3>1. ASSUME NEW k \in Keys, PollCheck(p, k)
          PROVE  ManualInv'
      BY <3>1, <3>a DEF PollCheck
    <3>2. CASE PollLoad(p)
      BY <3>2, <3>a, <2>b DEF PollLoad
    <3>3. CASE PollLoadRaises(p) \/ PollSnapshot(p)
      BY <3>3, <3>a DEF PollLoadRaises, PollSnapshot, MovePoll
    <3>4. CASE PollStore(p)
      BY <3>4, <3>a, <2>b DEF PollStore, MovePoll
    <3> QED
      BY <2>6, <3>1, <3>2, <3>3, <3>4 DEF PollStep
  <2>7. CASE (\E on \in BOOLEAN : UpdateSettings(on)) \/ IntervalElapses
    <3>1. ~sched'.enabled
      BY <2>7 DEF UpdateSettings, IntervalElapses, TypeOK
    <3>2. UNCHANGED <<running, shown, pc, task, started, lastSummary, stored, poll>>
      BY <2>7 DEF UpdateSettings, IntervalElapses
    <3> QED
      BY <3>1, <3>2
  <2>8. CASE Restart
    BY <2>8 DEF Restart, NoPoll
  <2>9. CASE UNCHANGED vars
    BY <2>9 DEF vars
  <2> HIDE DEF ManualInv
  <2> QED
    BY <2>1, <2>2, <2>3, <2>4, <2>5, <2>6, <2>7, <2>8, <2>9 DEF Next
<1> QED
  BY <1>1, <1>2, TypeCorrect, PTL DEF Spec

\* Two requests can never be inside a job at the same time.
THEOREM ManualExclusion ==
    ASSUME ~AutoSyncAllowed PROVE Spec => []MutualExclusion
<1>1. ManualInv => MutualExclusion
  BY DEF ManualInv, MutualExclusion, Executing
<1> QED
  BY <1>1, ManualInvHolds, PTL

\* While automatic sync is off, a thread that was told "started", or has a job to
\* end, finds the flag set until its own last step.
THEOREM ManualFlagHeld ==
    ASSUME ~AutoSyncAllowed PROVE Spec => []ResponsibleHoldsFlag
<1>1. ManualInv => ResponsibleHoldsFlag
  BY DEF ManualInv
<1> QED
  BY <1>1, ManualInvHolds, PTL

\* While automatic sync is off, the counters shown at rest are those of a job whose
\* summary is stored.
THEOREM ManualCountersRecorded ==
    ASSUME ~AutoSyncAllowed PROVE Spec => []IdleCountersAreRecorded
<1>1. ManualInv => IdleCountersAreRecorded
  BY DEF ManualInv
<1> QED
  BY <1>1, ManualInvHolds, PTL

\* While automatic sync is off, what a poll can take from the cache is durable.
THEOREM ManualPublication ==
    ASSUME ~AutoSyncAllowed PROVE Spec => []CachedSummaryIsDurable
<1>1. ManualInv => CachedSummaryIsDurable
  BY DEF ManualInv
<1> QED
  BY <1>1, ManualInvHolds, PTL

\* No step replaces a user's summary by that of an earlier job.
THEOREM ManualSummariesAdvance ==
    ASSUME ~AutoSyncAllowed PROVE Spec => SummariesAdvance
<1>1. TypeOK /\ ManualInv /\ [Next]_vars =>
        [\A k \in Keys : stored[k] <= stored'[k]]_vars
  <2> SUFFICES ASSUME TypeOK, ManualInv, Next
               PROVE  \A k \in Keys : stored[k] <= stored'[k]
    BY DEF vars
  <2>a. stored \in [Keys -> Nat] /\ Sched \in Threads /\ Workers \subseteq Threads
    BY DEF TypeOK, Threads
  <2>1. ASSUME NEW t \in Threads, Persist(t)
        PROVE  \A k \in Keys : stored[k] <= stored'[k]
    <3>1. task[t].id = started /\ \A k \in Keys : stored[k] <= started
      BY <2>1 DEF Persist, ManualInv, Recording
    <3> QED
      BY <2>1, <2>a, <3>1 DEF Persist
  <2>2. CASE UNCHANGED stored
    BY <2>2, <2>a
  <2> QED
    BY <2>1, <2>2 DEF Next, Request, JobStep, Respond, Begin, WorkDone, FinalizeClear,
       Remember, AuditCompleted, Release, RebuildClosing, Progress, DatabaseRaises,
       SchedStep, SchedWake, SchedCheck, SchedClaim, SchedReport, PollStep, PollCheck,
       PollLoad, PollLoadRaises, PollStore, PollSnapshot, UpdateSettings,
       IntervalElapses, Restart
<1> QED
  BY <1>1, TypeCorrect, ManualInvHolds, PTL DEF Spec, SummariesAdvance

\* A leaked flag refuses every later job until the process restarts.
THEOREM LeakIsPermanent ==
    ASSUME ~AutoSyncAllowed PROVE Spec => LeakLastsUntilRestart
<1>1. TypeOK /\ ManualInv /\ [Next]_vars =>
        [Leaked => Leaked' \/ restarts' # restarts]_vars
  <2> SUFFICES ASSUME TypeOK, ManualInv, Leaked, Next, restarts' = restarts
               PROVE  Leaked'
    BY DEF vars
  <2>a. /\ pc \in [Threads -> Phases] /\ restarts \in Nat
        /\ Sched \in Threads /\ Workers \subseteq Threads
        /\ \A t \in Threads : pc[t] \in {"idle", "report", "closing", "check", "claim"}
        /\ pc[Sched] = "idle" /\ ~sched.enabled /\ running
    BY DEF TypeOK, Threads, Leaked, ManualInv, Phases
  <2> USE <2>a DEF Goto, Responsible
  <2>1. ASSUME NEW t \in Threads, JobStep(t) \/ DatabaseRaises(t)
        PROVE  Leaked'
    BY <2>1 DEF JobStep, Respond, Begin, WorkDone, FinalizeClear, Persist, Remember,
       AuditCompleted, Release, RebuildClosing, DatabaseRaises, Leaked
  <2>2. CASE UNCHANGED <<running, pc>>
    BY <2>2 DEF Leaked
  <2>3. ~SchedStep
    BY DEF SchedStep, SchedWake, SchedCheck, SchedClaim, SchedReport
  <2>4. ~Restart
    BY DEF Restart
  <2> QED
    BY <2>1, <2>2, <2>3, <2>4 DEF Next, Request, Progress, PollStep, PollCheck,
       PollLoad, PollLoadRaises, PollStore, PollSnapshot, UpdateSettings, IntervalElapses
<1> QED
  BY <1>1, TypeCorrect, ManualInvHolds, PTL DEF Spec, LeakLastsUntilRestart

-----------------------------------------------------------------------------
(* Refinement of JobService *)

\* Requests alone implement the one-slot service: every behaviour takes the
\* slot when free, records one newer summary and then gives it back.
THEOREM ManualImplementsService ==
    ASSUME ~AutoSyncAllowed PROVE Spec => ImplementsService
<1> USE DEF Service!Init, Service!Next, Service!svars
<1>1. Init => Service!Init
  BY DEF Init, Slot
<1>2. TypeOK /\ ManualInv /\ [Next]_vars => [Service!Next]_Service!svars
  <2> SUFFICES ASSUME TypeOK, ManualInv, [Next]_vars
               PROVE  Service!Next \/ UNCHANGED <<Slot, stored>>
    OBVIOUS
  <2>a. /\ pc \in [Threads -> Phases] /\ task \in [Threads -> Job]
        /\ stored \in [Keys -> Nat] /\ started \in Nat
        /\ Sched \in Threads /\ Workers \subseteq Threads
        /\ \A t \in Threads : task[t].key \in Keys /\ task[t].id \in Nat
    BY DEF TypeOK, Threads, Job
  <2>b. \A t1, t2 \in Threads :
          pc[t1] \in Responsible /\ pc[t2] \in Responsible => t1 = t2
    BY DEF ManualInv
  <2>c. \A t \in Threads : pc[t] \in Responsible => running
    BY DEF ManualInv, ResponsibleHoldsFlag
  <2>d. pc[Sched] = "idle" /\ ~sched.enabled /\ \A t \in Threads : pc[t] # "begin"
    BY DEF ManualInv
  <2> USE <2>a, <2>b, <2>c, <2>d DEF Goto, Responsible, Slot, Leaked
  <2>1. ASSUME NEW w \in Workers, NEW k \in Keys, NEW kind \in {"sync", "rebuild"},
               Request(w, k, kind)
        PROVE  Service!Take
    <3>1. Slot = "free" /\ Slot' = "taken" /\ UNCHANGED stored
      BY <2>1 DEF Request
    <3> QED
      BY <3>1 DEF Service!Take
  <2>2. ASSUME NEW t \in Threads, JobStep(t)
        PROVE  Service!Next \/ UNCHANGED <<Slot, stored>>
    <3>1. CASE Respond(t)
      BY <3>1 DEF Respond
    <3>2. CASE Begin(t)
      BY <3>2 DEF Begin
    <3>3. ASSUME NEW ok \in BOOLEAN, WorkDone(t, ok)
          PROVE  UNCHANGED <<Slot, stored>>
      BY <3>3 DEF WorkDone
    <3>4. CASE FinalizeClear(t)
      BY <3>4 DEF FinalizeClear
    <3>5. CASE Persist(t)
      <4>1. Slot = "taken" /\ Slot' = "recorded"
        BY <3>5 DEF Persist
      <4> DEFINE k == task[t].key
      <4>2. k \in Keys /\ stored'[k] = task[t].id /\ task[t].id = started
            /\ stored' = [stored EXCEPT ![k] = stored'[k]]
        BY <3>5 DEF Persist, ManualInv, Recording
      <4>3. \A j \in Keys : stored[j] < started
        BY <3>5 DEF Persist, ManualInv, Recording
      <4> QED
        BY <4>1, <4>2, <4>3 DEF Service!Record
    <3>6. CASE Remember(t)
      BY <3>6 DEF Remember
    <3>7. CASE AuditCompleted(t)
      BY <3>7 DEF AuditCompleted
    <3>8. CASE Release(t)
      <4>1. Slot = "recorded" /\ Slot' = "free" /\ UNCHANGED stored
        BY <3>8 DEF Release
      <4> QED
        BY <4>1 DEF Service!Give
    <3>9. CASE RebuildClosing(t)
      BY <3>9 DEF RebuildClosing
    <3> QED
      BY <2>2, <3>1, <3>2, <3>3, <3>4, <3>5, <3>6, <3>7, <3>8, <3>9 DEF JobStep
  <2>3. ASSUME NEW t \in Threads, DatabaseRaises(t)
        PROVE  Service!Next \/ UNCHANGED <<Slot, stored>>
    <3>1. UNCHANGED <<running, stored>>
      BY <2>3 DEF DatabaseRaises
    <3>2. CASE pc[t] \in Responsible
      <4>1. Slot \in {"taken", "recorded"} /\ Slot' = "lost"
        BY <2>3, <3>1, <3>2 DEF DatabaseRaises
      <4> QED
        BY <4>1, <3>1 DEF Service!Lose
    <3>3. CASE pc[t] \notin Responsible
      BY <2>3, <3>1, <3>3 DEF DatabaseRaises
    <3> QED
      BY <3>2, <3>3
  <2>4. CASE Restart
    <3>1. Slot' = "free" /\ UNCHANGED stored
      BY <2>4 DEF Restart
    <3> QED
      BY <3>1 DEF Service!Crash
  <2>5. ~SchedStep
    BY DEF SchedStep, SchedWake, SchedCheck, SchedClaim, SchedReport
  <2>6. CASE UNCHANGED <<running, pc, stored>>
    BY <2>6
  <2> QED
    BY <2>1, <2>2, <2>3, <2>4, <2>5, <2>6 DEF Next, Progress, PollStep, PollCheck,
       PollLoad, PollLoadRaises, PollStore, PollSnapshot, UpdateSettings,
       IntervalElapses, vars
<1> QED
  BY <1>1, <1>2, TypeCorrect, ManualInvHolds, PTL DEF Spec, ImplementsService, Service!Spec

=============================================================================
