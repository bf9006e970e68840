--------------------------- MODULE SyncLocksProofs ---------------------------
(***************************************************************************)
(* Theorems of SyncLocks, for every set of requesters and writers and      *)
(* every bound.                                                            *)
(***************************************************************************)
EXTENDS SyncLocks, TLAPS

\* Every variable keeps its type; in particular no step of the job or of a
\* writer leaves SYNC_LOCK held.
THEOREM TypeCorrect == Spec => []TypeOK
<1>1. Init => TypeOK
  <2> SUFFICES ASSUME Init PROVE TypeOK
    OBVIOUS
  <2>1. /\ pc \in [Threads -> {"idle"}]
        /\ made \in [Requesters \cup Writers -> {0}]
        /\ late \in [Requesters -> {0}]
    BY DEF Init
  <2> QED
    BY <2>1 DEF Init, TypeOK
<1>2. TypeOK /\ [Next]_vars => TypeOK'
  <2> SUFFICES ASSUME TypeOK, [Next]_vars PROVE TypeOK'
    OBVIOUS
  <2> USE SyncLocksAssumption DEF TypeOK, Threads, Goto
  <2>1. ASSUME NEW r \in Requesters, Ask(r) PROVE TypeOK'
    BY <2>1 DEF Ask
  <2>2. ASSUME NEW r \in Requesters, RequestStep(r) PROVE TypeOK'
    <3>1. CASE OpensUsage(r) \/ Records(r)
      BY <3>1 DEF OpensUsage, Records
    <3>2. CASE Tally(r)
      BY <3>2 DEF Tally
    <3>3. CASE Enter(r) \/ Refuse(r)
      BY <3>3 DEF Enter, Refuse
    <3>4. CASE Respond(r)
      BY <3>4 DEF Respond
    <3>5. CASE RequestTimesOut(r)
      BY <3>5 DEF RequestTimesOut
    <3> QED
      BY <2>2, <3>1, <3>2, <3>3, <3>4, <3>5 DEF RequestStep
  <2>3. CASE JobStep
    BY <2>3 DEF JobStep, LockedStep, WritesOnce, JobBegins, NamesSource, RecordsError,
         NoMoreSources, ClearsSummaries, RemembersSummary, OpensTransaction,
         NothingChanged, CountsFiles, Commits, PersistsSummary, AuditsCompletion,
         Releases, JobTimesOut
  <2>4. ASSUME NEW w \in Writers, WriterBegins(w) \/ WriterCommits(w) PROVE TypeOK'
    BY <2>4 DEF WriterBegins, WriterCommits
  <2>5. CASE LeavesWindow
    BY <2>5 DEF LeavesWindow
  <2>6. CASE UNCHANGED vars
    BY <2>6 DEF vars
  <2> QED
    BY <2>1, <2>2, <2>3, <2>4, <2>5, <2>6 DEF Next
<1> QED
  BY <1>1, <1>2, PTL DEF Spec

-----------------------------------------------------------------------------

\* The inductive invariant: the flag is set from "started" to the job's last
\* step, and one request at most has set it.
AloneInv ==
    /\ pc[Job] # "idle" => running
    /\ \A r \in Requesters : pc[r] = "respond" => running
    /\ StartedMeansAlone

\* However many requests wait for either lock, and whoever runs into
\* busy_timeout, a request is told "started" only while no job runs and no
\* other request has been told so.
THEOREM StartedAlone == Spec => []StartedMeansAlone
<1>1. Init => AloneInv
  BY SyncLocksAssumption DEF Init, AloneInv, StartedMeansAlone, Threads
<1>2. TypeOK /\ AloneInv /\ [Next]_vars => AloneInv'
  <2> SUFFICES ASSUME TypeOK, AloneInv, [Next]_vars PROVE AloneInv'
    OBVIOUS
  <2> USE SyncLocksAssumption DEF TypeOK, AloneInv, StartedMeansAlone, Threads, Goto
  <2>1. ASSUME NEW r \in Requesters, Ask(r) PROVE AloneInv'
    BY <2>1 DEF Ask
  <2>2. ASSUME NEW r \in Requesters,
               OpensUsage(r) \/ Tally(r) \/ Records(r) \/ Refuse(r) \/ RequestTimesOut(r)
        PROVE  AloneInv'
    BY <2>2 DEF OpensUsage, Tally, Records, Refuse, RequestTimesOut
  <2>3. ASSUME NEW r \in Requesters, Enter(r) PROVE AloneInv'
    BY <2>3 DEF Enter
  <2>4. ASSUME NEW r \in Requesters, Respond(r) PROVE AloneInv'
    BY <2>4 DEF Respond
  <2>5. CASE JobStep
    <3>1. /\ pc[Job] # "idle"
          /\ \A r \in Requesters : pc'[r] = pc[r]
          /\ running => running' \/ pc'[Job] = "idle"
      BY <2>5 DEF JobStep, LockedStep, WritesOnce, JobBegins, NamesSource, RecordsError,
           NoMoreSources, ClearsSummaries, RemembersSummary, OpensTransaction,
           NothingChanged, CountsFiles, Commits, PersistsSummary, AuditsCompletion,
           Releases, JobTimesOut
    <3>2. pc'[Job] # "idle" => running'
      BY <3>1
    <3>3. \A r \in Requesters : pc'[r] # "respond"
      BY <3>1
    <3> QED
      BY <3>2, <3>3
  <2>6. ASSUME NEW w \in Writers, WriterBegins(w) \/ WriterCommits(w) PROVE AloneInv'
    BY <2>6 DEF WriterBegins, WriterCommits
  <2>7. CASE LeavesWindow
    BY <2>7 DEF LeavesWindow
  <2>8. CASE UNCHANGED vars
    BY <2>8 DEF vars
  <2> QED
    BY <2>1, <2>2, <2>3, <2>4, <2>5, <2>6, <2>7, <2>8 DEF Next, RequestStep
<1>3. AloneInv => StartedMeansAlone
  BY DEF AloneInv
<1> QED
  BY <1>1, <1>2, <1>3, TypeCorrect, PTL DEF Spec

-----------------------------------------------------------------------------

\* The inductive invariant: whoever counts, records or writes holds the write
\* transaction, so what a request has counted does not grow before it records.
LimitInv ==
    /\ AtMostLimit
    /\ \A r \in Requesters : pc[r] \in {"tally", "record"} => dbLock = r
    /\ \A r \in Requesters : pc[r] = "record" => counted < Limit
    /\ pc[Job] \in {"count", "commit"} => dbLock = Job
    /\ \A w \in Writers : pc[w] = "writing" => dbLock = w

\* Whoever counts at the same time, no more requests than the limit pass within
\* a window.
THEOREM LimitHolds == Spec => []AtMostLimit
<1>1. Init => LimitInv
  BY SyncLocksAssumption DEF Init, LimitInv, AtMostLimit, Threads
<1>2. TypeOK /\ LimitInv /\ [Next]_vars => LimitInv'
  <2> SUFFICES ASSUME TypeOK, LimitInv, [Next]_vars PROVE LimitInv'
    OBVIOUS
  <2> USE SyncLocksAssumption DEF TypeOK, LimitInv, AtMostLimit, Threads, Goto
  <2>1. ASSUME NEW r \in Requesters, Ask(r) PROVE LimitInv'
    BY <2>1 DEF Ask
  <2>2. ASSUME NEW r \in Requesters, OpensUsage(r) PROVE LimitInv'
    BY <2>2 DEF OpensUsage
  <2>3. ASSUME NEW r \in Requesters, Tally(r) PROVE LimitInv'
    <3>1. counted' = counted /\ (pc'[r] = "record" => counted < Limit /\ dbLock' = r)
      BY <2>3 DEF Tally
    <3>2. /\ pc'[r] # "tally"
          /\ \A q \in Requesters \ {r} : pc'[q] = pc[q] /\ pc[q] \notin {"tally", "record"}
      BY <2>3 DEF Tally
    <3>3. pc'[Job] \notin {"count", "commit"} /\ \A w \in Writers : pc'[w] # "writing"
      BY <2>3 DEF Tally
    <3> QED
      BY <3>1, <3>2, <3>3
  <2>4. ASSUME NEW r \in Requesters, Records(r) PROVE LimitInv'
    <3>1. counted' <= Limit
      BY <2>4 DEF Records
    <3>2. \A q \in Requesters : pc'[q] \notin {"tally", "record"}
      BY <2>4 DEF Records
    <3>3. pc'[Job] \notin {"count", "commit"} /\ \A w \in Writers : pc'[w] # "writing"
      BY <2>4 DEF Records
    <3> QED
      BY <3>1, <3>2, <3>3
  <2>5. ASSUME NEW r \in Requesters, Enter(r) \/ Refuse(r) \/ Respond(r) \/ RequestTimesOut(r)
        PROVE  LimitInv'
    BY <2>5 DEF Enter, Refuse, Respond, RequestTimesOut
  <2>6. CASE JobStep
    <3>1. counted' = counted /\ (\A r \in Requesters : pc'[r] = pc[r])
      BY <2>6 DEF JobStep, LockedStep, WritesOnce, JobBegins, NamesSource, RecordsError,
           NoMoreSources, ClearsSummaries, RemembersSummary, OpensTransaction,
           NothingChanged, CountsFiles, Commits, PersistsSummary, AuditsCompletion,
           Releases, JobTimesOut
    <3>2. \/ dbLock' = dbLock
          \/ dbLock = Free
          \/ pc[Job] = "commit" /\ dbLock' = Free
      BY <2>6 DEF JobStep, LockedStep, WritesOnce, JobBegins, NamesSource, RecordsError,
           NoMoreSources, ClearsSummaries, RemembersSummary, OpensTransaction,
           NothingChanged, CountsFiles, Commits, PersistsSummary, AuditsCompletion,
           Releases, JobTimesOut
    <3>3. pc'[Job] \in {"count", "commit"} => dbLock' = Job
      BY <2>6 DEF JobStep, LockedStep, WritesOnce, JobBegins, NamesSource, RecordsError,
           NoMoreSources, ClearsSummaries, RemembersSummary, OpensTransaction,
           NothingChanged, CountsFiles, Commits, PersistsSummary, AuditsCompletion,
           Releases, JobTimesOut
    <3>4. \A w \in Writers : pc'[w] = pc[w]
      BY <2>6 DEF JobStep, LockedStep, WritesOnce, JobBegins, NamesSource, RecordsError,
           NoMoreSources, ClearsSummaries, RemembersSummary, OpensTransaction,
           NothingChanged, CountsFiles, Commits, PersistsSummary, AuditsCompletion,
           Releases, JobTimesOut
    <3> QED
      BY <3>1, <3>2, <3>3, <3>4
  <2>7. ASSUME NEW w \in Writers, WriterBegins(w) PROVE LimitInv'
    BY <2>7 DEF WriterBegins
  <2>8. ASSUME NEW w \in Writers, WriterCommits(w) PROVE LimitInv'
    BY <2>8 DEF WriterCommits
  <2>9. CASE LeavesWindow
    BY <2>9 DEF LeavesWindow
  <2>10. CASE UNCHANGED vars
    BY <2>10 DEF vars
  <2> QED
    BY <2>1, <2>2, <2>3, <2>4, <2>5, <2>6, <2>7, <2>8, <2>9, <2>10 DEF Next, RequestStep
<1>3. LimitInv => AtMostLimit
  BY DEF LimitInv
<1> QED
  BY <1>1, <1>2, <1>3, TypeCorrect, PTL DEF Spec

=============================================================================
