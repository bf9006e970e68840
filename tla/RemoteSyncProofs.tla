-------------------------- MODULE RemoteSyncProofs --------------------------
(***************************************************************************)
(* Proofs about RemoteSync, for any remotes, pairs and bounds.             *)
(***************************************************************************)
EXTENDS RemoteSync, TLAPS

\* What the steps that end a source's pull make of the job.
LEMMA DecideType ==
    ASSUME job \in Sync, NEW r \in Remotes, NEW ok \in BOOLEAN, Decide(r, ok)
    PROVE  job' \in Sync
<1>1. Choice(r, ok) \in Choices
  BY DEF Choice, Choices
<1>2. [job.choice EXCEPT ![r] = Choice(r, ok)] \in [Remotes -> Choices]
  BY <1>1 DEF Sync, Fields
<1>3. job' = [pc |-> IF job.todo = {} THEN "indexing" ELSE "pulling",
              todo |-> IF job.todo = {} THEN Remotes ELSE job.todo,
              src |-> "none",
              choice |-> [job.choice EXCEPT ![r] = Choice(r, ok)]]
  BY DEF Decide, Sync, Fields
<1> QED
  BY <1>2, <1>3 DEF Sync, Fields, Attending

\* Every variable keeps its type; the failure count in particular never goes
\* beyond the first one whose delay cannot be computed.
THEOREM TypeCorrect == Spec => []TypeOK
<1> USE RemoteSyncAssumption
<1>1. Init => TypeOK
  BY DEF Init, TypeOK, NoJob, Sync, Fields, Attending, Choices, Remotes, Verdicts
<1>2. TypeOK /\ [Next]_vars => TypeOK'
  <2> SUFFICES ASSUME TypeOK, [Next]_vars PROVE TypeOK'
    OBVIOUS
  <2> USE DEF TypeOK, World, Backoff, Tables
  <2>0. NoJob \in Sync
    BY DEF NoJob, Sync, Fields, Attending, Choices
  <2>1. CASE StartSync
    BY <2>0, <2>1 DEF StartSync, NoJob, Sync, Fields, Attending, Choices
  <2>2. ASSUME NEW r \in Remotes, SkipSource(r) PROVE TypeOK'
    <3>1. Choice(r, FALSE) \in Choices
      BY DEF Choice, Choices
    <3>2. job' \in Sync
      BY <2>2, <3>1 DEF SkipSource, Sync, Fields, Attending
    <3> QED
      BY <2>2, <3>2 DEF SkipSource
  <2>3. ASSUME NEW r \in Remotes, PullGithub(r) PROVE TypeOK'
    <3>1. PICK p \in Attending : Attend(r, p)
      BY <2>3 DEF PullGithub, Attending
    <3>2. job' \in Sync
      BY <3>1 DEF Attend, Sync, Fields
    <3>3. files' \in [Remotes -> Nat]
      BY <2>3 DEF PullGithub
    <3> QED
      BY <2>3, <3>2, <3>3 DEF PullGithub
  <2>4. ASSUME NEW r \in Remotes, FetchWeb(r) PROVE TypeOK'
    <3>1. PICK p \in Attending : Attend(r, p)
      BY <2>4 DEF FetchWeb, Attending
    <3>2. job' \in Sync
      BY <3>1 DEF Attend, Sync, Fields
    <3>3. files' \in [Remotes -> Nat]
      BY <2>4 DEF FetchWeb
    <3>4. r \in Webs /\ Verdict(r) \in Verdicts
      BY <2>4 DEF FetchWeb, Verdict, Verdicts
    <3>5. robots' \in [Webs -> Verdicts]
      BY <2>4, <3>4 DEF FetchWeb
    <3> QED
      BY <2>4, <3>2, <3>3, <3>5 DEF FetchWeb
  <2>5. CASE WriteEtag
    <3>1. job.src \in Remotes /\ job' \in Sync
      BY <2>5 DEF WriteEtag, Sync, Fields, Attending
    <3>2. etag' \in [Webs -> Nat]
      BY <2>5, <3>1 DEF WriteEtag
    <3> QED
      BY <2>5, <3>1, <3>2 DEF WriteEtag
  <2>6. CASE RecordSuccess
    <3>1. job.src \in Remotes
      BY <2>6 DEF RecordSuccess, Sync, Attending
    <3>2. job' \in Sync
      BY <2>6, <3>1, DecideType DEF RecordSuccess
    <3>3. fails' \in [Remotes -> 0..(MaxExponent + 1)]
      BY <2>6, <3>1 DEF RecordSuccess
    <3> QED
      BY <2>6, <3>2, <3>3 DEF RecordSuccess
  <2>7. CASE RecordFailure
    <3>1. job.src \in Remotes
      BY <2>7 DEF RecordFailure, Sync, Attending
    <3>2. job' \in Sync
      BY <2>7, <3>1, DecideType DEF RecordFailure
    <3>3. fails' \in [Remotes -> 0..(MaxExponent + 1)]
      BY <2>7, <3>1 DEF RecordFailure
    <3> QED
      BY <2>7, <3>1, <3>2, <3>3 DEF RecordFailure
  <2>8. CASE DelayOverflows
    BY <2>0, <2>8 DEF DelayOverflows
  <2>9. ASSUME NEW r \in Remotes, IndexSource(r) PROVE TypeOK'
    <3>1. job' \in Sync
      BY <2>0, <2>9 DEF IndexSource, Sync, Fields, Attending
    <3>2. indexed' \in [Remotes -> Nat] /\ locals' \subseteq Remotes
      BY <2>9 DEF IndexSource
    <3> QED
      BY <2>9, <3>1, <3>2 DEF IndexSource
  <2>10. CASE Rebuild
    BY <2>10 DEF Rebuild, Remotes
  <2>11. CASE Crash
    BY <2>0, <2>11 DEF Crash, Verdicts
  <2>12. ASSUME NEW r \in Remotes,
                RetryTimeComes(r) \/ Publish(r) \/ Outage(r) \/ Recover(r)
         PROVE  TypeOK'
    BY <2>12 DEF RetryTimeComes, Publish, Outage, Recover
  <2>13. ASSUME NEW r \in Webs, EditRobots(r) \/ RobotsExpire(r) PROVE TypeOK'
    BY <2>13 DEF EditRobots, RobotsExpire, Verdicts
  <2>14. CASE UNCHANGED vars
    BY <2>14 DEF vars
  <2> QED
    BY <2>1, <2>2, <2>3, <2>4, <2>5, <2>6, <2>7, <2>8, <2>9, <2>10, <2>11, <2>12,
       <2>13, <2>14 DEF Next, JobStep
<1> QED
  BY <1>1, <1>2, PTL DEF Spec

-----------------------------------------------------------------------------

\* The snapshot on disk lies between the etag and what the server offers.
EtagInv ==
    /\ \A r \in Remotes : files[r] <= head[r]
    /\ EtagHasItsSnapshot

\* The etag sent with a fetch is never newer than the snapshot on disk, for
\* any number of sources and wherever the process dies.
THEOREM EtagsAreHonest == Spec => []EtagHasItsSnapshot
<1> USE RemoteSyncAssumption DEF Remotes
<1>1. Init => EtagInv
  BY DEF Init, EtagInv, EtagHasItsSnapshot
<1>2. TypeOK /\ EtagInv /\ [Next]_vars => EtagInv'
  <2> SUFFICES ASSUME TypeOK, EtagInv, [Next]_vars PROVE EtagInv'
    OBVIOUS
  <2> USE DEF TypeOK, EtagInv, EtagHasItsSnapshot
  <2>1. ASSUME NEW r \in Remotes, PullGithub(r) PROVE EtagInv'
    BY <2>1 DEF PullGithub, World
  <2>2. ASSUME NEW r \in Remotes, FetchWeb(r) PROVE EtagInv'
    BY <2>2 DEF FetchWeb, World
  <2>3. CASE WriteEtag
    BY <2>3 DEF WriteEtag, World
  <2>4. ASSUME NEW r \in Remotes, Publish(r) PROVE EtagInv'
    BY <2>4 DEF Publish
  <2>5. CASE UNCHANGED <<files, etag, head>>
    BY <2>5
  <2> QED
    BY <2>1, <2>2, <2>3, <2>4, <2>5
    DEF Next, JobStep, StartSync, SkipSource, RecordSuccess, RecordFailure,
        DelayOverflows, IndexSource, Rebuild, Crash, RetryTimeComes, Outage,
        Recover, EditRobots, RobotsExpire, World, vars
<1>3. EtagInv => EtagHasItsSnapshot
  BY DEF EtagInv
<1> QED
  BY <1>1, <1>2, <1>3, TypeCorrect, PTL DEF Spec

=============================================================================
