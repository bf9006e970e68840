----------------------------- MODULE RemoteSync -----------------------------
(***************************************************************************)
(* The first half of a sync: sync_all_sources pulls every remote source    *)
(* (a github clone, a web snapshot), keeps an exponential backoff for the  *)
(* ones that fail, and chooses what the second half indexes for each: the  *)
(* source itself, the local source it is paired with, or nothing.  Only    *)
(* when every source has its choice are any of them indexed.               *)
(*                                                                         *)
(* One job at a time.  Versions of a remote source are numbered in the     *)
(* order they are published, 0 is "none"; the files of a version are one   *)
(* value.  git is external: a clone or pull brings the newest version or   *)
(* leaves the clone as it was.  The backoff row of app_settings is written *)
(* by the job alone, so reading it and writing it back is one step.        *)
(* Every web source has a site of its own; the settings of the fetch       *)
(* policy do not change, and its minimum interval is only a delay.         *)
(***************************************************************************)
EXTENDS Naturals

CONSTANTS
    Githubs,      \* ids of github sources
    Webs,         \* ids of web sources
    Stocked,      \* github sources paired with a local source that has files
    Bare,         \* ... with a local source whose directory is missing or empty
    MaxExponent,  \* the greatest n for which base * 2^n is a float, 1023 in CPython
    MaxVersion,   \* bound: versions published per source
    MaxCrashes    \* bound: process crashes

ASSUME RemoteSyncAssumption ==
    /\ Githubs \cap Webs = {}
    /\ Stocked \subseteq Githubs /\ Bare \subseteq Githubs
    /\ Stocked \cap Bare = {}
    /\ MaxExponent \in Nat /\ MaxVersion \in Nat /\ MaxCrashes \in Nat

Remotes == Githubs \cup Webs

VARIABLES
    head,       \* the version each remote offers
    reachable,  \* the remotes a pull or fetch succeeds for
    disallowed, \* the web sources whose site's robots.txt refuses the page
    files,      \* the version in each clone or snapshot file
    etag,       \* the version the web snapshot's .json file names
    robots,     \* _robots_cache: what the last robots.txt that was read, or not found,
                \* says of the page; the entry lives for an hour
    fails,      \* "fail_count" in the row source_sync_backoff, 0: no entry
    waiting,    \* entries whose next_retry_at is in the future
    indexed,    \* the version indexed under the id of each remote
    locals,     \* paired local sources with documents under their own id
    job,        \* the running sync
    crashes

vars == <<head, reachable, disallowed, files, etag, robots, fails, waiting, indexed,
          locals, job, crashes>>

World == <<head, reachable, disallowed, crashes>>
Backoff == <<fails, waiting>>
Tables == <<indexed, locals>>

\* What resolve_index_source chose for a source.
Choices == {"own", "local", "nothing"}

\* A sync has a source in hand while it pulls it and records the outcome.
Attending == {"snapshot", "succeeded", "failed"}
Fields == [pc : Attending \cup {"idle", "pulling", "indexing"},
           todo : SUBSET Remotes, src : Remotes \cup {"none"},
           choice : [Remotes -> Choices]]
Sync == {m \in Fields : m.pc \in Attending => m.src \in Remotes}

Verdicts == {"unread", "allow", "deny"}

TypeOK ==
    /\ head \in [Remotes -> Nat]
    /\ reachable \subseteq Remotes
    /\ disallowed \subseteq Webs
    /\ files \in [Remotes -> Nat]
    /\ etag \in [Webs -> Nat]
    /\ robots \in [Webs -> Verdicts]
    /\ fails \in [Remotes -> 0..(MaxExponent + 1)]
    /\ waiting \subseteq Remotes
    /\ indexed \in [Remotes -> Nat]
    /\ locals \subseteq Remotes
    /\ job \in Sync
    /\ crashes \in Nat

NoJob == [pc |-> "idle", todo |-> {}, src |-> "none",
          choice |-> [r \in Remotes |-> "nothing"]]

Init ==
    /\ head = [r \in Remotes |-> 1]
    /\ reachable = Remotes
    /\ disallowed = {}
    /\ files = [r \in Remotes |-> 0]
    /\ etag = [r \in Webs |-> 0]
    /\ robots = [r \in Webs |-> "unread"]
    /\ fails = [r \in Remotes |-> 0]
    /\ waiting = {}
    /\ indexed = [r \in Remotes |-> 0]
    /\ locals = {}
    /\ job = NoJob
    /\ crashes = 0

-----------------------------------------------------------------------------
(* Choosing what is indexed *)

\* resolve_index_source, and the web branch of sync_all_sources, which keeps
\* the source whatever its fetch said.
Choice(r, ok) ==
    IF ok \/ r \in Webs THEN "own"
    ELSE IF r \in Stocked THEN "local"
    ELSE IF r \notin Bare /\ files[r] # 0 THEN "own"
    ELSE "nothing"

\* The pull of r is over: on to the next source, or to indexing.
Decide(r, ok) ==
    job' = [job EXCEPT !.pc = IF job.todo = {} THEN "indexing" ELSE "pulling",
                       !.todo = IF job.todo = {} THEN Remotes ELSE @,
                       !.src = "none",
                       !.choice[r] = Choice(r, ok)]

-----------------------------------------------------------------------------
(* Pulling *)

\* The pairs come before the standalone sources, here and in the index tasks.
Ready(r) == r \in job.todo /\ (r \in Webs => job.todo \cap Githubs = {})

StartSync ==
    /\ job.pc = "idle"
    /\ job' = [NoJob EXCEPT !.pc = "pulling", !.todo = Remotes]
    /\ UNCHANGED <<World, files, etag, Backoff, Tables, robots>>

\* Mutant of InBackoff: next_retry_at is not compared with the time.
InBackoffForEver(r) == fails[r] # 0

\* should_skip_source: an entry whose time has come does not hold a source up.
InBackoff(r) == fails[r] # 0 /\ r \in waiting

\* Take a source from the list; one in backoff counts as failed, and its
\* failure is not recorded again.
SkipSource(r) ==
    /\ job.pc = "pulling" /\ Ready(r)
    /\ InBackoff(r)
    /\ LET left == job.todo \ {r}
       IN  job' = [job EXCEPT !.pc = IF left = {} THEN "indexing" ELSE "pulling",
                              !.todo = IF left = {} THEN Remotes ELSE left,
                              !.choice[r] = Choice(r, FALSE)]
    /\ UNCHANGED <<World, files, etag, Backoff, Tables, robots>>

\* On to phase p of source r.
Attend(r, p) == job' = [job EXCEPT !.pc = p, !.todo = @ \ {r}, !.src = r]

\* pull_repo or ensure_clone.
PullGithub(r) ==
    /\ job.pc = "pulling" /\ r \in Githubs /\ Ready(r)
    /\ ~InBackoff(r)
    /\ IF r \in reachable
         THEN files' = [files EXCEPT ![r] = head[r]] /\ Attend(r, "succeeded")
         ELSE Attend(r, "failed") /\ UNCHANGED files
    /\ UNCHANGED <<World, etag, Backoff, Tables, robots>>

\* Mutant of Verdict: a robots.txt that was just read is stored as allowing the page.
VerdictBlind(r) == IF robots[r] # "unread" THEN robots[r] ELSE "allow"

\* check_robots: an entry of the cache is taken as it is; a robots.txt that cannot be
\* read allows everything, for as long as one that was read.
Verdict(r) ==
    IF robots[r] # "unread" THEN robots[r]
    ELSE IF r \in reachable \cap disallowed THEN "deny" ELSE "allow"

\* validate_web_fetch, its settings allowing the source.
Permitted(r) == Verdict(r) = "allow"

\* The server's answer to the headers made of the .json file is 304.
NotModified(r) == etag[r] = head[r]

\* Mutant of FetchWeb: the .json file is written before the snapshot.
FetchWebTagFirst(r) ==
    /\ job.pc = "pulling" /\ r \in Webs /\ Ready(r)
    /\ ~InBackoff(r)
    /\ r \in reachable
    /\ etag' = [etag EXCEPT ![r] = head[r]]
    /\ Attend(r, "snapshot")
    /\ UNCHANGED <<World, files, robots, Backoff, Tables>>

\* _sync_web_source_fetch: when validate_web_fetch allows it, a request with the etag
\* of the .json file.  304 writes nothing; 200 writes the snapshot.
FetchWeb(r) ==
    /\ job.pc = "pulling" /\ r \in Webs /\ Ready(r)
    /\ ~InBackoff(r)
    /\ robots' = [robots EXCEPT ![r] = Verdict(r)]
    /\ \/ /\ r \notin reachable \/ ~Permitted(r)
          /\ Attend(r, "failed") /\ UNCHANGED files
       \/ /\ r \in reachable /\ Permitted(r) /\ NotModified(r)
          /\ Attend(r, "succeeded") /\ UNCHANGED files
       \/ /\ r \in reachable /\ Permitted(r) /\ ~NotModified(r)
          /\ files' = [files EXCEPT ![r] = head[r]]
          /\ Attend(r, "snapshot")
    /\ UNCHANGED <<World, etag, Backoff, Tables>>

\* ... and then the .json file with the etag of the answer.
WriteEtag ==
    /\ job.pc = "snapshot"
    /\ etag' = [etag EXCEPT ![job.src] = files[job.src]]
    /\ job' = [job EXCEPT !.pc = "succeeded"]
    /\ UNCHANGED <<World, files, Backoff, Tables, robots>>

\* record_sync_success removes the entry.
RecordSuccess ==
    /\ job.pc = "succeeded"
    /\ fails' = [fails EXCEPT ![job.src] = 0]
    /\ waiting' = waiting \ {job.src}
    /\ Decide(job.src, TRUE)
    /\ UNCHANGED <<World, files, etag, Tables, robots>>

\* Mutant of RecordFailure: the count is saved before the delay is computed.
RecordFailureFirst ==
    /\ job.pc = "failed"
    /\ fails' = [fails EXCEPT ![job.src] = @ + 1]
    /\ waiting' = waiting \cup {job.src}
    /\ Decide(job.src, FALSE)
    /\ UNCHANGED <<World, files, etag, Tables, robots>>

\* record_sync_failure counts the failure and sets the time of the next try.
\* The delay is base * 2^(fail_count - 1) before it is capped.
RecordFailure ==
    /\ job.pc = "failed"
    /\ fails[job.src] <= MaxExponent
    /\ fails' = [fails EXCEPT ![job.src] = @ + 1]
    /\ waiting' = waiting \cup {job.src}
    /\ Decide(job.src, FALSE)
    /\ UNCHANGED <<World, files, etag, Tables, robots>>

\* From the 1025th failure in a row on, 2^(fail_count - 1) is no float: the
\* OverflowError is raised before the row is saved and outside the try block
\* of the source, so the job ends here, before anything is indexed.
DelayOverflows ==
    /\ job.pc = "failed"
    /\ fails[job.src] > MaxExponent
    /\ job' = NoJob
    /\ UNCHANGED <<World, files, etag, Backoff, Tables, robots>>

-----------------------------------------------------------------------------
(* Indexing, and the rest of the world *)

\* One index task: the files that are there now (module SourceIndex opens
\* it).  A root that does not exist is passed over.
IndexSource(r) ==
    /\ job.pc = "indexing" /\ Ready(r)
    /\ indexed' = IF job.choice[r] = "own" /\ files[r] # 0
                    THEN [indexed EXCEPT ![r] = files[r]] ELSE indexed
    /\ locals' = IF job.choice[r] = "local" THEN locals \cup {r} ELSE locals
    /\ job' = IF job.todo = {r} THEN NoJob ELSE [job EXCEPT !.todo = @ \ {r}]
    /\ UNCHANGED <<World, files, etag, Backoff, robots>>

\* run_rebuild_job: every source whose root exists, without pairing.
Rebuild ==
    /\ job.pc = "idle"
    /\ indexed' = [r \in Remotes |-> IF files[r] # 0 THEN files[r] ELSE indexed[r]]
    /\ locals' = locals \cup Stocked
    /\ UNCHANGED <<World, files, etag, Backoff, job, robots>>

\* next_retry_at of an entry passes.
RetryTimeComes(r) ==
    /\ r \in waiting
    /\ waiting' = waiting \ {r}
    /\ UNCHANGED <<World, files, etag, fails, Tables, job, robots>>

Publish(r) ==
    /\ head[r] < MaxVersion
    /\ head' = [head EXCEPT ![r] = @ + 1]
    /\ UNCHANGED <<disallowed, reachable, crashes, files, etag, Backoff, Tables, job, robots>>

\* A network, a server or a token goes, or comes back.
Outage(r) ==
    /\ r \in reachable
    /\ reachable' = reachable \ {r}
    /\ UNCHANGED <<disallowed, head, crashes, files, etag, Backoff, Tables, job, robots>>

Recover(r) ==
    /\ r \in Remotes \ reachable
    /\ reachable' = reachable \cup {r}
    /\ UNCHANGED <<disallowed, head, crashes, files, etag, Backoff, Tables, job, robots>>

\* A site changes its robots.txt.
EditRobots(r) ==
    /\ disallowed' = IF r \in disallowed THEN disallowed \ {r} ELSE disallowed \cup {r}
    /\ UNCHANGED <<head, reachable, crashes, files, etag, Backoff, Tables, job, robots>>

\* _ROBOTS_CACHE_TTL passes.
RobotsExpire(r) ==
    /\ robots[r] # "unread"
    /\ robots' = [robots EXCEPT ![r] = "unread"]
    /\ UNCHANGED <<World, files, etag, Backoff, Tables, job>>

\* The process dies in the middle of a sync; the cache of robots.txt dies with it.
Crash ==
    /\ crashes < MaxCrashes
    /\ job.pc # "idle"
    /\ crashes' = crashes + 1
    /\ job' = NoJob
    /\ robots' = [r \in Webs |-> "unread"]
    /\ UNCHANGED <<head, reachable, disallowed, files, etag, Backoff, Tables>>

-----------------------------------------------------------------------------
(* Specification *)

JobStep ==
    \/ \E r \in Remotes : SkipSource(r) \/ PullGithub(r) \/ FetchWeb(r) \/ IndexSource(r)
    \/ WriteEtag \/ RecordSuccess \/ RecordFailure \/ DelayOverflows

Next ==
    \/ StartSync \/ JobStep \/ Rebuild \/ Crash
    \/ \E r \in Remotes : RetryTimeComes(r) \/ Publish(r) \/ Outage(r) \/ Recover(r)
    \/ \E r \in Webs : EditRobots(r) \/ RobotsExpire(r)

Spec == Init /\ [][Next]_vars

\* A sync that runs goes on, syncs come again and again (the automatic sync,
\* or users), and time passes.  Nothing is assumed of the remotes.
Fairness ==
    /\ WF_vars(JobStep)
    /\ SF_vars(StartSync)
    /\ \A r \in Remotes : WF_vars(RetryTimeComes(r))
    /\ \A r \in Webs : WF_vars(RobotsExpire(r))

FairSpec == Spec /\ Fairness

-----------------------------------------------------------------------------
(* Properties *)

\* The etag a fetch sends is never newer than the snapshot on disk, whenever
\* the process died: the 304 that answers it would hide the new text for good.
EtagHasItsSnapshot == \A r \in Webs : etag[r] <= files[r]

\* When every remote answers, and allows it, from some time on, the newest version of
\* each is indexed for good: no backoff, fallback, crash, 304 or cached refusal holds it
\* up for ever.
RemotesCatchUp ==
    (\A q \in Remotes : <>[](q \in reachable \ disallowed))
        => \A r \in Remotes : <>[](indexed[r] = head[r])

\* A site that answers, and whose robots.txt refuses the page for good, is at some time
\* asked for the page no more, although the cache may hold an older permission or the
\* one that an outage gives.
RefusalIsHeard ==
    \A r \in Webs :
        <>[](r \in reachable \cap disallowed)
            => <>[](job.src = r => job.pc = "failed")

=============================================================================
