-------------------------------- MODULE Vault -------------------------------
(***************************************************************************)
(* The wiki on disk, its index.md, and the git vault that carries both to  *)
(* other machines.  Requests save pages and answers, lint, and pull or     *)
(* push the vault; the one sync job pulls, may push, and touches the       *)
(* navigation pages at its end.  Nothing locks the wiki or the work tree.  *)
(*                                                                         *)
(* A pull moves the work tree forward, removes the wiki and copies the     *)
(* work tree over it, file by file; a push does the same the other way and *)
(* then commits and pushes.  Neither looks at what the other is doing.  A  *)
(* commit that fails leaves its pages in the work tree and in git's index, *)
(* where later pulls meet them.                                            *)
(*                                                                         *)
(* A page is a version, Absent when there is no file.  purpose.md and the  *)
(* manifest travel the same way and are left out; so is log.md, of which   *)
(* two overlapping touches lose a line.  The documents of the wiki are     *)
(* those of SourceIndex.                                                   *)
(***************************************************************************)
EXTENDS Naturals, Sequences, FiniteSets

CONSTANTS
    Job,          \* the thread of the sync job
    Requests,     \* threads of requests
    Pages,
    Summaries,    \* those in summaries/, but for its README
    Queries,      \* those in queries/: saved answers
    Rank,         \* the order of the names of the saved answers
    QueryLimit,   \* the saved answers that index.md lists, 80
    Versions,     \* positive numbers
    First,        \* the pages of the wiki and of the vault at the start
    NoCommit,
    Identity,     \* git knows the name and the address it commits with
    MaxRequests,  \* bound: requests that begin
    MaxForeign,   \* bound: commits pushed from elsewhere
    MaxFaults     \* bound: outages, crashes and failures

Threads == {Job} \cup Requests
Absent == 0
Contents == [pages : [Pages -> Versions \cup {Absent}], index : SUBSET Pages]

ASSUME VaultAssumption ==
    /\ Job \notin Requests
    /\ IsFiniteSet(Requests)
    /\ IsFiniteSet(Pages)
    /\ Summaries \subseteq Pages
    /\ Queries \subseteq Pages \ Summaries
    /\ Rank \in [Queries -> Nat]
    /\ QueryLimit \in Nat
    /\ Identity \in BOOLEAN
    /\ Versions # {}
    /\ Versions \subseteq Nat \ {Absent}
    /\ First \subseteq Pages
    /\ NoCommit \notin Contents
    /\ MaxRequests \in Nat
    /\ MaxForeign \in Nat
    /\ MaxFaults \in Nat

PagesOf(c) == {p \in Pages : c.pages[p] # Absent}

\* What rebuild_wiki_index writes of the pages it found: the summaries, and the saved
\* answers with the last names.
Listed(found) ==
    (found \cap Summaries) \cup
    {p \in found \cap Queries :
        Cardinality({q \in found \cap Queries : Rank[q] > Rank[p]}) < QueryLimit}

VARIABLES
    wiki,         \* WIKI_DIR
    work,         \* the files of the work tree
    base,         \* the last commit of the vault the work tree has; NoCommit: no clone
    own,          \* the last of its commits the vault lacks, or NoCommit
    remote,       \* the last commit of the vault
    behind,       \* the vault has commits the work tree lacks
    dirty,        \* git's index has what a commit that failed was to record
    step,         \* where each thread is
    todo,         \* the operations it has left
    files,        \* the files it has left to copy, or found for the index
    online,
    risk,         \* history: two vault operations overlapped, one was cut short, or
                  \* the first clone was made by a push
    requests, foreign, faults

vars == <<wiki, work, base, own, remote, behind, dirty, step, todo, files, online, risk,
          requests, foreign, faults>>

Start == [pages |-> [p \in Pages |-> IF p \in First THEN CHOOSE v \in Versions : TRUE ELSE Absent],
          index |-> Listed(First)]
Empty == [pages |-> [p \in Pages |-> Absent], index |-> {}]

Init ==
    /\ wiki = Start
    /\ remote = Start
    /\ \/ base = Start /\ work = Start
       \/ base = NoCommit /\ work = Empty
    /\ own = NoCommit
    /\ behind = FALSE
    /\ dirty = FALSE
    /\ step = [t \in Threads |-> "idle"]
    /\ todo = [t \in Threads |-> <<>>]
    /\ files = [t \in Threads |-> {}]
    /\ online = TRUE
    /\ risk = FALSE
    /\ requests = 0
    /\ foreign = 0
    /\ faults = 0

-----------------------------------------------------------------------------
(* What a thread does next, and which vault operations are under way. *)

FirstStep == [pull |-> "fetch", push |-> "empty", touch |-> "scan"]

Begin(t, ops) ==
    IF ops = <<>> THEN /\ step' = [step EXCEPT ![t] = "idle"]
                       /\ todo' = [todo EXCEPT ![t] = <<>>]
                       /\ files' = [files EXCEPT ![t] = {}]
    ELSE /\ step' = [step EXCEPT ![t] = FirstStep[Head(ops)]]
         /\ todo' = [todo EXCEPT ![t] = Tail(ops)]
         /\ files' = [files EXCEPT ![t] = {}]

Done(t) == Begin(t, todo[t])

GoTo(t, s, fs) ==
    /\ step' = [step EXCEPT ![t] = s]
    /\ files' = [files EXCEPT ![t] = fs]
    /\ UNCHANGED todo

Copying == {"clear", "restore", "fill", "commit"}
Overlap(now) == Cardinality({t \in Threads : now[t] \in Copying}) > 1
Watch == risk' = (risk \/ Overlap(step'))

Repository == <<base, own, remote, behind, dirty>>
Environment == <<online, requests, foreign, faults>>

-----------------------------------------------------------------------------
(* Requests and the job. *)

Asked(pull, push) == (IF pull THEN <<"pull">> ELSE <<>>) \o (IF push THEN <<"push">> ELSE <<>>)

Ask(t, ops) ==
    /\ step[t] = "idle"
    /\ requests < MaxRequests
    /\ requests' = requests + 1
    /\ Begin(t, ops)
    /\ UNCHANGED <<work, Repository, online, risk, foreign, faults>>

VaultSync(t, pull, push) ==
    /\ Ask(t, Asked(pull, push))
    /\ UNCHANGED wiki

\* The report is no page; the run is noted by a touch.
Lint(t) == Ask(t, <<"touch">>) /\ UNCHANGED wiki

\* update_wiki_content leaves index.md as it is.
SavePage(t, p, v) ==
    /\ wiki.pages[p] # v
    /\ wiki' = [wiki EXCEPT !.pages[p] = v]
    /\ Ask(t, <<>>)

\* save_query_page_with_nav: a page of its own for every answer, and a touch.
SaveAnswer(t, p, v) ==
    /\ p \in Queries
    /\ wiki.pages[p] = Absent
    /\ wiki' = [wiki EXCEPT !.pages[p] = v]
    /\ Ask(t, <<"touch">>)

\* Mutant: the job does not touch the navigation pages.
StartJobNoTouch(pull, push) ==
    /\ step[Job] = "idle"
    /\ Begin(Job, Asked(pull, push))
    /\ UNCHANGED <<wiki, work, Repository, risk, Environment>>

\* run_sync_job as requested, or without pull and push run_rebuild_job.
StartJob(pull, push) ==
    /\ step[Job] = "idle"
    /\ Begin(Job, Asked(pull, push) \o <<"touch">>)
    /\ UNCHANGED <<wiki, work, Repository, risk, Environment>>

-----------------------------------------------------------------------------
(* git: the work tree and the remote. *)

Cloned == base # NoCommit
HeadContent == IF own # NoCommit THEN own ELSE IF Cloned THEN base ELSE Empty

\* A file that was changed here and there stops a pull.  One that is missing here is
\* taken from there, one that git's index has as it is there is kept.
Conflict ==
    \E p \in Pages :
        /\ remote.pages[p] # base.pages[p]
        /\ work.pages[p] \notin {Absent, base.pages[p]}
        /\ ~ (dirty /\ work.pages[p] = remote.pages[p])

\* git pull --ff-only, or git clone.
CanPull ==
    /\ online
    /\ behind => own = NoCommit
    /\ behind /\ Cloned => ~ Conflict

\* index.md, log.md or the manifest may be the file that stops a pull.
MayNotPull == behind /\ dirty

Pulled(index) ==
    IF ~ Cloned THEN remote
    ELSE IF ~ behind THEN work
    ELSE [pages |-> [p \in Pages |-> IF remote.pages[p] # base.pages[p] THEN remote.pages[p]
                                     ELSE work.pages[p]],
          index |-> index]

\* The vault's index.md, but if only the uncommitted one has changed.
PulledIndex == IF dirty THEN {remote.index, work.index} ELSE {remote.index}

\* Mutant: a clone that is there is taken as it is.
FetchOnce(t) ==
    /\ step[t] = "fetch"
    /\ IF ~ Cloned /\ CanPull
       THEN /\ work' = remote
            /\ base' = remote
            /\ behind' = FALSE
       ELSE UNCHANGED <<work, base, behind>>
    /\ IF PagesOf(work') = {} THEN Done(t) ELSE GoTo(t, "clear", {})
    /\ Watch
    /\ UNCHANGED <<wiki, own, remote, dirty, Environment>>

\* pull_repo or ensure_clone; when it fails the wiki is left alone.
Fetch(t) ==
    /\ step[t] = "fetch"
    /\ \/ /\ CanPull
          /\ \E index \in PulledIndex : work' = Pulled(index)
          /\ base' = IF Cloned /\ ~ behind THEN base ELSE remote
          /\ behind' = FALSE
          /\ IF PagesOf(work') = {} THEN Done(t) ELSE GoTo(t, "clear", {})
       \/ /\ ~ CanPull \/ MayNotPull
          /\ Done(t)
          /\ UNCHANGED <<work, base, behind>>
    /\ Watch
    /\ UNCHANGED <<wiki, own, remote, dirty, Environment>>

\* shutil.rmtree(WIKI_DIR). A file written meanwhile, or the disk, makes it raise half-way.
Clear(t) ==
    /\ step[t] = "clear"
    /\ wiki' = Empty
    /\ GoTo(t, "restore", PagesOf(work))
    /\ Watch
    /\ UNCHANGED <<work, Repository, Environment>>

Abort(t) == Begin(t, <<>>) /\ risk' = TRUE

ClearFails(t) ==
    /\ step[t] = "clear"
    /\ faults < MaxFaults
    /\ faults' = faults + 1
    /\ \E gone \in SUBSET PagesOf(wiki) :
          wiki' = [wiki EXCEPT !.pages = [p \in Pages |-> IF p \in gone THEN Absent ELSE @[p]]]
    /\ Abort(t)
    /\ UNCHANGED <<work, Repository, online, requests, foreign>>

\* copy_tree from the work tree; a file that went away meanwhile raises.
Restore(t) ==
    /\ step[t] = "restore"
    /\ IF files[t] = {}
       THEN /\ wiki' = [wiki EXCEPT !.index = work.index]
            /\ Done(t)
            /\ Watch
       ELSE \E p \in files[t] :
               IF work.pages[p] = Absent THEN Abort(t) /\ UNCHANGED wiki
               ELSE /\ wiki' = [wiki EXCEPT !.pages[p] = work.pages[p]]
                    /\ GoTo(t, "restore", files[t] \ {p})
                    /\ Watch
    /\ UNCHANGED <<work, Repository, Environment>>

\* push_vault clones when it must, empties the work tree's wiki and copies the wiki; a
\* wiki directory that a pull has just removed is not copied.
EmptyWork(t) ==
    /\ step[t] = "empty"
    /\ IF ~ Cloned /\ ~ online THEN Done(t) /\ UNCHANGED <<work, base>>
       ELSE /\ base' = IF Cloned THEN base ELSE remote
            /\ \/ /\ work' = Empty
                  /\ GoTo(t, "fill", PagesOf(wiki))
               \/ /\ wiki = Empty
                  /\ work' = IF Cloned THEN work ELSE remote
                  /\ GoTo(t, "commit", {})
    /\ risk' = (risk \/ Overlap(step') \/ base' # base)
    /\ UNCHANGED <<wiki, own, remote, behind, dirty, Environment>>

Fill(t) ==
    /\ step[t] = "fill"
    /\ IF files[t] = {}
       THEN /\ work' = [work EXCEPT !.index = wiki.index]
            /\ GoTo(t, "commit", {})
            /\ Watch
       ELSE \E p \in files[t] :
               IF wiki.pages[p] = Absent THEN Abort(t) /\ UNCHANGED work
               ELSE /\ work' = [work EXCEPT !.pages[p] = wiki.pages[p]]
                    /\ GoTo(t, "fill", files[t] \ {p})
                    /\ Watch
    /\ UNCHANGED <<wiki, Repository, Environment>>

\* Nothing to commit ends the push, an unpushed commit or not. index.md has the time
\* of its writing, so that a commit may have the pages of the one before.
Commit(t) ==
    /\ step[t] = "commit"
    /\ \/ /\ work = HeadContent
          /\ Done(t)
          /\ UNCHANGED own
       \/ /\ Identity
          /\ own' = work
          /\ GoTo(t, "upload", {})
    /\ dirty' = FALSE
    /\ Watch
    /\ UNCHANGED <<wiki, work, base, remote, behind, Environment>>

\* git status or git commit fails: always without an identity, or for the disk, a lock
\* of git's, or a timeout, which raises.  What was copied stays, added to git's index.
CommitFails(t) ==
    /\ step[t] = "commit"
    /\ Identity => faults < MaxFaults
    /\ faults' = IF Identity THEN faults + 1 ELSE faults
    /\ dirty' = TRUE
    /\ Done(t) \/ Begin(t, <<>>)
    /\ Watch
    /\ UNCHANGED <<wiki, work, base, own, remote, behind, online, requests, foreign>>

\* Mutant: git push --force.
UploadForced(t) ==
    /\ step[t] = "upload"
    /\ IF online /\ own # NoCommit
       THEN remote' = own /\ base' = own /\ own' = NoCommit /\ behind' = FALSE
       ELSE UNCHANGED <<base, own, remote, behind>>
    /\ Done(t)
    /\ Watch
    /\ UNCHANGED <<wiki, work, dirty, Environment>>

\* git push, refused when the remote has commits the work tree lacks.
Upload(t) ==
    /\ step[t] = "upload"
    /\ IF online /\ own # NoCommit /\ ~ behind
       THEN remote' = own /\ base' = own /\ own' = NoCommit /\ behind' = FALSE
       ELSE UNCHANGED <<base, own, remote, behind>>
    /\ Done(t)
    /\ Watch
    /\ UNCHANGED <<wiki, work, dirty, Environment>>

-----------------------------------------------------------------------------
(* rebuild_wiki_index: read the pages, then write what was found. *)

Scan(t) ==
    /\ step[t] = "scan"
    /\ GoTo(t, "write", PagesOf(wiki))
    /\ UNCHANGED <<wiki, work, Repository, risk, Environment>>

WriteIndex(t) ==
    /\ step[t] = "write"
    /\ wiki' = [wiki EXCEPT !.index = Listed(files[t])]
    /\ Done(t)
    /\ UNCHANGED <<work, Repository, risk, Environment>>

-----------------------------------------------------------------------------
(* The rest of the world. *)

\* Another machine's push: a page is added or changed, index.md made anew or not.
ForeignPush ==
    /\ foreign < MaxForeign
    /\ foreign' = foreign + 1
    /\ \E p \in Pages, v \in Versions :
          /\ remote.pages[p] # v
          /\ LET new == [remote.pages EXCEPT ![p] = v]
             IN  \E index \in {remote.index, Listed({q \in Pages : new[q] # Absent})} :
                    remote' = [pages |-> new, index |-> index]
    /\ behind' = Cloned
    /\ UNCHANGED <<wiki, work, base, own, dirty, step, todo, files, online, risk, requests,
                   faults>>

Outage ==
    /\ online
    /\ faults < MaxFaults
    /\ faults' = faults + 1
    /\ online' = FALSE
    /\ UNCHANGED <<wiki, work, Repository, step, todo, files, risk, requests, foreign>>

Recover ==
    /\ ~ online
    /\ online' = TRUE
    /\ UNCHANGED <<wiki, work, Repository, step, todo, files, risk, requests, foreign, faults>>

Crash ==
    /\ faults < MaxFaults
    /\ faults' = faults + 1
    /\ step' = [t \in Threads |-> "idle"]
    /\ todo' = [t \in Threads |-> <<>>]
    /\ files' = [t \in Threads |-> {}]
    /\ risk' = (risk \/ \E t \in Threads : step[t] \in Copying)
    /\ UNCHANGED <<wiki, work, Repository, online, requests, foreign>>

\* The sync raises, after its pull or by git's timeout in it: neither the push nor the
\* touch is reached.
JobFails ==
    /\ step[Job] \in {"fetch", "empty", "scan"}
    /\ faults < MaxFaults
    /\ faults' = faults + 1
    /\ Begin(Job, <<>>)
    /\ UNCHANGED <<wiki, work, Repository, risk, online, requests, foreign>>

Run(t) ==
    \/ Fetch(t) \/ Clear(t) \/ ClearFails(t) \/ Restore(t)
    \/ EmptyWork(t) \/ Fill(t) \/ Commit(t) \/ CommitFails(t) \/ Upload(t)
    \/ Scan(t) \/ WriteIndex(t)

Next ==
    \/ \E pull, push \in BOOLEAN : StartJob(pull, push)
    \/ \E t \in Requests :
          \/ \E pull, push \in BOOLEAN : VaultSync(t, pull, push)
          \/ Lint(t)
          \/ \E p \in Pages, v \in Versions : SavePage(t, p, v) \/ SaveAnswer(t, p, v)
    \/ \E t \in Threads : Run(t)
    \/ ForeignPush
    \/ Outage
    \/ Recover
    \/ Crash
    \/ JobFails

Spec == Init /\ [][Next]_vars

\* The threads run, the scheduler starts a sync, with a pull, now and then; an outage
\* ends.
Fairness ==
    /\ \A t \in Threads : WF_vars(Run(t))
    /\ SF_vars(StartJob(TRUE, FALSE))
    /\ WF_vars(Recover)

FairSpec == Spec /\ Fairness

-----------------------------------------------------------------------------
(* Properties. *)

\* No page leaves the vault, whoever pushes what in between, whatever fails and
\* wherever the process dies, unless two vault operations of this server overlapped,
\* one was cut short, or a server without a clone began with a push: then half a wiki,
\* or one that never saw the vault, is committed as the new state.
VaultKeepsPages ==
    [][~ risk' => PagesOf(remote) \subseteq PagesOf(remote')]_vars

\* This server has pages, in a commit or waiting for one, that the vault may lack.
Kept == own # NoCommit \/ dirty

\* While the sync runs now and then, the wiki becomes what the vault has again and
\* again; with pages of its own that were not committed, or not pushed, it becomes the
\* work tree, which has them beside what was pulled.  Only when the vault has moved on
\* meanwhile need no pull succeed any more.
WikiFollowsVault ==
    <>risk \/ []<>(\/ Kept /\ behind
                  \/ wiki.pages = IF Kept THEN work.pages ELSE remote.pages)

\* A stale index.md, written from a list of pages made before the last change or
\* brought back by a pull, is replaced: the touch at the end of a sync lists the
\* summaries there are, and the latest of the saved answers.
IndexCatchesUp == []<>(wiki.index = Listed(PagesOf(wiki)))

=============================================================================
